------------------------- MODULE ApplicationActions -------------------------
(***************************************************************************)
(* The thunk action creators of src/frontend/src/actions/application.ts   *)
(* and the client store they write to.                                     *)
(*                                                                         *)
(* Every thunk is cut at its awaits: the synchronous part before the first *)
(* await is the user's action, the API server answers each request in its *)
(* own step (atomically, at a moment of its choosing), and the code after  *)
(* the await runs in a later step of its own.  Several thunks are in       *)
(* flight at once and their continuations run in completion order, which  *)
(* need not be the order in which they were started.                       *)
(*                                                                         *)
(* Application details other than existence and the set of components are *)
(* abstracted away; notification texts are reduced to their kind.  The     *)
(* reducers and the API server are not part of src/.  spec.md says only    *)
(* that reducers are pure and that responses are applied in completion     *)
(* order (section 5), so the reducers here are an assumption: each stores  *)
(* what its action carries.  No property checked below depends on how a    *)
(* reducer merges a response with the store.                               *)
(***************************************************************************)
EXTENDS Naturals, FiniteSets, Bags, BagsExt

CONSTANTS
    Apps,          \* application (namespace) names
    Comps,         \* component names
    NoName,        \* an absent name: no active namespace, no component
    MaxOps,        \* bound on the thunks the user dispatches
    LostResponses  \* may a request commit on the server and still fail on the client?

ASSUME NoName \notin Apps \cup Comps /\ MaxOps \in Nat /\ LostResponses \in BOOLEAN

VARIABLES
    serverApps,               \* applications that exist on the API server
    serverComps,              \* serverComps[a]: components of a on the server
    storeApps,                \* applications in the store's list
    storeComps,               \* storeComps[a]: components the store holds for a
    isListLoading,            \* set by LOAD_APPLICATIONS_PENDING, cleared by _FULFILLED/_FAILED
    isLoading,                \* set by LOAD_APPLICATION_PENDING, cleared by _FULFILLED/_FAILED
    isSubmittingApplication,  \* SET_IS_SUBMITTING_APPLICATION
    timers,                   \* pending setTimeout(() => setIsSubmittingApplication(false), 2000)
    active,                   \* namespaces.active
    notification,            \* kind of the last notification shown
    location,                 \* router location, changed by push("/applications")
    plugins,                  \* plugins[k]: LOAD_APPLICATION/COMPONENT_PLUGINS_FULFILLED has stored a list
    reqs,                     \* bag of the thunks waiting on an await
    ops                       \* thunks dispatched by the user so far

vars == <<serverApps, serverComps, storeApps, storeComps, isListLoading, isLoading,
          isSubmittingApplication, timers, active, notification, location,
          plugins, reqs, ops>>
storeVars == <<storeApps, storeComps>>
serverVars == <<serverApps, serverComps>>

Mutations == {"createApp", "updateApp", "duplicateApp", "deleteApp",
              "createComp", "updateComp", "deleteComp"}
PluginKinds == {"loadAppPlugins", "loadCompPlugins"}
Kinds == Mutations \cup PluginKinds \cup {"loadApp", "loadApps"}
Pcs == {"sent", "app", "listed", "responded"}
Results == {"none", "ok", "fail", "fields"}

Req == [kind: Kinds, app: Apps \cup {NoName}, comp: Comps \cup {NoName},
        pc: Pcs, res: Results, list: SUBSET Apps, todo: SUBSET Apps,
        got: [Apps -> SUBSET Comps]]

\* A thunk that has just reached its first await.
NewReq(kind, a, c) ==
    [kind |-> kind, app |-> a, comp |-> c, pc |-> "sent",
     res |-> "none", list |-> {}, todo |-> {}, got |-> [x \in Apps |-> {}]]

TypeOK ==
    /\ serverApps \subseteq Apps /\ serverComps \in [Apps -> SUBSET Comps]
    /\ storeApps \subseteq Apps /\ storeComps \in [Apps -> SUBSET Comps]
    /\ {isListLoading, isLoading, isSubmittingApplication} \subseteq BOOLEAN
    /\ timers \in Nat /\ active \in Apps \cup {NoName}
    /\ notification \in {"none", "error", "success"}
    /\ location \in {"elsewhere", "/applications"}
    /\ plugins \in [PluginKinds -> BOOLEAN]
    /\ IsABag(reqs) /\ BagToSet(reqs) \subseteq Req /\ ops \in 0..MaxOps

InFlight(kinds) == {r \in BagToSet(reqs) : r.kind \in kinds}

-----------------------------------------------------------------------------
(* Reducers of the "applications" slice (not under src/; assumed).        *)

ReduceLoadApplicationsFulfilled(list, got) ==
    /\ storeApps' = list
    /\ storeComps' = [x \in Apps |-> IF x \in list THEN got[x] ELSE {}]

ReduceLoadApplicationFulfilled(a, cs) ==
    /\ storeApps' = storeApps \cup {a}
    /\ storeComps' = [storeComps EXCEPT ![a] = cs]

\* CREATE_APPLICATION and DUPLICATE_APPLICATION add the returned
\* application, which has no components yet.
ReduceAddApplication(a) ==
    /\ storeApps' = storeApps \cup {a}
    /\ storeComps' = [storeComps EXCEPT ![a] = {}]

ReduceDeleteApplication(a) ==
    /\ storeApps' = storeApps \ {a}
    /\ storeComps' = [storeComps EXCEPT ![a] = {}]

\* CREATE_COMPONENT / DELETE_COMPONENT patch the application's list when
\* the application is in the store; UPDATE_COMPONENT keeps the name set.
ReduceComponent(a, cs) ==
    /\ storeComps' = IF a \in storeApps THEN [storeComps EXCEPT ![a] = cs] ELSE storeComps
    /\ UNCHANGED storeApps

-----------------------------------------------------------------------------
(* The API server (kubernetesApi.ts and the backend, from the spec).       *)

\* Whether the server accepts the mutation r.
Accepts(r) ==
    CASE r.kind \in {"createApp", "duplicateApp"} -> r.app \notin serverApps
      [] r.kind \in {"updateApp", "deleteApp"}    -> r.app \in serverApps
      [] r.kind = "createComp" -> r.app \in serverApps /\ r.comp \notin serverComps[r.app]
      [] OTHER                 -> r.app \in serverApps /\ r.comp \in serverComps[r.app]

\* The server state after committing the mutation r.
Commit(r) ==
    CASE r.kind \in {"createApp", "duplicateApp"} ->
            /\ serverApps' = serverApps \cup {r.app}
            /\ serverComps' = [serverComps EXCEPT ![r.app] = {}]
      [] r.kind = "deleteApp" ->
            /\ serverApps' = serverApps \ {r.app}
            /\ serverComps' = [serverComps EXCEPT ![r.app] = {}]
      [] r.kind = "createComp" ->
            /\ serverComps' = [serverComps EXCEPT ![r.app] = @ \cup {r.comp}]
            /\ UNCHANGED serverApps
      [] r.kind = "deleteComp" ->
            /\ serverComps' = [serverComps EXCEPT ![r.app] = @ \ {r.comp}]
            /\ UNCHANGED serverApps
      [] OTHER -> UNCHANGED serverVars

\* Errors the client can see: createApplicationAction and
\* updateApplicationAction tell a response carrying field errors apart.
FailResults(r) ==
    IF r.kind \in {"createApp", "updateApp"} THEN {"fail", "fields"} ELSE {"fail"}

Answer(r, s) == reqs' = BagAdd(BagRemove(reqs, r), s)

ServeMutation(r) ==
    /\ r.pc = "sent" /\ r.kind \in Mutations
    /\ \/ /\ Accepts(r) /\ Commit(r)
          /\ Answer(r, [r EXCEPT !.pc = "responded", !.res = "ok"])
       \/ /\ Accepts(r) /\ LostResponses /\ Commit(r)
          /\ Answer(r, [r EXCEPT !.pc = "responded", !.res = "fail"])
       \/ /\ \E e \in FailResults(r) : Answer(r, [r EXCEPT !.pc = "responded", !.res = e])
          /\ UNCHANGED serverVars
    /\ UNCHANGED <<storeVars, isListLoading, isLoading, isSubmittingApplication,
                   timers, active, notification, location, plugins, ops>>

ReadFails(r) == Answer(r, [r EXCEPT !.pc = "responded", !.res = "fail"])

\* loadApplicationAction: getKappApplication(name), then, after that
\* await, getKappApplicationComponentList(name).
ServeGetApplication(r) ==
    /\ r.pc = "sent" /\ r.kind = "loadApp"
    /\ \/ r.app \in serverApps /\ Answer(r, [r EXCEPT !.pc = "app"])
       \/ ReadFails(r)
    /\ UNCHANGED <<serverVars, storeVars, isListLoading, isLoading, isSubmittingApplication,
                   timers, active, notification, location, plugins, ops>>

ServeGetComponentList(r) ==
    /\ r.pc = "app" /\ r.kind = "loadApp"
    /\ \/ /\ r.app \in serverApps
          /\ Answer(r, [r EXCEPT !.pc = "responded", !.res = "ok",
                                 !.got[r.app] = serverComps[r.app]])
       \/ ReadFails(r)
    /\ UNCHANGED <<serverVars, storeVars, isListLoading, isLoading, isSubmittingApplication,
                   timers, active, notification, location, plugins, ops>>

\* loadApplicationsAction: getKappApplicationList(), then one
\* getKappApplicationComponentList per application under Promise.all.
ServeGetApplicationList(r) ==
    /\ r.pc = "sent" /\ r.kind = "loadApps"
    /\ \/ Answer(r, [r EXCEPT !.pc = IF serverApps = {} THEN "responded" ELSE "listed",
                              !.res = IF serverApps = {} THEN "ok" ELSE "none",
                              !.list = serverApps, !.todo = serverApps])
       \/ ReadFails(r)
    /\ UNCHANGED <<serverVars, storeVars, isListLoading, isLoading, isSubmittingApplication,
                   timers, active, notification, location, plugins, ops>>

\* One of the parallel component-list reads.  Promise.all rejects at the
\* first rejection, for instance when the application was deleted after
\* the list was read.
ServeListComponents(r, a) ==
    /\ r.pc = "listed" /\ a \in r.todo
    /\ \/ /\ a \in serverApps
          /\ Answer(r, [r EXCEPT !.todo = @ \ {a}, !.got[a] = serverComps[a],
                                 !.pc = IF r.todo = {a} THEN "responded" ELSE "listed",
                                 !.res = IF r.todo = {a} THEN "ok" ELSE "none"])
       \/ ReadFails(r)
    /\ UNCHANGED <<serverVars, storeVars, isListLoading, isLoading, isSubmittingApplication,
                   timers, active, notification, location, plugins, ops>>

\* getKappApplicationPlugins / getKappComponentPlugins.
ServeGetPlugins(r) ==
    /\ r.pc = "sent" /\ r.kind \in PluginKinds
    /\ \/ Answer(r, [r EXCEPT !.pc = "responded", !.res = "ok"])
       \/ ReadFails(r)
    /\ UNCHANGED <<serverVars, storeVars, isListLoading, isLoading, isSubmittingApplication,
                   timers, active, notification, location, plugins, ops>>

-----------------------------------------------------------------------------
(* The synchronous part of each thunk, up to its first await.             *)

Dispatch(s) == reqs' = BagAdd(reqs, s) /\ ops' = ops + 1

UserStart == ops < MaxOps

\* dispatch(setIsSubmittingApplication(v)): the reducer stores the payload.
SetIsSubmittingApplication(v) == isSubmittingApplication' = v

\* createApplicationAction / updateApplicationAction: setIsSubmittingApplication(true)
\* and the request.
CreateApplication(a) ==
    /\ UserStart /\ SetIsSubmittingApplication(TRUE)
    /\ Dispatch(NewReq("createApp", a, NoName))
    /\ UNCHANGED <<serverVars, storeVars, isListLoading, isLoading, timers, active,
                   notification, location, plugins>>

UpdateApplication(a) ==
    /\ UserStart /\ SetIsSubmittingApplication(TRUE)
    /\ Dispatch(NewReq("updateApp", a, NoName))
    /\ UNCHANGED <<serverVars, storeVars, isListLoading, isLoading, timers, active,
                   notification, location, plugins>>

\* duplicateApplicationAction and deleteApplicationAction only send the request.
DuplicateApplication(a) ==
    /\ UserStart /\ Dispatch(NewReq("duplicateApp", a, NoName))
    /\ UNCHANGED <<serverVars, storeVars, isListLoading, isLoading, isSubmittingApplication,
                   timers, active, notification, location, plugins>>

DeleteApplication(a) ==
    /\ UserStart /\ Dispatch(NewReq("deleteApp", a, NoName))
    /\ UNCHANGED <<serverVars, storeVars, isListLoading, isLoading, isSubmittingApplication,
                   timers, active, notification, location, plugins>>

\* create/update/deleteComponentAction: an omitted applicationName is read
\* from namespaces.active before the await and kept for the continuation.
ComponentAction(kind, c, n) ==
    /\ UserStart
    /\ Dispatch(NewReq(kind, IF n = NoName THEN active ELSE n, c))
    /\ UNCHANGED <<serverVars, storeVars, isListLoading, isLoading, isSubmittingApplication,
                   timers, active, notification, location, plugins>>

\* loadApplicationAction / loadApplicationsAction dispatched by a page.
LoadApplication(a) ==
    /\ UserStart /\ isLoading' = TRUE
    /\ Dispatch(NewReq("loadApp", a, NoName))
    /\ UNCHANGED <<serverVars, storeVars, isListLoading, isSubmittingApplication, timers,
                   active, notification, location, plugins>>

LoadApplications ==
    /\ UserStart /\ isListLoading' = TRUE
    /\ Dispatch(NewReq("loadApps", NoName, NoName))
    /\ UNCHANGED <<serverVars, storeVars, isLoading, isSubmittingApplication, timers,
                   active, notification, location, plugins>>

\* loadApplicationPluginsAction / loadComponentPluginsAction.
LoadPlugins(k) ==
    /\ UserStart /\ Dispatch(NewReq(k, NoName, NoName))
    /\ UNCHANGED <<serverVars, storeVars, isListLoading, isLoading, isSubmittingApplication,
                   timers, active, notification, location, plugins>>

\* A menu item of the Namespaces widget: setCurrentNamespaceAction for one
\* of the applications in the store.
SelectNamespace(a) ==
    /\ a \in storeApps /\ active' = a
    /\ UNCHANGED <<serverVars, storeVars, isListLoading, isLoading, isSubmittingApplication,
                   timers, notification, location, plugins, reqs, ops>>

-----------------------------------------------------------------------------
(* The code after the await, run when the response has arrived.           *)

Retire(r) == reqs' = BagRemove(reqs, r)

\* A thunk dispatched from a continuation runs up to its own first await
\* before the continuation goes on.
FollowUp(r, s) == reqs' = BagAdd(BagRemove(reqs, r), s)

Responded(r, kind) == r.pc = "responded" /\ r.kind = kind

\* The catch block of create/updateApplicationAction: a response with field
\* errors is rethrown as a SubmissionError, any other shows an error.
SubmissionFailed(r) ==
    /\ r.res \in {"fail", "fields"} /\ Retire(r)
    /\ notification' = IF r.res = "fail" THEN "error" ELSE notification
    /\ UNCHANGED <<storeVars, isListLoading, location, plugins>>

\* The catch block of every other mutation thunk.
MutationFailed(r) ==
    /\ r.res = "fail" /\ Retire(r) /\ notification' = "error"
    /\ UNCHANGED <<storeVars, isListLoading, isLoading, location, plugins>>

\* Mutation: the timer scheduled after the try block instead of in finally,
\* so only the success path clears the flag.
FinishCreateApplicationTimerOnSuccess(r) ==
    /\ Responded(r, "createApp")
    /\ \/ /\ r.res = "ok" /\ timers' = timers + 1
          /\ FollowUp(r, NewReq("loadApps", NoName, NoName)) /\ isListLoading' = TRUE
          /\ ReduceAddApplication(r.app)
          /\ notification' = "success" /\ location' = "/applications"
       \/ SubmissionFailed(r) /\ UNCHANGED timers
    /\ UNCHANGED <<serverVars, isLoading, isSubmittingApplication, active, plugins, ops>>

\* The finally block schedules the timer on every path.
FinishCreateApplication(r) ==
    /\ Responded(r, "createApp") /\ timers' = timers + 1
    /\ \/ /\ r.res = "ok"
          /\ FollowUp(r, NewReq("loadApps", NoName, NoName)) /\ isListLoading' = TRUE
          /\ ReduceAddApplication(r.app)
          /\ notification' = "success" /\ location' = "/applications"
       \/ SubmissionFailed(r)
    /\ UNCHANGED <<serverVars, isLoading, isSubmittingApplication, active, plugins, ops>>

FinishUpdateApplication(r) ==
    /\ Responded(r, "updateApp") /\ timers' = timers + 1
    /\ \/ /\ r.res = "ok"
          /\ FollowUp(r, NewReq("loadApps", NoName, NoName)) /\ isListLoading' = TRUE
          /\ UNCHANGED storeVars
          /\ notification' = "success" /\ location' = "/applications"
       \/ SubmissionFailed(r)
    /\ UNCHANGED <<serverVars, isLoading, isSubmittingApplication, active, plugins, ops>>

FinishDuplicateApplication(r) ==
    /\ Responded(r, "duplicateApp")
    /\ \/ /\ r.res = "ok"
          /\ FollowUp(r, NewReq("loadApps", NoName, NoName)) /\ isListLoading' = TRUE
          /\ ReduceAddApplication(r.app)
          /\ UNCHANGED <<notification, location, plugins>>
       \/ MutationFailed(r)
    /\ UNCHANGED <<serverVars, isLoading, isSubmittingApplication, timers, active, ops>>

FinishDeleteApplication(r) ==
    /\ Responded(r, "deleteApp")
    /\ \/ /\ r.res = "ok" /\ Retire(r)
          /\ ReduceDeleteApplication(r.app)
          /\ UNCHANGED <<notification, location, plugins, isListLoading>>
       \/ MutationFailed(r)
    /\ UNCHANGED <<serverVars, isLoading, isSubmittingApplication, timers, active, ops>>

\* The store's component names after CREATE_/UPDATE_/DELETE_COMPONENT.
ComponentsAfter(r) ==
    CASE r.kind = "createComp" -> storeComps[r.app] \cup {r.comp}
      [] r.kind = "deleteComp" -> storeComps[r.app] \ {r.comp}
      [] OTHER                 -> storeComps[r.app]

\* Success: loadApplicationAction(applicationName), then the local patch,
\* then the success notification.
FinishComponentAction(r) ==
    /\ r.pc = "responded" /\ r.kind \in {"createComp", "updateComp", "deleteComp"}
    /\ \/ /\ r.res = "ok"
          /\ FollowUp(r, NewReq("loadApp", r.app, NoName)) /\ isLoading' = TRUE
          /\ ReduceComponent(r.app, ComponentsAfter(r))
          /\ notification' = "success"
          /\ UNCHANGED <<isListLoading, location, plugins>>
       \/ MutationFailed(r)
    /\ UNCHANGED <<serverVars, isSubmittingApplication, timers, active, ops>>

FinishLoadApplication(r) ==
    /\ Responded(r, "loadApp") /\ Retire(r) /\ isLoading' = FALSE
    /\ \/ r.res = "ok" /\ ReduceLoadApplicationFulfilled(r.app, r.got[r.app])
          /\ UNCHANGED notification
       \/ r.res = "fail" /\ notification' = "error" /\ UNCHANGED storeVars
    /\ UNCHANGED <<serverVars, isListLoading, isSubmittingApplication, timers, active,
                   location, plugins, ops>>

\* Mutation: the catch block without dispatch({ type: LOAD_APPLICATIONS_FAILED }).
FinishLoadApplicationsNoFailed(r) ==
    /\ Responded(r, "loadApps") /\ Retire(r)
    /\ \/ /\ r.res = "ok" /\ isListLoading' = FALSE
          /\ IF active = NoName /\ r.list # {}
                THEN \E first \in r.list : active' = first
                ELSE UNCHANGED active
          /\ ReduceLoadApplicationsFulfilled(r.list, r.got)
          /\ UNCHANGED notification
       \/ r.res = "fail" /\ notification' = "error" /\ UNCHANGED <<storeVars, active, isListLoading>>
    /\ UNCHANGED <<serverVars, isLoading, isSubmittingApplication, timers, location, plugins, ops>>

\* Success: namespaces.active is read after the await; with none active the
\* first listed application becomes active, then the list is stored.
FinishLoadApplications(r) ==
    /\ Responded(r, "loadApps") /\ Retire(r) /\ isListLoading' = FALSE
    /\ \/ /\ r.res = "ok"
          /\ IF active = NoName /\ r.list # {}
                THEN \E first \in r.list : active' = first
                ELSE UNCHANGED active
          /\ ReduceLoadApplicationsFulfilled(r.list, r.got)
          /\ UNCHANGED notification
       \/ r.res = "fail" /\ notification' = "error" /\ UNCHANGED <<storeVars, active>>
    /\ UNCHANGED <<serverVars, isLoading, isSubmittingApplication, timers, location, plugins, ops>>

\* The plugin list is stored on success; the catch block notifies and returns.
FinishLoadPlugins(r) ==
    /\ r.pc = "responded" /\ r.kind \in PluginKinds /\ Retire(r)
    /\ \/ r.res = "ok" /\ plugins' = [plugins EXCEPT ![r.kind] = TRUE] /\ UNCHANGED notification
       \/ r.res = "fail" /\ notification' = "error" /\ UNCHANGED plugins
    /\ UNCHANGED <<serverVars, storeVars, isListLoading, isLoading, isSubmittingApplication,
                   timers, active, location, ops>>

TimerFires ==
    /\ timers > 0 /\ timers' = timers - 1 /\ SetIsSubmittingApplication(FALSE)
    /\ UNCHANGED <<serverVars, storeVars, isListLoading, isLoading, active, notification,
                   location, plugins, reqs, ops>>

-----------------------------------------------------------------------------

\* The dashboard after its first loadApplicationsAction: the store holds
\* the server's applications and nothing is in flight.
Init ==
    /\ serverApps \in SUBSET Apps
    /\ serverComps \in [Apps -> SUBSET Comps]
    /\ \A a \in Apps \ serverApps : serverComps[a] = {}
    /\ storeApps = serverApps /\ storeComps = serverComps
    /\ isListLoading = FALSE /\ isLoading = FALSE
    /\ isSubmittingApplication = FALSE /\ timers = 0
    /\ active \in IF serverApps = {} THEN {NoName} ELSE serverApps
    /\ notification = "none" /\ location = "elsewhere"
    /\ plugins = [k \in PluginKinds |-> FALSE]
    /\ reqs = EmptyBag /\ ops = 0

\* Every user-dispatched thunk but the two the application form submits.
OtherUser ==
    \/ \E a \in Apps :
          \/ DuplicateApplication(a) \/ DeleteApplication(a)
          \/ LoadApplication(a) \/ SelectNamespace(a)
    \/ \E k \in {"createComp", "updateComp", "deleteComp"}, c \in Comps, n \in Apps \cup {NoName} :
          ComponentAction(k, c, n)
    \/ LoadApplications
    \/ \E k \in PluginKinds : LoadPlugins(k)

User ==
    \/ \E a \in Apps : CreateApplication(a) \/ UpdateApplication(a)
    \/ OtherUser

Server ==
    \E r \in BagToSet(reqs) :
        \/ ServeMutation(r) \/ ServeGetApplication(r) \/ ServeGetComponentList(r)
        \/ ServeGetApplicationList(r) \/ ServeGetPlugins(r)
        \/ \E a \in Apps : ServeListComponents(r, a)

Client ==
    \/ \E r \in BagToSet(reqs) :
          \/ FinishCreateApplication(r) \/ FinishUpdateApplication(r)
          \/ FinishDuplicateApplication(r) \/ FinishDeleteApplication(r)
          \/ FinishComponentAction(r)
          \/ FinishLoadApplication(r) \/ FinishLoadApplications(r)
          \/ FinishLoadPlugins(r)
    \/ TimerFires

Next == User \/ Server \/ Client

\* The server answers every request (an error counts as an answer), the
\* event loop runs every continuation and every due timer; the user may
\* stop at any time.
Spec == Init /\ [][Next]_vars /\ WF_vars(Server) /\ WF_vars(Client)

-----------------------------------------------------------------------------
(* Properties                                                              *)

\* Loading indicators: once no loadApplicationsAction (resp.
\* loadApplicationAction) is waiting on an await, isListLoading (resp.
\* isLoading) is false, however the loads started by several thunks
\* overlapped and in whatever order they completed or failed.
SpinnersClearWhenIdle ==
    /\ InFlight({"loadApps"}) = {} => ~isListLoading
    /\ InFlight({"loadApp"}) = {} => ~isLoading

\* The submit flag set by createApplicationAction/updateApplicationAction is
\* always cleared again, on the success, the error and the SubmissionError
\* paths alike (the setTimeout in the finally block).
SubmittingEventuallyCleared == isSubmittingApplication ~> ~isSubmittingApplication

\* isSubmittingApplication stays true for as long as a submission of the
\* application form (createApplicationAction or updateApplicationAction)
\* waits on the server: the 2000 ms timer of an earlier submission must not
\* clear the flag of a later one.
SubmittingWhileInFlight ==
    InFlight({"createApp", "updateApp"}) # {} => isSubmittingApplication

=============================================================================
