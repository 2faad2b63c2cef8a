------------------------- MODULE ApplicationForm -------------------------
(***************************************************************************)
(* The application form (src/frontend/src/forms/Application/index.tsx)     *)
(* composed with the thunks it submits (ApplicationActions).               *)
(*                                                                         *)
(* The form is a redux-form over name, isActive and the sharedEnvs field   *)
(* array (RenderSharedEnvs, src/src/forms/Basic/env.tsx).  Publish and     *)
(* Save (publish later) each write isActive with change() at once and      *)
(* schedule handleSubmit 300 ms later; every click schedules its own       *)
(* timer.  When a timer fires, handleSubmit runs the field validators on   *)
(* the values the form has at that moment: if one fails, onSubmitFail     *)
(* only logs; otherwise onSubmit (the page's, not under src/) dispatches   *)
(* createApplicationAction, or updateApplicationAction on the edit page,   *)
(* with those values.                                                      *)
(*                                                                         *)
(* A shared env row is abstracted to whether both of its required fields  *)
(* (name and value) are filled; a name is a member of Apps (ValidatorName  *)
(* accepts it) or NoName (the empty string, refused by ValidatorRequired). *)
(***************************************************************************)
EXTENDS ApplicationActions, Sequences, SequencesExt

CONSTANTS
    MaxSharedEnvs   \* bound on the rows of the sharedEnvs field array

ASSUME MaxSharedEnvs \in Nat

VARIABLES
    isEdit,        \* props.isEdit: the edit page (name disabled, updateApplicationAction)
    name,          \* values.name
    isActive,      \* values.isActive: "undefined" until a button writes it
    sharedEnvs,    \* values.sharedEnvs: per row, are its name and value both filled
    submitTimers   \* bag of pending setTimeout(() => handleSubmit(event), 300), by button

formVars == <<isEdit, name, isActive, sharedEnvs, submitTimers>>
allVars == <<vars, formVars>>

Buttons == {"publish", "save"}
IsActiveValues == {"undefined", "true", "false"}

\* The value each button hands to change("isActive", ...).
ButtonValue(b) == IF b = "publish" THEN "true" ELSE "false"

FormTypeOK ==
    /\ TypeOK
    /\ isEdit \in BOOLEAN /\ name \in Apps \cup {NoName}
    /\ isActive \in IsActiveValues
    /\ sharedEnvs \in Seq(BOOLEAN) /\ Len(sharedEnvs) <= MaxSharedEnvs
    /\ IsABag(submitTimers) /\ BagToSet(submitTimers) \subseteq Buttons

-----------------------------------------------------------------------------
(* Field-level validators that handleSubmit runs.                          *)

\* name: [ValidatorRequired, ValidatorName].
NameValid == name # NoName

\* RenderSharedEnvs: ValidatorRequired on each row's name and value.
SharedEnvsValid == \A i \in DOMAIN sharedEnvs : sharedEnvs[i]

FormValid == NameValid /\ SharedEnvsValid

-----------------------------------------------------------------------------
(* The user's edits of the form.  None of them touches the store.          *)

EditForm == UNCHANGED <<vars, isEdit, submitTimers>>

\* The name field; disabled on the edit page.
EditName(n) ==
    /\ ~isEdit /\ name' = n
    /\ EditForm /\ UNCHANGED <<isActive, sharedEnvs>>

\* "Add Shared Environment Variable": fields.push(generateEmptyEnv()).
AddSharedEnv ==
    /\ Len(sharedEnvs) < MaxSharedEnvs
    /\ sharedEnvs' = Append(sharedEnvs, FALSE)
    /\ EditForm /\ UNCHANGED <<name, isActive>>

\* The delete icon of row i: fields.remove(index).
RemoveSharedEnv(i) ==
    /\ i \in DOMAIN sharedEnvs /\ sharedEnvs' = RemoveAt(sharedEnvs, i)
    /\ EditForm /\ UNCHANGED <<name, isActive>>

\* Typing into the name or the value field of row i, completing the row,
\* or clearing one of them.
EditSharedEnv(i, filled) ==
    /\ i \in DOMAIN sharedEnvs /\ sharedEnvs[i] # filled
    /\ sharedEnvs' = [sharedEnvs EXCEPT ![i] = filled]
    /\ EditForm /\ UNCHANGED <<name, isActive>>

-----------------------------------------------------------------------------
(* The two buttons and the timers they schedule.                           *)

\* Each click reserves one of the MaxOps thunks its timer may dispatch.
ClickStart == ops + BagCardinality(submitTimers) < MaxOps

\* Publish / Save (publish later): change("isActive", true|false), then
\* setTimeout(() => handleSubmit(event), 300).
Click(b) ==
    /\ ClickStart
    /\ isActive' = ButtonValue(b)
    /\ submitTimers' = BagAdd(submitTimers, b)
    /\ UNCHANGED <<vars, isEdit, name, sharedEnvs>>

\* The page's onSubmit: the create or the update thunk, for the name in
\* the values handleSubmit passes.
OnSubmit ==
    IF isEdit THEN UpdateApplication(name) ELSE CreateApplication(name)

\* A timer runs handleSubmit(event) with the values of this moment.
SubmitTimerFires(b) ==
    /\ b \in BagToSet(submitTimers)
    /\ submitTimers' = BagRemove(submitTimers, b)
    /\ IF FormValid THEN OnSubmit ELSE UNCHANGED vars
    /\ UNCHANGED <<isEdit, name, isActive, sharedEnvs>>
-----------------------------------------------------------------------------

\* The new-application page starts from applicationInitialValues (empty
\* name, no shared envs, no isActive); the edit page from an application
\* the server has.
FormInit ==
    /\ Init
    /\ isEdit \in BOOLEAN
    /\ name \in IF isEdit THEN serverApps ELSE {NoName}
    /\ isActive = "undefined" /\ sharedEnvs = << >> /\ submitTimers = EmptyBag

FormUser ==
    \/ \E n \in Apps \cup {NoName} : EditName(n)
    \/ AddSharedEnv
    \/ \E i \in DOMAIN sharedEnvs :
          \/ RemoveSharedEnv(i)
          \/ \E filled \in BOOLEAN : EditSharedEnv(i, filled)
    \/ \E b \in Buttons : Click(b)

Timers == \E b \in Buttons : SubmitTimerFires(b)

FormNext ==
    \/ FormUser
    \/ Timers
    \/ (OtherUser \/ Server \/ Client) /\ UNCHANGED formVars

\* The browser runs every due timer; thunks as in ApplicationActions.
FormSpec ==
    /\ FormInit /\ [][FormNext]_allVars
    /\ WF_allVars(Timers)
    /\ WF_allVars(Server /\ UNCHANGED formVars)
    /\ WF_allVars(Client /\ UNCHANGED formVars)

-----------------------------------------------------------------------------
(* Properties                                                              *)

\* A submission that a Publish click scheduled sends isActive = true, and
\* one that a Save (publish later) click scheduled sends false: when a
\* timer dispatches the create or update thunk, values.isActive is the
\* value its own button wrote.
SubmitSendsClickedIsActive ==
    [][\A b \in BagToSet(submitTimers) :
          (submitTimers' = BagRemove(submitTimers, b) /\ reqs' # reqs)
              => isActive = ButtonValue(b)]_allVars

=============================================================================
