------------------------------ MODULE RouteForm ------------------------------
(***************************************************************************)
(* The reactive part of the HTTP route form, RouteFormRaw in               *)
(* src/frontend/src/forms/Route/index.tsx: the user's edits of hosts,      *)
(* schemes and the http->https redirect, and componentDidUpdate, which     *)
(* React runs after every render and which itself calls setFieldValue,     *)
(* causing a further render and a further componentDidUpdate.              *)
(*                                                                         *)
(* Formik keeps the values; a setFieldValue produces a new values object,  *)
(* but a field keeps the identity of the array it is given.  hostsChanged  *)
(* records whether values.hosts is another array than prevProps'           *)
(* (the reference comparison at line 105).                                 *)
(***************************************************************************)
EXTENDS FiniteSets, Sequences, SequencesExt

CONSTANTS
    Hosts,       \* host names the user may type
    ForceHttps,  \* hosts includesForceHttpsDomain reports (utils/domain, e.g. *.dev, *.app)
    IngressIP,   \* state.cluster.info.ingressIP, offered by the helper link
    Weights,     \* weights the target slider may be set to (0..10 in the code)
    MaxTargets,  \* bound on the rows of the destinations field array
    HttpMethods  \* httpMethods of types/route, the options of the methods group

ASSUME ForceHttps \subseteq Hosts /\ IngressIP \in Hosts
       /\ {0, 1} \subseteq Weights /\ Weights \subseteq 0..10 /\ MaxTargets \in Nat

VARIABLES
    hosts,                \* values.hosts
    schemes,              \* values.schemes
    httpRedirectToHttps,  \* values.httpRedirectToHttps
    hostsChanged,         \* values.hosts !== prevProps.values.hosts at the next componentDidUpdate
    pendingUpdate,        \* a render has been committed and componentDidUpdate is due
    dnsRequested,         \* hosts for which loadDomainDNSInfo has been dispatched
    destinations,         \* values.destinations: per row, is a host chosen, and its weight
    methodsMode,          \* values.methodsMode: methodsModeAll or methodsModeSpecific
    methods               \* values.methods

vars == <<hosts, schemes, httpRedirectToHttps, hostsChanged, pendingUpdate, dnsRequested,
          destinations, methodsMode, methods>>

Schemes == {"http", "https"}
\* A row of the targets: the host autocomplete (filled or still "") and
\* the weight slider.
Destination == [host: BOOLEAN, weight: Weights]
BothSchemes(s) == Schemes \subseteq s
MethodsModes == {"all", "specific"}

TypeOK ==
    /\ hosts \subseteq Hosts /\ schemes \subseteq Schemes
    /\ httpRedirectToHttps \in BOOLEAN /\ hostsChanged \in BOOLEAN
    /\ pendingUpdate \in BOOLEAN /\ dnsRequested \subseteq Hosts
    /\ destinations \in Seq(Destination) /\ Len(destinations) <= MaxTargets
    /\ methodsMode \in MethodsModes /\ methods \subseteq HttpMethods

-----------------------------------------------------------------------------
(* The user's edits.  Each is one event handler; React renders and runs    *)
(* componentDidUpdate before the next event is handled.                    *)

UserEvent == ~pendingUpdate /\ pendingUpdate' = TRUE

\* The hosts autocomplete hands Formik a new array.
SetHosts(h) ==
    /\ UserEvent /\ h # hosts
    /\ hosts' = h /\ hostsChanged' = TRUE
    /\ UNCHANGED <<schemes, httpRedirectToHttps, dnsRequested,
                   destinations, methodsMode, methods>>

\* The "Your cluster ip is ..." link: hosts.push(ingressIP) on the array
\* already in the form, then setFieldValue("hosts", hosts) with that same array.
AddIngressIP ==
    /\ UserEvent /\ IngressIP \notin hosts
    /\ hosts' = hosts \cup {IngressIP}
    /\ UNCHANGED <<schemes, httpRedirectToHttps, hostsChanged, dnsRequested,
                   destinations, methodsMode, methods>>

\* The "Allow traffic through" checkbox group.
ToggleScheme(s) ==
    /\ UserEvent
    /\ schemes' = IF s \in schemes THEN schemes \ {s} ELSE schemes \cup {s}
    /\ UNCHANGED <<hosts, httpRedirectToHttps, hostsChanged, dnsRequested,
                   destinations, methodsMode, methods>>

\* The redirect checkbox is rendered inside a Collapse that is open only
\* while both schemes are checked.
ToggleRedirect ==
    /\ UserEvent /\ BothSchemes(schemes)
    /\ httpRedirectToHttps' = ~httpRedirectToHttps
    /\ UNCHANGED <<hosts, schemes, hostsChanged, dnsRequested,
                   destinations, methodsMode, methods>>

\* The "Http Methods" radio group: Formik's handleChange.
SetMethodsMode(m) ==
    /\ UserEvent /\ m # methodsMode /\ methodsMode' = m
    /\ UNCHANGED <<hosts, schemes, httpRedirectToHttps, hostsChanged, dnsRequested,
                   destinations, methods>>

\* The methods checkbox group, inside a Collapse open only in
\* methodsModeSpecific.  Switching back to all keeps the methods checked.
ToggleMethod(m) ==
    /\ UserEvent /\ methodsMode = "specific"
    /\ methods' = IF m \in methods THEN methods \ {m} ELSE methods \cup {m}
    /\ UNCHANGED <<hosts, schemes, httpRedirectToHttps, hostsChanged, dnsRequested,
                   destinations, methodsMode>>

-----------------------------------------------------------------------------
(* The targets panel: RenderHttpRouteDestinations                           *)
(* (src/frontend/src/forms/Route/destinations.tsx), a FieldArray of the    *)
(* same form.  Its edits render the form and run componentDidUpdate like   *)
(* any other.                                                               *)

TargetEdit == UNCHANGED <<hosts, schemes, httpRedirectToHttps, hostsChanged, dnsRequested,
                          methodsMode, methods>>

\* "Add a target": arrayHelpers.push({ host: "", weight: 1 }).
AddTarget ==
    /\ UserEvent /\ Len(destinations) < MaxTargets
    /\ destinations' = Append(destinations, [host |-> FALSE, weight |-> 1])
    /\ TargetEdit

\* The delete icon of row i: arrayHelpers.remove(index).
RemoveTarget(i) ==
    /\ UserEvent /\ destinations' = RemoveAt(destinations, i)
    /\ TargetEdit

\* The "Choose a target" autocomplete of row i.
SetTargetHost(i, chosen) ==
    /\ UserEvent /\ destinations[i].host # chosen
    /\ destinations' = [destinations EXCEPT ![i].host = chosen]
    /\ TargetEdit

\* The weight slider of row i, rendered only while there is more than one
\* target.
SetTargetWeight(i, w) ==
    /\ UserEvent /\ Len(destinations) > 1 /\ destinations[i].weight # w
    /\ destinations' = [destinations EXCEPT ![i].weight = w]
    /\ TargetEdit

-----------------------------------------------------------------------------
(* componentDidUpdate(prevProps).  Both setFieldValue calls are computed   *)
(* from the values destructured at its top.                                *)

\* Mutation: the !schemes.includes("https") guard dropped.
ForcesHttpsUnguarded == hosts \cap ForceHttps # {}

\* "for dev, app domains auto enable https"
ForcesHttps == "https" \notin schemes /\ hosts \cap ForceHttps # {}

ForcedSchemes == IF "http" \in schemes THEN Schemes ELSE {"https"}

ClearsRedirect == ~BothSchemes(schemes) /\ httpRedirectToHttps

DidUpdate ==
    /\ pendingUpdate
    /\ dnsRequested' = IF hostsChanged THEN dnsRequested \cup hosts ELSE dnsRequested
    /\ schemes' = IF ForcesHttps THEN ForcedSchemes ELSE schemes
    /\ httpRedirectToHttps' = IF ClearsRedirect THEN FALSE ELSE httpRedirectToHttps
    /\ hostsChanged' = FALSE
    \* every setFieldValue call renders the form again
    /\ pendingUpdate' = (ForcesHttps \/ ClearsRedirect)
    /\ UNCHANGED <<hosts, destinations, methodsMode, methods>>

-----------------------------------------------------------------------------

\* A new route: no hosts yet, any consistent choice of schemes.
Init ==
    /\ hosts = {} /\ schemes \in SUBSET Schemes
    /\ httpRedirectToHttps \in IF BothSchemes(schemes) THEN BOOLEAN ELSE {FALSE}
    /\ hostsChanged = FALSE /\ pendingUpdate = FALSE /\ dnsRequested = {}
    /\ destinations = << >> /\ methodsMode \in MethodsModes /\ methods \in SUBSET HttpMethods

Next ==
    \/ \E h \in SUBSET Hosts : SetHosts(h)
    \/ AddIngressIP
    \/ \E s \in Schemes : ToggleScheme(s)
    \/ ToggleRedirect
    \/ \E m \in MethodsModes : SetMethodsMode(m)
    \/ \E m \in HttpMethods : ToggleMethod(m)
    \/ AddTarget
    \/ \E i \in DOMAIN destinations :
          \/ RemoveTarget(i)
          \/ \E chosen \in BOOLEAN : SetTargetHost(i, chosen)
          \/ \E w \in Weights : SetTargetWeight(i, w)
    \/ DidUpdate

\* React runs componentDidUpdate after every commit; the user may stop.
Spec == Init /\ [][Next]_vars /\ WF_vars(DidUpdate)

-----------------------------------------------------------------------------
(* Properties                                                              *)

UpdatesSettle == pendingUpdate ~> ~pendingUpdate

\* Every host in the form has had loadDomainDNSInfo dispatched for it once
\* componentDidUpdate has run (the DomainStatus icons read that info).
HostsLookedUp == ~pendingUpdate => hosts \subseteq dnsRequested

\* componentDidUpdate turns the redirect off only when the schemes it
\* leaves do not contain both http and https (the comment at line 122).
RedirectClearedOnlyWithoutBothSchemes ==
    [][pendingUpdate /\ httpRedirectToHttps /\ ~httpRedirectToHttps'
         => ~BothSchemes(schemes')]_vars

=============================================================================
