---------------------------- MODULE ComponentPage ----------------------------
(***************************************************************************)
(* What the component page (src/frontend/src/pages/Components/Show.tsx and *)
(* BasicInfo.tsx) derives from the store when it renders: the cluster DNS  *)
(* names of its Networking section, the routes of its Routes section, and  *)
(* the pod counts of its Pod Status line.                                  *)
(*                                                                         *)
(* A name is the sequence of its characters over the constant Letters.     *)
(* The fixed text ".svc.cluster.local" and ":<port>" are one token each,   *)
(* since no name contains a dot or a colon.  One evaluation is a single    *)
(* step from an arbitrary store content to what the page renders, so every *)
(* bounded input is compared with the reference definitions below.         *)
(***************************************************************************)
EXTENDS Naturals, FiniteSets, Sequences, SequencesExt

CONSTANTS
    Letters,    \* characters a component or namespace name is made of
    MaxName,    \* bound on the length of a name
    MaxRoutes,  \* bound on the http routes in the store
    MaxDests,   \* bound on the destinations of one route
    MaxPods     \* bound on the pods of the component

ASSUME Letters # {} /\ "." \notin Letters

Phases == {"Pending", "Running", "Succeeded", "Failed", "Unknown"}
Pod == [isTerminating : BOOLEAN, status : Phases]

Names == UNION {[1..k -> Letters] : k \in 1..MaxName}
SeqsUpTo(S, n) == UNION {[1..k -> S] : k \in 0..n}

ClusterSuffix == <<"svc.cluster.local">>

VARIABLES
    name,         \* component.name
    namespace,    \* activeNamespaceName
    hasService,   \* component.ports is non-empty
    httpRoutes,   \* the routes of the store, each the hosts of its destinations
    pods,         \* component.pods
    rendered,     \* has the page rendered this store content
    shown         \* what it rendered

vars == <<name, namespace, hasService, httpRoutes, pods, rendered, shown>>

-----------------------------------------------------------------------------
(* The code.                                                               *)

\* The option value the route form offers for a port of a service
\* (forms/Route/destinations.tsx): `${name}.${namespace}.svc.cluster.local:${port}`.
DestinationHost(svc, ns) == svc \o <<".">> \o ns \o <<".">> \o ClusterSuffix \o <<":port">>

\* renderNetwork: the Cluster FQDN DNS line, or "none" without ports.
NoService == <<"none">>
Fqdn(n, ns) == IF hasService THEN n \o <<".">> \o ns \o <<".">> \o ClusterSuffix ELSE NoService

\* destination.host.startsWith(serviceName + "." + activeNamespaceName).
ServedBy(host, n, ns) == IsPrefix(n \o <<".">> \o ns, host)

\* renderRoutes: the routes with a destination the filter accepts.
RenderRoutes(routes, n, ns) ==
    SelectSeq(routes, LAMBDA r : Len(SelectSeq(r, LAMBDA h : ServedBy(h, n, ns))) > 0)

NoCount == [running |-> 0, pending |-> 0, error |-> 0]

\* One iteration of the forEach of renderComponentStatus: a terminating
\* pod is pending whatever its phase; a phase the switch does not list
\* falls out of it.
CountPod(c, pod) ==
    IF pod.isTerminating THEN [c EXCEPT !.pending = @ + 1]
    ELSE CASE pod.status = "Pending" -> [c EXCEPT !.pending = @ + 1]
           [] pod.status = "Failed"  -> [c EXCEPT !.error = @ + 1]
           [] pod.status \in {"Running", "Succeeded"} -> [c EXCEPT !.running = @ + 1]
           [] OTHER -> c

RenderComponentStatus(ps) == FoldLeft(CountPod, NoCount, ps)

Init ==
    /\ name \in Names /\ namespace \in Names /\ hasService \in BOOLEAN
    /\ httpRoutes \in SeqsUpTo(SeqsUpTo({DestinationHost(s, ns) : s, ns \in Names}, MaxDests),
                               MaxRoutes)
    /\ pods \in SeqsUpTo(Pod, MaxPods)
    /\ rendered = FALSE
    /\ shown = [fqdn |-> NoService, routes |-> << >>, status |-> NoCount]

\* ComponentShowRaw.render: the Basic, Networking and Routes sections.
Render ==
    /\ ~rendered /\ rendered' = TRUE
    /\ shown' = [fqdn   |-> Fqdn(name, namespace),
                 routes |-> RenderRoutes(httpRoutes, name, namespace),
                 status |-> RenderComponentStatus(pods)]
    /\ UNCHANGED <<name, namespace, hasService, httpRoutes, pods>>

Next == Render

Spec == Init /\ [][Next]_vars

-----------------------------------------------------------------------------
(* Properties                                                              *)

\* Every route the Routes section lists has a destination on the component's
\* own service in the active namespace: the routes of another component
\* are not shown as this one's.  The prefix test of renderRoutes lacks the
\* dot after the namespace, so for component a of namespace a it also
\* lists a route to a.aa.svc.cluster.local.
ListedRoutesServeComponent ==
    rendered /\ hasService =>
        \A i \in DOMAIN shown.routes :
            \E j \in DOMAIN shown.routes[i] :
                shown.routes[i][j] = DestinationHost(name, namespace)

=============================================================================
