-------------------------------- MODULE Probes --------------------------------
(***************************************************************************)
(* The liveness and readiness probe editors of a component form,           *)
(* RenderProbe in src/frontend/src/forms/ComponentLike/Probes.tsx, and the *)
(* ports list of the same Formik form.                                     *)
(*                                                                         *)
(* Each probe is a Formik FastField.  A FastField renders again only when  *)
(* its own value (or its errors, touched, isSubmitting) changes, so the    *)
(* form values it hands to handleChangeType are those of its last render;  *)
(* seenPorts[n] is values.ports as of that render.                         *)
(*                                                                         *)
(* Of the numeric fields, periodSeconds stands for the four that are       *)
(* rendered for every probe type (initialDelaySeconds, timeoutSeconds,     *)
(* failureThreshold go through the same normalizer and the same nested     *)
(* text field); successThreshold is kept apart because it is not rendered  *)
(* for the liveness probe.                                                 *)
(***************************************************************************)
EXTENDS Integers, Sequences

CONSTANTS
    PortChoices,  \* ports a user may declare: [protocol, containerPort], 0 for empty
    MaxPorts,     \* bound on the length of values.ports
    Inputs,       \* parseInt results of what the user types; NaN among them
    NaN,          \* parseInt's NaN
    Undefined     \* undefined, what the normalizer returns for NaN

ASSUME /\ NaN \in Inputs /\ NaN \notin Int /\ Undefined \notin Int
       /\ \A p \in PortChoices : p.protocol \in {"HTTP", "TCP", "UDP"}

ProbeNames == {"livenessProbe", "readinessProbe"}
Types == {"none", "httpGet", "exec", "tcpSocket"}

VARIABLES
    ports,             \* values.ports
    seenPorts,         \* seenPorts[n]: values.ports at the last render of probe n
    probeType,         \* getProbeType() of values[n]: which of httpGet/exec/tcpSocket is set
    probePort,         \* values[n].httpGet.port or values[n].tcpSocket.port
    periodSeconds,     \* values[n].periodSeconds
    successThreshold   \* values[n].successThreshold

vars == <<ports, seenPorts, probeType, probePort, periodSeconds, successThreshold>>
probeVars == <<probeType, probePort, periodSeconds, successThreshold>>

PortLists == UNION {[1..k -> PortChoices] : k \in 0..MaxPorts}
Numbers == Int \cup {Undefined}

TypeOK ==
    /\ ports \in PortLists /\ seenPorts \in [ProbeNames -> PortLists]
    /\ probeType \in [ProbeNames -> Types]
    /\ probePort \in [ProbeNames -> Numbers \cup {"none"}]
    /\ periodSeconds \in [ProbeNames -> Numbers \cup {"none"}]
    /\ successThreshold \in [ProbeNames -> Numbers \cup {"none"}]

-----------------------------------------------------------------------------
(* The code.                                                               *)

\* FormikNormalizePositiveNumber (forms/normalizer.ts) on parseInt's result.
FormikNormalizePositiveNumber(v) ==
    IF v = NaN THEN Undefined ELSE IF v < 0 THEN 0 ELSE v

\* ports.find(x => x.protocol === protocol && !!x.containerPort), its
\* containerPort, or 8080.
PotentialPort(ps, protocol) ==
    LET hits == {i \in DOMAIN ps : ps[i].protocol = protocol /\ ps[i].containerPort # 0}
    IN  IF hits = {} THEN 8080
        ELSE ps[CHOOSE i \in hits : \A j \in hits : i <= j].containerPort

\* A change of values[n] renders probe n again with the current values.
Rerender(n) == seenPorts' = [seenPorts EXCEPT ![n] = ports]

\* handleChangeType(type): the whole probe object is replaced by the
\* defaults of the new type, or by null.
HandleChangeType(n, type) ==
    /\ probeType' = [probeType EXCEPT ![n] = type]
    /\ probePort' = [probePort EXCEPT ![n] =
          CASE type = "httpGet"   -> PotentialPort(seenPorts[n], "HTTP")
            [] type = "tcpSocket" -> PotentialPort(seenPorts[n], "TCP")
            [] OTHER              -> "none"]
    /\ periodSeconds' = [periodSeconds EXCEPT ![n] = IF type = "none" THEN "none" ELSE 10]
    /\ successThreshold' = [successThreshold EXCEPT ![n] = IF type = "none" THEN "none" ELSE 1]
    /\ Rerender(n) /\ UNCHANGED ports

\* The Type select of render, whose value is getProbeType(): choosing
\* another type calls handleChangeType.
SelectType(n, type) == type # probeType[n] /\ HandleChangeType(n, type)

\* The nested text field's onChange: setFieldValue(name, normalize(e)).
EditPeriodSeconds(n, v) ==
    /\ probeType[n] # "none"
    /\ periodSeconds' = [periodSeconds EXCEPT ![n] = FormikNormalizePositiveNumber(v)]
    /\ Rerender(n) /\ UNCHANGED <<ports, probeType, probePort, successThreshold>>

\* renderCommon renders the successThreshold field except for livenessProbe.
SuccessThresholdRendered(n) == n # "livenessProbe"

EditSuccessThreshold(n, v) ==
    /\ probeType[n] # "none" /\ SuccessThresholdRendered(n)
    /\ successThreshold' = [successThreshold EXCEPT ![n] = FormikNormalizePositiveNumber(v)]
    /\ Rerender(n) /\ UNCHANGED <<ports, probeType, probePort, periodSeconds>>

\* The port field of renderHttpGet (httpGet.port) and of renderTcpSocket
\* (tcpSocket.port); renderExec has none.
SetProbePort(n, v) ==
    /\ probePort' = [probePort EXCEPT ![n] = FormikNormalizePositiveNumber(v)]
    /\ Rerender(n) /\ UNCHANGED <<ports, probeType, periodSeconds, successThreshold>>

EditHttpGetPort(n, v) == probeType[n] = "httpGet" /\ SetProbePort(n, v)

EditTcpSocketPort(n, v) == probeType[n] = "tcpSocket" /\ SetProbePort(n, v)

\* An edit of the ports list elsewhere in the form: the probes' FastFields
\* do not render again.
SetPorts(ps) ==
    /\ ps # ports /\ ports' = ps
    /\ UNCHANGED <<seenPorts, probeVars>>

-----------------------------------------------------------------------------

\* A new component: no ports and no probes yet.
Init ==
    /\ ports = <<>> /\ seenPorts = [n \in ProbeNames |-> <<>>]
    /\ probeType = [n \in ProbeNames |-> "none"]
    /\ probePort = [n \in ProbeNames |-> "none"]
    /\ periodSeconds = [n \in ProbeNames |-> "none"]
    /\ successThreshold = [n \in ProbeNames |-> "none"]

Next ==
    \/ \E ps \in PortLists : SetPorts(ps)
    \/ \E n \in ProbeNames :
          \/ \E t \in Types : SelectType(n, t)
          \/ \E v \in Inputs : EditPeriodSeconds(n, v) \/ EditSuccessThreshold(n, v)
                \/ EditHttpGetPort(n, v) \/ EditTcpSocketPort(n, v)

Spec == Init /\ [][Next]_vars

\* The snapshot seenPorts[n] is only ever read through PotentialPort, and
\* Rerender overwrites it whole: states that agree on everything else and
\* on the ports each snapshot would pick behave alike.
SeenView ==
    <<ports, probeVars,
      [n \in ProbeNames |-> <<PotentialPort(seenPorts[n], "HTTP"),
                              PotentialPort(seenPorts[n], "TCP")>>]>>

-----------------------------------------------------------------------------
(* Properties                                                              *)

\* Every numeric probe field goes through FormikNormalizePositiveNumber
\* (Probes.tsx), named for positive numbers: after any sequence of type
\* changes and edits of either probe, a set probe's periodSeconds and
\* successThreshold are either left out (undefined, the server's default)
\* or positive.  The normalizer clamps a negative entry to 0 instead.
ProbeSettingsPositive ==
    \A n \in ProbeNames :
        probeType[n] # "none" =>
            \A v \in {periodSeconds[n], successThreshold[n]} : v = Undefined \/ v > 0

\* Choosing the HTTP (TCP) probe type fills in the containerPort of the
\* first HTTP (TCP) port the form currently declares, as handleChangeType
\* intends, and 8080 only if there is none.
ProbePortFromCurrentPorts ==
    [][\A n \in ProbeNames :
         probeType'[n] # probeType[n] /\ probeType'[n] = "httpGet"
            => probePort'[n] = PotentialPort(ports, "HTTP")]_vars

=============================================================================
