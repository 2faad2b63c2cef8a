-------------------------------- MODULE Ports --------------------------------
(***************************************************************************)
(* The ports field array of a component form, RenderPorts in               *)
(* src/frontend/src/forms/ComponentLike/Ports.tsx, with its array          *)
(* validator ValidatorPorts, which redux-form runs again on every change   *)
(* of the array.  A port keeps only what the validator reads: its name,    *)
(* protocol and servicePort (containerPort is never looked at), and the    *)
(* text last typed into servicePort, which normalizePort turned into it.   *)
(***************************************************************************)
EXTENDS Normalizers

CONSTANTS
    PortNames,     \* names a user may type, "" among them
    ServiceTexts,  \* texts a user may type into servicePort, "" among them
    MaxPorts       \* bound on the number of ports

ASSUME "" \in PortNames /\ <<>> \in ServiceTexts

Protocols == {"TCP", "UDP"}
ServicePorts == {NormalizePort(t) : t \in ServiceTexts}
Port == [name : PortNames, protocol : Protocols, servicePort : ServicePorts, typed : ServiceTexts]

\* ValidatorPorts' result: undefined, or the message of the duplicate it met.
NoError == [kind |-> "none", at |-> 0]
Errors == {NoError} \cup [kind : {"name", "port"}, at : 1..MaxPorts]

VARIABLES
    ports,  \* the field array's values
    error   \* meta.error: ValidatorPorts(ports)

vars == <<ports, error>>

TypeOK ==
    /\ ports \in Seq(Port) /\ Len(ports) <= MaxPorts
    /\ error \in Errors

-----------------------------------------------------------------------------
(* The code.                                                               *)

\* !port.get("servicePort"): "" (and an absent servicePort) and 0 are falsy.
Truthy(sp) == sp \notin {EmptyStr, 0}

\* Mutation: the continue for a falsy servicePort dropped.
RECURSIVE ScanWithoutSkip(_, _, _, _)
ScanWithoutSkip(ps, i, names, pairs) ==
    IF i > Len(ps) THEN NoError
    ELSE LET p == ps[i]
             pair == <<p.protocol, p.servicePort>>
         IN  IF p.name \in names THEN [kind |-> "name", at |-> i]
             ELSE IF pair \in pairs THEN [kind |-> "port", at |-> i]
             ELSE ScanWithoutSkip(ps, i + 1, names \cup {p.name}, pairs \cup {pair})

\* The for loop of ValidatorPorts from index i, with the names and the
\* protocol + "-" + servicePort keys seen so far.
RECURSIVE Scan(_, _, _, _)
Scan(ps, i, names, pairs) ==
    IF i > Len(ps) THEN NoError
    ELSE LET p == ps[i]
             pair == <<p.protocol, p.servicePort>>
         IN  IF p.name \in names THEN [kind |-> "name", at |-> i]
             ELSE IF ~Truthy(p.servicePort) THEN Scan(ps, i + 1, names \cup {p.name}, pairs)
             ELSE IF pair \in pairs THEN [kind |-> "port", at |-> i]
             ELSE Scan(ps, i + 1, names \cup {p.name}, pairs \cup {pair})

ValidatorPorts(ps) == Scan(ps, 1, {}, {})

\* Every change of the array is followed by validation.
Validate(ps) == ports' = ps /\ error' = ValidatorPorts(ps)

\* The "Add" button: arrayPush of {name: "", protocol: TCP, containerPort: ""}.
AddPort ==
    /\ Len(ports) < MaxPorts
    /\ Validate(Append(ports, [name |-> "", protocol |-> "TCP", servicePort |-> EmptyStr, typed |-> <<>>]))

\* The delete button of row i: fields.remove(index).
RemovePort(i) == Validate(RemoveAt(ports, i))

SetName(i, n) == Validate([ports EXCEPT ![i].name = n])

SetProtocol(i, p) == Validate([ports EXCEPT ![i].protocol = p])

\* The servicePort field: redux-form stores normalize(value) of what was typed.
SetServicePort(i, t) == Validate([ports EXCEPT ![i].servicePort = NormalizePort(t), ![i].typed = t])

Init == ports = <<>> /\ error = NoError

Next ==
    \/ AddPort
    \/ \E i \in 1..Len(ports) :
          \/ RemovePort(i)
          \/ \E n \in PortNames : SetName(i, n)
          \/ \E p \in Protocols : SetProtocol(i, p)
          \/ \E t \in ServiceTexts : SetServicePort(i, t)

Spec == Init /\ [][Next]_vars

-----------------------------------------------------------------------------
(* The abstract table (PortsTable) the array implements: a port seen       *)
(* without the text it was typed as, and the validator's error as the     *)
(* error shown.  "" and 0 are the ports that do not listen (!servicePort). *)

Table == INSTANCE PortsTable
    WITH Names <- PortNames, PortValues <- ServicePorts,
         NotListening <- {sp \in ServicePorts : ~Truthy(sp)}, MaxRows <- MaxPorts,
         rows <- [i \in DOMAIN ports |-> [name |-> ports[i].name, protocol |-> ports[i].protocol,
                                          servicePort |-> ports[i].servicePort]],
         shown <- error

-----------------------------------------------------------------------------
(* Properties                                                              *)

\* RenderPorts with ValidatorPorts implements the ports table: every add,
\* delete and edit of the field array changes one row the way the table
\* allows, and the error redux-form shows after it (ValidatorPorts run on
\* the new array) is about the first duplicate row: a repeated name, else
\* a repeated protocol and listening port, ports not listening yet ("" or
\* 0) never clashing, and no error when there is no duplicate.
ImplementsPortsTable == Table!Spec

\* Every listening port the array holds is the number its typed text starts
\* with (after spaces and a minus sign), clamped to 0..65535, or "" when the
\* text starts with no number.
ServicePortIsClampedLeadingNumber ==
    \A i \in 1..Len(ports) : ports[i].servicePort = PortOfText(ports[i].typed)

=============================================================================
