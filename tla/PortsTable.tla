------------------------------ MODULE PortsTable ------------------------------
(***************************************************************************)
(* What the ports table of a component form promises, independent of how  *)
(* RenderPorts and ValidatorPorts do it: a list of rows, each a name, a    *)
(* protocol and a listening port, that the user changes one row at a time  *)
(* (append a blank row, delete a row, change a row), and after every       *)
(* change the error shown is about the first row that repeats an earlier   *)
(* row's name, or an earlier row's protocol and listening port.  A row     *)
(* that does not listen yet (its port is the empty string or 0) clashes    *)
(* with no other row's port.                                               *)
(***************************************************************************)
EXTENDS Naturals, Sequences, SequencesExt

CONSTANTS
    Names,         \* names a row may carry, "" among them
    Protocols,     \* protocols a row may carry
    PortValues,    \* listening ports a row may carry, NotListening among them
    NotListening,  \* the port values that do not listen (the empty string, 0)
    MaxRows        \* bound on the rows

ASSUME "" \in Names /\ "TCP" \in Protocols /\ NotListening \subseteq PortValues

Row == [name : Names, protocol : Protocols, servicePort : PortValues]

NoError == [kind |-> "none", at |-> 0]

VARIABLES
    rows,   \* the rows, in display order
    shown   \* the error shown for them

vars == <<rows, shown>>

-----------------------------------------------------------------------------
(* The first duplicate row.                                                *)

NameRepeated(rs, i) == \E j \in 1..i - 1 : rs[j].name = rs[i].name

PortRepeated(rs, i) ==
    /\ rs[i].servicePort \notin NotListening
    /\ \E j \in 1..i - 1 : rs[j].protocol = rs[i].protocol /\ rs[j].servicePort = rs[i].servicePort

FirstDuplicate(rs) ==
    LET bad == {i \in 1..Len(rs) : NameRepeated(rs, i) \/ PortRepeated(rs, i)}
    IN  IF bad = {} THEN NoError
        ELSE LET i == CHOOSE i \in bad : \A j \in bad : i <= j
             IN  [kind |-> IF NameRepeated(rs, i) THEN "name" ELSE "port", at |-> i]

-----------------------------------------------------------------------------

\* A blank row at the end: no name, TCP, not listening.
Append1 ==
    /\ Len(rows) < MaxRows
    /\ \E p \in NotListening :
          rows' = Append(rows, [name |-> "", protocol |-> "TCP", servicePort |-> p])

Delete(i) == rows' = RemoveAt(rows, i)

\* Row i becomes another row; the others stay as they are.
Edit(i) ==
    /\ DOMAIN rows' = DOMAIN rows /\ rows'[i] \in Row
    /\ \A j \in DOMAIN rows \ {i} : rows'[j] = rows[j]

Init == rows = << >> /\ shown = NoError

\* Every change of the rows is followed by the error for the new rows.
Next ==
    /\ \/ Append1
       \/ \E i \in 1..Len(rows) : Delete(i) \/ Edit(i)
    /\ shown' = FirstDuplicate(rows')

Spec == Init /\ [][Next]_vars

=============================================================================
