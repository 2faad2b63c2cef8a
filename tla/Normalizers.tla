----------------------------- MODULE Normalizers -----------------------------
(***************************************************************************)
(* The port normalizer of src/frontend/src/forms/normalizer.ts,            *)
(* normalizePort, which the ports array (Ports.tsx) applies to what the    *)
(* user types, with JavaScript's parseInt(value, 10), which it calls,      *)
(* modelled by what it does.                                               *)
(*                                                                         *)
(* A typed value is a sequence of characters; "" is the empty sequence.   *)
(* normalizePort returns either a number or the string "", which is the   *)
(* model value EmptyStr.                                                   *)
(***************************************************************************)
EXTENDS Integers, Sequences, SequencesExt

CONSTANTS
    DigitValue,  \* the digit characters the user may type, with their values
    NaN,         \* parseInt's NaN
    EmptyStr     \* "" returned in place of a number

Digits == DOMAIN DigitValue

ASSUME /\ NaN \notin Int /\ EmptyStr \notin Int
       /\ " " \notin Digits /\ "-" \notin Digits

-----------------------------------------------------------------------------
(* parseInt(s, 10): leading white space, an optional sign, then the        *)
(* longest run of decimal digits; NaN when that run is empty.              *)

RECURSIVE TrimStart(_)
TrimStart(s) == IF s # <<>> /\ Head(s) = " " THEN TrimStart(Tail(s)) ELSE s

RECURSIVE DigitRun(_)
DigitRun(s) == IF s # <<>> /\ Head(s) \in Digits THEN <<Head(s)>> \o DigitRun(Tail(s)) ELSE <<>>

RECURSIVE DecimalValue(_)
DecimalValue(d) == IF d = <<>> THEN 0 ELSE 10 * DecimalValue(Front(d)) + DigitValue[Last(d)]

ParseInt(s) ==
    LET t == TrimStart(s)
        negative == t # <<>> /\ Head(t) = "-"
        run == DigitRun(IF negative THEN Tail(t) ELSE t)
    IN  IF run = <<>> THEN NaN
        ELSE IF negative THEN -DecimalValue(run) ELSE DecimalValue(run)

-----------------------------------------------------------------------------
(* forms/normalizer.ts                                                      *)

\* Mutation: the upper clamp one port too high.
NormalizePortOffByOne(v) ==
    LET portInteger == ParseInt(v)
    IN  IF portInteger = NaN THEN EmptyStr
        ELSE IF portInteger < 0 THEN 0
        ELSE IF portInteger > 65536 THEN 65535
        ELSE portInteger

NormalizePort(v) ==
    LET portInteger == ParseInt(v)
    IN  IF portInteger = NaN THEN EmptyStr
        ELSE IF portInteger < 0 THEN 0
        ELSE IF portInteger > 65535 THEN 65535
        ELSE portInteger

-----------------------------------------------------------------------------
(* The reference: the number a typed value starts with, read off a         *)
(* decomposition of the value rather than by scanning it.                  *)

\* value = spaces \o sign \o digits \o rest, rest not starting with a digit.
Decompositions(v) ==
    {d \in [sp : 0..Len(v), sg : 0..1, dg : 1..Len(v)] :
        /\ d.sp + d.sg + d.dg <= Len(v)
        /\ \A i \in 1..d.sp : v[i] = " "
        /\ d.sg = 1 => v[d.sp + 1] = "-"
        /\ \A i \in d.sp + d.sg + 1..d.sp + d.sg + d.dg : v[i] \in Digits
        /\ d.sp + d.sg + d.dg < Len(v) => v[d.sp + d.sg + d.dg + 1] \notin Digits
        /\ d.sp < Len(v) => v[d.sp + 1] # " "}

LeadingNumber(v) ==
    LET d == CHOOSE d \in Decompositions(v) : TRUE
        n == DecimalValue(SubSeq(v, d.sp + d.sg + 1, d.sp + d.sg + d.dg))
    IN  IF d.sg = 1 THEN -n ELSE n

ClampPort(n) == IF n < 0 THEN 0 ELSE IF n > 65535 THEN 65535 ELSE n

\* What a port field should keep of the typed text v.
PortOfText(v) == IF Decompositions(v) = {} THEN EmptyStr ELSE ClampPort(LeadingNumber(v))

=============================================================================
