------------------------------- MODULE MCProbes -------------------------------
(* An HTTP port, an HTTP port with no container port yet, a TCP port; the   *)
(* user types nothing, a negative number or a positive one.                *)
EXTENDS Probes

CONSTANTS nan, undefined

MCPortChoices ==
    {[protocol |-> "HTTP", containerPort |-> 80],
     [protocol |-> "HTTP", containerPort |-> 0],
     [protocol |-> "TCP", containerPort |-> 80]}

MCInputs == {nan, -1, 5}
=============================================================================
