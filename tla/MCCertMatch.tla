----------------------------- MODULE MCCertMatch -----------------------------
(* One lower-case label, its upper-case form, and the wildcard label. *)
EXTENDS CertMatch

MCLabels == {"a", "A", "*"}
MCLower == [l \in MCLabels |-> IF l = "A" THEN "a" ELSE l]
=============================================================================
