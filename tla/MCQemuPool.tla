----------------------------- MODULE MCQemuPool -----------------------------
(* QemuPool with few identifiers. *)
EXTENDS QemuPool

\* iot2 sorts before iot1, as iot10 does before iot9
MCKey == [i \in Ids |-> IF i = 0 THEN 0 ELSE MaxId + 1 - i]
=============================================================================
