--------------------------- MODULE MCDbusService ----------------------------
(* DbusService with two callers, three calls and two VMs. *)
EXTENDS DbusService

MCVerbs ==
  {[kind |-> "set", vm |-> 1, threads |-> 2, sticky |-> TRUE],
   [kind |-> "all", vm |-> 0, threads |-> 2, sticky |-> FALSE],
   [kind |-> "read", vm |-> 0, threads |-> 0, sticky |-> FALSE],
   [kind |-> "named", vm |-> 1, threads |-> 0, sticky |-> FALSE]}
=============================================================================
