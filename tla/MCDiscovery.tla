---------------------------- MODULE MCDiscovery -----------------------------
(* Discovery with two control sockets, two PIDs and one libvirt VM. *)
EXTENDS Discovery

MCDomains == {101}
=============================================================================
