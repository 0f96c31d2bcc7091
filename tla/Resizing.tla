------------------------------ MODULE Resizing ------------------------------
(***************************************************************************)
(* What a caller of InstanceClient::set_thread_count can count on.  The    *)
(* client adds and removes workers one at a time, counting from the pool   *)
(* it last saw.  The controller relies on this; QemuPool is shown to       *)
(* provide it.                                                             *)
(***************************************************************************)
EXTENDS Integers

\* The size a pool of `actual` workers has after a successful call, when the
\* client takes it for one of `known`: workers it does not know of stay.
Landed(actual, known, target) == actual + target - known

\* The sizes a failed call may leave it at: anything on the way, both ends
\* included, since a command may take effect although its reply is an error.
OnTheWay(actual, landed) == (actual .. landed) \cup (landed .. actual)
=============================================================================
