------------------------------ MODULE MCDaemon ------------------------------
(***************************************************************************)
(* Instances of Daemon: two starts by one operator, so that one daemon      *)
(* leaves, or was killed, while the next starts, and two clients, so that   *)
(* one waits behind the other.                                              *)
(***************************************************************************)
EXTENDS Daemon, TLC

CONSTANTS d1, d2, c1, c2, o1
MCDaemons == {d1, d2}
MCClients == {c1, c2}
MCOperators == {o1}
=============================================================================
