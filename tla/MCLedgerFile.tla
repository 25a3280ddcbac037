---------------------------- MODULE MCLedgerFile ----------------------------
(***************************************************************************)
(* Instances of LedgerFile: three processes, two bodies, and a hash that    *)
(* is the entry's own contents, so that different entries never share one.  *)
(***************************************************************************)
EXTENDS LedgerFile

CONSTANTS p1, p2, p3
MCProcs == {p1, p2, p3}
MCHash(seq, prev, b) == <<seq, prev, b>>
=============================================================================
