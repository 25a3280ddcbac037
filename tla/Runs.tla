-------------------------------- MODULE Runs --------------------------------
(***************************************************************************)
(* What init and reset promise: a data directory holds one current run or   *)
(* none; runs that ended are archived and stay as they were; a run that was *)
(* reported as started is never taken back.                                 *)
(***************************************************************************)
EXTENDS Integers

CONSTANT NoRun

VARIABLES
    current,     \* the run whose ledger commands open, or NoRun
    archive,     \* the runs that were reset
    size,        \* the entries of each run's ledger
    reported     \* the runs an init or a reset has reported as started

vars == <<current, archive, size, reported>>

Init ==
    /\ current = NoRun /\ archive = {} /\ reported = {}
    /\ \A r \in DOMAIN size : size[r] = 0

(* The genesis of a run no one has seen before.                             *)
Start(r) ==
    /\ current = NoRun /\ size[r] = 0 /\ r \notin archive
    /\ current' = r /\ size' = [size EXCEPT ![r] = 1]
    /\ UNCHANGED <<archive, reported>>

Report ==
    /\ current # NoRun /\ reported' = reported \cup {current}
    /\ UNCHANGED <<current, archive, size>>

Grow ==
    /\ current # NoRun /\ size' = [size EXCEPT ![current] = @ + 1]
    /\ UNCHANGED <<current, archive, reported>>

Archive ==
    /\ current # NoRun /\ archive' = archive \cup {current} /\ current' = NoRun
    /\ UNCHANGED <<size, reported>>

TakeBack ==
    /\ current \notin reported /\ current' = NoRun
    /\ UNCHANGED <<archive, size, reported>>

Next ==
    \/ \E r \in DOMAIN size : Start(r)
    \/ Report \/ Grow \/ Archive \/ TakeBack

Spec == Init /\ [][Next]_vars
=============================================================================
