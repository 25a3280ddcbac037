----------------------------- MODULE MCRegistry -----------------------------
(***************************************************************************)
(* Instances of Registry: two processes, the default ledger and two named   *)
(* ones, of which "b" is created at a path of its own or at that of "a".    *)
(***************************************************************************)
EXTENDS Registry, TLC

CONSTANTS p1, p2
MCProcs == {p1, p2}

J(cmd, name, path, activate) == [cmd |-> cmd, name |-> name, path |-> path, activate |-> activate]

\* Every command there is.
MCJobs ==
    {J("init", Default, Default, FALSE), J("reset", Default, Default, FALSE),
     J("create", "a", "a", TRUE), J("import", "b", "b", FALSE), J("create", "b", "a", FALSE),
     J("remove", "a", NoName, FALSE), J("activate", "a", NoName, FALSE),
     J("deactivate", NoName, NoName, FALSE),
     J("event", NoName, NoName, FALSE), J("event", "a", NoName, FALSE),
     J("event", NoName, "b", FALSE), J("checkpoint", NoName, NoName, FALSE)}

MCSymmetry == Permutations(Procs)
=============================================================================
