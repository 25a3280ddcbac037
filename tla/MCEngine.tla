------------------------------ MODULE MCEngine ------------------------------
(***************************************************************************)
(* Small instances of Engine.  The protocol: a ticket is needed to begin,   *)
(* a gate command runs at begin; fixing is a budgeted self-loop that emits  *)
(* what it counts; finish has two candidates, the first of which wants a    *)
(* fix.                                                                     *)
(***************************************************************************)
EXTENDS Engine, TLC

CONSTANTS p1, p2, status, punchlist

MCProcs == {p1, p2}
MCViews == {status, punchlist}
MCStates == {"idle", "working", "done"}
MCTargets == MCStates \cup {"elsewhere"}
MCEventTypes == {"ticket", "fix", "state_transition"}
MCCommandNames == {"none", "begin", "fix", "finish"}

AnEvent(type) == [type |-> type, to |-> "idle"]
MoveTo(state) == [type |-> "state_transition", to |-> state]

NeedTicket == [event |-> "ticket", min |-> 1, max |-> {}]
NeedFix == [event |-> "fix", min |-> 1, max |-> {}]
OneFix == [event |-> "fix", min |-> 0, max |-> {1}]

MCTransitions == <<
    [command |-> "begin", from |-> "idle", to |-> "working",
     gates |-> {NeedTicket}, attested |-> 1, emits |-> <<>>],
    [command |-> "fix", from |-> "working", to |-> "working",
     gates |-> {OneFix}, attested |-> 0, emits |-> <<AnEvent("fix")>>],
    [command |-> "finish", from |-> "working", to |-> "done",
     gates |-> {NeedFix}, attested |-> 0, emits |-> <<>>],
    [command |-> "finish", from |-> "working", to |-> "idle",
     gates |-> {}, attested |-> 0, emits |-> <<>>]>>

MCRendersOn ==
    [t \in Triggers |->
        CASE t = "all" -> <<status, punchlist>>
          [] t = "on_transition" -> <<status, punchlist>>
          [] t \in {"ticket", "fix", "state_transition"} -> <<punchlist>>
          [] OTHER -> <<>>]

Moving(cmd, name) == [cmd |-> cmd, command |-> name, records |-> <<>>]
Recording(cmd, events) ==
    [cmd |-> cmd, command |-> "none", records |-> events]
Bare(cmd) == [cmd |-> cmd, command |-> "none", records |-> <<>>]

Ticket == Recording("event", <<AnEvent("ticket")>>)

(* sahjhan event state_transition --field to=working: no gate is asked.     *)
ByHand == Recording("event", <<MoveTo("working")>>)
MCGateJobs == {Ticket}
MCHandGateJobs == {ByHand}
MCJobs ==
    {ByHand, Moving("transition", "begin"), Moving("batch", "fix"),
     Moving("transition", "finish"), Bare("render"), Bare("verify"),
     Recording("hook_eval", <<AnEvent("fix"), AnEvent("ticket")>>)}

(* Fewer commands, the daemon's request among them, for the run with        *)
(* failures.  The state recorded by hand is none of the protocol's.         *)
Elsewhere == Recording("event", <<MoveTo("elsewhere")>>)
MCFaultGateJobs == {Elsewhere}
MCFaultJobs ==
    {Elsewhere, Moving("transition", "begin"), Bare("render"),
     Recording("daemon_event", <<AnEvent("ticket")>>)}

MCLiveJobs ==
    {Ticket, Moving("transition", "begin"), Moving("batch", "fix"),
     Bare("verify")}
MCMoveJobs ==
    {Ticket, Moving("transition", "begin"), Moving("transition", "fix"),
     Moving("transition", "finish")}

Symmetric == Permutations(Procs)
=============================================================================
