------------------------------ MODULE Protocol ------------------------------
(***************************************************************************)
(* What the engine promises of a ledger, whatever commands run at once: it  *)
(* only grows; a transition leaves from the state the ledger is in, with    *)
(* the events its gates ask for already there; and its entries follow one   *)
(* another, though a failure may leave the last of them out.  It does not   *)
(* promise that only transitions move the machine: an event of any type may *)
(* be recorded, and a state_transition among them moves it with no gate     *)
(* asked.  There is no process, lock, file or failure here: Engine is shown *)
(* to implement it.                                                         *)
(***************************************************************************)
EXTENDS Rules

VARIABLE ledger

Init == ledger = <<Genesis>>

TakeTransition(i) ==
    /\ StateOf(ledger) = Transitions[i].from
    /\ Evidence(i, ledger)
    /\ ledger' = Append(ledger, GroupEntry(i, 1))

(* The next attestation or emit of the transition at the ledger's end.      *)
Continue(i, k) ==
    /\ ledger[Len(ledger)] = GroupEntry(i, k)
    /\ k < GroupSize(i)
    /\ ledger' = Append(ledger, GroupEntry(i, k + 1))

(* No gate, and no state it must be recorded in.                            *)
Record(e) == ledger' = Append(ledger, Recorded(e))

Next ==
    \/ \E i \in DOMAIN Transitions :
          TakeTransition(i) \/ \E k \in 1 .. GroupSize(i) : Continue(i, k)
    \/ \E e \in Event : Record(e)

Spec == Init /\ [][Next]_ledger

TypeOK == ledger \in Seq(Entry)
=============================================================================
