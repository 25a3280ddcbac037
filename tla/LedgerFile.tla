----------------------------- MODULE LedgerFile -----------------------------
(***************************************************************************)
(* ledger/chain.rs: one ledger file, and the processes that open it, append *)
(* to it and reload it, call by call.  An append locks the file, reads it   *)
(* again, writes the entry's JSON and then, in a second write(2), its       *)
(* newline.  A process may be killed at any point and a write may fail, so  *)
(* a line may be left torn or without its end; flock is dropped either way. *)
(***************************************************************************)
EXTENDS Integers, Sequences, FiniteSets, SequencesExt

CONSTANTS
    Procs, NoProc,
    Bodies, Hash(_, _, _), Nonce,
    Faults,        \* the failures considered: "kill", "io"
    MaxLines       \* bound: no append begins in a file of this many objects

EL == INSTANCE EventLog WITH log <- <<>>

ASSUME ProcsAssumption == NoProc \notin Procs

VARIABLES
    pieces,    \* the file's JSON objects in order, the cut ones included
    ends,      \* the positions of the objects that a newline follows
    holder,    \* the process that holds the exclusive flock
    pc,        \* where each process is in its call
    mem,       \* Ledger::entries of each process
    base,      \* on_disk_entries of the append each process is in
    body,      \* what each is appending
    acked,     \* the entries whose append returned Ok, with their process
    damaged    \* a process was killed or failed between the first write of an
               \* append and the end of its line

vars == <<pieces, ends, holder, pc, mem, base, body, acked, damaged>>

file == <<pieces, ends, damaged>>

(* The beginning of an entry's JSON: no whole entry.                        *)
Torn == [cut |-> TRUE]

(* parse_file_inner: every line is one whole object; the last one need not  *)
(* have its newline.                                                        *)
Readable ==
    \A n \in DOMAIN pieces :
        pieces[n] # Torn /\ (n < Len(pieces) => n \in ends)

(* The whole objects in the file, wherever their lines end.  A cut one is   *)
(* the last: no append builds on a file that does not parse.                *)
Written ==
    IF pieces # <<>> /\ pieces[Len(pieces)] = Torn
    THEN SubSeq(pieces, 1, Len(pieces) - 1) ELSE pieces

Init ==
    /\ pieces = <<EL!GenesisEntry>>
    /\ ends = {1}
    /\ holder = NoProc
    /\ pc = [p \in Procs |-> "closed"]
    /\ mem = [p \in Procs |-> <<>>]
    /\ base = [p \in Procs |-> <<>>]
    /\ body \in [Procs -> Bodies]
    /\ acked = {}
    /\ damaged = FALSE

Goto(p, from, to) == pc[p] = from /\ pc' = [pc EXCEPT ![p] = to]

(* Ledger::open, under a shared lock: refuses a file that does not parse or *)
(* does not chain.                                                          *)
Open(p) ==
    /\ holder = NoProc
    /\ Readable /\ pieces # <<>> /\ EL!Chained(pieces)
    /\ Goto(p, "closed", "ready")
    /\ mem' = [mem EXCEPT ![p] = pieces]
    /\ UNCHANGED <<file, holder, base, body, acked>>

(* Ledger::reload: the same, without the chain's verification.              *)
Reload(p) ==
    /\ holder = NoProc
    /\ Readable
    /\ Goto(p, "ready", "ready")
    /\ mem' = [mem EXCEPT ![p] = pieces]
    /\ UNCHANGED <<file, holder, base, body, acked>>

(* Ledger::append is called, and polls for the exclusive lock.              *)
CallAppend(p) ==
    /\ Len(pieces) < MaxLines
    /\ Goto(p, "ready", "wait")
    /\ \E b \in Bodies : body' = [body EXCEPT ![p] = b]
    /\ UNCHANGED <<file, holder, mem, base, acked>>

Lock(p) ==
    /\ holder = NoProc
    /\ Goto(p, "wait", "held")
    /\ holder' = p
    /\ UNCHANGED <<file, mem, base, body, acked>>

(* Slip_...: a definition as a slip in the code would have it.  No action   *)
(* uses one; each shows that a property would notice.                       *)
Slip_WaitForever(p) == pc[p] = "wait" /\ FALSE

(* lock_exclusive_with_timeout gives up: LockTimeout, nothing appended.     *)
LockTimeout(p) ==
    /\ holder # NoProc
    /\ Goto(p, "wait", "ready")
    /\ UNCHANGED <<file, holder, mem, base, body, acked>>

(* The append builds on the entries it has in memory, or skips the lines it *)
(* cannot parse.                                                            *)
Slip_NoReread(p) ==
    /\ Goto(p, "held", "json")
    /\ base' = [base EXCEPT ![p] = mem[p]]
    /\ UNCHANGED <<file, holder, mem, body, acked>>
Slip_SkipBadLines(p) ==
    /\ Goto(p, "held", "json")
    /\ base' = [base EXCEPT ![p] = Written]
    /\ UNCHANGED <<file, holder, mem, body, acked>>

(* The file is parsed again under the lock; if it does not parse the append *)
(* returns the error and closing the file drops the lock.                   *)
Reread(p) ==
    /\ \/ /\ Readable
          /\ Goto(p, "held", "json")
          /\ base' = [base EXCEPT ![p] = pieces]
          /\ holder' = holder
       \/ /\ ~Readable
          /\ Goto(p, "held", "ready")
          /\ base' = base
          /\ holder' = NoProc
    /\ UNCHANGED <<file, mem, body, acked>>

NewEntry(p) == EL!Successor(base[p], body[p])

(* A write lands at the end of the file: on the line of the object before   *)
(* it if that has no newline.                                               *)
Put(piece) == pieces' = Append(pieces, piece) /\ ends' = ends

WriteJson(p) ==
    /\ Goto(p, "json", "newline")
    /\ Put(NewEntry(p))
    /\ UNCHANGED <<holder, mem, base, body, acked, damaged>>

Slip_MemoryBehind(p) ==
    /\ Goto(p, "newline", "ready")
    /\ ends' = ends \cup {Len(pieces)}
    /\ holder' = NoProc
    /\ mem' = [mem EXCEPT ![p] = Append(@, NewEntry(p))]
    /\ base' = [base EXCEPT ![p] = <<>>]
    /\ acked' = acked \cup {NewEntry(p)}
    /\ UNCHANGED <<pieces, body, damaged>>
Slip_NewlineForgotten(p) ==
    /\ Goto(p, "newline", "ready")
    /\ holder' = NoProc
    /\ mem' = [mem EXCEPT ![p] = Append(base[p], NewEntry(p))]
    /\ base' = [base EXCEPT ![p] = <<>>]
    /\ acked' = acked \cup {NewEntry(p)}
    /\ UNCHANGED <<pieces, ends, body, damaged>>

(* The newline; then the lock is released and memory brought up to date.    *)
WriteNewline(p) ==
    /\ Goto(p, "newline", "ready")
    /\ ends' = ends \cup {Len(pieces)}
    /\ holder' = NoProc
    /\ mem' = [mem EXCEPT ![p] = Append(base[p], NewEntry(p))]
    /\ base' = [base EXCEPT ![p] = <<>>]
    /\ acked' = acked \cup {NewEntry(p)}
    /\ UNCHANGED <<pieces, body, damaged>>

(* What a failed or interrupted write leaves: nothing, the beginning of the *)
(* object, or the object without its newline.                               *)
Interrupted(p) ==
    \/ pc[p] = "json" /\ UNCHANGED file
    \/ pc[p] = "json" /\ Put(Torn) /\ damaged' = TRUE
    \/ pc[p] = "newline" /\ damaged' = TRUE /\ UNCHANGED <<pieces, ends>>

WriteFails(p) ==
    /\ "io" \in Faults
    /\ pc[p] \in {"json", "newline"}
    /\ Interrupted(p)
    /\ pc' = [pc EXCEPT ![p] = "ready"]
    /\ holder' = NoProc
    /\ base' = [base EXCEPT ![p] = <<>>]
    /\ UNCHANGED <<mem, body, acked>>

Kill(p) ==
    /\ "kill" \in Faults
    /\ pc[p] # "closed"
    /\ \/ Interrupted(p)
       \/ pc[p] \notin {"json", "newline"} /\ UNCHANGED file
    /\ pc' = [pc EXCEPT ![p] = "closed"]
    /\ holder' = IF holder = p THEN NoProc ELSE holder
    /\ mem' = [mem EXCEPT ![p] = <<>>]
    /\ base' = [base EXCEPT ![p] = <<>>]
    /\ UNCHANGED <<body, acked>>

(* The process exits with its ledger: the next one opens it again.          *)
Close(p) ==
    /\ Goto(p, "ready", "closed")
    /\ mem' = [mem EXCEPT ![p] = <<>>]
    /\ UNCHANGED <<file, holder, base, body, acked>>

AppendStep(p) ==
    \/ Lock(p) \/ LockTimeout(p) \/ Reread(p) \/ WriteJson(p) \/ WriteNewline(p)

Next ==
    \E p \in Procs :
        \/ AppendStep(p)
        \/ Open(p) \/ Reload(p) \/ CallAppend(p) \/ Close(p)
        \/ WriteFails(p) \/ Kill(p)

Spec == Init /\ [][Next]_vars
FairSpec == Spec /\ \A p \in Procs : WF_vars(AppendStep(p))
-----------------------------------------------------------------------------
(* Properties.                                                              *)

(* Between appends the file is whole lines of one entry each, chained,      *)
(* unless an append was cut off after it began to write.                    *)
WholeUnlessDamaged ==
    holder = NoProc /\ ~damaged =>
        Readable /\ Len(pieces) \in ends /\ EL!Chained(pieces)

(* What a process holds in memory is what the file's beginning says, and a  *)
(* file that parses is never ahead of its chain: a process's copy may be    *)
(* old, never wrong.                                                        *)
MemoryIsPrefix ==
    \A p \in Procs : IsPrefix(mem[p], Written)

(* An append that returned Ok is in the file for good, at the place its seq *)
(* names, also in a file that no longer parses.                             *)
AcknowledgedStays ==
    \A e \in acked : e.seq + 1 \in DOMAIN Written /\ Written[e.seq + 1] = e

(* A file that does not parse is refused by every append, so it stays as it *)
(* is for whoever repairs it.                                               *)
UnreadableIsFrozen == [][~Readable => pieces' = pieces]_vars

(* The detailed append implements the abstract log: the entries written are *)
(* a chain that only grows, one successor at a time.                        *)
Chain == INSTANCE EventLog WITH log <- Written
ImplementsEventLog == Chain!Spec

(* Every call of append returns: appended, refused or timed out.            *)
EveryAppendReturns ==
    \A p \in Procs : pc[p] = "wait" ~> pc[p] \in {"ready", "closed"}
=============================================================================
