------------------------------- MODULE Engine -------------------------------
(***************************************************************************)
(* Commands of sahjhan running at once on one data directory: each process  *)
(* runs one command at a time, and they meet in the ledger file, the        *)
(* manifest, the rendered files, the status cache and the manifest lock.    *)
(*                                                                         *)
(* A command is a path through phases (the Flow of its handler).  A file's  *)
(* contents are the length of the ledger when it was written: a ledger only *)
(* grows, so equal lengths are equal hashes; 0 is a file never written, or  *)
(* one the manifest does not track.  Ledger!append is one step here; its    *)
(* own steps are LedgerFile's.                                              *)
(***************************************************************************)
EXTENDS Rules

CONSTANTS
    Procs,       \* processes that run commands, the daemon's handlers included
    NoProc,      \* no process
    NoState,     \* the state a command that has committed nothing has reached
    Views,       \* the rendered files
    RendersOn,   \* the views a trigger renders, in the order of the TOML file
    Jobs,        \* the command lines that are run
    GateJobs,    \* those a gate command may run as a child
    Faults,      \* the failures considered: "kill", "io", "render"
    MaxEntries,  \* the disk is full when the ledger has this many entries
    MaxItems     \* a batch's queries return at most this many items

-----------------------------------------------------------------------------
(* The handlers: the phase that follows each phase of a run that succeeds.  *)

(* Slip_...: a definition as a slip in the code would have it.  No action   *)
(* uses one; each shows that a property would notice.                       *)
Slip_LockBeforeGates ==
    [idle |-> "open", open |-> "lock", lock |-> "check", check |-> "decide",
     decide |-> "append", append |-> "seal", seal |-> "render",
     render |-> "cache", cache |-> "idle"]

cmd_transition ==
    [idle |-> "open", open |-> "check", check |-> "lock", lock |-> "decide",
     decide |-> "append", append |-> "seal", seal |-> "render",
     render |-> "cache", cache |-> "idle"]

Slip_EventUnsealed ==
    [idle |-> "open", open |-> "lock", lock |-> "append", append |-> "render",
     render |-> "idle"]

(* event, set complete and authed-event; record_and_render is their body.   *)
cmd_event ==
    [idle |-> "open", open |-> "lock", lock |-> "append", append |-> "seal",
     seal |-> "render", render |-> "idle"]

(* The daemon loads the manifest once under the shared lock, to report one  *)
(* that cannot be loaded, before it does as cmd_event does.                 *)
handle_record_event ==
    [idle |-> "open", open |-> "share", share |-> "peek", peek |-> "lock",
     lock |-> "append", append |-> "seal", seal |-> "render",
     render |-> "idle"]

(* Checkpoints and reseals append and seal, and render nothing.             *)
cmd_ledger_checkpoint ==
    [idle |-> "open", open |-> "lock", lock |-> "append", append |-> "seal",
     seal |-> "drop", drop |-> "idle"]

cmd_reseal == cmd_ledger_checkpoint

cmd_hook_eval ==
    [idle |-> "open", open |-> "check", check |-> "lock", lock |-> "append",
     append |-> "seal", seal |-> "drop", drop |-> "idle"]

(* Items one by one, each as a transition; then the renders, once, under a  *)
(* lock of their own and from the ledger as it then is.                     *)
cmd_batch ==
    [idle |-> "open", open |-> "item", item |-> "check", check |-> "lock",
     lock |-> "decide", decide |-> "append", append |-> "seal",
     seal |-> "drop", drop |-> "item", relock |-> "read", read |-> "render",
     render |-> "cache", cache |-> "idle"]

cmd_render ==
    [idle |-> "lock", lock |-> "read", read |-> "render", render |-> "idle"]

cmd_manifest_verify ==
    [idle |-> "share", share |-> "hash", hash |-> "idle"]

Flow == [transition |-> cmd_transition, event |-> cmd_event,
         daemon_event |-> handle_record_event,
         checkpoint |-> cmd_ledger_checkpoint, reseal |-> cmd_reseal,
         hook_eval |-> cmd_hook_eval, batch |-> cmd_batch,
         render |-> cmd_render, verify |-> cmd_manifest_verify]

Phase == {"idle", "open", "item", "check", "lock", "decide", "append",
          "seal", "drop", "relock", "read", "render", "cache", "share",
          "peek", "hash"}

Writers == {"transition", "batch"}     \* the commands that move the machine

(* command is the transition's name; records, the events a command appends  *)
(* (a hook may auto-record several, every other command one).  A command    *)
(* line that is refused for what it asks to record (a type that is declared *)
(* restricted, a declared field amiss) ends before it locks or writes.      *)
Job == [cmd : DOMAIN Flow, command : CommandNames, records : Seq(Event)]

Files == Views \cup {"ledger"}
Triggers == {"on_transition", "all"} \cup Types

ASSUME NamesAssumption == /\ NoProc \notin Procs
                          /\ NoState \notin States
                          /\ "ledger" \notin Views
                          /\ {"on_transition", "all"} \cap Types = {}
ASSUME RendersAssumption == RendersOn \in [Triggers -> Seq(Views)]
ASSUME JobsAssumption == Jobs # {} /\ Jobs \subseteq Job /\ GateJobs \subseteq Jobs
ASSUME BoundsAssumption == MaxEntries \in Nat /\ MaxItems \in Nat /\ IsFiniteSet(Procs)

VARIABLES
    ledger,     \* the ledger file
    manifest,   \* manifest.json: the contents each file was sealed with
    view,       \* the rendered files
    cache,      \* status-cache.json
    writer,     \* the process holding the manifest lock exclusively
    readers,    \* those holding it shared
    loose,      \* files a command that failed or was killed left unsealed
    pc,         \* the phase each process is in
    loc         \* what each process has in memory

disk == <<ledger, manifest, view, cache>>
locks == <<writer, readers>>
vars == <<ledger, manifest, view, cache, writer, readers, loose, pc, loc>>

(* mem is the length of the ledger in memory; man, the manifest loaded;     *)
(* owed, the entries prepared and not appended yet; emitted, the event      *)
(* types appended; todo, the render passes left, and rendered the views the *)
(* first of them has written; reached, the state transitioned to; unread,   *)
(* the files left to hash and found, the mismatches; child, the process a   *)
(* gate command runs in; items, how many more a batch may be given.         *)
Local == [job : Job, mem : Nat, man : [Files -> Nat], owed : Seq(Entry),
          emitted : Seq(Types), todo : Seq(Triggers), rendered : Nat,
          reached : States \cup {NoState}, unread : SUBSET Files,
          found : SUBSET Files, child : Procs \cup {NoProc}, items : Nat]

TypeOK ==
    /\ ledger \in Seq(Entry)
    /\ manifest \in [Files -> Nat]
    /\ view \in [Views -> Nat]
    /\ cache \in States
    /\ writer \in Procs \cup {NoProc}
    /\ readers \subseteq Procs
    /\ loose \subseteq Files
    /\ pc \in [Procs -> Phase]
    /\ loc \in [Procs -> Local]

Untracked == [f \in Files |-> 0]

Fresh(j) ==
    [job |-> j, mem |-> 0, man |-> Untracked,
     owed |-> [n \in DOMAIN j.records |-> Recorded(j.records[n])],
     emitted |-> <<>>, todo |-> <<>>, rendered |-> 0, reached |-> NoState,
     unread |-> {}, found |-> {}, child |-> NoProc, items |-> MaxItems]

(* What an idle process holds is of no consequence: nothing survives exit.  *)
NoJob == CHOOSE j \in Jobs : TRUE

(* sahjhan init: a genesis entry, sealed; the status cache, written.        *)
Init ==
    /\ ledger = <<Genesis>>
    /\ manifest = [Untracked EXCEPT !["ledger"] = 1]
    /\ view = [v \in Views |-> 0]
    /\ cache = InitialState
    /\ writer = NoProc
    /\ readers = {}
    /\ loose = {}
    /\ pc = [p \in Procs |-> "idle"]
    /\ loc = [p \in Procs |-> Fresh(NoJob)]

-----------------------------------------------------------------------------
Content(f) == IF f = "ledger" THEN Len(ledger) ELSE view[f]
Unsealed == {f \in Files : Content(f) # manifest[f]}

Cmd(p) == loc[p].job.cmd
NextPhase(p) == Flow[Cmd(p)][pc[p]]
Goto(p) == pc' = [pc EXCEPT ![p] = NextPhase(p)]
Remember(p, l) == loc' = [loc EXCEPT ![p] = l]

InMemory(p) == Prefix(ledger, loc[p].mem)

(* A parent waits for the process its gate command runs in.                 *)
Waiting(p) == loc[p].child # NoProc /\ pc[loc[p].child] # "idle"

(* Leaving: the process exits and the kernel drops its locks.  Quit is a    *)
(* refusal, which has written nothing; Die, a failure after which what the  *)
(* process wrote may be left unsealed.                                      *)
Exit(p) ==
    /\ pc' = [pc EXCEPT ![p] = "idle"]
    /\ Remember(p, Fresh(NoJob))
    /\ writer' = IF writer = p THEN NoProc ELSE writer
    /\ readers' = readers \ {p}
    /\ UNCHANGED disk

Quit(p) == Exit(p) /\ UNCHANGED loose
Die(p) == Exit(p) /\ loose' = IF writer = p THEN loose \cup Unsealed ELSE loose

-----------------------------------------------------------------------------
(* Starting, reading the ledger, running the gates.                         *)

(* The daemon answers one request at a time; a process that a gate command  *)
(* ran in is not another command's until the gate has read its answer.      *)
Launch(p, j) ==
    /\ pc[p] = "idle"
    /\ \A q \in Procs : loc[q].child # p
    /\ j.cmd = "daemon_event" =>
          \A q \in Procs : pc[q] = "idle" \/ Cmd(q) # "daemon_event"
    /\ pc' = [pc EXCEPT ![p] = Flow[j.cmd]["idle"]]

Start(p, j) ==
    /\ Launch(p, j)
    /\ Remember(p, Fresh(j))
    /\ UNCHANGED <<disk, locks, loose>>

(* The render passes of a command, by trigger.                              *)
Passes(p) ==
    CASE Cmd(p) = "render" -> <<"all">>
      [] Cmd(p) \in Writers -> <<"on_transition">> \o loc[p].emitted
      [] OTHER -> loc[p].emitted

(* Ledger::open; or, under the lock, cmd_render's open and a batch's reload.*)
ReadLedger(p) ==
    /\ pc[p] \in {"open", "read"}
    /\ Goto(p)
    /\ Remember(p, [loc[p] EXCEPT
          !.mem = Len(ledger),
          !.todo = IF pc[p] = "read" THEN Passes(p) ELSE <<>>])
    /\ UNCHANGED <<disk, locks, loose>>

Slip_OneItemMore(p) ==
    /\ pc[p] = "item"
    /\ Remember(p, [loc[p] EXCEPT !.items = @ - 1])
    /\ Goto(p)
    /\ UNCHANGED <<disk, locks, loose>>

(* A batch takes its items in turn: however many its queries return, there  *)
(* is a next one or there is none.                                          *)
NextItem(p) ==
    /\ pc[p] = "item"
    /\ \/ /\ loc[p].items > 0
          /\ Remember(p, [loc[p] EXCEPT !.items = @ - 1])
          /\ Goto(p)
       \/ loc' = loc /\ pc' = [pc EXCEPT ![p] = "relock"]
    /\ UNCHANGED <<disk, locks, loose>>

(* The query that names a step's items fails, and with it the batch: the    *)
(* items it has applied stay, not rendered.                                 *)
QueryFails(p) == pc[p] = "item" /\ Quit(p)

(* A gate command, of a transition's candidate or of a hook, runs sahjhan   *)
(* itself; the parent waits for it.                                         *)
RunGateCommand(p, q, j) ==
    /\ pc[p] = "check"
    /\ loc[p].child = NoProc
    /\ \/ Cmd(p) = "hook_eval"
       \/ \E i \in Candidates(loc[p].job.command, InMemory(p)) :
             Transitions[i].attested > 0
    /\ q # p
    /\ Launch(q, j)
    /\ loc' = [loc EXCEPT ![p] = [loc[p] EXCEPT !.child = q], ![q] = Fresh(j)]
    /\ UNCHANGED <<disk, locks, loose>>

(* prepare_transition: the first candidate whose gates all pass on the      *)
(* ledger in memory.  The ledger is then read again, for the gate commands  *)
(* may have recorded events; the gates are not.                             *)
Prepare(p) ==
    /\ pc[p] = "check"
    /\ ~Waiting(p)
    /\ Cmd(p) \in Writers
    /\ \E i \in DOMAIN Transitions :
          /\ Chosen(i, loc[p].job.command, InMemory(p))
          /\ Remember(p, [loc[p] EXCEPT !.owed = Group(i), !.mem = Len(ledger),
                                     !.child = NoProc])
    /\ Goto(p)
    /\ UNCHANGED <<disk, locks, loose>>

(* Every candidate was blocked: a batch names the refusal and goes on.      *)
SkipItem(p) ==
    /\ pc[p] = "check"
    /\ ~Waiting(p)
    /\ Cmd(p) = "batch"
    /\ Candidates(loc[p].job.command, InMemory(p)) # {}
    /\ \A i \in Candidates(loc[p].job.command, InMemory(p)) :
          MayFail(i, InMemory(p))
    /\ pc' = [pc EXCEPT ![p] = "item"]
    /\ Remember(p, [loc[p] EXCEPT !.child = NoProc])
    /\ UNCHANGED <<disk, locks, loose>>

(* The command ends at the gates: there is no candidate, every candidate    *)
(* is blocked, or an emit of the chosen one cannot be resolved.             *)
Refuse(p) ==
    LET mine == Candidates(loc[p].job.command, InMemory(p)) IN
    /\ pc[p] = "check"
    /\ ~Waiting(p)
    /\ Cmd(p) \in Writers
    /\ \/ mine = {}
       \/ Cmd(p) = "transition" /\ \A i \in mine : MayFail(i, InMemory(p))
       \/ \E i \in mine : /\ Chosen(i, loc[p].job.command, InMemory(p))
                          /\ Transitions[i].emits # <<>>
    /\ Quit(p)

(* Hook evaluation: rules that match ask for auto-records, or none does.    *)
EvaluateHooks(p) ==
    /\ pc[p] = "check"
    /\ ~Waiting(p)
    /\ Cmd(p) = "hook_eval"
    /\ \/ /\ Goto(p)
          /\ Remember(p, [loc[p] EXCEPT !.child = NoProc])
          /\ UNCHANGED <<disk, locks, loose>>
       \/ Quit(p)
-----------------------------------------------------------------------------
(* The manifest lock.  Both kinds load the manifest once they hold it.      *)

WriterMayEnter == writer = NoProc /\ readers = {}

Slip_LockWithoutLoad(p) ==
    /\ pc[p] \in {"lock", "relock"}
    /\ WriterMayEnter
    /\ writer' = p
    /\ loc' = loc
    /\ Goto(p)
    /\ UNCHANGED <<disk, readers, loose>>

TakeLock(p) ==
    /\ pc[p] \in {"lock", "relock"}
    /\ WriterMayEnter
    /\ writer' = p
    /\ Remember(p, [loc[p] EXCEPT !.man = manifest])
    /\ Goto(p)
    /\ UNCHANGED <<disk, readers, loose>>

Slip_VerifyUnlocked(p) ==
    /\ pc[p] = "share"
    /\ readers' = readers \cup {p}
    /\ Remember(p, [loc[p] EXCEPT !.man = manifest, !.unread = Files])
    /\ Goto(p)
    /\ UNCHANGED <<disk, writer, loose>>

TakeShared(p) ==
    /\ pc[p] = "share"
    /\ writer = NoProc
    /\ readers' = readers \cup {p}
    /\ Remember(p, [loc[p] EXCEPT !.man = manifest, !.unread = Files])
    /\ Goto(p)
    /\ UNCHANGED <<disk, writer, loose>>

Slip_SharedWaitsForever(p) ==
    /\ pc[p] \in {"lock", "relock"} /\ ~WriterMayEnter
    /\ Quit(p)

(* Thirty seconds of polling: the command gives up and has changed nothing. *)
TimeOut(p) ==
    /\ \/ pc[p] \in {"lock", "relock"} /\ ~WriterMayEnter
       \/ pc[p] = "share" /\ writer # NoProc
    /\ Quit(p)

(* drop(lock), wherever a command has more to do after it or ends with it.  *)
Finished(p) ==
    \/ pc[p] \in {"drop", "peek"}
    \/ pc[p] = "render" /\ loc[p].todo = <<>>
    \/ pc[p] = "hash" /\ loc[p].unread = {}

Unlock(p) ==
    /\ Finished(p)
    /\ writer' = IF writer = p THEN NoProc ELSE writer
    /\ readers' = readers \ {p}
    /\ Remember(p, IF NextPhase(p) = "idle" THEN Fresh(NoJob)
                   ELSE [loc[p] EXCEPT !.man = Untracked])
    /\ Goto(p)
    /\ UNCHANGED <<disk, loose>>

-----------------------------------------------------------------------------
(* Appending and sealing, under the lock.                                   *)

(* commit_transition reads the ledger again and compares the state its      *)
(* gates were checked in.                                                   *)
Planned(p) == Transitions[loc[p].owed[1].trans]

Slip_CommitUnchecked(p) ==
    /\ pc[p] = "decide"
    /\ Remember(p, [loc[p] EXCEPT !.mem = Len(ledger),
                                  !.reached = Planned(p).to])
    /\ Goto(p)
    /\ UNCHANGED <<disk, locks, loose>>

Decide(p) ==
    /\ pc[p] = "decide"
    /\ StateOf(ledger) = Planned(p).from
    /\ Remember(p, [loc[p] EXCEPT !.mem = Len(ledger),
                                  !.reached = Planned(p).to])
    /\ Goto(p)
    /\ UNCHANGED <<disk, locks, loose>>

StateMoved(p) ==
    /\ pc[p] = "decide"
    /\ StateOf(ledger) # Planned(p).from
    /\ Quit(p)

(* A batch renders once for each type it emitted.                           *)
WithEmitted(p, x) ==
    IF \/ ~IsEvent(x)
       \/ /\ Cmd(p) = "batch"
          /\ \E n \in DOMAIN loc[p].emitted : loc[p].emitted[n] = x.type
    THEN loc[p].emitted
    ELSE Append(loc[p].emitted, x.type)

NextOwed(p) == IF Len(loc[p].owed) > 1 THEN pc' = pc ELSE Goto(p)

(* The append pushes its entry on a copy it has not brought up to date.     *)
Slip_MemoryBehind(p) ==
    /\ pc[p] = "append"
    /\ loc[p].owed # <<>>
    /\ Len(ledger) < MaxEntries
    /\ ledger' = Append(ledger, Head(loc[p].owed))
    /\ Remember(p, [loc[p] EXCEPT
          !.mem = @ + 1,
          !.owed = Tail(@),
          !.emitted = WithEmitted(p, Head(loc[p].owed))])
    /\ NextOwed(p)
    /\ UNCHANGED <<manifest, view, cache, locks, loose>>

AppendNext(p) ==
    /\ pc[p] = "append"
    /\ loc[p].owed # <<>>
    /\ Len(ledger) < MaxEntries
    /\ ledger' = Append(ledger, Head(loc[p].owed))
    /\ Remember(p, [loc[p] EXCEPT
          !.mem = Len(ledger) + 1,
          !.owed = Tail(@),
          !.emitted = WithEmitted(p, Head(loc[p].owed))])
    /\ NextOwed(p)
    /\ UNCHANGED <<manifest, view, cache, locks, loose>>

(* An append that fails ends the command, wherever in its group it is; a    *)
(* hook evaluation warns, and goes on with the next record.                 *)
AppendFails(p) ==
    /\ pc[p] = "append"
    /\ loc[p].owed # <<>>
    /\ Len(ledger) >= MaxEntries \/ "io" \in Faults
    /\ \/ Cmd(p) # "hook_eval" /\ Die(p)
       \/ /\ Cmd(p) = "hook_eval"
          /\ Remember(p, [loc[p] EXCEPT !.owed = Tail(@)])
          /\ NextOwed(p)
          /\ UNCHANGED <<disk, locks, loose>>

(* track_ledger_in_manifest and save_manifest.                              *)
Seal(p) ==
    LET sealed == [loc[p].man EXCEPT !["ledger"] = Len(ledger)] IN
    /\ pc[p] = "seal"
    /\ manifest' = sealed
    /\ loose' = {f \in loose : Content(f) # sealed[f]}
    /\ Remember(p, [loc[p] EXCEPT
          !.man = sealed,
          !.todo = IF NextPhase(p) = "render" THEN Passes(p) ELSE <<>>])
    /\ Goto(p)
    /\ UNCHANGED <<ledger, view, cache, locks>>

SealFails(p) ==
    /\ pc[p] = "seal"
    /\ "io" \in Faults
    /\ Die(p)
-----------------------------------------------------------------------------
(* Rendering, still under the lock: pass by pass, and in a pass view by     *)
(* view, each written and tracked in the manifest in memory.                *)

Pass(p) == RendersOn[Head(loc[p].todo)]
PassOpen(p) == pc[p] = "render" /\ loc[p].todo # <<>>

WriteRender(p) ==
    /\ PassOpen(p)
    /\ loc[p].rendered < Len(Pass(p))
    /\ LET v == Pass(p)[loc[p].rendered + 1] IN
          /\ view' = [view EXCEPT ![v] = loc[p].mem]
          /\ Remember(p, [loc[p] EXCEPT !.man[v] = loc[p].mem,
                                        !.rendered = @ + 1])
    /\ UNCHANGED <<ledger, manifest, cache, locks, loose, pc>>

PassOver(p) ==
    Remember(p, [loc[p] EXCEPT !.todo = Tail(@), !.rendered = 0])

Slip_PassUnsaved(p) ==
    /\ PassOpen(p)
    /\ loc[p].rendered = Len(Pass(p))
    /\ PassOver(p)
    /\ UNCHANGED <<disk, locks, loose, pc>>

(* A pass that rendered something saves the manifest.                       *)
EndPass(p) ==
    /\ PassOpen(p)
    /\ loc[p].rendered = Len(Pass(p))
    /\ IF loc[p].rendered > 0
       THEN /\ manifest' = loc[p].man
            /\ loose' = {f \in loose : Content(f) # loc[p].man[f]}
       ELSE UNCHANGED <<manifest, loose>>
    /\ PassOver(p)
    /\ UNCHANGED <<ledger, view, cache, locks, pc>>

(* A save that fails is not reported; the next pass goes on.                *)
SaveFails(p) ==
    /\ PassOpen(p)
    /\ loc[p].rendered = Len(Pass(p))
    /\ "io" \in Faults
    /\ loose' = loose \cup Unsealed
    /\ PassOver(p)
    /\ UNCHANGED <<disk, locks, pc>>

(* A template or a write fails, maybe after its file was replaced and       *)
(* before it was tracked.  What the pass wrote before is not saved: render  *)
(* ends here, and every other command goes on with the next pass.           *)
RenderFails(p) ==
    /\ PassOpen(p)
    /\ loc[p].rendered < Len(Pass(p))
    /\ "render" \in Faults
    /\ \/ view' = view
       \/ view' = [view EXCEPT ![Pass(p)[loc[p].rendered + 1]] = loc[p].mem]
    /\ loose' = loose \cup {v \in Views : view'[v] # manifest[v]}
    /\ IF Cmd(p) = "render"
       THEN /\ pc' = [pc EXCEPT ![p] = "idle"]
            /\ Remember(p, Fresh(NoJob))
            /\ writer' = NoProc
            /\ readers' = readers
       ELSE PassOver(p) /\ UNCHANGED <<pc, locks>>
    /\ UNCHANGED <<ledger, manifest, cache>>

(* The status cache is written when the lock has been dropped; a write that *)
(* fails is warned of.                                                      *)
WriteCache(p) ==
    /\ pc[p] = "cache"
    /\ \/ cache' = IF loc[p].reached = NoState THEN cache ELSE loc[p].reached
       \/ "io" \in Faults /\ cache' = cache
    /\ Goto(p)
    /\ Remember(p, Fresh(NoJob))
    /\ UNCHANGED <<ledger, manifest, view, locks, loose>>

(* manifest verify: each file against the hash it was loaded with.          *)
HashFile(p, f) ==
    /\ pc[p] = "hash"
    /\ f \in loc[p].unread
    /\ Remember(p, [loc[p] EXCEPT
          !.unread = @ \ {f},
          !.found = IF loc[p].man[f] \in {0, Content(f)} THEN @ ELSE @ \cup {f}])
    /\ UNCHANGED <<disk, locks, loose, pc>>

Kill(p) ==
    /\ "kill" \in Faults
    /\ pc[p] # "idle"
    /\ Die(p)

-----------------------------------------------------------------------------
(* The steps a running command takes of its own accord.                     *)
Proceed(p) ==
    \/ ReadLedger(p) \/ NextItem(p) \/ QueryFails(p)
    \/ Prepare(p) \/ SkipItem(p) \/ Refuse(p) \/ EvaluateHooks(p)
    \/ TakeLock(p) \/ TakeShared(p) \/ TimeOut(p) \/ Unlock(p)
    \/ Decide(p) \/ StateMoved(p) \/ AppendNext(p) \/ AppendFails(p)
    \/ Seal(p) \/ SealFails(p)
    \/ WriteRender(p) \/ EndPass(p) \/ SaveFails(p) \/ RenderFails(p)
    \/ WriteCache(p) \/ \E f \in Files : HashFile(p, f)

Next ==
    \E p \in Procs :
        \/ Proceed(p)
        \/ Kill(p)
        \/ \E j \in Jobs : Start(p, j)
        \/ \E q \in Procs, j \in GateJobs : RunGateCommand(p, q, j)

Spec == Init /\ [][Next]_vars

(* A process runs until its command returns; no other needs to be started.  *)
FairSpec == Spec /\ \A p \in Procs : WF_vars(Proceed(p))

-----------------------------------------------------------------------------
(* Properties.                                                              *)

(* Whatever is recorded in between, a state_transition somebody wrote by    *)
(* hand included: a transition the engine takes leaves from the state the   *)
(* ledger is in (commit_transition refuses with StateMoved), on the events  *)
(* its gates ask for, and nothing comes between its entries.                *)
LedgerLawful ==
    FromTruthful(ledger) /\ EvidencePrecedes(ledger) /\ GroupsContiguous(ledger)

(* While no writer is at work, a file differs from its seal in the manifest *)
(* only if a command that failed, or warned, left it so: no other leaves    *)
(* one, and no writer saves older hashes over another's.                    *)
SealedUnlessLoose ==
    writer = NoProc => Unsealed \subseteq loose

(* What manifest verify reports is never a writer between a write and its   *)
(* seal: a mismatch it finds is one a failed command left.                  *)
VerdictTrue ==
    \A p \in Procs : pc[p] = "hash" => loc[p].found \subseteq loose

(* A command whose gate command runs sahjhan holds no manifest lock, which  *)
(* its own child would wait for.                                            *)
NoWaitOnParent ==
    \A p \in Procs : loc[p].child # NoProc => writer # p /\ p \notin readers

(* No seal is replaced by an older one, and no rendered file by the view of *)
(* a shorter ledger: what lock_manifest is held across the appends and the  *)
(* renders for.                                                             *)
SealsNeverRegress ==
    [][\A f \in Files : manifest'[f] >= manifest[f]]_vars
ViewsNeverRegress ==
    [][\A v \in Views : view'[v] >= view[v]]_vars

(* The commands together do nothing to the ledger the protocol forbids.     *)
Abstract == INSTANCE Protocol
ImplementsProtocol == Abstract!Spec

(* Every command ends, by returning or by timing out on the lock.           *)
EveryCommandEnds ==
    \A p \in Procs : pc[p] # "idle" ~> pc[p] = "idle"

-----------------------------------------------------------------------------
(* What the documents say and the code does not keep.                       *)

(* docs/gates.md:59: max_count "turns the gate into a budget" that "fails   *)
(* once the third lands": no transition past it is recorded.                *)
BudgetRespected ==
    \A n \in Taken(ledger) : Budget(ledger[n].trans, Prefix(ledger, n - 1))
=============================================================================
