---------------------------- MODULE Engine_proofs ----------------------------
(***************************************************************************)
(* What the commands keep, for every protocol, any number of processes and  *)
(* every command they run, whatever runs at once, is killed or fails.       *)
(* First, the rules of a protocol, and the engine's types and its locks.    *)
(* Then the ledger: each append is one the protocol allows, and so the      *)
(* ledger is lawful.  Then the seals: no command that returns success       *)
(* leaves a file other than its seal, and no seal is replaced by an older   *)
(* one; manifest verify finds no writer half way through, and no command    *)
(* holds the manifest lock while the child its gate command runs may ask    *)
(* for it.                                                                  *)
(***************************************************************************)
EXTENDS Engine, FiniteSetTheorems, SequenceTheorems, TLAPS

-----------------------------------------------------------------------------
(* The operators of Rules, for every protocol.                              *)

(* What the engine appends is an entry, and a transition's entries are a    *)
(* sequence of them.                                                        *)
LEMMA RecordedType == \A e \in Event : Recorded(e) \in Entry
BY TransitionsAssumption DEF Recorded, Entry, Event, Types

LEMMA TransitionType ==
    ASSUME NEW i \in DOMAIN Transitions
    PROVE  /\ Transitions[i] \in Transition
           /\ GroupSize(i) \in Nat \ {0}
<1>1. Transitions[i] \in Transition
  BY TransitionsAssumption
<1>2. /\ Transitions[i].attested \in Nat
      /\ Len(Transitions[i].emits) \in Nat
  BY <1>1 DEF Transition
<1> QED
  BY <1>1, <1>2 DEF GroupSize, Own

LEMMA GroupEntryType ==
    ASSUME NEW i \in DOMAIN Transitions, NEW k \in 1 .. GroupSize(i)
    PROVE  GroupEntry(i, k) \in Entry
<1>1. /\ Transitions[i].attested \in Nat
      /\ Transitions[i].emits \in Seq(Event)
      /\ Transitions[i].to \in Targets
  BY TransitionType, StatesAssumption DEF Transition
<1>2. /\ GroupEntry(i, k).type \in Types
      /\ GroupEntry(i, k).to \in Targets
  <2>1. CASE k <= Own(i)
    BY <1>1, <2>1 DEF GroupEntry, Types, EngineTypes
  <2>2. CASE ~(k <= Own(i))
    <3>1. k - Own(i) \in 1 .. Len(Transitions[i].emits) /\ k # 1
      BY <1>1, <2>2 DEF GroupSize, Own
    <3>2. Transitions[i].emits[k - Own(i)] \in Event
      BY <1>1, <3>1
    <3> QED
      BY <2>2, <3>1, <3>2 DEF GroupEntry, Event, Types
  <2> QED
    BY <2>1, <2>2
<1>3. k \in Nat /\ i \in 0 .. Len(Transitions)
  BY TransitionsAssumption, TransitionType
<1>4. GroupEntry(i, k) = [type |-> GroupEntry(i, k).type,
                          to |-> GroupEntry(i, k).to,
                          trans |-> i, part |-> k]
  BY DEF GroupEntry
<1> QED
  BY <1>2, <1>3, <1>4 DEF Entry

LEMMA GroupIsSeq ==
    ASSUME NEW i \in DOMAIN Transitions
    PROVE  /\ Group(i) \in Seq(Entry)
           /\ Len(Group(i)) = GroupSize(i)
<1>1. GroupSize(i) \in Nat
  BY TransitionType
<1>2. \A k \in 1 .. GroupSize(i) : GroupEntry(i, k) \in Entry
  BY GroupEntryType
<1> QED
  BY <1>1, <1>2 DEF Group

(* An append leaves every proper prefix of a ledger as it was.              *)
LEMMA PrefixOfAppend ==
    ASSUME NEW log \in Seq(Entry), NEW e \in Entry, NEW n \in 0 .. Len(log)
    PROVE  Prefix(Append(log, e), n) = Prefix(log, n)
BY DEF Prefix

LEMMA WholePrefix ==
    ASSUME NEW log \in Seq(Entry)
    PROVE  Prefix(log, Len(log)) = log
BY DEF Prefix

LEMMA TakenOfAppend ==
    ASSUME NEW log \in Seq(Entry), NEW e \in Entry
    PROVE  Taken(Append(log, e)) =
             IF e.part = 1 THEN Taken(log) \cup {Len(log) + 1} ELSE Taken(log)
BY DEF Taken

(* A longer ledger has no fewer events of a type: evidence once there stays.*)
LEMMA CountMonotone ==
    ASSUME NEW log \in Seq(Entry), NEW n \in 0 .. Len(log), NEW e
    PROVE  /\ CountOf(Prefix(log, n), e) \in Nat
           /\ CountOf(log, e) \in Nat
           /\ CountOf(Prefix(log, n), e) <= CountOf(log, e)
<1> DEFINE All == {m \in DOMAIN log : log[m].type = e}
           Part == {m \in DOMAIN Prefix(log, n) : Prefix(log, n)[m].type = e}
<1>1. DOMAIN log = 1 .. Len(log) /\ Len(log) \in Nat
  OBVIOUS
<1>2. IsFiniteSet(1 .. Len(log))
  BY <1>1, FS_Interval
<1>3. All \in SUBSET (1 .. Len(log))
  BY <1>1
<1>4. IsFiniteSet(All) /\ Cardinality(All) \in Nat
  BY <1>2, <1>3, FS_Subset, FS_CardinalityType
<1>5. Part \in SUBSET All
  BY <1>1 DEF Prefix
<1>6. IsFiniteSet(Part) /\ Cardinality(Part) <= Cardinality(All)
  BY <1>4, <1>5, FS_Subset
<1>7. Cardinality(Part) \in Nat
  BY <1>6, FS_CardinalityType
<1> QED
  BY <1>4, <1>6, <1>7 DEF CountOf

LEMMA EvidenceStays ==
    ASSUME NEW log \in Seq(Entry), NEW n \in 0 .. Len(log),
           NEW i \in DOMAIN Transitions, Evidence(i, Prefix(log, n))
    PROVE  Evidence(i, log)
<1> SUFFICES ASSUME NEW g \in Transitions[i].gates
             PROVE  CountOf(log, g.event) >= g.min
  BY DEF Evidence
<1>1. g.min \in Nat
  BY TransitionType DEF Transition, Gate
<1>2. CountOf(Prefix(log, n), g.event) >= g.min
  BY DEF Evidence
<1> QED
  BY <1>1, <1>2, CountMonotone

-----------------------------------------------------------------------------
(* An entry appended after a lawful ledger keeps it lawful if, beginning a  *)
(* group, it leaves from the state the ledger is in on the evidence its     *)
(* gates ask for, and if, continuing a group, it follows the group's last.  *)
LEMMA LawfulAppend ==
    ASSUME NEW log \in Seq(Entry), NEW e \in Entry,
           FromTruthful(log), EvidencePrecedes(log), GroupsContiguous(log),
           e.part = 1 =>
              Transitions[e.trans].from = StateOf(log) /\ Evidence(e.trans, log),
           e.part > 1 =>
              /\ log # <<>>
              /\ log[Len(log)].trans = e.trans
              /\ log[Len(log)].part = e.part - 1
    PROVE  /\ FromTruthful(Append(log, e))
           /\ EvidencePrecedes(Append(log, e))
           /\ GroupsContiguous(Append(log, e))
<1> DEFINE new == Append(log, e)
<1>0. /\ Len(log) \in Nat
      /\ Taken(log) \subseteq 1 .. Len(log)
  BY DEF Taken
<1>1. \A n \in 1 .. Len(log) : /\ new[n] = log[n]
                               /\ Prefix(new, n - 1) = Prefix(log, n - 1)
  <2> TAKE n \in 1 .. Len(log)
  <2>1. n - 1 \in 0 .. Len(log)
    BY <1>0
  <2> QED
    BY <2>1, PrefixOfAppend
<1>2. /\ new[Len(log) + 1] = e
      /\ Prefix(new, Len(log)) = log
  <2>1. Len(log) \in 0 .. Len(log)
    BY <1>0
  <2> QED
    BY <2>1, PrefixOfAppend, WholePrefix
<1>3. \A n \in Taken(new) :
         \/ n \in Taken(log)
         \/ n = Len(log) + 1 /\ e.part = 1
  BY TakenOfAppend
<1>4. FromTruthful(new)
  <2> SUFFICES ASSUME NEW n \in Taken(new)
               PROVE  Transitions[new[n].trans].from = StateOf(Prefix(new, n - 1))
    BY DEF FromTruthful
  <2>1. CASE n \in Taken(log)
    BY <1>0, <1>1, <2>1 DEF FromTruthful
  <2>2. CASE n = Len(log) + 1 /\ e.part = 1
    <3>1. n - 1 = Len(log)
      BY <1>0, <2>2
    <3> QED
      BY <1>2, <2>2, <3>1
  <2> QED
    BY <1>3, <2>1, <2>2
<1>5. EvidencePrecedes(new)
  <2> SUFFICES ASSUME NEW n \in Taken(new)
               PROVE  Evidence(new[n].trans, Prefix(new, n - 1))
    BY DEF EvidencePrecedes
  <2>1. CASE n \in Taken(log)
    BY <1>0, <1>1, <2>1 DEF EvidencePrecedes
  <2>2. CASE n = Len(log) + 1 /\ e.part = 1
    <3>1. n - 1 = Len(log)
      BY <1>0, <2>2
    <3> QED
      BY <1>2, <2>2, <3>1
  <2> QED
    BY <1>3, <2>1, <2>2
<1>6. GroupsContiguous(new)
  <2> SUFFICES ASSUME NEW n \in DOMAIN new, new[n].part > 1
               PROVE  /\ n > 1
                      /\ new[n - 1].trans = new[n].trans
                      /\ new[n - 1].part = new[n].part - 1
    BY DEF GroupsContiguous
  <2>1. CASE n \in 1 .. Len(log)
    <3>1. n > 1 /\ log[n - 1].trans = log[n].trans /\ log[n - 1].part = log[n].part - 1
      BY <1>1, <2>1 DEF GroupsContiguous
    <3>2. n - 1 \in 1 .. Len(log)
      BY <1>0, <2>1, <3>1
    <3> QED
      BY <1>1, <2>1, <3>1, <3>2
  <2>2. CASE n = Len(log) + 1
    <3>1. Len(log) \in 1 .. Len(log) /\ n - 1 = Len(log)
      BY <1>0, <1>2, <2>2
    <3> QED
      BY <1>0, <1>1, <1>2, <2>2, <3>1
  <2>3. DOMAIN new = 1 .. Len(log) + 1
    BY <1>0
  <2> QED
    BY <1>0, <2>1, <2>2, <2>3
<1> QED
  BY <1>4, <1>5, <1>6

(* A lawful ledger, never without its genesis; and the entries that may     *)
(* come next: the first of a transition, the next of the last one's group,  *)
(* or an event recorded on its own.                                         *)
Lawful(log) ==
    /\ log \in Seq(Entry)
    /\ log # <<>>
    /\ FromTruthful(log)
    /\ EvidencePrecedes(log)
    /\ GroupsContiguous(log)

Begins(log, e) ==
    \E i \in DOMAIN Transitions :
        /\ e = GroupEntry(i, 1)
        /\ StateOf(log) = Transitions[i].from
        /\ Evidence(i, log)
Continues(log, e) ==
    \E i \in DOMAIN Transitions : \E k \in 1 .. GroupSize(i) :
        /\ log[Len(log)] = GroupEntry(i, k)
        /\ k < GroupSize(i)
        /\ e = GroupEntry(i, k + 1)
Records(e) == \E t \in Event : e = Recorded(t)
Allowed(log, e) == Begins(log, e) \/ Continues(log, e) \/ Records(e)

LEMMA GenesisLawful == Lawful(<<Genesis>>)
<1> DEFINE log == <<Genesis>>
<1>1. Genesis \in Entry
  BY TransitionsAssumption, StatesAssumption DEF Genesis, Entry, Types, EngineTypes
<1>2. DOMAIN log = {1} /\ log[1] = Genesis /\ log \in Seq(Entry) /\ log # <<>>
  BY <1>1
<1> HIDE DEF log
<1>3. Taken(log) = {}
  BY <1>2 DEF Taken, Genesis
<1>4. GroupsContiguous(log)
  BY <1>2 DEF GroupsContiguous, Genesis
<1>5. Lawful(log)
  BY <1>2, <1>3, <1>4 DEF Lawful, FromTruthful, EvidencePrecedes
<1> QED
  BY <1>5 DEF log

LEMMA AllowedLawful ==
    ASSUME NEW log, NEW e, Lawful(log), Allowed(log, e)
    PROVE  Lawful(Append(log, e)) /\ e \in Entry
<1>0. /\ log \in Seq(Entry)
      /\ log # <<>>
      /\ FromTruthful(log) /\ EvidencePrecedes(log) /\ GroupsContiguous(log)
  BY DEF Lawful
<1>1. CASE Begins(log, e)
  <2>1. PICK i \in DOMAIN Transitions :
           /\ e = GroupEntry(i, 1)
           /\ StateOf(log) = Transitions[i].from
           /\ Evidence(i, log)
    BY <1>1 DEF Begins
  <2>2. 1 \in 1 .. GroupSize(i)
    BY TransitionType
  <2>3. e \in Entry /\ e.trans = i /\ e.part = 1
    BY <2>1, <2>2, GroupEntryType DEF GroupEntry
  <2>4. /\ FromTruthful(Append(log, e))
        /\ EvidencePrecedes(Append(log, e))
        /\ GroupsContiguous(Append(log, e))
    BY <1>0, <2>1, <2>3, LawfulAppend
  <2> QED
    BY <1>0, <2>3, <2>4 DEF Lawful
<1>2. CASE Continues(log, e)
  <2>0. PICK i \in DOMAIN Transitions : \E k \in 1 .. GroupSize(i) :
           /\ log[Len(log)] = GroupEntry(i, k)
           /\ k < GroupSize(i)
           /\ e = GroupEntry(i, k + 1)
    BY <1>2 DEF Continues
  <2>1. PICK k \in 1 .. GroupSize(i) :
           /\ log[Len(log)] = GroupEntry(i, k)
           /\ k < GroupSize(i)
           /\ e = GroupEntry(i, k + 1)
    BY <2>0
  <2>2. k + 1 \in 1 .. GroupSize(i) /\ k + 1 # 1 /\ k = (k + 1) - 1
    BY <2>1, TransitionType
  <2>3. e \in Entry /\ e.trans = i /\ e.part = k + 1
    BY <2>1, <2>2, GroupEntryType DEF GroupEntry
  <2>4. e.part # 1
    BY <2>2, <2>3
  <2>5. log[Len(log)].trans = e.trans /\ log[Len(log)].part = e.part - 1
    BY <2>1, <2>2, <2>3 DEF GroupEntry
  <2>6. /\ FromTruthful(Append(log, e))
        /\ EvidencePrecedes(Append(log, e))
        /\ GroupsContiguous(Append(log, e))
    BY <1>0, <2>3, <2>4, <2>5, LawfulAppend
  <2> QED
    BY <1>0, <2>3, <2>6 DEF Lawful
<1>3. CASE Records(e)
  <2>1. PICK t \in Event : e = Recorded(t)
    BY <1>3 DEF Records
  <2>2. e \in Entry /\ e.part = 0
    BY <2>1, RecordedType DEF Recorded
  <2>4. /\ FromTruthful(Append(log, e))
        /\ EvidencePrecedes(Append(log, e))
        /\ GroupsContiguous(Append(log, e))
    BY <1>0, <2>2, LawfulAppend
  <2> QED
    BY <1>0, <2>2, <2>4 DEF Lawful
<1> QED
  BY <1>1, <1>2, <1>3 DEF Allowed

-----------------------------------------------------------------------------
(* The engine: its phases, its types and its locks.                         *)

(* The phases a process is in while it holds the manifest lock.             *)
Exclusive == {"decide", "append", "seal", "drop", "read", "render"}
Shared == {"peek", "hash"}
Commands == DOMAIN Flow

(* The flows: where a phase of a command leads.                             *)
FlowStep(c, ph) ==
    LET next == Flow[c][ph] IN
    /\ next \in DOMAIN Flow[c]
    /\ next \in Phase
    /\ next \in Exclusive <=>
          ph \in {"lock", "relock", "decide", "append", "seal", "read"}
    /\ next \in Shared <=> ph = "share"

LEMMA FlowFacts ==
    \A c \in Commands :
       /\ "idle" \in DOMAIN Flow[c]
       /\ DOMAIN Flow[c] \subseteq Phase
       /\ \A ph \in DOMAIN Flow[c] : FlowStep(c, ph)
<1> SUFFICES ASSUME NEW c \in Commands
             PROVE  /\ "idle" \in DOMAIN Flow[c]
                    /\ DOMAIN Flow[c] \subseteq Phase
                    /\ \A ph \in DOMAIN Flow[c] : FlowStep(c, ph)
  OBVIOUS
<1> USE DEF FlowStep, Exclusive, Shared, Phase
<1>1. CASE Flow[c] = cmd_transition
  BY <1>1 DEF cmd_transition
<1>2. CASE Flow[c] = cmd_event
  BY <1>2 DEF cmd_event
<1>3. CASE Flow[c] = handle_record_event
  BY <1>3 DEF handle_record_event
<1>4. CASE Flow[c] = cmd_ledger_checkpoint
  BY <1>4 DEF cmd_ledger_checkpoint
<1>5. CASE Flow[c] = cmd_hook_eval
  BY <1>5 DEF cmd_hook_eval
<1>6. CASE Flow[c] = cmd_batch
  BY <1>6 DEF cmd_batch
<1>7. CASE Flow[c] = cmd_render
  BY <1>7 DEF cmd_render
<1>8. CASE Flow[c] = cmd_manifest_verify
  BY <1>8 DEF cmd_manifest_verify
<1>9. \/ Flow[c] \in {cmd_transition, cmd_event, handle_record_event,
                     cmd_ledger_checkpoint, cmd_hook_eval}
      \/ Flow[c] \in {cmd_batch, cmd_render, cmd_manifest_verify}
  BY DEF Flow, Commands, cmd_reseal
<1> QED
  BY <1>1, <1>2, <1>3, <1>4, <1>5, <1>6, <1>7, <1>8, <1>9

-----------------------------------------------------------------------------
(* Types and the manifest lock.                                             *)

LEMMA JobFacts ==
    /\ NoJob \in Jobs
    /\ Jobs \subseteq Job
    /\ GateJobs \subseteq Jobs
    /\ \A j \in Job : j.cmd \in Commands
BY JobsAssumption DEF NoJob, Job, Commands

LEMMA FreshType == \A j \in Jobs : Fresh(j) \in Local /\ Fresh(j).job = j
<1> SUFFICES ASSUME NEW j \in Jobs
             PROVE  Fresh(j) \in Local /\ Fresh(j).job = j
  OBVIOUS
<1>1. j \in Job /\ j.records \in Seq(Event)
  BY JobFacts DEF Job
<1>2. \A n \in DOMAIN j.records : Recorded(j.records[n]) \in Entry
  BY <1>1, RecordedType
<1>3. [n \in DOMAIN j.records |-> Recorded(j.records[n])] \in Seq(Entry)
  BY <1>1, <1>2
<1>4. Untracked \in [Files -> Nat]
  BY DEF Untracked
<1> QED
  BY <1>1, <1>3, <1>4, BoundsAssumption DEF Fresh, Local

(* The types, with each process in a phase of the command it runs.          *)
Typed == TypeOK /\ \A p \in Procs : pc[p] \in DOMAIN Flow[Cmd(p)]

(* A process is in a phase of the critical section exactly when it holds    *)
(* the lock that phase needs, and the two kinds of lock exclude each other. *)
Locked ==
    /\ \A p \in Procs : pc[p] \in Exclusive <=> writer = p
    /\ \A p \in Procs : pc[p] \in Shared <=> p \in readers
    /\ writer # NoProc => readers = {}

LEMMA CmdType == Typed => \A p \in Procs : Cmd(p) \in Commands
BY JobFacts DEF Typed, TypeOK, Local, Cmd

(* Going to the next phase of its command, or out of it, a process is in a  *)
(* phase of its command.                                                    *)
LEMMA GotoFacts ==
    ASSUME Typed, NEW p \in Procs, Goto(p)
    PROVE  /\ pc' \in [Procs -> Phase]
           /\ FlowStep(Cmd(p), pc[p])
           /\ pc'[p] = Flow[Cmd(p)][pc[p]]
           /\ \A q \in Procs \ {p} : pc'[q] = pc[q]
<1>1. pc \in [Procs -> Phase] /\ pc[p] \in DOMAIN Flow[Cmd(p)]
  BY DEF Typed, TypeOK
<1>2. FlowStep(Cmd(p), pc[p])
  BY <1>1, CmdType, FlowFacts
<1> QED
  BY <1>1, <1>2 DEF Goto, NextPhase, FlowStep

LEMMA PassesType ==
    ASSUME Typed, NEW p \in Procs
    PROVE  Passes(p) \in Seq(Triggers)
<1>1. loc[p].emitted \in Seq(Types)
  BY DEF Typed, TypeOK, Local
<1>2. loc[p].emitted \in Seq(Triggers)
  BY <1>1 DEF Triggers
<1>3. <<"all">> \in Seq(Triggers) /\ <<"on_transition">> \in Seq(Triggers)
  BY DEF Triggers
<1>4. <<"on_transition">> \o loc[p].emitted \in Seq(Triggers)
  BY <1>2, <1>3
<1> QED
  BY <1>2, <1>3, <1>4 DEF Passes

LEMMA ExitTyped ==
    ASSUME Typed, NEW p \in Procs, Exit(p), loose' \subseteq Files
    PROVE  Typed'
<1>1. Fresh(NoJob) \in Local /\ Fresh(NoJob).job \in Job
  BY FreshType, JobFacts
<1>2. "idle" \in Phase /\ \A c \in Commands : "idle" \in DOMAIN Flow[c]
  BY FlowFacts DEF Phase
<1>3. Fresh(NoJob).job.cmd \in Commands
  BY <1>1, JobFacts
<1>4. TypeOK'
  BY <1>1, <1>2 DEF Typed, TypeOK, Exit, Remember, disk
<1>5. \A q \in Procs : pc'[q] \in DOMAIN Flow[Cmd(q)']
  BY <1>1, <1>2, <1>3 DEF Typed, TypeOK, Exit, Remember, Cmd
<1> QED
  BY <1>4, <1>5 DEF Typed

LEMMA ExitLocked ==
    ASSUME Typed, Locked, NEW p \in Procs, Exit(p)
    PROVE  Locked'
BY NamesAssumption DEF Typed, TypeOK, Locked, Exit, Exclusive, Shared

LEMMA LaunchTyped ==
    ASSUME Typed, NEW p \in Procs, NEW j \in Jobs, Launch(p, j)
    PROVE  /\ pc' \in [Procs -> Phase]
           /\ pc'[p] \in DOMAIN Flow[j.cmd]
           /\ pc'[p] \notin Exclusive /\ pc'[p] \notin Shared
           /\ \A q \in Procs \ {p} : pc'[q] = pc[q]
<1>1. j.cmd \in Commands
  BY JobFacts
<1>2. "idle" \in DOMAIN Flow[j.cmd] /\ FlowStep(j.cmd, "idle")
  BY <1>1, FlowFacts
<1> QED
  BY <1>2 DEF Launch, Typed, TypeOK, FlowStep

(* A step that keeps every job and leaves each process in a phase of its    *)
(* command keeps Typed, if it keeps the types of what it changes.           *)
PhasesKept ==
    /\ pc' \in [Procs -> Phase]
    /\ \A q \in Procs : pc'[q] \in DOMAIN Flow[Cmd(q)]
LocalsKept ==
    /\ loc' \in [Procs -> Local]
    /\ \A q \in Procs : loc'[q].job = loc[q].job
FilesKept ==
    /\ ledger' \in Seq(Entry)
    /\ manifest' \in [Files -> Nat]
    /\ view' \in [Views -> Nat]
    /\ cache' \in States
    /\ writer' \in Procs \cup {NoProc}
    /\ readers' \subseteq Procs
    /\ loose' \subseteq Files

LEMMA KeptTyped ==
    ASSUME Typed, PhasesKept, LocalsKept, FilesKept
    PROVE  Typed'
<1>1. TypeOK'
  BY DEF PhasesKept, LocalsKept, FilesKept, TypeOK
<1>2. \A q \in Procs : Cmd(q)' = Cmd(q)
  BY DEF LocalsKept, Cmd
<1> QED
  BY <1>1, <1>2 DEF PhasesKept, Typed

LEMMA GotoKept ==
    ASSUME Typed, NEW p \in Procs, Goto(p)
    PROVE  PhasesKept
<1>1. FlowStep(Cmd(p), pc[p]) /\ pc[p] \in DOMAIN Flow[Cmd(p)]
  BY CmdType, FlowFacts DEF Typed
<1> QED
  BY <1>1, GotoFacts DEF Typed, PhasesKept, FlowStep

LEMMA SamePhasesKept ==
    ASSUME Typed, UNCHANGED pc
    PROVE  PhasesKept
BY DEF Typed, TypeOK, PhasesKept

LEMMA RememberKept ==
    ASSUME Typed, NEW p \in Procs, NEW l \in Local, l.job = loc[p].job,
           Remember(p, l)
    PROVE  LocalsKept
BY DEF Typed, TypeOK, LocalsKept, Remember

LEMMA DiskKept ==
    ASSUME Typed, UNCHANGED <<disk, locks, loose>>
    PROVE  FilesKept
BY DEF Typed, TypeOK, FilesKept, disk, locks

(* Leaving its command, too, a process may forget the job it had.           *)
LEMMA IdleTyped ==
    ASSUME Typed, NEW p \in Procs, NEW j \in Jobs, Remember(p, Fresh(j)),
           pc' \in [Procs -> Phase], pc'[p] \in DOMAIN Flow[j.cmd],
           \A q \in Procs \ {p} : pc'[q] = pc[q], FilesKept
    PROVE  Typed'
<1>1. Fresh(j) \in Local /\ Fresh(j).job = j
  BY FreshType
<1>2. /\ loc' \in [Procs -> Local]
      /\ loc'[p] = Fresh(j)
      /\ \A q \in Procs \ {p} : loc'[q] = loc[q]
  BY <1>1 DEF Remember, Typed, TypeOK
<1>3. TypeOK'
  BY <1>2 DEF TypeOK, FilesKept
<1>4. \A q \in Procs : pc'[q] \in DOMAIN Flow[Cmd(q)']
  BY <1>1, <1>2 DEF Typed, Cmd
<1> QED
  BY <1>3, <1>4 DEF Typed

LEMMA QuitTyped ==
    ASSUME Typed, NEW p \in Procs, Quit(p)
    PROVE  Typed'
BY ExitTyped DEF Quit, Typed, TypeOK

LEMMA DieTyped ==
    ASSUME Typed, NEW p \in Procs, Die(p)
    PROVE  Typed'
<1>1. loose' \subseteq Files
  BY DEF Die, Typed, TypeOK, Unsealed
<1> QED
  BY <1>1, ExitTyped DEF Die

(* What a process that moves the machine waits for the lock with: all the   *)
(* entries of one transition.                                               *)
Prepared ==
    \A p \in Procs :
        pc[p] = "decide" \/ (pc[p] = "lock" /\ Cmd(p) \in Writers) =>
            \E i \in DOMAIN Transitions : loc[p].owed = Group(i)

LEMMA PlannedType ==
    ASSUME Prepared, NEW p \in Procs, pc[p] = "decide"
    PROVE  Planned(p).to \in States
<1>1. PICK i \in DOMAIN Transitions : loc[p].owed = Group(i)
  BY DEF Prepared
<1>2. Group(i)[1] = GroupEntry(i, 1)
  BY TransitionType DEF Group
<1>3. Planned(p) = Transitions[i]
  BY <1>1, <1>2 DEF Planned, GroupEntry
<1> QED
  BY <1>3, TransitionType DEF Transition

(* Which commands have the phases items are taken in, and what a command    *)
(* ends with.                                                               *)
LEMMA ItemOfBatch ==
    \A c \in Commands : "item" \in DOMAIN Flow[c] => "relock" \in DOMAIN Flow[c]
BY DEF Commands, Flow, cmd_transition, cmd_event, handle_record_event,
       cmd_ledger_checkpoint, cmd_reseal, cmd_hook_eval, cmd_batch, cmd_render,
       cmd_manifest_verify

LEMMA CacheIsLast ==
    \A c \in Commands : "cache" \in DOMAIN Flow[c] => Flow[c]["cache"] = "idle"
BY DEF Commands, Flow, cmd_transition, cmd_event, handle_record_event,
       cmd_ledger_checkpoint, cmd_reseal, cmd_hook_eval, cmd_batch, cmd_render,
       cmd_manifest_verify

LEMMA PassType ==
    ASSUME Typed, NEW p \in Procs, PassOpen(p), loc[p].rendered < Len(Pass(p))
    PROVE  Pass(p)[loc[p].rendered + 1] \in Views
<1>1. loc[p].todo \in Seq(Triggers) /\ loc[p].todo # <<>> /\ loc[p].rendered \in Nat
  BY DEF Typed, TypeOK, Local, PassOpen
<1>2. Pass(p) \in Seq(Views)
  BY <1>1, RendersAssumption DEF Pass
<1> QED
  BY <1>1, <1>2

LEMMA PassOverKept ==
    ASSUME Typed, NEW p \in Procs, PassOpen(p), PassOver(p)
    PROVE  LocalsKept
<1> DEFINE l == [loc[p] EXCEPT !.todo = Tail(@), !.rendered = 0]
<1>1. loc[p] \in Local /\ loc[p].todo \in Seq(Triggers) /\ loc[p].todo # <<>>
  BY DEF Typed, TypeOK, Local, PassOpen
<1>2. Tail(loc[p].todo) \in Seq(Triggers)
  BY <1>1
<1>3. l \in Local /\ l.job = loc[p].job
  BY <1>1, <1>2 DEF Local
<1> QED
  BY <1>3, RememberKept DEF PassOver

LEMMA ProceedTyped ==
    ASSUME Typed, Prepared, NEW p \in Procs, Proceed(p)
    PROVE  Typed'
<1>0. /\ loc[p] \in Local
      /\ ledger \in Seq(Entry) /\ Len(ledger) \in Nat
      /\ manifest \in [Files -> Nat]
      /\ <<>> \in Seq(Triggers)
      /\ NoProc \in Procs \cup {NoProc}
  BY DEF Typed, TypeOK
<1>1. CASE ReadLedger(p)
  <2> DEFINE l == [loc[p] EXCEPT
                     !.mem = Len(ledger),
                     !.todo = IF pc[p] = "read" THEN Passes(p) ELSE <<>>]
  <2>2. l \in Local /\ l.job = loc[p].job
    BY <1>0, <1>1, PassesType DEF Local
  <2>4. Remember(p, l) /\ Goto(p)
    BY <1>1 DEF ReadLedger, PassOpen, PassOver
  <2> QED
    BY <1>1, <2>2, <2>4, RememberKept, GotoKept, DiskKept, KeptTyped DEF ReadLedger
<1>2. CASE NextItem(p)
  <2>1. CASE loc[p].items > 0 /\ Remember(p, [loc[p] EXCEPT !.items = @ - 1]) /\ Goto(p)
    <3> DEFINE l == [loc[p] EXCEPT !.items = @ - 1]
    <3>0. loc[p].items - 1 \in Nat
      BY <1>0, <2>1 DEF Local
    <3>1. l \in Local /\ l.job = loc[p].job
      BY <1>0, <3>0 DEF Local
    <3> QED
      BY <1>2, <2>1, <3>1, RememberKept, GotoKept, DiskKept, KeptTyped
      DEF NextItem
  <2>2. CASE loc' = loc /\ pc' = [pc EXCEPT ![p] = "relock"]
    <3>1. Cmd(p) \in Commands /\ pc[p] = "item" /\ pc[p] \in DOMAIN Flow[Cmd(p)]
      BY <1>2, CmdType DEF NextItem, Typed
    <3>2. "relock" \in DOMAIN Flow[Cmd(p)] /\ "relock" \in Phase
      BY <3>1, ItemOfBatch DEF Phase
    <3>3. PhasesKept
      BY <2>2, <3>2 DEF PhasesKept, Typed, TypeOK
    <3>4. LocalsKept
      BY <2>2 DEF LocalsKept, Typed, TypeOK
    <3> QED
      BY <1>2, <3>3, <3>4, DiskKept, KeptTyped DEF NextItem
  <2> QED
    BY <1>2, <2>1, <2>2 DEF NextItem
<1>3. CASE Prepare(p)
  <2>1. PICK i \in DOMAIN Transitions :
          Remember(p, [loc[p] EXCEPT !.owed = Group(i), !.mem = Len(ledger),
                                     !.child = NoProc])
    BY <1>3 DEF Prepare
  <2> DEFINE l == [loc[p] EXCEPT !.owed = Group(i), !.mem = Len(ledger),
                                 !.child = NoProc]
  <2>2. l \in Local /\ l.job = loc[p].job
    BY <1>0, GroupIsSeq DEF Local
  <2> QED
    BY <1>3, <2>1, <2>2, RememberKept, GotoKept, DiskKept, KeptTyped
    DEF Prepare
<1>4. CASE SkipItem(p)
  <2> DEFINE l == [loc[p] EXCEPT !.child = NoProc]
  <2>1. l \in Local /\ l.job = loc[p].job
    BY <1>0 DEF Local
  <2>2. "item" \in DOMAIN Flow[Cmd(p)] /\ "item" \in Phase
    BY <1>4 DEF SkipItem, Flow, cmd_batch, Phase
  <2>3. PhasesKept
    BY <1>4, <2>2 DEF SkipItem, PhasesKept, Typed, TypeOK
  <2> QED
    BY <1>4, <2>1, <2>3, RememberKept, DiskKept, KeptTyped DEF SkipItem
<1>5. CASE TakeLock(p)
  <2> DEFINE l == [loc[p] EXCEPT !.man = manifest]
  <2>2. l \in Local /\ l.job = loc[p].job
    BY <1>0 DEF Local
  <2>3. FilesKept
    BY <1>0, <1>5 DEF TakeLock, FilesKept, Typed, TypeOK, disk, locks 
  <2>4. Remember(p, l) /\ Goto(p)
    BY <1>5 DEF TakeLock, PassOpen, PassOver
  <2> QED
    BY <1>5, <2>2, <2>3, <2>4, RememberKept, GotoKept, DiskKept, KeptTyped DEF TakeLock
<1>6. CASE TakeShared(p)
  <2> DEFINE l == [loc[p] EXCEPT !.man = manifest, !.unread = Files]
  <2>2. l \in Local /\ l.job = loc[p].job
    BY <1>0 DEF Local
  <2>3. FilesKept
    BY <1>0, <1>6 DEF TakeShared, FilesKept, Typed, TypeOK, disk, locks 
  <2>4. Remember(p, l) /\ Goto(p)
    BY <1>6 DEF TakeShared, PassOpen, PassOver
  <2> QED
    BY <1>6, <2>2, <2>3, <2>4, RememberKept, GotoKept, DiskKept, KeptTyped DEF TakeShared
<1>7. CASE Unlock(p)
  <2>1. FilesKept /\ Goto(p)
    BY <1>7 DEF Unlock, FilesKept, Typed, TypeOK, disk
  <2>2. CASE NextPhase(p) # "idle"
    <3> DEFINE l == [loc[p] EXCEPT !.man = Untracked]
    <3>1. l \in Local /\ l.job = loc[p].job
      BY <1>0 DEF Local, Untracked
    <3> QED
      BY <1>7, <2>1, <2>2, <3>1, RememberKept, GotoKept, KeptTyped DEF Unlock
  <2>3. CASE NextPhase(p) = "idle"
    <3>1. pc'[p] = "idle" /\ Remember(p, Fresh(NoJob))
      BY <1>7, <2>1, <2>3, GotoFacts DEF Unlock, NextPhase
    <3> QED
      BY <2>1, <3>1, GotoFacts, IdleTyped, JobFacts, FlowFacts
  <2> QED
    BY <2>2, <2>3
<1>8. CASE Decide(p)
  <2> DEFINE l == [loc[p] EXCEPT !.mem = Len(ledger), !.reached = Planned(p).to]
  <2>2. l \in Local /\ l.job = loc[p].job
    BY <1>0, <1>8, PlannedType DEF Local, Decide
  <2>4. Remember(p, l) /\ Goto(p)
    BY <1>8 DEF Decide, PassOpen, PassOver
  <2> QED
    BY <1>8, <2>2, <2>4, RememberKept, GotoKept, DiskKept, KeptTyped DEF Decide
<1>9. CASE AppendNext(p)
  <2> DEFINE l == [loc[p] EXCEPT
                     !.mem = Len(ledger) + 1,
                     !.owed = Tail(@),
                     !.emitted = WithEmitted(p, Head(loc[p].owed))]
  <2>1. loc[p].owed \in Seq(Entry) /\ loc[p].owed # <<>>
    BY <1>0, <1>9 DEF AppendNext, Local
  <2>2. Head(loc[p].owed) \in Entry /\ Tail(loc[p].owed) \in Seq(Entry)
    BY <2>1
  <2>3. WithEmitted(p, Head(loc[p].owed)) \in Seq(Types)
    BY <1>0, <2>2 DEF WithEmitted, Local, Entry
  <2>4. l \in Local /\ l.job = loc[p].job
    <3>1. Len(ledger) + 1 \in Nat
      BY <1>0
    <3> DEFINE emits == WithEmitted(p, Head(loc[p].owed))
               rest == Tail(loc[p].owed)
    <3>2. emits \in Seq(Types) /\ rest \in Seq(Entry)
      BY <2>2, <2>3
    <3>3. l = [loc[p] EXCEPT !.mem = Len(ledger) + 1, !.owed = rest, !.emitted = emits]
      OBVIOUS
    <3> HIDE DEF emits, rest
    <3>4. /\ [loc[p] EXCEPT !.mem = Len(ledger) + 1, !.owed = rest, !.emitted = emits] \in Local
          /\ [loc[p] EXCEPT !.mem = Len(ledger) + 1, !.owed = rest, !.emitted = emits].job = loc[p].job
      BY <1>0, <3>1, <3>2 DEF Local
    <3> QED
      BY <3>3, <3>4
  <2>5. Remember(p, l)
    BY <1>9 DEF AppendNext
  <2>6. FilesKept
    BY <1>0, <1>9, <2>2 DEF AppendNext, FilesKept, Typed, TypeOK, locks
  <2>7. PhasesKept
    BY <1>9, GotoKept, SamePhasesKept DEF AppendNext, NextOwed
  <2> QED
    BY <2>4, <2>5, <2>6, <2>7, RememberKept, KeptTyped
<1>10. CASE Seal(p)
  <2> DEFINE sealed == [loc[p].man EXCEPT !["ledger"] = Len(ledger)]
             l == [loc[p] EXCEPT
                     !.man = sealed,
                     !.todo = IF NextPhase(p) = "render" THEN Passes(p) ELSE <<>>]
  <2>1. sealed \in [Files -> Nat]
    BY <1>0 DEF Local
  <2>2. l \in Local /\ l.job = loc[p].job
    BY <1>0, <2>1, PassesType DEF Local
  <2>3. FilesKept
    BY <1>10, <2>1 DEF Seal, FilesKept, Typed, TypeOK, locks
  <2>4. Remember(p, l) /\ Goto(p)
    BY <1>10 DEF Seal
  <2> QED
    BY <2>2, <2>3, <2>4, RememberKept, GotoKept, KeptTyped
<1>11. CASE WriteRender(p)
  <2> DEFINE v == Pass(p)[loc[p].rendered + 1]
             l == [loc[p] EXCEPT !.man[v] = loc[p].mem, !.rendered = @ + 1]
  <2>1. v \in Views
    BY <1>11, PassType DEF WriteRender
  <2>5. /\ [loc[p].man EXCEPT ![v] = loc[p].mem] \in [Files -> Nat]
        /\ loc[p].rendered + 1 \in Nat
    BY <1>0, <2>1 DEF Local, Files
  <2>2. l \in Local /\ l.job = loc[p].job
    BY <1>0, <2>5 DEF Local
  <2>3. FilesKept
    BY <1>0, <1>11, <2>1 DEF WriteRender, FilesKept, Typed, TypeOK, Local, locks
  <2>4. Remember(p, l) /\ UNCHANGED pc
    BY <1>11 DEF WriteRender
  <2> QED
    BY <2>2, <2>3, <2>4, RememberKept, SamePhasesKept, KeptTyped
<1>12. CASE EndPass(p)
  <2>1. FilesKept
    BY <1>0, <1>12 DEF EndPass, FilesKept, Typed, TypeOK, Local, locks
  <2>2. UNCHANGED pc /\ LocalsKept
    BY <1>12, PassOverKept DEF EndPass
  <2> QED
    BY <2>1, <2>2, SamePhasesKept, KeptTyped
<1>13. CASE SaveFails(p)
  <2>1. FilesKept
    BY <1>0, <1>13 DEF SaveFails, FilesKept, Typed, TypeOK, Unsealed, disk, locks
  <2>2. UNCHANGED pc /\ LocalsKept
    BY <1>13, PassOverKept DEF SaveFails
  <2> QED
    BY <2>1, <2>2, SamePhasesKept, KeptTyped
<1>14. CASE RenderFails(p)
  <2>1. Pass(p)[loc[p].rendered + 1] \in Views
    BY <1>14, PassType DEF RenderFails
  <2>2. FilesKept
    BY <1>0, <1>14, <2>1 DEF RenderFails, FilesKept, Typed, TypeOK, Local, Files, locks
  <2>3. CASE Cmd(p) # "render"
    <3>1. UNCHANGED pc /\ LocalsKept
      BY <1>14, <2>3, PassOverKept DEF RenderFails
    <3> QED
      BY <2>2, <3>1, SamePhasesKept, KeptTyped
  <2>4. CASE Cmd(p) = "render"
    <3>1. Remember(p, Fresh(NoJob)) /\ pc' = [pc EXCEPT ![p] = "idle"]
      BY <1>14, <2>4 DEF RenderFails
    <3>2. pc' \in [Procs -> Phase] /\ pc'[p] = "idle"
          /\ \A q \in Procs \ {p} : pc'[q] = pc[q]
      BY <3>1 DEF Typed, TypeOK, Phase
    <3> QED
      BY <2>2, <3>1, <3>2, IdleTyped, JobFacts, FlowFacts
  <2> QED
    BY <2>3, <2>4
<1>15. CASE WriteCache(p)
  <2>1. FilesKept
    BY <1>0, <1>15 DEF WriteCache, FilesKept, Typed, TypeOK, Local, locks
  <2>2. Goto(p) /\ Remember(p, Fresh(NoJob)) /\ pc[p] = "cache"
    BY <1>15 DEF WriteCache
  <2>3. pc'[p] = "idle"
    BY <2>2, GotoFacts, CmdType, CacheIsLast DEF Typed
  <2> QED
    BY <2>1, <2>2, <2>3, GotoFacts, IdleTyped, JobFacts, FlowFacts
<1>16. ASSUME NEW f \in Files, HashFile(p, f)
       PROVE  Typed'
  <2> DEFINE l == [loc[p] EXCEPT
                     !.unread = @ \ {f},
                     !.found = IF loc[p].man[f] \in {0, Content(f)}
                               THEN @ ELSE @ \cup {f}]
  <2>1. l \in Local /\ l.job = loc[p].job
    BY <1>0, <1>16 DEF Local
  <2>2. Remember(p, l) /\ UNCHANGED pc
    BY <1>16 DEF HashFile
  <2> QED
    BY <1>16, <2>1, <2>2, RememberKept, SamePhasesKept, DiskKept, KeptTyped
    DEF HashFile
<1>17. CASE AppendFails(p)
  <2>1. CASE Die(p)
    BY <2>1, DieTyped
  <2>2. CASE /\ Remember(p, [loc[p] EXCEPT !.owed = Tail(@)])
             /\ UNCHANGED <<disk, locks, loose>>
             /\ NextOwed(p)
    <3> DEFINE l == [loc[p] EXCEPT !.owed = Tail(@)]
    <3>0. Tail(loc[p].owed) \in Seq(Entry)
      <4>1. loc[p].owed \in Seq(Entry) /\ loc[p].owed # <<>>
        BY <1>0, <1>17 DEF Local, AppendFails
      <4> QED
        BY <4>1
    <3>1. l \in Local /\ l.job = loc[p].job
      BY <1>0, <3>0 DEF Local
    <3>2. PhasesKept
      BY <2>2, GotoKept, SamePhasesKept DEF NextOwed
    <3> QED
      BY <2>2, <3>1, <3>2, RememberKept, DiskKept, KeptTyped
  <2> QED
    BY <1>17, <2>1, <2>2 DEF AppendFails
<1>18. CASE EvaluateHooks(p)
  <2>1. CASE Quit(p)
    BY <2>1, QuitTyped
  <2>2. CASE /\ Goto(p)
             /\ Remember(p, [loc[p] EXCEPT !.child = NoProc])
             /\ UNCHANGED <<disk, locks, loose>>
    <3> DEFINE l == [loc[p] EXCEPT !.child = NoProc]
    <3>1. l \in Local /\ l.job = loc[p].job
      BY <1>0 DEF Local
    <3> QED
      BY <2>2, <3>1, RememberKept, GotoKept, DiskKept, KeptTyped
  <2> QED
    BY <1>18, <2>1, <2>2 DEF EvaluateHooks
<1>19. CASE Refuse(p) \/ QueryFails(p) \/ TimeOut(p) \/ StateMoved(p)
  BY <1>19, QuitTyped DEF Refuse, QueryFails, TimeOut, StateMoved
<1>20. CASE SealFails(p)
  BY <1>20, DieTyped DEF SealFails
<1> QED
  BY <1>1, <1>2, <1>3, <1>4, <1>5, <1>6, <1>7, <1>8, <1>9, <1>10, <1>11,
     <1>12, <1>13, <1>14, <1>15, <1>16, <1>17, <1>18, <1>19, <1>20
  DEF Proceed

LEMMA RunGateCommandTyped ==
    ASSUME Typed, NEW p \in Procs, NEW q \in Procs, NEW j \in GateJobs,
           RunGateCommand(p, q, j)
    PROVE  Typed'
<1> DEFINE l == [loc[p] EXCEPT !.child = q]
<1>1. j \in Jobs /\ Fresh(j) \in Local /\ Fresh(j).job = j
  BY JobFacts, FreshType
<1>2. loc[p] \in Local
  BY DEF Typed, TypeOK
<1>3. l \in Local /\ l.job = loc[p].job
  BY <1>2 DEF Local
<1>4. /\ Launch(q, j) /\ q # p
      /\ loc' = [loc EXCEPT ![p] = l, ![q] = Fresh(j)]
      /\ UNCHANGED <<disk, locks, loose>>
  BY DEF RunGateCommand
<1>5. /\ pc' \in [Procs -> Phase]
      /\ pc'[q] \in DOMAIN Flow[j.cmd]
      /\ \A r \in Procs \ {q} : pc'[r] = pc[r]
  BY <1>1, <1>4, LaunchTyped
<1> HIDE DEF l
<1>6. /\ loc' \in [Procs -> Local]
      /\ loc'[p] = l /\ loc'[q] = Fresh(j)
      /\ \A r \in Procs \ {p, q} : loc'[r] = loc[r]
  BY <1>1, <1>3, <1>4 DEF Typed, TypeOK
<1>7. TypeOK'
  BY <1>4, <1>5, <1>6, DiskKept DEF TypeOK, FilesKept
<1>8. \A r \in Procs : pc'[r] \in DOMAIN Flow[Cmd(r)']
  <2> SUFFICES ASSUME NEW r \in Procs
               PROVE  pc'[r] \in DOMAIN Flow[Cmd(r)']
    OBVIOUS
  <2>1. CASE r = q
    BY <2>1, <1>1, <1>5, <1>6 DEF Cmd
  <2>2. CASE r # q
    <3>1. Cmd(r)' = Cmd(r)
      BY <2>2, <1>3, <1>6 DEF Cmd
    <3> QED
      BY <2>2, <3>1, <1>5 DEF Typed
  <2> QED
    BY <2>1, <2>2
<1> QED
  BY <1>7, <1>8 DEF Typed

LEMMA StartTyped ==
    ASSUME Typed, NEW p \in Procs, NEW j \in Jobs, Start(p, j)
    PROVE  Typed'
BY LaunchTyped, IdleTyped, DiskKept DEF Start

LEMMA InitTyped == ASSUME Init PROVE Typed
<1>1. Fresh(NoJob) \in Local /\ Fresh(NoJob).job \in Job /\ "idle" \in Phase
  BY FreshType, JobFacts DEF Phase
<1>2. Fresh(NoJob).job.cmd \in Commands
  BY <1>1, JobFacts
<1>3. <<Genesis>> \in Seq(Entry)
  BY GenesisLawful DEF Lawful
<1>4. Untracked \in [Files -> Nat]
  BY DEF Untracked
<1>5. manifest \in [Files -> Nat] /\ view \in [Views -> Nat]
  BY <1>4 DEF Init
<1>6. TypeOK
  BY <1>1, <1>3, <1>5, StatesAssumption DEF Init, TypeOK
<1> QED
  BY <1>1, <1>2, <1>6, FlowFacts DEF Typed, Init, Cmd

-----------------------------------------------------------------------------
(* One process's step and the others.                                       *)

LEMMA ProceedFrame ==
    ASSUME Typed, NEW p \in Procs, Proceed(p)
    PROVE  \A q \in Procs \ {p} : pc'[q] = pc[q] /\ loc'[q] = loc[q]
<1> USE DEF Typed, TypeOK, Remember, Goto
<1>1. CASE ReadLedger(p) \/ NextItem(p) \/ SkipItem(p) \/ TakeLock(p)
           \/ TakeShared(p) \/ Unlock(p) \/ Decide(p) \/ Seal(p) \/ WriteCache(p)
  BY <1>1 DEF ReadLedger, NextItem, SkipItem, TakeLock, TakeShared, Unlock,
              Decide, Seal, WriteCache
<1>2. CASE Prepare(p)
  BY <1>2 DEF Prepare
<1>3. CASE Refuse(p) \/ QueryFails(p) \/ EvaluateHooks(p) \/ TimeOut(p) \/ StateMoved(p)
           \/ SealFails(p)
  BY <1>3 DEF Refuse, QueryFails, EvaluateHooks, TimeOut, StateMoved, SealFails, Quit, Die, Exit
<1>4. CASE AppendNext(p) \/ AppendFails(p)
  BY <1>4 DEF AppendNext, AppendFails, NextOwed, Die, Exit
<1>5. CASE WriteRender(p) \/ EndPass(p) \/ SaveFails(p) \/ RenderFails(p)
           \/ \E f \in Files : HashFile(p, f)
  BY <1>5 DEF WriteRender, EndPass, SaveFails, RenderFails, HashFile, PassOver
<1> QED
  BY <1>1, <1>2, <1>3, <1>4, <1>5 DEF Proceed

(* Where the flows lead to "decide", and a machine-moving command to "lock".*)
LEMMA FlowToDecide ==
    \A c \in Commands : \A ph \in DOMAIN Flow[c] :
        /\ Flow[c][ph] = "decide" => ph = "lock" /\ c \in Writers
        /\ Flow[c][ph] = "lock" /\ c \in Writers => ph = "check"
BY DEF Commands, Flow, Writers, cmd_transition, cmd_event, handle_record_event,
       cmd_ledger_checkpoint, cmd_reseal, cmd_hook_eval, cmd_batch, cmd_render,
       cmd_manifest_verify

LEMMA ProceedPrepared ==
    ASSUME Typed, Prepared, NEW p \in Procs, Proceed(p)
    PROVE  Prepared'
<1> DEFINE Ready(q) == \E i \in DOMAIN Transitions : loc[q].owed = Group(i)
           About(q) == pc[q] = "decide" \/ (pc[q] = "lock" /\ Cmd(q) \in Writers)
<1>1. \A q \in Procs \ {p} : About(q)' => Ready(q)'
  BY ProceedFrame DEF Prepared, Cmd
<1>2. About(p)' => Ready(p)'
  <2>0. SUFFICES ASSUME About(p)' PROVE Ready(p)'
    OBVIOUS
  <2>1. loc[p] \in Local /\ Cmd(p) \in Commands /\ pc[p] \in DOMAIN Flow[Cmd(p)]
        /\ pc \in [Procs -> Phase] /\ loc \in [Procs -> Local]
    BY CmdType DEF Typed, TypeOK
  <2>2. CASE Prepare(p)
    BY <2>1, <2>2 DEF Prepare, Remember, Local
  <2>3. CASE TakeLock(p)
    <3>1. loc'[p].owed = loc[p].owed /\ pc'[p] = Flow[Cmd(p)][pc[p]]
          /\ Cmd(p)' = Cmd(p) /\ pc[p] \in {"lock", "relock"}
      BY <2>1, <2>3 DEF TakeLock, Remember, Goto, NextPhase, Local, Cmd
    <3>2. pc[p] = "lock" /\ Cmd(p) \in Writers
      BY <2>0, <2>1, <3>1, FlowToDecide
    <3> QED
      BY <3>1, <3>2 DEF Prepared
  <2>4. ~(Prepare(p) \/ TakeLock(p)) => FALSE
    <3> SUFFICES ASSUME ~Prepare(p), ~TakeLock(p) PROVE FALSE
      OBVIOUS
    <3> USE DEF Remember, Goto, NextPhase
    <3>1. CASE pc'[p] \in {"idle", "item", "relock", "append", "render", "hash"}
      BY <2>0, <3>1
    <3>2. CASE /\ pc'[p] = Flow[Cmd(p)][pc[p]]
               /\ loc'[p].job = loc[p].job
               /\ \/ pc[p] \notin {"lock", "relock", "check"}
                  \/ Cmd(p) = "hook_eval"
      <4>1. Cmd(p)' = Cmd(p)
        BY <3>2 DEF Cmd
      <4> QED
        BY <2>0, <2>1, <3>2, <4>1, FlowToDecide DEF Writers
    <3>3. CASE ReadLedger(p)
      <4> DEFINE todo == IF pc[p] = "read" THEN Passes(p) ELSE <<>>
                 l == [loc[p] EXCEPT !.mem = Len(ledger), !.todo = todo]
      <4> HIDE DEF todo
      <4>1. l.job = loc[p].job
        BY <2>1 DEF Local
      <4>2. Remember(p, l)
        BY <3>3 DEF ReadLedger, todo
      <4> QED
        BY <2>1, <3>2, <3>3, <4>1, <4>2 DEF ReadLedger
    <3>10. CASE NextItem(p) \/ SkipItem(p)
      BY <2>1, <3>1, <3>2, <3>10 DEF NextItem, SkipItem, Local
    <3>11. CASE TakeShared(p)
      BY <2>1, <3>2, <3>11 DEF TakeShared, Local
    <3>12. CASE Decide(p)
      BY <2>1, <3>2, <3>12 DEF Decide, Local
    <3>13. CASE Seal(p)
      BY <2>1, <3>1, <3>2, <3>13 DEF Seal, Local
    <3>4. CASE EvaluateHooks(p)
      BY <2>1, <3>1, <3>2, <3>4 DEF EvaluateHooks, Quit, Exit, Local
    <3>5. CASE Refuse(p) \/ QueryFails(p) \/ TimeOut(p) \/ StateMoved(p) \/ SealFails(p)
      BY <2>1, <3>1, <3>5 DEF Refuse, QueryFails, TimeOut, StateMoved, SealFails, Quit, Die, Exit
    <3>6. CASE Unlock(p)
      BY <2>1, <3>1, <3>2, <3>6 DEF Unlock, Finished, Local
    <3>7. CASE AppendNext(p) \/ AppendFails(p)
      BY <2>1, <3>1, <3>2, <3>7, ZenonT(60) DEF AppendNext, AppendFails, NextOwed, Die, Exit, Local
    <3>8. CASE WriteRender(p) \/ EndPass(p) \/ SaveFails(p) \/ RenderFails(p)
               \/ \E f \in Files : HashFile(p, f)
      BY <2>1, <3>1, <3>8 DEF WriteRender, EndPass, SaveFails, RenderFails,
                              HashFile, PassOpen
    <3>9. CASE WriteCache(p)
      BY <2>1, <3>1, <3>9, CacheIsLast DEF WriteCache
    <3> QED
      BY <3>3, <3>4, <3>5, <3>6, <3>7, <3>8, <3>9, <3>10, <3>11, <3>12, <3>13
      DEF Proceed
  <2> QED
    BY <2>2, <2>3, <2>4
<1> QED
  BY <1>1, <1>2 DEF Prepared

LEMMA OthersPrepared ==
    ASSUME Typed, Prepared, NEW p \in Procs,
           \A q \in Procs \ {p} : /\ pc'[q] = pc[q]
                                 /\ loc'[q].job = loc[q].job
                                 /\ loc'[q].owed = loc[q].owed,
           pc'[p] # "decide",
           pc'[p] = "lock" => loc'[p].job.cmd \notin Writers
    PROVE  Prepared'
BY DEF Prepared, Cmd

LEMMA LaunchToLock ==
    ASSUME NEW j \in Jobs
    PROVE  /\ Flow[j.cmd]["idle"] # "decide"
           /\ Flow[j.cmd]["idle"] = "lock" => j.cmd \notin Writers
<1>1. j.cmd \in Commands /\ "idle" \in DOMAIN Flow[j.cmd]
  BY JobFacts, FlowFacts
<1> QED
  BY <1>1, FlowToDecide

LEMMA NextPrepared ==
    ASSUME Typed, Prepared, [Next]_vars
    PROVE  Prepared'
<1>0. pc \in [Procs -> Phase] /\ loc \in [Procs -> Local]
  BY DEF Typed, TypeOK
<1>1. ASSUME NEW p \in Procs, Proceed(p) PROVE Prepared'
  BY <1>1, ProceedPrepared
<1>2. ASSUME NEW p \in Procs, Kill(p) PROVE Prepared'
  <2>1. /\ pc'[p] = "idle"
        /\ \A q \in Procs \ {p} : pc'[q] = pc[q] /\ loc'[q] = loc[q]
    BY <1>0, <1>2 DEF Kill, Die, Exit, Remember
  <2> QED
    BY <2>1, OthersPrepared
<1>3. ASSUME NEW p \in Procs, NEW j \in Jobs, Start(p, j) PROVE Prepared'
  <2>1. /\ pc'[p] = Flow[j.cmd]["idle"] /\ loc'[p] = Fresh(j)
        /\ \A q \in Procs \ {p} : pc'[q] = pc[q] /\ loc'[q] = loc[q]
    BY <1>0, <1>3 DEF Start, Launch, Remember
  <2>2. loc'[p].job = j
    BY <2>1, FreshType
  <2> QED
    BY <2>1, <2>2, LaunchToLock, OthersPrepared
<1>4. ASSUME NEW p \in Procs, NEW q \in Procs, NEW j \in GateJobs,
             RunGateCommand(p, q, j)
      PROVE  Prepared'
  <2> DEFINE l == [loc[p] EXCEPT !.child = q]
  <2>1. loc[p] \in Local
    BY <1>0
  <2>2. l.job = loc[p].job /\ l.owed = loc[p].owed
    BY <2>1 DEF Local
  <2>3. /\ pc'[q] = Flow[j.cmd]["idle"] /\ loc'[q] = Fresh(j) /\ loc'[p] = l
        /\ \A r \in Procs \ {q} : pc'[r] = pc[r]
        /\ \A r \in Procs \ {p, q} : loc'[r] = loc[r]
    BY <1>0, <1>4 DEF RunGateCommand, Launch
  <2>4. j \in Jobs /\ loc'[q].job = j
    BY <2>3, JobFacts, FreshType
  <2>5. \A r \in Procs \ {q} : pc'[r] = pc[r] /\ loc'[r].job = loc[r].job
                               /\ loc'[r].owed = loc[r].owed
    BY <2>2, <2>3
  <2> QED
    BY <2>3, <2>4, <2>5, LaunchToLock, OthersPrepared
<1>5. CASE UNCHANGED vars
  BY <1>5 DEF vars, Prepared, Cmd
<1> QED
  BY <1>1, <1>2, <1>3, <1>4, <1>5 DEF Next

LEMMA NextTyped ==
    ASSUME Typed, Prepared, [Next]_vars
    PROVE  Typed'
<1>1. CASE Next
  BY <1>1, ProceedTyped, DieTyped, StartTyped, RunGateCommandTyped DEF Next, Kill
<1>2. CASE UNCHANGED vars
  BY <1>2 DEF vars, Typed, TypeOK, Cmd
<1> QED
  BY <1>1, <1>2

(* Whatever runs at once, a handler holds the values its phase works on, and *)
(* writes only ledgers, manifests and renders of their types.               *)
THEOREM TypeCorrect == Spec => []TypeOK
<1>1. Init => Typed /\ Prepared
  BY InitTyped DEF Init, Prepared
<1>2. Typed /\ Prepared /\ [Next]_vars => (Typed /\ Prepared)'
  BY NextTyped, NextPrepared
<1>3. Typed => TypeOK
  BY DEF Typed
<1> QED
  BY <1>1, <1>2, <1>3, PTL DEF Spec

-----------------------------------------------------------------------------
(* The manifest lock.                                                       *)

(* A process that neither takes nor drops the lock stays on its side of it. *)
LEMMA GotoLocked ==
    ASSUME Typed, Locked, NEW p \in Procs, Goto(p), UNCHANGED locks,
           pc[p] \notin {"lock", "relock", "drop", "render"},
           pc[p] \notin {"share", "peek", "hash"}
    PROVE  Locked'
<1>1. /\ FlowStep(Cmd(p), pc[p])
      /\ pc'[p] = Flow[Cmd(p)][pc[p]]
      /\ \A q \in Procs \ {p} : pc'[q] = pc[q]
  BY GotoFacts
<1>2. writer' = writer /\ readers' = readers
  BY DEF locks
<1>3. pc'[p] \in Exclusive <=> pc[p] \in Exclusive
  BY <1>1 DEF FlowStep, Exclusive
<1>4. pc'[p] \notin Shared /\ pc[p] \notin Shared
  BY <1>1 DEF FlowStep, Shared
<1> QED
  BY <1>1, <1>2, <1>3, <1>4 DEF Locked

LEMMA OutsideLocked ==
    ASSUME Locked, NEW p \in Procs, UNCHANGED locks,
           \A q \in Procs \ {p} : pc'[q] = pc[q],
           pc[p] \notin Exclusive, pc[p] \notin Shared,
           pc'[p] \notin Exclusive, pc'[p] \notin Shared
    PROVE  Locked'
BY DEF Locked, locks

LEMMA SamePhaseLocked ==
    ASSUME Locked, UNCHANGED <<writer, readers, pc>>
    PROVE  Locked'
BY DEF Locked

LEMMA ProceedLocked ==
    ASSUME Typed, Locked, NEW p \in Procs, Proceed(p)
    PROVE  Locked'
<1>0. pc \in [Procs -> Phase]
  BY DEF Typed, TypeOK
<1>1. CASE ReadLedger(p) \/ Prepare(p) \/ Decide(p) \/ Seal(p) \/ WriteCache(p)
  BY <1>1, GotoLocked DEF ReadLedger, Prepare, Decide, Seal, WriteCache
<1>2. CASE NextItem(p) \/ SkipItem(p)
  <2>1. CASE Goto(p)
    BY <1>2, <2>1, GotoLocked DEF NextItem, SkipItem
  <2>2. CASE ~Goto(p)
    BY <1>0, <1>2, <2>2, OutsideLocked DEF NextItem, SkipItem, Exclusive, Shared
  <2> QED
    BY <2>1, <2>2
<1>3. CASE EvaluateHooks(p)
  BY <1>3, GotoLocked, ExitLocked DEF EvaluateHooks, Quit
<1>4. CASE Refuse(p) \/ QueryFails(p) \/ TimeOut(p) \/ StateMoved(p) \/ SealFails(p)
  BY <1>4, ExitLocked DEF Refuse, QueryFails, TimeOut, StateMoved, SealFails, Quit, Die
<1>5. CASE TakeLock(p)
  <2>1. /\ pc'[p] \in Exclusive /\ pc'[p] \notin Shared
        /\ \A q \in Procs \ {p} : pc'[q] = pc[q]
    BY <1>5, GotoFacts DEF TakeLock, FlowStep
  <2>2. writer = NoProc /\ readers = {} /\ writer' = p /\ readers' = {}
    BY <1>5 DEF TakeLock, WriterMayEnter
  <2> QED
    BY <2>1, <2>2, NamesAssumption DEF Locked
<1>6. CASE TakeShared(p)
  <2>1. /\ pc'[p] \in Shared /\ pc'[p] \notin Exclusive
        /\ \A q \in Procs \ {p} : pc'[q] = pc[q]
    BY <1>6, GotoFacts DEF TakeShared, FlowStep
  <2>2. writer = NoProc /\ writer' = writer /\ readers' = readers \cup {p}
    BY <1>6 DEF TakeShared
  <2> QED
    BY <2>1, <2>2, NamesAssumption DEF Locked
<1>7. CASE Unlock(p)
  <2>1. /\ pc[p] \in {"drop", "peek", "render", "hash"}
        /\ writer' = IF writer = p THEN NoProc ELSE writer
        /\ readers' = readers \ {p}
    BY <1>7 DEF Unlock, Finished
  <2>2. /\ pc'[p] \notin Shared /\ pc'[p] \notin Exclusive
        /\ \A q \in Procs \ {p} : pc'[q] = pc[q]
    BY <1>7, <2>1, GotoFacts DEF Unlock, FlowStep
  <2> QED
    BY <2>1, <2>2, NamesAssumption DEF Locked
<1>8. CASE AppendNext(p)
  BY <1>8, GotoLocked, SamePhaseLocked DEF AppendNext, NextOwed, locks
<1>9. CASE AppendFails(p)
  BY <1>9, GotoLocked, SamePhaseLocked, ExitLocked DEF AppendFails, Die, NextOwed, locks
<1>10. CASE WriteRender(p) \/ EndPass(p) \/ SaveFails(p)
            \/ \E f \in Files : HashFile(p, f)
  BY <1>10, SamePhaseLocked DEF WriteRender, EndPass, SaveFails, HashFile, locks
<1>11. CASE RenderFails(p)
  <2>1. CASE Cmd(p) = "render"
    <3>1. /\ pc' = [pc EXCEPT ![p] = "idle"] /\ writer' = NoProc /\ readers' = readers
          /\ pc[p] = "render"
      BY <1>11, <2>1 DEF RenderFails, PassOpen
    <3>2. writer = p
      BY <3>1 DEF Locked, Exclusive
    <3> QED
      BY <1>0, <3>1, <3>2, NamesAssumption DEF Locked, Exclusive, Shared
  <2>2. CASE Cmd(p) # "render"
    BY <1>11, <2>2, SamePhaseLocked DEF RenderFails, locks
  <2> QED
    BY <2>1, <2>2
<1> QED
  BY <1>1, <1>2, <1>3, <1>4, <1>5, <1>6, <1>7, <1>8, <1>9, <1>10, <1>11
  DEF Proceed

LEMMA NextLocked ==
    ASSUME Typed, Locked, [Next]_vars
    PROVE  Locked'
<1>1. ASSUME NEW p \in Procs, Proceed(p) PROVE Locked'
  BY <1>1, ProceedLocked
<1>2. ASSUME NEW p \in Procs, Kill(p) PROVE Locked'
  BY <1>2, ExitLocked DEF Kill, Die
<1>3. ASSUME NEW p \in Procs, NEW j \in Jobs, Start(p, j) PROVE Locked'
  BY <1>3, LaunchTyped, OutsideLocked DEF Start, Launch, Exclusive, Shared
<1>4. ASSUME NEW p \in Procs, NEW q \in Procs, NEW j \in GateJobs,
             RunGateCommand(p, q, j)
      PROVE  Locked'
  <2>1. j \in Jobs /\ Launch(q, j) /\ UNCHANGED locks /\ pc[q] = "idle"
    BY <1>4, JobFacts DEF RunGateCommand, Launch
  <2> QED
    BY <2>1, LaunchTyped, OutsideLocked DEF Exclusive, Shared
<1>5. CASE UNCHANGED vars
  BY <1>5, SamePhaseLocked DEF vars
<1> QED
  BY <1>1, <1>2, <1>3, <1>4, <1>5 DEF Next

(* The invariant the seals rest on: every handler in a phase of its command *)
(* with what the phase works on, and in the critical section exactly when   *)
(* it holds the lock.                                                       *)
Ordered == Typed /\ Prepared /\ Locked

(* At most one process is between lock_manifest and its release, alone, and *)
(* no process writes the ledger, a view or the manifest outside it.         *)
THEOREM OneWriter == Spec => []Ordered
<1>1. Init => Ordered
  BY InitTyped, NamesAssumption
  DEF Init, Prepared, Locked, Exclusive, Shared, Ordered
<1>2. Ordered /\ [Next]_vars => Ordered'
  BY NextTyped, NextPrepared, NextLocked DEF Ordered
<1> QED
  BY <1>1, <1>2, PTL DEF Spec

-----------------------------------------------------------------------------
(* The ledger.                                                              *)

(* What is left of a transition's entries from the k-th on.                 *)
Rest(i, k) == [m \in 1 .. (GroupSize(i) - k + 1) |-> GroupEntry(i, k + m - 1)]

Ready(i, k) ==
    /\ k = 1 => StateOf(ledger) = Transitions[i].from /\ Evidence(i, ledger)
    /\ k # 1 => ledger[Len(ledger)] = GroupEntry(i, k - 1)

InGroup(p) ==
    \E i \in DOMAIN Transitions : \E k \in 1 .. GroupSize(i) :
        loc[p].owed = Rest(i, k) /\ Ready(i, k)

OwnRecords(p) == \A n \in DOMAIN loc[p].owed : Records(loc[p].owed[n])

(* What a process has yet to append: a command that does not move the       *)
(* machine, events; one that does, a transition whose evidence is there,    *)
(* and, once it appends, what the ledger is waiting for.                    *)
Owes(p) ==
    /\ loc[p].mem <= Len(ledger)
    /\ Cmd(p) \notin Writers => OwnRecords(p)
    /\ pc[p] = "decide" \/ (pc[p] = "lock" /\ Cmd(p) \in Writers) =>
          \E i \in DOMAIN Transitions :
              loc[p].owed = Group(i) /\ Evidence(i, ledger)
    /\ pc[p] = "append" /\ Cmd(p) \in Writers => InGroup(p)

Owing == \A p \in Procs : Owes(p)

-----------------------------------------------------------------------------
(* What is left of a transition's entries.                                  *)

LEMMA WholeRest ==
    ASSUME NEW i \in DOMAIN Transitions
    PROVE  Group(i) = Rest(i, 1) /\ 1 \in 1 .. GroupSize(i)
<1>1. GroupSize(i) \in Nat /\ GroupSize(i) >= 1
  BY TransitionType
<1>2. GroupSize(i) - 1 + 1 = GroupSize(i)
  BY <1>1
<1>3. \A m \in 1 .. GroupSize(i) : 1 + m - 1 = m
  BY <1>1
<1> QED
  BY <1>1, <1>2, <1>3 DEF Group, Rest

LEMMA RestFacts ==
    ASSUME NEW i \in DOMAIN Transitions, NEW k \in 1 .. GroupSize(i)
    PROVE  /\ Rest(i, k) \in Seq(Entry)
           /\ Len(Rest(i, k)) = GroupSize(i) - k + 1
           /\ Head(Rest(i, k)) = GroupEntry(i, k)
           /\ k < GroupSize(i) =>
                 Tail(Rest(i, k)) = Rest(i, k + 1) /\ k + 1 \in 1 .. GroupSize(i)
<1>1. GroupSize(i) \in Nat /\ GroupSize(i) - k + 1 \in Nat \ {0}
  BY TransitionType
<1>2. \A m \in 1 .. (GroupSize(i) - k + 1) : k + m - 1 \in 1 .. GroupSize(i)
  BY <1>1
<1>3. \A m \in 1 .. (GroupSize(i) - k + 1) : GroupEntry(i, k + m - 1) \in Entry
  BY <1>2, GroupEntryType
<1>4. Rest(i, k) \in Seq(Entry) /\ Len(Rest(i, k)) = GroupSize(i) - k + 1
  BY <1>1, <1>3 DEF Rest
<1>5. Head(Rest(i, k)) = GroupEntry(i, k)
  <2>1. Rest(i, k)[1] = GroupEntry(i, k + 1 - 1) /\ k + 1 - 1 = k
    BY <1>1 DEF Rest
  <2> QED
    BY <1>1, <1>4, <2>1
<1>6. ASSUME k < GroupSize(i)
      PROVE  Tail(Rest(i, k)) = Rest(i, k + 1) /\ k + 1 \in 1 .. GroupSize(i)
  <2> DEFINE n == GroupSize(i) - k
             s == Rest(i, k)
             t == Rest(i, k + 1)
  <2>1. /\ n \in Nat /\ Len(s) = n + 1 /\ GroupSize(i) - (k + 1) + 1 = n
        /\ k + 1 \in 1 .. GroupSize(i)
    BY <1>1, <1>4, <1>6
  <2>2. \A m \in 1 .. n : s[m + 1] = t[m]
    <3> TAKE m \in 1 .. n
    <3>1. /\ m + 1 \in 1 .. (GroupSize(i) - k + 1)
          /\ m \in 1 .. (GroupSize(i) - (k + 1) + 1)
          /\ k + (m + 1) - 1 = (k + 1) + m - 1
      BY <1>1, <2>1
    <3> QED
      BY <3>1 DEF Rest
  <2>3. \A m \in 1 .. n : (k + 1) + m - 1 \in 1 .. GroupSize(i)
    BY <1>1, <2>1
  <2>4. t \in Seq(Entry) /\ Len(t) = n
    <3>1. \A m \in 1 .. n : GroupEntry(i, (k + 1) + m - 1) \in Entry
      BY <2>3, GroupEntryType
    <3> QED
      BY <2>1, <3>1 DEF Rest
  <2> HIDE DEF s, t
  <2>5. /\ Tail(s) \in Seq(Entry) /\ Len(Tail(s)) = n
        /\ \A m \in 1 .. n : Tail(s)[m] = s[m + 1]
    <3>1. s \in Seq(Entry) /\ s # <<>>
      BY <1>4, <2>1 DEF s
    <3>2. /\ Tail(s) \in Seq(Entry) /\ Len(Tail(s)) = Len(s) - 1
          /\ \A m \in 1 .. Len(Tail(s)) : Tail(s)[m] = s[m + 1]
      BY <3>1, HeadTailProperties
    <3> QED
      BY <2>1, <3>2
  <2>6. Tail(s) = t
    BY <2>1, <2>2, <2>4, <2>5, SeqEqual
  <2> QED
    BY <2>1, <2>6 DEF s, t
<1> QED
  BY <1>4, <1>5, <1>6

-----------------------------------------------------------------------------
(* The ledger grows by what a process owes.                                 *)

LEMMA AppendAllowed ==
    ASSUME Ordered, Owing, NEW p \in Procs, AppendNext(p)
    PROVE  /\ ledger' = Append(ledger, Head(loc[p].owed))
           /\ Allowed(ledger, Head(loc[p].owed))
<1>1. /\ pc[p] = "append" /\ loc[p].owed # <<>> /\ loc[p].owed \in Seq(Entry)
      /\ ledger' = Append(ledger, Head(loc[p].owed))
  BY DEF AppendNext, Ordered, Typed, TypeOK, Local
<1>2. CASE Cmd(p) \notin Writers
  <2>1. 1 \in DOMAIN loc[p].owed /\ Head(loc[p].owed) = loc[p].owed[1]
    BY <1>1
  <2>2. Records(loc[p].owed[1])
    BY <1>2, <2>1 DEF Owing, Owes, OwnRecords
  <2> QED
    BY <1>1, <2>1, <2>2 DEF Allowed
<1>3. CASE Cmd(p) \in Writers
  <2>1. PICK i \in DOMAIN Transitions : \E k \in 1 .. GroupSize(i) :
           loc[p].owed = Rest(i, k) /\ Ready(i, k)
    BY <1>1, <1>3 DEF Owing, Owes, InGroup
  <2>2. PICK k \in 1 .. GroupSize(i) : loc[p].owed = Rest(i, k) /\ Ready(i, k)
    BY <2>1
  <2>3. Head(loc[p].owed) = GroupEntry(i, k)
    BY <2>2, RestFacts
  <2>4. CASE k = 1
    BY <1>1, <2>2, <2>3, <2>4 DEF Ready, Allowed, Begins
  <2>5. CASE k # 1
    <3>1. /\ k - 1 \in 1 .. GroupSize(i) /\ k - 1 < GroupSize(i)
          /\ (k - 1) + 1 = k
      BY <2>5, TransitionType
    <3>2. ledger[Len(ledger)] = GroupEntry(i, k - 1)
      BY <2>2, <2>5 DEF Ready
    <3>3. Continues(ledger, GroupEntry(i, k))
      BY <3>1, <3>2 DEF Continues
    <3> QED
      BY <1>1, <2>3, <3>3 DEF Allowed
  <2> QED
    BY <2>4, <2>5
<1> QED
  BY <1>2, <1>3

LEMMA OnlyAppends ==
    ASSUME [Next]_vars
    PROVE  ledger' = ledger \/ \E p \in Procs : AppendNext(p)
<1>1. ASSUME NEW p \in Procs, Proceed(p), ~AppendNext(p)
      PROVE  ledger' = ledger
  BY <1>1
  DEF Proceed, ReadLedger, NextItem, Prepare, SkipItem, Refuse, QueryFails,
      EvaluateHooks, TakeLock, TakeShared, TimeOut, Unlock, Decide, StateMoved,
      AppendFails, Seal, SealFails, WriteRender, EndPass, SaveFails,
      RenderFails, WriteCache, HashFile, Quit, Die, Exit, disk
<1>2. ASSUME NEW p \in Procs,
             \/ Kill(p)
             \/ \E j \in Jobs : Start(p, j)
             \/ \E q \in Procs, j \in GateJobs : RunGateCommand(p, q, j)
      PROVE  ledger' = ledger
  BY <1>2 DEF Kill, Die, Exit, Start, RunGateCommand, disk
<1> QED
  BY <1>1, <1>2 DEF Next, vars

(* Evidence stays, whoever appends.                                         *)
LEMMA LedgerGrows ==
    ASSUME Ordered, Ordered', [Next]_vars
    PROVE  /\ Len(ledger) \in Nat /\ Len(ledger) <= Len(ledger') /\ Len(ledger') \in Nat
           /\ \A i \in DOMAIN Transitions : Evidence(i, ledger) => Evidence(i, ledger')
<1>0. ledger \in Seq(Entry) /\ ledger' \in Seq(Entry)
  BY DEF Ordered, Typed, TypeOK
<1>1. CASE ledger' = ledger
  BY <1>0, <1>1
<1>2. ASSUME NEW p \in Procs, AppendNext(p)
      PROVE  /\ Len(ledger) <= Len(ledger')
             /\ \A i \in DOMAIN Transitions : Evidence(i, ledger) => Evidence(i, ledger')
  <2> DEFINE e == Head(loc[p].owed)
  <2>1. e \in Entry /\ ledger' = Append(ledger, e)
    BY <1>2 DEF AppendNext, Ordered, Typed, TypeOK, Local
  <2> HIDE DEF e
  <2>2. Len(ledger) \in 0 .. Len(ledger') /\ Len(ledger) \in 0 .. Len(ledger)
    BY <1>0, <2>1
  <2>3. Prefix(ledger', Len(ledger)) = ledger
    BY <1>0, <2>1, <2>2, PrefixOfAppend, WholePrefix
  <2> QED
    BY <1>0, <2>2, <2>3, EvidenceStays
<1> QED
  BY <1>0, <1>1, <1>2, OnlyAppends

-----------------------------------------------------------------------------
(* What each step leaves owed.                                              *)

LEMMA FreshOwes ==
    \A j \in Jobs : /\ Fresh(j).mem = 0 /\ Fresh(j).job = j
                    /\ \A n \in DOMAIN Fresh(j).owed : Records(Fresh(j).owed[n])
<1> SUFFICES ASSUME NEW j \in Jobs
             PROVE  /\ Fresh(j).mem = 0 /\ Fresh(j).job = j
                    /\ \A n \in DOMAIN Fresh(j).owed : Records(Fresh(j).owed[n])
  OBVIOUS
<1>1. j.records \in Seq(Event)
  BY JobFacts DEF Job
<1> QED
  BY <1>1 DEF Fresh, Records

(* A process that starts a command owes what the command records.           *)
LEMMA StartedOwes ==
    ASSUME Ordered', NEW p \in Procs, NEW j \in Jobs, loc'[p] = Fresh(j),
           pc'[p] \notin {"decide", "append"},
           pc'[p] = "lock" => j.cmd \notin Writers
    PROVE  Owes(p)'
<1>1. Len(ledger') \in Nat
  BY DEF Ordered, Typed, TypeOK
<1> QED
  BY <1>1, FreshOwes DEF Owes, OwnRecords, Cmd

(* A step that leaves what is owed owes it, outside the phases that move.   *)
LEMMA KeptOwes ==
    ASSUME Ordered, Owing, NEW p \in Procs, ledger' = ledger,
           loc'[p].job = loc[p].job, loc'[p].owed = loc[p].owed,
           loc'[p].mem \in {loc[p].mem, Len(ledger)},
           pc'[p] # "decide",
           Cmd(p) \in Writers => pc'[p] \notin {"lock", "append"}
    PROVE  Owes(p)'
<1>1. Len(ledger) \in Nat /\ Len(ledger) <= Len(ledger)
  BY DEF Ordered, Typed, TypeOK
<1> QED
  BY <1>1 DEF Owing, Owes, OwnRecords, Cmd

(* Where the flows of the commands that move the machine go.                *)
LEMMA FlowToAppend ==
    \A c \in Commands : \A ph \in DOMAIN Flow[c] :
        /\ Flow[c][ph] = "decide" => ph = "lock" /\ c \in Writers
        /\ c \in Writers /\ Flow[c][ph] = "lock" => ph = "check"
        /\ c \in Writers /\ Flow[c][ph] = "append" => ph = "decide"
        /\ ph = "decide" => Flow[c][ph] = "append" /\ c \in Writers
        /\ ph = "append" => Flow[c][ph] = "seal"
        /\ ph = "check" /\ c \in Writers => Flow[c][ph] = "lock"
        /\ ph = "lock" /\ c \in Writers => Flow[c][ph] = "decide"
        /\ ph = "relock" => Flow[c][ph] = "read"
BY DEF Commands, Flow, Writers, cmd_transition, cmd_event, handle_record_event,
       cmd_ledger_checkpoint, cmd_reseal, cmd_hook_eval, cmd_batch, cmd_render,
       cmd_manifest_verify
(* A step of p leaves what the others owe.                                  *)
LEMMA OthersOwe ==
    ASSUME Ordered, Ordered', Owing, [Next]_vars, NEW p \in Procs,
           NEW q \in Procs \ {p}, ledger' = ledger \/ writer = p,
           pc'[q] = pc[q], loc'[q].job = loc[q].job,
           loc'[q].owed = loc[q].owed, loc'[q].mem = loc[q].mem
    PROVE  Owes(q)'
<1>1. Owes(q) /\ Cmd(q)' = Cmd(q)
  BY DEF Owing, Cmd
<1>2. loc[q].mem \in Nat
  BY DEF Ordered, Typed, TypeOK, Local
<1>3. loc'[q].mem <= Len(ledger')
  BY <1>1, <1>2, LedgerGrows DEF Owes
<1>4. (Cmd(q) \notin Writers => OwnRecords(q))'
  BY <1>1 DEF Owes, OwnRecords
<1>5. ASSUME pc'[q] = "decide" \/ (pc'[q] = "lock" /\ Cmd(q)' \in Writers)
      PROVE  \E i \in DOMAIN Transitions :
                loc'[q].owed = Group(i) /\ Evidence(i, ledger')
  BY <1>1, <1>5, LedgerGrows DEF Owes
<1>6. ASSUME pc'[q] = "append", Cmd(q)' \in Writers
      PROVE  InGroup(q)'
  <2>1. writer = q
    BY <1>6 DEF Ordered, Locked, Exclusive
  <2>2. ledger' = ledger
    BY <2>1
  <2>3. InGroup(q)
    BY <1>1, <1>6 DEF Owes
  <2> QED
    BY <2>2, <2>3 DEF InGroup, Ready
<1>7. (\E i \in DOMAIN Transitions : loc[q].owed = Group(i) /\ Evidence(i, ledger))'
        <=> \E i \in DOMAIN Transitions :
                loc'[q].owed = Group(i) /\ Evidence(i, ledger')
  BY DEF Evidence, CountOf
<1> QED
  BY <1>3, <1>4, <1>5, <1>6, <1>7 DEF Owes

(* prepare_transition: the gates passed on a beginning of the ledger.       *)
LEMMA PrepareOwes ==
    ASSUME Ordered, Owing, NEW p \in Procs, Prepare(p)
    PROVE  Owes(p)'
<1>0. /\ loc[p] \in Local /\ loc \in [Procs -> Local]
      /\ ledger \in Seq(Entry) /\ Len(ledger) \in Nat /\ ledger' = ledger
      /\ pc[p] = "check" /\ pc[p] \in DOMAIN Flow[Cmd(p)]
      /\ Cmd(p) \in Writers /\ Cmd(p) \in Commands
      /\ pc'[p] = Flow[Cmd(p)][pc[p]]
  BY CmdType, GotoFacts DEF Prepare, Ordered, Typed, TypeOK, disk
<1>1. PICK i \in DOMAIN Transitions :
         /\ Chosen(i, loc[p].job.command, InMemory(p))
         /\ Remember(p, [loc[p] EXCEPT !.owed = Group(i), !.mem = Len(ledger),
                                       !.child = NoProc])
  BY DEF Prepare
<1>2. Evidence(i, Prefix(ledger, loc[p].mem)) /\ loc[p].mem \in 0 .. Len(ledger)
  BY <1>0, <1>1 DEF Chosen, GatesPass, InMemory, Owing, Owes, Local
<1>3. Evidence(i, ledger)
  BY <1>0, <1>2, EvidenceStays
<1>4. /\ loc'[p].owed = Group(i) /\ loc'[p].mem = Len(ledger)
      /\ loc'[p].job = loc[p].job
  BY <1>0, <1>1 DEF Remember, Local
<1>5. pc'[p] = "lock" /\ Cmd(p)' = Cmd(p)
  BY <1>0, <1>4, FlowToAppend DEF Cmd
<1> QED
  BY <1>0, <1>3, <1>4, <1>5 DEF Owes

LEMMA TakeLockOwes ==
    ASSUME Ordered, Owing, NEW p \in Procs, TakeLock(p)
    PROVE  Owes(p)'
<1>0. /\ loc[p] \in Local /\ loc \in [Procs -> Local] /\ Len(ledger) \in Nat
      /\ ledger' = ledger /\ pc[p] \in {"lock", "relock"}
      /\ pc[p] \in DOMAIN Flow[Cmd(p)] /\ Cmd(p) \in Commands
      /\ pc'[p] = Flow[Cmd(p)][pc[p]]
  BY CmdType, GotoFacts DEF TakeLock, Ordered, Typed, TypeOK, disk
<1>1. /\ loc'[p].owed = loc[p].owed /\ loc'[p].mem = loc[p].mem
      /\ loc'[p].job = loc[p].job
  BY <1>0 DEF TakeLock, Remember, Local
<1>2. Owes(p) /\ Cmd(p)' = Cmd(p)
  BY <1>1 DEF Owing, Cmd
<1>3. CASE pc[p] = "lock" /\ Cmd(p) \in Writers
  <2>1. pc'[p] = "decide"
    BY <1>0, <1>3, FlowToAppend
  <2>2. \E i \in DOMAIN Transitions : loc[p].owed = Group(i) /\ Evidence(i, ledger)
    BY <1>2, <1>3 DEF Owes
  <2> QED
    BY <1>0, <1>1, <1>2, <1>3, <2>1, <2>2 DEF Owes
<1>4. CASE ~(pc[p] = "lock" /\ Cmd(p) \in Writers)
  <2>1. pc'[p] # "decide" /\ (Cmd(p) \in Writers => pc'[p] \notin {"lock", "append"})
    BY <1>0, <1>4, FlowToAppend
  <2> QED
    BY <1>0, <1>1, <2>1, KeptOwes
<1> QED
  BY <1>3, <1>4

(* commit_transition: the machine is in the state the transition leaves.    *)
LEMMA DecideOwes ==
    ASSUME Ordered, Owing, NEW p \in Procs, Decide(p)
    PROVE  Owes(p)'
<1>0. /\ loc[p] \in Local /\ loc \in [Procs -> Local]
      /\ ledger' = ledger /\ pc[p] = "decide" /\ Len(ledger) \in Nat
      /\ pc[p] \in DOMAIN Flow[Cmd(p)] /\ Cmd(p) \in Commands
      /\ pc'[p] = Flow[Cmd(p)][pc[p]]
      /\ StateOf(ledger) = Planned(p).from
  BY CmdType, GotoFacts DEF Decide, Ordered, Typed, TypeOK, disk
<1>1. /\ loc'[p].owed = loc[p].owed /\ loc'[p].mem = Len(ledger)
      /\ loc'[p].job = loc[p].job
  BY <1>0 DEF Decide, Remember, Local
<1>2. pc'[p] = "append" /\ Cmd(p) \in Writers /\ Cmd(p)' = Cmd(p)
  BY <1>0, <1>1, FlowToAppend DEF Cmd
<1>3. PICK i \in DOMAIN Transitions : loc[p].owed = Group(i) /\ Evidence(i, ledger)
  BY <1>0 DEF Owing, Owes
<1>4. Group(i)[1] = GroupEntry(i, 1)
  BY WholeRest DEF Group
<1>5. Planned(p) = Transitions[i]
  BY <1>3, <1>4 DEF Planned, GroupEntry
<1>6. loc'[p].owed = Rest(i, 1) /\ 1 \in 1 .. GroupSize(i) /\ Ready(i, 1)
  BY <1>0, <1>1, <1>3, <1>5, WholeRest DEF Ready
<1>7. InGroup(p)'
  BY <1>0, <1>6 DEF InGroup, Ready
<1> QED
  BY <1>0, <1>1, <1>2, <1>7 DEF Owes

(* Each append leaves the rest of its group, which continues what is now    *)
(* the ledger's last entry.                                                 *)
LEMMA AppendOwes ==
    ASSUME Ordered, Ordered', Owing, NEW p \in Procs, AppendNext(p)
    PROVE  Owes(p)'
<1> DEFINE e == Head(loc[p].owed)
           rest == Tail(loc[p].owed)
           emits == WithEmitted(p, e)
           l == [loc[p] EXCEPT !.mem = Len(ledger) + 1, !.owed = rest,
                               !.emitted = emits]
<1>9. pc[p] = "append" /\ loc[p].owed # <<>> /\ NextOwed(p)
  BY DEF AppendNext
<1>0. /\ loc[p] \in Local /\ loc \in [Procs -> Local] /\ pc \in [Procs -> Phase]
      /\ ledger \in Seq(Entry) /\ Len(ledger) \in Nat /\ pc[p] = "append"
      /\ pc[p] \in DOMAIN Flow[Cmd(p)] /\ Cmd(p) \in Commands
      /\ loc[p].owed \in Seq(Entry) /\ loc[p].owed # <<>>
      /\ NextOwed(p)
  BY <1>9, CmdType DEF Ordered, Typed, TypeOK, Local
<1>8. loc'[p] = l
  BY <1>0 DEF AppendNext, Remember
<1>1. ledger' = Append(ledger, e) /\ e \in Entry
  BY <1>0 DEF AppendNext
<1>2. Flow[Cmd(p)]["append"] = "seal"
  BY <1>0, FlowToAppend
<1>3. /\ Len(loc[p].owed) > 1 => pc'[p] = "append"
      /\ ~(Len(loc[p].owed) > 1) => pc'[p] = "seal"
  BY <1>0, <1>2 DEF NextOwed, Goto, NextPhase
<1> HIDE DEF e, rest, emits
<1>4. l.mem = Len(ledger) + 1 /\ l.owed = rest /\ l.job = loc[p].job
  BY <1>0 DEF Local
<1> HIDE DEF l
<1>5. /\ Len(ledger') = Len(ledger) + 1 /\ ledger'[Len(ledger')] = e
      /\ loc'[p].mem <= Len(ledger') /\ Cmd(p)' = Cmd(p)
  BY <1>0, <1>1, <1>4, <1>8 DEF Cmd
<1>6. ASSUME Cmd(p) \notin Writers PROVE OwnRecords(p)'
  <2>1. /\ Len(rest) = Len(loc[p].owed) - 1 /\ rest \in Seq(Entry)
        /\ \A n \in 1 .. Len(rest) : rest[n] = loc[p].owed[n + 1]
    BY <1>0, HeadTailProperties DEF rest
  <2>2. \A n \in DOMAIN loc[p].owed : Records(loc[p].owed[n])
    BY <1>6 DEF Owing, Owes, OwnRecords
  <2>3. \A n \in DOMAIN rest : Records(rest[n])
    <3> TAKE n \in DOMAIN rest
    <3>1. n \in 1 .. Len(rest) /\ n + 1 \in DOMAIN loc[p].owed
      BY <1>0, <2>1
    <3> QED
      BY <2>1, <2>2, <3>1
  <2> QED
    BY <1>4, <1>8, <2>3 DEF OwnRecords
<1>7. ASSUME Cmd(p) \in Writers, pc'[p] = "append" PROVE InGroup(p)'
  <2>1. PICK i \in DOMAIN Transitions : \E k \in 1 .. GroupSize(i) :
           loc[p].owed = Rest(i, k) /\ Ready(i, k)
    BY <1>0, <1>7 DEF Owing, Owes, InGroup
  <2>2. PICK k \in 1 .. GroupSize(i) : loc[p].owed = Rest(i, k)
    BY <2>1
  <2>3. Len(loc[p].owed) > 1
    BY <1>3, <1>7
  <2>4. k < GroupSize(i) /\ GroupSize(i) \in Nat
    BY <2>2, <2>3, RestFacts, TransitionType
  <2>5. e = GroupEntry(i, k) /\ rest = Rest(i, k + 1) /\ k + 1 \in 1 .. GroupSize(i)
    BY <2>2, <2>4, RestFacts DEF e, rest
  <2>6. k + 1 # 1 /\ (k + 1) - 1 = k
    BY <2>4
  <2>7. ledger'[Len(ledger')] = GroupEntry(i, (k + 1) - 1)
    BY <1>5, <2>5, <2>6
  <2> QED
    BY <1>4, <1>8, <2>5, <2>6, <2>7 DEF InGroup, Ready
<1> QED
  BY <1>3, <1>5, <1>6, <1>7 DEF Owes

(* An append that fails and is only warned of: the next record is tried.    *)
LEMMA SkipRecordOwes ==
    ASSUME Ordered, Owing, NEW p \in Procs, AppendFails(p), ~Die(p)
    PROVE  Owes(p)'
<1> DEFINE rest == Tail(loc[p].owed)
           l == [loc[p] EXCEPT !.owed = rest]
<1>0. /\ loc[p] \in Local /\ loc \in [Procs -> Local] /\ pc \in [Procs -> Phase]
      /\ Len(ledger) \in Nat /\ pc[p] = "append" /\ ledger' = ledger
      /\ pc[p] \in DOMAIN Flow[Cmd(p)] /\ Cmd(p) \in Commands
      /\ loc[p].owed \in Seq(Entry) /\ loc[p].owed # <<>>
      /\ NextOwed(p) /\ Cmd(p) = "hook_eval" /\ Cmd(p) \notin Writers
  <2>1. /\ loc \in [Procs -> Local] /\ pc \in [Procs -> Phase]
        /\ Len(ledger) \in Nat /\ pc[p] \in DOMAIN Flow[Cmd(p)]
    BY DEF Ordered, Typed, TypeOK
  <2>2. loc[p] \in Local /\ loc[p].owed \in Seq(Entry)
    BY <2>1 DEF Local
  <2>3. /\ pc[p] = "append" /\ loc[p].owed # <<>> /\ NextOwed(p)
        /\ Cmd(p) = "hook_eval" /\ ledger' = ledger
    BY DEF AppendFails, disk
  <2> QED
    BY <2>1, <2>2, <2>3, CmdType DEF Ordered, Writers
<1>1. loc'[p] = l
  BY <1>0 DEF AppendFails, Remember
<1>2. pc'[p] \in {"append", "seal"}
  BY <1>0, FlowToAppend DEF NextOwed, Goto, NextPhase
<1>3. /\ Len(rest) = Len(loc[p].owed) - 1 /\ rest \in Seq(Entry)
      /\ \A n \in 1 .. Len(rest) : rest[n] = loc[p].owed[n + 1]
  BY <1>0, HeadTailProperties
<1> HIDE DEF rest
<1>4. l.mem = loc[p].mem /\ l.owed = rest /\ l.job = loc[p].job
  BY <1>0 DEF Local
<1> HIDE DEF l
<1>5. loc[p].mem <= Len(ledger)
      /\ \A n \in DOMAIN loc[p].owed : Records(loc[p].owed[n])
  BY <1>0 DEF Owing, Owes, OwnRecords
<1>6. \A n \in DOMAIN rest : Records(rest[n])
  <2> TAKE n \in DOMAIN rest
  <2>1. n \in 1 .. Len(rest) /\ n + 1 \in DOMAIN loc[p].owed
    BY <1>0, <1>3
  <2> QED
    BY <1>3, <1>5, <2>1
<1>7. OwnRecords(p)' /\ Cmd(p)' = Cmd(p)
  BY <1>1, <1>4, <1>6 DEF OwnRecords, Cmd
<1> QED
  BY <1>0, <1>1, <1>2, <1>4, <1>5, <1>7 DEF Owes

LEMMA ProceedOwes ==
    ASSUME Ordered, Ordered', Owing, NEW p \in Procs, Proceed(p)
    PROVE  Owes(p)'
<1> USE DEF Remember
<1>0. /\ loc[p] \in Local /\ loc \in [Procs -> Local] /\ Typed
      /\ pc \in [Procs -> Phase] /\ pc[p] \in DOMAIN Flow[Cmd(p)]
      /\ Cmd(p) \in Commands /\ NoJob \in Jobs
  BY CmdType, JobFacts DEF Ordered, Typed, TypeOK
<1>1. ASSUME Goto(p), pc[p] \notin {"lock", "check", "decide"}
             \/ Cmd(p) = "hook_eval"
      PROVE  pc'[p] # "decide" /\ (Cmd(p) \in Writers => pc'[p] \notin {"lock", "append"})
  <2>1. pc'[p] = Flow[Cmd(p)][pc[p]]
    BY <1>0, <1>1, GotoFacts
  <2> QED
    BY <1>0, <1>1, <2>1, FlowToAppend DEF Writers
<1>2. ASSUME pc'[p] = "idle", loc'[p] = Fresh(NoJob)
      PROVE  Owes(p)'
  BY <1>0, <1>2, StartedOwes
<1>3. CASE Refuse(p) \/ QueryFails(p) \/ TimeOut(p) \/ StateMoved(p) \/ SealFails(p)
           \/ (AppendFails(p) /\ Die(p)) \/ (EvaluateHooks(p) /\ Quit(p))
  BY <1>0, <1>2, <1>3 DEF Refuse, QueryFails, TimeOut, StateMoved, SealFails, Quit, Die, Exit
<1>4. CASE WriteCache(p)
  BY <1>0, <1>2, <1>4, GotoFacts, CacheIsLast DEF WriteCache
<1>5. CASE ReadLedger(p)
  <2> DEFINE todo == IF pc[p] = "read" THEN Passes(p) ELSE <<>>
             l == [loc[p] EXCEPT !.mem = Len(ledger), !.todo = todo]
  <2>1. loc'[p] = l /\ ledger' = ledger
    BY <1>0, <1>5 DEF ReadLedger, disk
  <2> HIDE DEF todo
  <2>2. l.job = loc[p].job /\ l.owed = loc[p].owed /\ l.mem = Len(ledger)
    BY <1>0 DEF Local
  <2> QED
    BY <1>1, <1>5, <2>1, <2>2, KeptOwes DEF ReadLedger
<1>6. ASSUME loc'[p].job = loc[p].job, loc'[p].owed = loc[p].owed,
             loc'[p].mem = loc[p].mem, ledger' = ledger,
             \/ Goto(p) /\ pc[p] \notin {"lock", "check", "decide"}
             \/ Goto(p) /\ Cmd(p) = "hook_eval"
             \/ pc'[p] \in {"item", "relock", "render", "hash"}
      PROVE  Owes(p)'
  BY <1>1, <1>6, KeptOwes
<1>7. CASE NextItem(p)
  BY <1>0, <1>6, <1>7 DEF NextItem, Local, disk
<1>8. CASE SkipItem(p)
  BY <1>0, <1>6, <1>8 DEF SkipItem, Local, disk
<1>9. CASE EvaluateHooks(p) /\ ~Quit(p)
  BY <1>0, <1>6, <1>9 DEF EvaluateHooks, Local, disk
<1>10. CASE TakeShared(p)
  BY <1>0, <1>6, <1>10 DEF TakeShared, Local, disk
<1>11. CASE Unlock(p)
  <2>1. CASE NextPhase(p) = "idle"
    BY <1>0, <1>2, <1>11, <2>1, GotoFacts DEF Unlock, NextPhase
  <2>2. CASE NextPhase(p) # "idle"
    <3>1. /\ loc'[p].job = loc[p].job /\ loc'[p].owed = loc[p].owed
          /\ loc'[p].mem = loc[p].mem /\ ledger' = ledger
      BY <1>0, <1>11, <2>2 DEF Unlock, Local, disk
    <3> QED
      BY <1>6, <1>11, <3>1 DEF Unlock, Finished
  <2> QED
    BY <2>1, <2>2
<1>12. CASE Seal(p)
  <2> DEFINE sealed == [loc[p].man EXCEPT !["ledger"] = Len(ledger)]
             todo == IF NextPhase(p) = "render" THEN Passes(p) ELSE <<>>
             l == [loc[p] EXCEPT !.man = sealed, !.todo = todo]
  <2>1. loc'[p] = l /\ ledger' = ledger
    BY <1>0, <1>12 DEF Seal
  <2> HIDE DEF sealed, todo
  <2>2. l.job = loc[p].job /\ l.owed = loc[p].owed /\ l.mem = loc[p].mem
    BY <1>0 DEF Local
  <2> QED
    BY <1>6, <1>12, <2>1, <2>2 DEF Seal
<1>13. CASE WriteRender(p)
  <2> DEFINE man == [loc[p].man EXCEPT ![Pass(p)[loc[p].rendered + 1]] = loc[p].mem]
             l == [loc[p] EXCEPT !.man = man, !.rendered = loc[p].rendered + 1]
  <2>1. loc'[p] = l /\ ledger' = ledger /\ pc'[p] = "render"
    BY <1>0, <1>13 DEF WriteRender, PassOpen
  <2> HIDE DEF man
  <2>2. l.job = loc[p].job /\ l.owed = loc[p].owed /\ l.mem = loc[p].mem
    BY <1>0 DEF Local
  <2> QED
    BY <1>6, <2>1, <2>2
<1>14. ASSUME PassOver(p), PassOpen(p), pc'[p] = pc[p], ledger' = ledger
       PROVE  Owes(p)'
  <2> DEFINE rest == Tail(loc[p].todo)
             l == [loc[p] EXCEPT !.todo = rest, !.rendered = 0]
  <2>1. loc'[p] = l
    BY <1>0, <1>14 DEF PassOver
  <2> HIDE DEF rest
  <2>2. l.job = loc[p].job /\ l.owed = loc[p].owed /\ l.mem = loc[p].mem
    BY <1>0 DEF Local
  <2> QED
    BY <1>6, <1>14, <2>1, <2>2 DEF PassOpen
<1>15. CASE EndPass(p) \/ SaveFails(p) \/ (RenderFails(p) /\ Cmd(p) # "render")
  BY <1>14, <1>15 DEF EndPass, SaveFails, RenderFails, disk
<1>16. CASE RenderFails(p) /\ Cmd(p) = "render"
  BY <1>0, <1>2, <1>16 DEF RenderFails
<1>17. CASE \E f \in Files : HashFile(p, f)
  <2> PICK f \in Files : HashFile(p, f)
    BY <1>17
  <2> DEFINE found == IF loc[p].man[f] \in {0, Content(f)} THEN loc[p].found
                      ELSE loc[p].found \cup {f}
             unread == loc[p].unread \ {f}
             l == [loc[p] EXCEPT !.unread = unread, !.found = found]
  <2>1. loc'[p] = l /\ ledger' = ledger /\ pc'[p] = "hash"
    BY <1>0 DEF HashFile, disk
  <2> HIDE DEF found, unread
  <2>2. l.job = loc[p].job /\ l.owed = loc[p].owed /\ l.mem = loc[p].mem
    BY <1>0 DEF Local
  <2> QED
    BY <1>6, <2>1, <2>2
<1> QED
  BY <1>3, <1>4, <1>5, <1>7, <1>8, <1>9, <1>10, <1>11, <1>12, <1>13, <1>15,
     <1>16, <1>17, PrepareOwes, TakeLockOwes, DecideOwes, AppendOwes,
     SkipRecordOwes
  DEF Proceed

LEMMA NextOwing ==
    ASSUME Ordered, Ordered', Owing, [Next]_vars
    PROVE  Owing'
<1>0. loc \in [Procs -> Local] /\ pc \in [Procs -> Phase]
  BY DEF Ordered, Typed, TypeOK
<1> DEFINE Others(p) == \A q \in Procs \ {p} : pc'[q] = pc[q] /\ loc'[q] = loc[q]
<1>1. ASSUME NEW p \in Procs, Others(p), Owes(p)', ledger' = ledger \/ writer = p
      PROVE  Owing'
  <2>1. \A q \in Procs \ {p} : Owes(q)'
    BY <1>1, OthersOwe
  <2> QED
    BY <1>1, <2>1 DEF Owing
<1>2. ASSUME NEW p \in Procs, Proceed(p) PROVE Owing'
  <2>1. Others(p)
    BY <1>2, ProceedFrame DEF Ordered
  <2>2. CASE pc[p] = "append"
    BY <1>1, <1>2, <2>1, <2>2, ProceedOwes DEF Ordered, Locked, Exclusive
  <2>3. CASE pc[p] # "append"
    <3>1. ledger' = ledger
      BY <1>2, <2>3
      DEF Proceed, ReadLedger, NextItem, Prepare, SkipItem, Refuse, QueryFails,
          EvaluateHooks, TakeLock, TakeShared, TimeOut, Unlock, Decide,
          StateMoved, AppendNext, AppendFails, Seal, SealFails, WriteRender,
          EndPass, SaveFails, RenderFails, WriteCache, HashFile, Quit, Die,
          Exit, disk
    <3> QED
      BY <1>1, <1>2, <2>1, <3>1, ProceedOwes
  <2> QED
    BY <2>2, <2>3
<1>3. ASSUME NEW p \in Procs, Kill(p) PROVE Owing'
  <2>1. Others(p) /\ pc'[p] = "idle" /\ loc'[p] = Fresh(NoJob) /\ ledger' = ledger
    BY <1>0, <1>3 DEF Kill, Die, Exit, Remember, disk
  <2>2. Owes(p)'
    BY <2>1, JobFacts, StartedOwes
  <2> QED
    BY <1>1, <2>1, <2>2
<1>4. ASSUME NEW p \in Procs, NEW j \in Jobs, Start(p, j) PROVE Owing'
  <2>1. /\ Others(p) /\ loc'[p] = Fresh(j) /\ ledger' = ledger
        /\ pc'[p] = Flow[j.cmd]["idle"] /\ pc'[p] \notin Exclusive
    BY <1>0, <1>4, LaunchTyped DEF Start, Launch, Remember, Ordered, disk
  <2>2. Owes(p)'
    BY <2>1, LaunchToLock, StartedOwes DEF Exclusive
  <2> QED
    BY <1>1, <2>1, <2>2
<1>5. ASSUME NEW p \in Procs, NEW q \in Procs, NEW j \in GateJobs,
             RunGateCommand(p, q, j)
      PROVE  Owing'
  <2> DEFINE l == [loc[p] EXCEPT !.child = q]
  <2>1. /\ pc[p] = "check" /\ q # p /\ Launch(q, j) /\ j \in Jobs
        /\ loc' = [loc EXCEPT ![p] = l, ![q] = Fresh(j)] /\ ledger' = ledger
    BY <1>5, JobFacts DEF RunGateCommand, disk
  <2>2. /\ pc'[q] \notin Exclusive /\ pc'[q] = Flow[j.cmd]["idle"]
        /\ \A r \in Procs \ {q} : pc'[r] = pc[r]
    BY <1>0, <2>1, LaunchTyped DEF Launch, Ordered
  <2>3. l.job = loc[p].job /\ l.owed = loc[p].owed /\ l.mem = loc[p].mem
    BY <1>0 DEF Local
  <2> HIDE DEF l
  <2>4. /\ loc'[p] = l /\ loc'[q] = Fresh(j)
        /\ \A r \in Procs \ {p, q} : loc'[r] = loc[r]
    BY <1>0, <2>1
  <2>5. Owes(q)'
    BY <2>1, <2>2, <2>4, LaunchToLock, StartedOwes DEF Exclusive
  <2>6. \A r \in Procs \ {q} : Owes(r)'
    <3> TAKE r \in Procs \ {q}
    <3>1. /\ loc'[r].job = loc[r].job /\ loc'[r].owed = loc[r].owed
          /\ loc'[r].mem = loc[r].mem /\ pc'[r] = pc[r]
      BY <2>2, <2>3, <2>4
    <3> QED
      BY <2>1, <3>1, OthersOwe
  <2> QED
    BY <2>5, <2>6 DEF Owing
<1>6. CASE UNCHANGED vars
  BY <1>6 DEF vars, Owing, Owes, OwnRecords, InGroup, Ready, Evidence, CountOf, Cmd
<1> QED
  BY <1>2, <1>3, <1>4, <1>5, <1>6 DEF Next

LEMMA InitOwing == ASSUME Init, Ordered PROVE Owing
<1>1. Len(ledger) \in Nat
  BY DEF Ordered, Typed, TypeOK
<1>2. \A p \in Procs : loc[p] = Fresh(NoJob) /\ pc[p] = "idle" /\ NoJob \in Jobs
  BY JobFacts DEF Init
<1> QED
  BY <1>1, <1>2, FreshOwes DEF Owing, Owes, OwnRecords, Cmd

LEMMA OrderedOwing == Spec => [](Ordered /\ Owing)
<1>1. Init /\ Ordered => Owing
  BY InitOwing
<1>2. Ordered /\ Ordered' /\ Owing /\ [Next]_vars => Owing'
  BY NextOwing
<1> QED
  BY <1>1, <1>2, OneWriter, PTL DEF Spec

-----------------------------------------------------------------------------
(* The ledger is lawful: every transition the engine takes leaves from the  *)
(* state the ledger is in, on the evidence its gates ask for, its entries   *)
(* together, whatever commit_transition races with and whatever is recorded *)
(* in between, a state_transition written by hand included.                 *)
THEOREM LedgersLawful == Spec => []LedgerLawful
<1>1. Init => Lawful(ledger)
  BY GenesisLawful DEF Init
<1>2. Ordered /\ Owing /\ Lawful(ledger) /\ [Next]_vars => Lawful(ledger')
  BY OnlyAppends, AppendAllowed, AllowedLawful
<1>3. Lawful(ledger)' <=> Lawful(ledger')
  BY DEF Lawful, FromTruthful, EvidencePrecedes, GroupsContiguous, Taken,
         Moves, StateOf, LastMove, Evidence, CountOf, Prefix
<1>4. Lawful(ledger) => LedgerLawful
  BY DEF Lawful, LedgerLawful
<1> QED
  BY <1>1, <1>2, <1>3, <1>4, OrderedOwing, PTL DEF Spec

(* The abstract protocol's entries are the engine's.                        *)
LEMMA SameRules ==
    /\ \A i, k : Abstract!GroupEntry(i, k) = GroupEntry(i, k)
    /\ \A i : Abstract!GroupSize(i) = GroupSize(i)
    /\ \A e : Abstract!Recorded(e) = Recorded(e)
    /\ Abstract!Genesis = Genesis
    /\ Abstract!Event = Event
    /\ Abstract!StateOf(ledger) = StateOf(ledger)
    /\ \A i : Abstract!Evidence(i, ledger) = Evidence(i, ledger)
<1>1. /\ \A i : Abstract!GroupSize(i) = GroupSize(i)
      /\ \A i : Abstract!Own(i) = Own(i)
  BY DEF Abstract!Own, Own, Abstract!GroupSize, GroupSize
<1>2. /\ \A i, k : Abstract!GroupEntry(i, k) = GroupEntry(i, k)
      /\ \A e : Abstract!Recorded(e) = Recorded(e)
      /\ Abstract!Genesis = Genesis
      /\ Abstract!Event = Event
  BY <1>1 DEF Abstract!Event, Event, Abstract!GroupEntry, GroupEntry,
              Abstract!Recorded, Recorded, Abstract!Genesis, Genesis
<1>3. Abstract!Moves(ledger) = Moves(ledger)
  BY DEF Abstract!Moves, Moves
<1>4. Abstract!LastMove(ledger) = LastMove(ledger)
  BY <1>3 DEF Abstract!LastMove, LastMove
<1>5. Abstract!StateOf(ledger) = StateOf(ledger)
  BY <1>3, <1>4 DEF Abstract!StateOf, StateOf
<1>6. \A e : Abstract!CountOf(ledger, e) = CountOf(ledger, e)
  BY DEF Abstract!CountOf, CountOf, Abstract!Cardinality, Cardinality
<1>7. \A i : Abstract!Evidence(i, ledger) = Evidence(i, ledger)
  BY <1>6 DEF Abstract!Evidence, Evidence
<1> QED
  BY <1>1, <1>2, <1>5, <1>7

(* The engine implements the protocol: no command's step does anything to   *)
(* the ledger but append what the protocol allows next.                     *)
THEOREM EngineImplementsProtocol == Spec => ImplementsProtocol
<1>1. Init => Abstract!Init
  BY SameRules DEF Init, Abstract!Init
<1>2. ASSUME Ordered, Owing, [Next]_vars PROVE [Abstract!Next]_ledger
  <2>1. ASSUME NEW e, ledger' = Append(ledger, e), Allowed(ledger, e)
        PROVE  Abstract!Next
    <3>1. CASE Begins(ledger, e)
      BY <2>1, <3>1, SameRules DEF Begins, Abstract!Next, Abstract!TakeTransition
    <3>2. CASE Continues(ledger, e)
      BY <2>1, <3>2, SameRules DEF Continues, Abstract!Next, Abstract!Continue
    <3>3. CASE Records(e)
      BY <2>1, <3>3, SameRules DEF Records, Abstract!Next, Abstract!Record
    <3> QED
      BY <2>1, <3>1, <3>2, <3>3 DEF Allowed
  <2> QED
    BY <1>2, <2>1, OnlyAppends, AppendAllowed
<1> QED
  BY <1>1, <1>2, OrderedOwing, PTL DEF Spec, ImplementsProtocol, Abstract!Spec

-----------------------------------------------------------------------------
(* The ledgers the protocol allows are lawful.                              *)

(* Each step of the protocol appends an entry that may come next.           *)
LEMMA ProtocolAllows ==
    ASSUME Abstract!Next
    PROVE  \E e : ledger' = Append(ledger, e) /\ Allowed(ledger, e)
<1>1. ASSUME NEW i \in DOMAIN Transitions, Abstract!TakeTransition(i)
      PROVE  /\ ledger' = Append(ledger, GroupEntry(i, 1))
             /\ Allowed(ledger, GroupEntry(i, 1))
  BY <1>1, SameRules DEF Abstract!TakeTransition, Allowed, Begins
<1>2. ASSUME NEW i \in DOMAIN Transitions, NEW k \in 1 .. GroupSize(i),
             Abstract!Continue(i, k)
      PROVE  /\ ledger' = Append(ledger, GroupEntry(i, k + 1))
             /\ Allowed(ledger, GroupEntry(i, k + 1))
  BY <1>2, SameRules DEF Abstract!Continue, Allowed, Continues
<1>3. ASSUME NEW t \in Event, Abstract!Record(t)
      PROVE  /\ ledger' = Append(ledger, Recorded(t))
             /\ Allowed(ledger, Recorded(t))
  BY <1>3, SameRules DEF Abstract!Record, Allowed, Records
<1> QED
  BY <1>1, <1>2, <1>3, SameRules DEF Abstract!Next

(* Whatever order its steps are taken in, the protocol's ledger records     *)
(* each transition from the state it was in, on the evidence asked for,     *)
(* with its entries together.                                               *)
THEOREM ProtocolLawful == Abstract!Spec => []Lawful(ledger)
<1>1. Abstract!Init => Lawful(ledger)
  BY GenesisLawful, SameRules DEF Abstract!Init
<1>2. Lawful(ledger) /\ [Abstract!Next]_ledger => Lawful(ledger)'
  <2> SUFFICES ASSUME Lawful(ledger), [Abstract!Next]_ledger PROVE Lawful(ledger')
    BY DEF Lawful, FromTruthful, EvidencePrecedes, GroupsContiguous, Taken,
           Moves, StateOf, LastMove, Evidence, CountOf, Prefix
  <2>1. CASE Abstract!Next
    <3>1. PICK e : ledger' = Append(ledger, e) /\ Allowed(ledger, e)
      BY <2>1, ProtocolAllows
    <3> QED
      BY <3>1, AllowedLawful
  <2>2. CASE UNCHANGED ledger
    BY <2>2
  <2> QED
    BY <2>1, <2>2
<1> QED
  BY <1>1, <1>2, PTL DEF Abstract!Spec

-----------------------------------------------------------------------------
(* The seals.                                                               *)

(* The manifest in the memory of the process that holds the lock is the one *)
(* on disk, but for the views the pass has rendered; and what is on disk is *)
(* sealed, but for the ledger it has appended to.                           *)
Rendering(p) ==
    /\ loc[p].mem = Len(ledger)
    /\ \A f \in Files : loc[p].man[f] \in {manifest[f], Len(ledger)}
    /\ \A f \in Files : Content(f) # loc[p].man[f] => f \in loose
    /\ "ledger" \in Unsealed => "ledger" \in loose
    /\ loc[p].rendered = 0 => Unsealed \subseteq loose
    /\ loc[p].todo = <<>> => loc[p].rendered = 0

Held(p) ==
    /\ pc[p] \in {"decide", "append", "seal", "drop", "read"} =>
          loc[p].man = manifest
    /\ pc[p] \in {"decide", "drop", "read"} => Unsealed \subseteq loose
    /\ pc[p] \in {"append", "seal"} => Unsealed \subseteq loose \cup {"ledger"}
    /\ pc[p] = "seal" /\ Cmd(p) # "hook_eval" => loc[p].mem = Len(ledger)
    /\ pc[p] = "render" => Rendering(p)
    /\ pc[p] # "render" => loc[p].rendered = 0

(* Nothing was written from a longer ledger than there is.                  *)
Bounded ==
    /\ \A f \in Files : manifest[f] <= Len(ledger)
    /\ \A v \in Views : view[v] <= Len(ledger)

Sealing == SealedUnlessLoose /\ Bounded /\ \A p \in Procs : Held(p)

(* The flows through the critical section.                                  *)
LEMMA FlowHeld ==
    \A c \in Commands : \A ph \in DOMAIN Flow[c] :
        LET next == Flow[c][ph] IN
        /\ ph \in {"lock", "relock"} => next \in {"decide", "append", "read"}
        /\ ph = "decide" => next = "append"
        /\ ph = "append" => next = "seal"
        /\ ph = "seal" => next \in {"render", "drop"}
        /\ ph = "seal" /\ next = "render" => c # "hook_eval"
        /\ ph = "read" => next = "render"
BY DEF Commands, Flow, cmd_transition, cmd_event, handle_record_event,
       cmd_ledger_checkpoint, cmd_reseal, cmd_hook_eval, cmd_batch, cmd_render,
       cmd_manifest_verify

LEMMA ContentType == Typed => \A f \in Files : Content(f) \in Nat
BY DEF Typed, TypeOK, Content, Files

Alone(p) == \A q \in Procs \ {p} : pc'[q] = pc[q] /\ loc'[q] = loc[q]

(* What a step must keep: the others hold nothing it changes.               *)
LEMMA SealingStep ==
    ASSUME Ordered, Ordered', Sealing, NEW p \in Procs, Alone(p),
           writer = p \/ writer' = p \/ UNCHANGED <<ledger, manifest, view, loose>>,
           SealedUnlessLoose', Held(p)', Bounded'
    PROVE  Sealing'
<1>1. ASSUME NEW q \in Procs \ {p} PROVE Held(q)'
  <2>1. pc'[q] = pc[q] /\ loc'[q] = loc[q] /\ Held(q)
    BY DEF Alone, Sealing
  <2>2. CASE UNCHANGED <<ledger, manifest, view, loose>>
    <3>1. (\A f \in Files : Content(f)' = Content(f)) /\ Unsealed' = Unsealed
      BY <2>2 DEF Content, Unsealed
    <3> QED
      BY <2>1, <2>2, <3>1 DEF Held, Rendering, Cmd
  <2>3. CASE writer = p \/ writer' = p
    <3>1. pc'[q] \notin Exclusive
      BY <2>1, <2>3 DEF Ordered, Locked
    <3> QED
      BY <2>1, <3>1 DEF Held, Exclusive
  <2> QED
    BY <2>2, <2>3
<1> QED
  BY <1>1 DEF Sealing

(* A step outside the critical section that leaves the files as they are.   *)
LEMMA SealingOutside ==
    ASSUME Ordered, Ordered', Sealing, NEW p \in Procs, Alone(p),
           UNCHANGED <<ledger, manifest, view, loose, writer>>,
           pc'[p] \notin Exclusive, loc'[p].rendered = 0
    PROVE  Sealing'
<1>1. SealedUnlessLoose' /\ Bounded'
  BY DEF Sealing, SealedUnlessLoose, Bounded, Unsealed, Content
<1>2. Held(p)'
  BY DEF Held, Exclusive
<1> QED
  BY <1>1, <1>2, SealingStep

LEMMA FreshRendered == Fresh(NoJob).rendered = 0
BY DEF Fresh

(* A process that leaves has nothing unsealed, or what is goes to loose.    *)
LEMMA SealingExit ==
    ASSUME Ordered, Ordered', Sealing, NEW p \in Procs, Exit(p),
           loose' = loose \/ (writer = p /\ loose' = loose \cup Unsealed),
           writer = p => Unsealed \subseteq loose'
    PROVE  Sealing'
<1>1. /\ Alone(p) /\ pc'[p] = "idle" /\ loc'[p] = Fresh(NoJob)
      /\ UNCHANGED <<ledger, manifest, view>>
  BY DEF Exit, Remember, disk, Alone, Ordered, Typed, TypeOK
<1>2. Held(p)'
  BY <1>1, FreshRendered DEF Held
<1>3. Bounded' /\ Unsealed' = Unsealed
  BY <1>1 DEF Sealing, Bounded, Unsealed, Content
<1>4. SealedUnlessLoose'
  <2>1. CASE writer = p
    BY <2>1, <1>3 DEF SealedUnlessLoose
  <2>2. CASE writer # p
    <3>1. writer' = writer /\ loose' = loose
      BY <2>2 DEF Exit
    <3> QED
      BY <3>1, <1>3 DEF Sealing, SealedUnlessLoose
  <2> QED
    BY <2>1, <2>2
<1>5. writer = p \/ UNCHANGED <<ledger, manifest, view, loose>>
  BY <1>1
<1> QED
  BY <1>1, <1>2, <1>3, <1>4, <1>5, SealingStep

LEMMA SealingQuit ==
    ASSUME Ordered, Ordered', Sealing, NEW p \in Procs, Quit(p),
           pc[p] = "decide" \/ pc[p] \notin Exclusive
    PROVE  Sealing'
<1>1. writer = p => Unsealed \subseteq loose
  BY DEF Ordered, Locked, Sealing, Held
<1> QED
  BY <1>1, SealingExit DEF Quit

LEMMA SealingDie ==
    ASSUME Ordered, Ordered', Sealing, NEW p \in Procs, Die(p)
    PROVE  Sealing'
<1>1. writer = p => Unsealed \subseteq loose'
  BY DEF Die
<1>2. loose' = loose \/ (writer = p /\ loose' = loose \cup Unsealed)
  BY DEF Die
<1> QED
  BY <1>1, <1>2, SealingExit DEF Die

-----------------------------------------------------------------------------
(* The steps of a process, one lemma for each part of a command's run.      *)

(* Before the lock is taken, after it is dropped, and under the shared lock.*)
LEMMA SealingWithout ==
    ASSUME Ordered, Ordered', Sealing, NEW p \in Procs, Alone(p),
           \/ pc[p] = "open" /\ ReadLedger(p)
           \/ NextItem(p) \/ QueryFails(p) \/ Prepare(p) \/ SkipItem(p) \/ Refuse(p)
           \/ EvaluateHooks(p) \/ TakeShared(p) \/ TimeOut(p) \/ WriteCache(p)
           \/ \E f \in Files : HashFile(p, f)
    PROVE  Sealing'
<1> USE DEF Exclusive
<1>0. /\ loc[p] \in Local /\ loc \in [Procs -> Local] /\ pc \in [Procs -> Phase]
      /\ pc[p] # "render" => loc[p].rendered = 0
      /\ pc'[p] \in Exclusive <=> writer' = p
      /\ pc[p] \in Exclusive <=> writer = p
  BY DEF Ordered, Typed, TypeOK, Sealing, Held, Locked
<1>1. CASE Refuse(p) \/ QueryFails(p) \/ TimeOut(p)
  BY <1>1, SealingQuit DEF Refuse, QueryFails, TimeOut
<1>2. ASSUME pc[p] \notin Exclusive, loc'[p].rendered = 0,
             UNCHANGED <<disk, locks, loose>> \/
             UNCHANGED <<ledger, manifest, view, locks, loose>>
      PROVE  Sealing'
  <2>1. UNCHANGED <<ledger, manifest, view, loose, writer>>
    BY <1>2 DEF disk, locks
  <2> QED
    BY <1>0, <1>2, <2>1, SealingOutside
<1>3. CASE pc[p] = "open" /\ ReadLedger(p)
  <2> DEFINE todo == IF pc[p] = "read" THEN Passes(p) ELSE <<>>
             l == [loc[p] EXCEPT !.mem = Len(ledger), !.todo = todo]
  <2> HIDE DEF todo
  <2>1. l.rendered = loc[p].rendered
    BY <1>0 DEF Local
  <2>2. loc'[p] = l
    BY <1>0, <1>3 DEF ReadLedger, Remember, todo
  <2> QED
    BY <1>0, <1>2, <1>3, <2>1, <2>2 DEF ReadLedger
<1>4. CASE NextItem(p)
  <2>1. loc'[p].rendered = loc[p].rendered
    BY <1>0, <1>4 DEF NextItem, Remember, Local
  <2> QED
    BY <1>0, <1>2, <1>4, <2>1 DEF NextItem
<1>5. CASE Prepare(p)
  <2>1. loc'[p].rendered = loc[p].rendered
    <3>1. PICK i \in DOMAIN Transitions :
            Remember(p, [loc[p] EXCEPT !.owed = Group(i), !.mem = Len(ledger),
                                       !.child = NoProc])
      BY <1>5 DEF Prepare
    <3> QED
      BY <1>0, <3>1 DEF Remember, Local
  <2> QED
    BY <1>0, <1>2, <1>5, <2>1 DEF Prepare
<1>6. CASE SkipItem(p)
  <2>1. loc'[p].rendered = loc[p].rendered
    BY <1>0, <1>6 DEF SkipItem, Remember, Local
  <2> QED
    BY <1>0, <1>2, <1>6, <2>1 DEF SkipItem
<1>7. CASE EvaluateHooks(p)
  <2>1. CASE Quit(p)
    BY <1>7, <2>1, SealingQuit DEF EvaluateHooks
  <2>2. CASE ~Quit(p)
    <3>1. loc'[p].rendered = loc[p].rendered
      BY <1>0, <1>7, <2>2 DEF EvaluateHooks, Remember, Local
    <3> QED
      BY <1>0, <1>2, <1>7, <2>2, <3>1 DEF EvaluateHooks
  <2> QED
    BY <2>1, <2>2
<1>8. CASE TakeShared(p)
  <2>1. loc'[p].rendered = loc[p].rendered
    BY <1>0, <1>8 DEF TakeShared, Remember, Local
  <2>2. UNCHANGED <<ledger, manifest, view, loose, writer>> /\ pc[p] = "share"
    BY <1>8 DEF TakeShared, disk
  <2>3. pc'[p] \notin Exclusive
    BY <1>0, <2>2
  <2> QED
    BY <1>0, <2>1, <2>2, <2>3, SealingOutside
<1>9. CASE WriteCache(p)
  <2>1. loc'[p].rendered = 0
    BY <1>0, <1>9, FreshRendered DEF WriteCache, Remember
  <2> QED
    BY <1>2, <1>9, <2>1 DEF WriteCache
<1>10. ASSUME NEW f \in Files, HashFile(p, f) PROVE Sealing'
  <2>1. loc'[p].rendered = loc[p].rendered
    BY <1>0, <1>10 DEF HashFile, Remember, Local
  <2> QED
    BY <1>0, <1>2, <1>10, <2>1 DEF HashFile
<1> QED
  BY <1>1, <1>3, <1>4, <1>5, <1>6, <1>7, <1>8, <1>9, <1>10

(* Taking the lock, with the manifest, and dropping it.                     *)
LEMMA SealingLock ==
    ASSUME Ordered, Ordered', Sealing, NEW p \in Procs, Alone(p), TakeLock(p)
    PROVE  Sealing'
<1>0. /\ loc[p] \in Local /\ loc \in [Procs -> Local] /\ Typed
      /\ loc[p].rendered = 0
  BY DEF TakeLock, Ordered, Typed, TypeOK, Sealing, Held
<1>1. /\ UNCHANGED <<ledger, manifest, view, loose>> /\ writer' = p
      /\ writer = NoProc /\ Goto(p) /\ pc[p] \in {"lock", "relock"}
  BY DEF TakeLock, WriterMayEnter, disk
<1>2. Unsealed \subseteq loose
  BY <1>1 DEF Sealing, SealedUnlessLoose
<1>3. pc'[p] \in {"decide", "append", "read"}
  BY <1>0, <1>1, GotoFacts, FlowHeld, CmdType DEF Typed
<1>4. loc'[p].man = manifest /\ loc'[p].rendered = 0
  BY <1>0 DEF TakeLock, Remember, Local
<1>5. Unsealed' = Unsealed /\ Bounded'
  BY <1>1 DEF Unsealed, Content, Sealing, Bounded
<1>6. Held(p)'
  BY <1>1, <1>2, <1>3, <1>4, <1>5 DEF Held
<1>7. SealedUnlessLoose'
  BY <1>1, NamesAssumption DEF SealedUnlessLoose
<1> QED
  BY <1>1, <1>5, <1>6, <1>7, SealingStep

LEMMA SealingUnlock ==
    ASSUME Ordered, Ordered', Sealing, NEW p \in Procs, Alone(p), Unlock(p)
    PROVE  Sealing'
<1>0. /\ loc[p] \in Local /\ loc \in [Procs -> Local] /\ Typed
      /\ pc[p] \in {"drop", "render", "peek", "hash"}
  BY DEF Unlock, Finished, Ordered, Typed, TypeOK
<1>1. loc[p].rendered = 0 /\ (writer = p => Unsealed \subseteq loose)
  BY <1>0 DEF Unlock, Finished, Sealing, Held, Rendering, Ordered, Locked, Exclusive
<1>2. loc'[p].rendered = 0
  <2>1. [loc[p] EXCEPT !.man = Untracked].rendered = loc[p].rendered
    BY <1>0 DEF Local
  <2> QED
    BY <1>0, <1>1, <2>1, FreshRendered DEF Unlock, Remember
<1>3. /\ UNCHANGED <<ledger, manifest, view, loose>>
      /\ writer' = IF writer = p THEN NoProc ELSE writer
  BY DEF Unlock, disk
<1>4. Unsealed' = Unsealed /\ Bounded' /\ SealedUnlessLoose'
  BY <1>1, <1>3 DEF Unsealed, Content, Sealing, Bounded, SealedUnlessLoose
<1>5. writer' # p
  BY <1>3, NamesAssumption
<1>6. pc'[p] \notin Exclusive
  BY <1>5 DEF Ordered, Locked
<1>7. Held(p)'
  BY <1>2, <1>6 DEF Held, Exclusive
<1> QED
  BY <1>3, <1>4, <1>7, SealingStep

(* The steps that are taken with the lock held, and keep it.                *)
LEMMA SealingHolder ==
    ASSUME Ordered, Ordered', Sealing, NEW p \in Procs, Alone(p),
           writer = p, writer' = p, Held(p)', Bounded'
    PROVE  Sealing'
<1>1. SealedUnlessLoose'
  BY NamesAssumption DEF SealedUnlessLoose
<1> QED
  BY <1>1, SealingStep

LEMMA SealingRead ==
    ASSUME Ordered, Ordered', Sealing, NEW p \in Procs, Alone(p),
           pc[p] = "read", ReadLedger(p)
    PROVE  Sealing'
<1>0. /\ loc[p] \in Local /\ loc \in [Procs -> Local] /\ Typed /\ writer = p
      /\ ledger \in Seq(Entry)
  BY DEF Ordered, Typed, TypeOK, Locked, Exclusive
<1>1. /\ Unsealed \subseteq loose /\ loc[p].man = manifest
      /\ loc[p].rendered = 0
  BY DEF Sealing, Held
<1>2. /\ UNCHANGED <<ledger, manifest, view, loose, writer>>
      /\ pc'[p] = "render"
  BY <1>0, GotoFacts, FlowHeld, CmdType DEF ReadLedger, disk, locks, Typed
<1> DEFINE todo == IF pc[p] = "read" THEN Passes(p) ELSE <<>>
           l == [loc[p] EXCEPT !.mem = Len(ledger), !.todo = todo]
<1> HIDE DEF todo
<1>3. l.man = loc[p].man /\ l.rendered = loc[p].rendered /\ l.mem = Len(ledger)
  BY <1>0 DEF Local
<1>4. loc'[p] = l
  BY <1>0 DEF ReadLedger, Remember, todo
<1>5. Unsealed' = Unsealed /\ Bounded' /\ \A f \in Files : Content(f)' = Content(f)
  BY <1>2 DEF Unsealed, Content, Sealing, Bounded
<1>6. /\ loc'[p].man = manifest /\ loc'[p].rendered = 0
      /\ loc'[p].mem = Len(ledger)
  BY <1>1, <1>3, <1>4
<1>7. Rendering(p)'
  BY <1>1, <1>2, <1>5, <1>6 DEF Rendering, Unsealed
<1> QED
  BY <1>0, <1>2, <1>5, <1>7, SealingHolder DEF Held

LEMMA SealingDecide ==
    ASSUME Ordered, Ordered', Sealing, NEW p \in Procs, Alone(p),
           Decide(p) \/ StateMoved(p)
    PROVE  Sealing'
<1>1. CASE StateMoved(p)
  BY <1>1, SealingQuit DEF StateMoved
<1>2. CASE Decide(p)
  <2>0. /\ loc[p] \in Local /\ loc \in [Procs -> Local] /\ Typed /\ writer = p
        /\ pc[p] = "decide"
    BY <1>2 DEF Decide, Ordered, Typed, TypeOK, Locked, Exclusive
  <2>1. /\ Unsealed \subseteq loose /\ loc[p].man = manifest
        /\ loc[p].rendered = 0
    BY <2>0 DEF Sealing, Held
  <2>2. /\ UNCHANGED <<ledger, manifest, view, loose, writer>>
        /\ pc'[p] = "append"
    BY <1>2, <2>0, GotoFacts, FlowHeld, CmdType DEF Decide, disk, locks, Typed
  <2>3. loc'[p].man = loc[p].man /\ loc'[p].rendered = 0
    BY <1>2, <2>0, <2>1 DEF Decide, Remember, Local
  <2>4. Unsealed' = Unsealed /\ Bounded'
    BY <2>2 DEF Unsealed, Content, Sealing, Bounded
  <2>5. Held(p)'
    BY <2>1, <2>2, <2>3, <2>4 DEF Held
  <2> QED
    BY <2>0, <2>2, <2>4, <2>5, SealingHolder
<1> QED
  BY <1>1, <1>2

LEMMA SealingAppend ==
    ASSUME Ordered, Ordered', Sealing, NEW p \in Procs, Alone(p), AppendNext(p)
    PROVE  Sealing'
<1>0. /\ loc[p] \in Local /\ loc \in [Procs -> Local] /\ Typed /\ writer = p
      /\ pc[p] = "append" /\ pc \in [Procs -> Phase]
      /\ manifest \in [Files -> Nat] /\ view \in [Views -> Nat]
  BY DEF AppendNext, Ordered, Typed, TypeOK, Locked, Exclusive
<1>10. ledger \in Seq(Entry) /\ Head(loc[p].owed) \in Entry
  <2>1. loc[p].owed \in Seq(Entry) /\ loc[p].owed # <<>>
    BY <1>0 DEF AppendNext, Local
  <2> QED
    BY <2>1 DEF Ordered, Typed, TypeOK
<1>1. /\ Unsealed \subseteq loose \cup {"ledger"} /\ loc[p].man = manifest
      /\ loc[p].rendered = 0
  BY <1>0 DEF Sealing, Held
<1>2. /\ UNCHANGED <<manifest, view, loose, writer>>
      /\ ledger' = Append(ledger, Head(loc[p].owed))
  BY DEF AppendNext, locks
<1>3. Len(ledger') = Len(ledger) + 1 /\ Len(ledger) \in Nat
  BY <1>2, <1>10
<1>4. pc'[p] \in {"append", "seal"}
  BY <1>0, GotoFacts, FlowHeld, CmdType DEF AppendNext, NextOwed, Typed
<1>5. /\ loc'[p].man = manifest /\ loc'[p].rendered = 0
      /\ loc'[p].mem = Len(ledger')
  <2> DEFINE emits == WithEmitted(p, Head(loc[p].owed))
             rest == Tail(loc[p].owed)
             l == [loc[p] EXCEPT !.mem = Len(ledger) + 1, !.owed = rest,
                                 !.emitted = emits]
  <2>1. loc'[p] = l
    BY <1>0 DEF AppendNext, Remember
  <2> HIDE DEF emits, rest
  <2>2. l.man = loc[p].man /\ l.rendered = loc[p].rendered /\ l.mem = Len(ledger) + 1
    BY <1>0 DEF Local
  <2> QED
    BY <1>1, <1>3, <2>1, <2>2
<1>6. Unsealed' \subseteq loose \cup {"ledger"}
  BY <1>1, <1>2 DEF Unsealed, Content
<1>7. Bounded'
  BY <1>0, <1>2, <1>3 DEF Sealing, Bounded
<1>8. Held(p)'
  BY <1>2, <1>4, <1>5, <1>6 DEF Held
<1>9. writer' = p
  BY <1>0, <1>2
<1> QED
  BY <1>0, <1>7, <1>8, <1>9, SealingHolder

LEMMA SealingAppendFails ==
    ASSUME Ordered, Ordered', Sealing, NEW p \in Procs, Alone(p), AppendFails(p)
    PROVE  Sealing'
<1>1. CASE Die(p)
  BY <1>1, SealingDie
<1>2. CASE ~Die(p)
  <2>0. /\ loc[p] \in Local /\ loc \in [Procs -> Local] /\ Typed /\ writer = p
        /\ pc[p] = "append" /\ Cmd(p) = "hook_eval"
    BY <1>2 DEF AppendFails, Ordered, Typed, TypeOK, Locked, Exclusive
  <2>1. /\ Unsealed \subseteq loose \cup {"ledger"} /\ loc[p].man = manifest
        /\ loc[p].rendered = 0
    BY <2>0 DEF Sealing, Held
  <2>2. UNCHANGED <<ledger, manifest, view, loose, writer>>
    BY <1>2 DEF AppendFails, disk, locks
  <2>3. pc'[p] \in {"append", "seal"}
    BY <1>2, <2>0, GotoFacts, FlowHeld, CmdType DEF AppendFails, NextOwed, Typed
  <2>4. /\ loc'[p].man = manifest /\ loc'[p].rendered = 0
        /\ loc'[p].job = loc[p].job
    <3> DEFINE rest == Tail(loc[p].owed)
               l == [loc[p] EXCEPT !.owed = rest]
    <3>1. loc'[p] = l
      BY <1>2, <2>0 DEF AppendFails, Remember
    <3> HIDE DEF rest
    <3>2. /\ l.man = loc[p].man /\ l.rendered = loc[p].rendered
          /\ l.job = loc[p].job
      BY <2>0 DEF Local
    <3> QED
      BY <2>1, <3>1, <3>2
  <2>5. Unsealed' = Unsealed /\ Bounded' /\ Cmd(p)' = "hook_eval"
    BY <2>0, <2>2, <2>4 DEF Unsealed, Content, Sealing, Bounded, Cmd
  <2>6. Held(p)'
    BY <2>1, <2>2, <2>3, <2>4, <2>5 DEF Held
  <2> QED
    BY <2>0, <2>2, <2>5, <2>6, SealingHolder
<1> QED
  BY <1>1, <1>2

LEMMA SealingSeal ==
    ASSUME Ordered, Ordered', Sealing, NEW p \in Procs, Alone(p), Seal(p)
    PROVE  Sealing'
<1> DEFINE sealed == [loc[p].man EXCEPT !["ledger"] = Len(ledger)]
           todo == IF NextPhase(p) = "render" THEN Passes(p) ELSE <<>>
           l == [loc[p] EXCEPT !.man = sealed, !.todo = todo]
<1>0. /\ loc[p] \in Local /\ loc \in [Procs -> Local] /\ Typed /\ writer = p
      /\ pc[p] = "seal" /\ ledger \in Seq(Entry) /\ Len(ledger) \in Nat
      /\ manifest \in [Files -> Nat] /\ view \in [Views -> Nat]
  BY DEF Seal, Ordered, Typed, TypeOK, Locked, Exclusive
<1>1. /\ Unsealed \subseteq loose \cup {"ledger"} /\ loc[p].man = manifest
      /\ loc[p].rendered = 0
      /\ Cmd(p) # "hook_eval" => loc[p].mem = Len(ledger)
  BY <1>0 DEF Sealing, Held
<1>2. /\ UNCHANGED <<ledger, view, writer>> /\ manifest' = sealed
      /\ loose' = {f \in loose : Content(f) # sealed[f]}
      /\ loc'[p] = l
  BY <1>0 DEF Seal, locks, Remember
<1>3. /\ pc'[p] \in {"render", "drop"}
      /\ pc'[p] = "render" => loc[p].mem = Len(ledger)
  BY <1>0, <1>1, GotoFacts, FlowHeld, CmdType DEF Seal, Typed
<1>4. /\ "ledger" \in Files
      /\ sealed["ledger"] = Len(ledger)
      /\ \A f \in Files \ {"ledger"} : sealed[f] = manifest[f]
  BY <1>0, <1>1 DEF Files
<1> HIDE DEF sealed, todo
<1>5. /\ l.man = sealed /\ l.rendered = 0 /\ l.mem = loc[p].mem
  BY <1>0, <1>1 DEF Local
<1>6. \A f \in Files : Content(f)' = Content(f)
  BY <1>2 DEF Content
<1>7. Unsealed' \subseteq loose'
  <2> SUFFICES ASSUME NEW f \in Files, Content(f) # sealed[f]
               PROVE  f \in loose'
    BY <1>2, <1>6 DEF Unsealed
  <2>1. f # "ledger"
    BY <1>4 DEF Content
  <2>2. f \in loose
    BY <1>1, <1>4, <2>1 DEF Unsealed
  <2> QED
    BY <1>2, <2>2
<1>8. Bounded'
  BY <1>0, <1>2, <1>4 DEF Sealing, Bounded
<1>9. Rendering(p)' \/ pc'[p] = "drop"
  BY <1>2, <1>3, <1>5, <1>7 DEF Rendering, Unsealed
<1>10. Held(p)'
  BY <1>2, <1>3, <1>5, <1>7, <1>9 DEF Held
<1>11. writer' = p
  BY <1>0, <1>2
<1> QED
  BY <1>0, <1>8, <1>10, <1>11, SealingHolder

(* The passes of a render.                                                  *)
LEMMA RenderHeld ==
    ASSUME Ordered, Sealing, NEW p \in Procs, PassOpen(p)
    PROVE  /\ loc[p] \in Local /\ loc \in [Procs -> Local]
           /\ pc[p] = "render" /\ pc \in [Procs -> Phase] /\ writer = p
           /\ manifest \in [Files -> Nat] /\ view \in [Views -> Nat]
           /\ ledger \in Seq(Entry) /\ Len(ledger) \in Nat
           /\ loose \subseteq Files
           /\ loc[p].man \in [Files -> Nat] /\ loc[p].rendered \in Nat
           /\ Rendering(p) /\ Bounded
           /\ Views \subseteq Files /\ "ledger" \notin Views
<1>1. loc[p] \in Local /\ loc \in [Procs -> Local] /\ pc[p] = "render"
      /\ ledger \in Seq(Entry)
      /\ pc \in [Procs -> Phase] /\ writer = p
      /\ manifest \in [Files -> Nat] /\ view \in [Views -> Nat]
      /\ loose \subseteq Files
  BY DEF PassOpen, Ordered, Typed, TypeOK, Locked, Exclusive
<1>2. loc[p].man \in [Files -> Nat] /\ loc[p].rendered \in Nat
  BY <1>1 DEF Local
<1>3. Rendering(p) /\ Bounded
  BY <1>1 DEF Sealing, Held
<1>4. Views \subseteq Files /\ "ledger" \notin Views
  BY NamesAssumption DEF Files
<1>5. Len(ledger) \in Nat
  BY <1>1
<1> QED
  BY <1>1, <1>2, <1>3, <1>4, <1>5

LEMMA SealingWriteRender ==
    ASSUME Ordered, Ordered', Sealing, NEW p \in Procs, Alone(p), WriteRender(p)
    PROVE  Sealing'
<1> DEFINE v == Pass(p)[loc[p].rendered + 1]
           man == [loc[p].man EXCEPT ![v] = loc[p].mem]
           l == [loc[p] EXCEPT !.man = man, !.rendered = loc[p].rendered + 1]
<1>0. PassOpen(p) /\ v \in Views
  BY PassType DEF WriteRender, Ordered
<1>1. /\ view' = [view EXCEPT ![v] = loc[p].mem] /\ loc'[p] = l
      /\ UNCHANGED <<ledger, manifest, writer, loose, pc>>
  BY <1>0, RenderHeld DEF WriteRender, Remember, locks
<1> HIDE DEF v
<1>11. v \in Files /\ v # "ledger" /\ loc[p].mem = Len(ledger)
  BY <1>0, RenderHeld DEF Rendering
<1>12. /\ man[v] = Len(ledger) /\ view'[v] = Len(ledger)
       /\ \A f \in Files \ {v} : man[f] = loc[p].man[f]
       /\ \A f \in Views \ {v} : view'[f] = view[f]
  BY <1>0, <1>1, <1>11, RenderHeld
<1>2. \A f \in Files :
        /\ f = v => Content(f)' = Len(ledger) /\ man[f] = Len(ledger)
        /\ f # v => Content(f)' = Content(f) /\ man[f] = loc[p].man[f]
  BY <1>1, <1>11, <1>12 DEF Content, Files
<1> HIDE DEF man
<1>3. /\ l.man = man /\ l.rendered = loc[p].rendered + 1
      /\ l.mem = loc[p].mem /\ l.todo = loc[p].todo
  BY <1>0, RenderHeld DEF Local
<1>4. l.rendered # 0 /\ loc[p].todo # <<>>
  BY <1>0, <1>3, RenderHeld DEF PassOpen
<1>5. "ledger" \in Unsealed' => "ledger" \in loose
  BY <1>0, <1>1, RenderHeld DEF Rendering, Unsealed, Content
<1>6. \A f \in Files : Content(f)' # man[f] => f \in loose
  BY <1>0, <1>2, RenderHeld DEF Rendering
<1>7. \A f \in Files : man[f] \in {manifest[f], Len(ledger)}
  BY <1>0, <1>2, RenderHeld DEF Rendering
<1>8. Rendering(p)'
  BY <1>0, <1>1, <1>3, <1>4, <1>5, <1>6, <1>7, RenderHeld DEF Rendering
<1>9. Bounded'
  BY <1>0, <1>1, <1>12, RenderHeld DEF Bounded
<1>10. Held(p)' /\ writer = p /\ writer' = p
  BY <1>0, <1>1, <1>8, RenderHeld DEF Held
<1> QED
  BY <1>9, <1>10, SealingHolder

LEMMA PassOverEffect ==
    ASSUME Ordered, Sealing, NEW p \in Procs, PassOpen(p), PassOver(p)
    PROVE  /\ loc'[p].man = loc[p].man /\ loc'[p].mem = loc[p].mem
           /\ loc'[p].rendered = 0
<1> DEFINE rest == Tail(loc[p].todo)
           l == [loc[p] EXCEPT !.todo = rest, !.rendered = 0]
<1>1. loc'[p] = l
  BY RenderHeld DEF PassOver, Remember
<1> HIDE DEF rest
<1>2. l.man = loc[p].man /\ l.mem = loc[p].mem /\ l.rendered = 0
  BY RenderHeld DEF Local
<1> QED
  BY <1>1, <1>2

LEMMA SealingEndPass ==
    ASSUME Ordered, Ordered', Sealing, NEW p \in Procs, Alone(p), EndPass(p)
    PROVE  Sealing'
<1>0. PassOpen(p) /\ PassOver(p) /\ UNCHANGED <<ledger, view, writer, pc>>
  BY DEF EndPass, locks
<1>1. \A f \in Files : Content(f)' = Content(f)
  BY <1>0 DEF Content
<1>2. CASE loc[p].rendered > 0
  <2>1. /\ manifest' = loc[p].man
        /\ loose' = {f \in loose : Content(f) # loc[p].man[f]}
    BY <1>2 DEF EndPass
  <2>2. \A f \in Files : Content(f)' # loc[p].man[f] => f \in loose'
    BY <1>0, <1>1, <2>1, RenderHeld DEF Rendering
  <2>3. Unsealed' \subseteq loose'
    BY <2>1, <2>2 DEF Unsealed
  <2>4. Rendering(p)'
    BY <1>0, <2>1, <2>2, <2>3, RenderHeld, PassOverEffect DEF Rendering
  <2>5. Bounded'
    BY <1>0, <2>1, RenderHeld DEF Bounded, Rendering
  <2> QED
    BY <1>0, <2>4, <2>5, RenderHeld, SealingHolder DEF Held
<1>3. CASE ~(loc[p].rendered > 0)
  <2>1. UNCHANGED <<manifest, loose>> /\ loc[p].rendered = 0
    BY <1>0, <1>3, RenderHeld DEF EndPass
  <2>2. Unsealed' = Unsealed
    BY <1>1, <2>1 DEF Unsealed
  <2>3. Rendering(p)'
    BY <1>0, <1>1, <2>1, <2>2, RenderHeld, PassOverEffect DEF Rendering
  <2>4. Bounded'
    BY <1>0, <2>1, RenderHeld DEF Bounded
  <2> QED
    BY <1>0, <2>3, <2>4, RenderHeld, SealingHolder DEF Held
<1> QED
  BY <1>2, <1>3

LEMMA SealingSaveFails ==
    ASSUME Ordered, Ordered', Sealing, NEW p \in Procs, Alone(p), SaveFails(p)
    PROVE  Sealing'
<1>0. /\ PassOpen(p) /\ PassOver(p) /\ loose' = loose \cup Unsealed
      /\ UNCHANGED <<ledger, view, manifest, writer, pc>>
  BY DEF SaveFails, locks, disk
<1>1. (\A f \in Files : Content(f)' = Content(f)) /\ Unsealed' = Unsealed
  BY <1>0 DEF Content, Unsealed
<1>2. Rendering(p)'
  BY <1>0, <1>1, RenderHeld, PassOverEffect DEF Rendering
<1>3. Bounded'
  BY <1>0, RenderHeld DEF Bounded
<1> QED
  BY <1>0, <1>2, <1>3, RenderHeld, SealingHolder DEF Held

LEMMA SealingRenderFails ==
    ASSUME Ordered, Ordered', Sealing, NEW p \in Procs, Alone(p), RenderFails(p)
    PROVE  Sealing'
<1> DEFINE v == Pass(p)[loc[p].rendered + 1]
<1>0. PassOpen(p) /\ v \in Views
  BY PassType DEF RenderFails, Ordered
<1>1. /\ view' = view \/ view' = [view EXCEPT ![v] = loc[p].mem]
      /\ loose' = loose \cup {w \in Views : view'[w] # manifest[w]}
      /\ UNCHANGED <<ledger, manifest>>
  BY DEF RenderFails
<1> HIDE DEF v
<1>2. /\ view' \in [Views -> Nat]
      /\ \A w \in Views : view'[w] \in {view[w], loc[p].mem}
  BY <1>0, <1>1, RenderHeld DEF Rendering
<1>3. \A f \in Files : f = "ledger" \/ f \in Views
  BY DEF Files
<1>4. /\ Content("ledger")' = Content("ledger")
      /\ \A w \in Views : Content(w)' = view'[w] /\ Content(w) = view[w]
  BY <1>0, <1>1, RenderHeld DEF Content
<1>5. Unsealed' \subseteq loose'
  BY <1>0, <1>1, <1>3, <1>4, RenderHeld DEF Unsealed, Rendering
<1>6. \A f \in Files : Content(f)' # loc[p].man[f] => f \in loose'
  <2>1. Content("ledger")' # loc[p].man["ledger"] => "ledger" \in loose'
    BY <1>0, <1>1, <1>4, RenderHeld DEF Rendering, Files
  <2>2. ASSUME NEW w \in Views, view'[w] # loc[p].man[w] PROVE w \in loose'
    <3>1. CASE view'[w] = view[w]
      BY <1>0, <1>1, <1>4, <2>2, <3>1, RenderHeld DEF Rendering
    <3>2. CASE view'[w] # view[w]
      <4>1. view'[w] = Len(ledger)
        BY <1>0, <1>2, <3>2, RenderHeld DEF Rendering
      <4>2. loc[p].man[w] = manifest[w]
        BY <1>0, <2>2, <4>1, RenderHeld DEF Rendering
      <4> QED
        BY <1>1, <2>2, <4>2
    <3> QED
      BY <3>1, <3>2
  <2> QED
    BY <1>3, <1>4, <2>1, <2>2
<1>7. Bounded'
  BY <1>0, <1>1, <1>2, RenderHeld DEF Bounded, Rendering
<1>8. CASE Cmd(p) = "render"
  <2>1. pc'[p] = "idle" /\ loc'[p] = Fresh(NoJob) /\ writer = p
    BY <1>0, <1>8, RenderHeld DEF RenderFails, Remember
  <2>2. Held(p)'
    BY <2>1, FreshRendered DEF Held
  <2>3. SealedUnlessLoose'
    BY <1>5 DEF SealedUnlessLoose
  <2> QED
    BY <1>7, <2>1, <2>2, <2>3, SealingStep
<1>9. CASE Cmd(p) # "render"
  <2>1. PassOver(p) /\ UNCHANGED <<pc, writer>>
    BY <1>9 DEF RenderFails, locks
  <2>2. Rendering(p)'
    BY <1>0, <1>1, <1>5, <1>6, <2>1, RenderHeld, PassOverEffect DEF Rendering
  <2> QED
    BY <1>0, <1>7, <2>1, <2>2, RenderHeld, SealingHolder DEF Held
<1> QED
  BY <1>8, <1>9

-----------------------------------------------------------------------------
LEMMA ProceedSealing ==
    ASSUME Ordered, Ordered', Sealing, NEW p \in Procs, Proceed(p)
    PROVE  Sealing'
<1>1. Alone(p)
  BY ProceedFrame DEF Ordered, Alone
<1>2. ReadLedger(p) => pc[p] \in {"open", "read"}
  BY DEF ReadLedger
<1> QED
  BY <1>1, <1>2, SealingWithout, SealingLock, SealingUnlock, SealingRead,
     SealingDecide, SealingAppend, SealingAppendFails, SealingSeal, SealingDie,
     SealingWriteRender, SealingEndPass, SealingSaveFails, SealingRenderFails
  DEF Proceed, SealFails

LEMMA NextSealing ==
    ASSUME Ordered, Ordered', Sealing, [Next]_vars
    PROVE  Sealing'
<1>0. loc \in [Procs -> Local] /\ pc \in [Procs -> Phase]
  BY DEF Ordered, Typed, TypeOK
<1>1. ASSUME NEW p \in Procs, Proceed(p) PROVE Sealing'
  BY <1>1, ProceedSealing
<1>2. ASSUME NEW p \in Procs, Kill(p) PROVE Sealing'
  BY <1>2, SealingDie DEF Kill
<1>3. ASSUME NEW p \in Procs, NEW j \in Jobs, Start(p, j) PROVE Sealing'
  <2>1. Alone(p) /\ loc'[p].rendered = 0
    BY <1>0, <1>3 DEF Start, Launch, Remember, Alone, Fresh
  <2>2. UNCHANGED <<ledger, manifest, view, loose, writer>>
    BY <1>3 DEF Start, disk, locks
  <2>3. pc'[p] \notin Exclusive
    BY <1>3, LaunchTyped DEF Start, Ordered
  <2> QED
    BY <2>1, <2>2, <2>3, SealingOutside
<1>4. ASSUME NEW p \in Procs, NEW q \in Procs, NEW j \in GateJobs,
             RunGateCommand(p, q, j)
      PROVE  Sealing'
  <2> DEFINE l == [loc[p] EXCEPT !.child = q]
  <2>1. /\ UNCHANGED <<ledger, manifest, view, loose, writer>>
        /\ pc[p] = "check" /\ q # p /\ Launch(q, j)
        /\ loc' = [loc EXCEPT ![p] = l, ![q] = Fresh(j)]
    BY <1>4 DEF RunGateCommand, disk, locks
  <2>2. j \in Jobs /\ pc'[q] \notin Exclusive /\ \A r \in Procs \ {q} : pc'[r] = pc[r]
    BY <2>1, JobFacts, LaunchTyped DEF Ordered
  <2>3. l.rendered = 0
    <3>1. loc[p].rendered = 0 /\ loc[p] \in Local
      BY <1>0, <2>1 DEF Sealing, Held
    <3> QED
      BY <3>1 DEF Local
  <2> HIDE DEF l
  <2>4. /\ loc'[p] = l /\ loc'[q] = Fresh(j)
        /\ \A r \in Procs \ {p, q} : loc'[r] = loc[r]
    BY <1>0, <2>1
  <2>5. loc'[p].rendered = 0 /\ loc'[q].rendered = 0
    BY <2>3, <2>4 DEF Fresh
  <2>6. Unsealed' = Unsealed /\ \A f \in Files : Content(f)' = Content(f)
    BY <2>1 DEF Unsealed, Content
  <2>7. Held(p)' /\ Held(q)'
    BY <2>1, <2>2, <2>5 DEF Held, Exclusive
  <2>8. \A r \in Procs \ {p, q} : Held(r)'
    <3> SUFFICES ASSUME NEW r \in Procs \ {p, q} PROVE Held(r)'
      OBVIOUS
    <3>1. pc'[r] = pc[r] /\ loc'[r] = loc[r] /\ Cmd(r)' = Cmd(r)
      BY <2>2, <2>4 DEF Cmd
    <3>2. Rendering(r) => Rendering(r)'
      BY <2>1, <2>6, <3>1 DEF Rendering
    <3>3. Held(r)
      BY DEF Sealing
    <3> QED
      BY <2>1, <2>6, <3>1, <3>2, <3>3 DEF Held
  <2>9. SealedUnlessLoose' /\ Bounded'
    BY <2>1, <2>6 DEF Sealing, SealedUnlessLoose, Bounded
  <2> QED
    BY <2>7, <2>8, <2>9 DEF Sealing
<1>5. CASE UNCHANGED vars
  BY <1>5 DEF vars, Sealing, SealedUnlessLoose, Bounded, Held, Rendering,
              Unsealed, Content, Cmd
<1> QED
  BY <1>1, <1>2, <1>3, <1>4, <1>5 DEF Next

LEMMA InitSealing == ASSUME Init PROVE Sealing
<1>1. \A f \in Files : manifest[f] = IF f = "ledger" THEN 1 ELSE 0
  BY DEF Init, Untracked, Files
<1>2. Len(ledger) = 1 /\ \A v \in Views : view[v] = 0
  BY DEF Init
<1>3. Unsealed = {} /\ Bounded
  BY <1>1, <1>2, NamesAssumption DEF Unsealed, Content, Bounded, Files
<1>4. \A p \in Procs : pc[p] = "idle" /\ loc[p] = Fresh(NoJob)
  BY DEF Init
<1>5. \A p \in Procs : Held(p)
  BY <1>4, FreshRendered DEF Held
<1> QED
  BY <1>3, <1>5 DEF Sealing, SealedUnlessLoose

LEMMA OrderedSealing == Spec => [](Ordered /\ Sealing)
<1>1. Init => Ordered /\ Sealing
  BY InitTyped, InitSealing, NamesAssumption
  DEF Init, Prepared, Locked, Exclusive, Shared, Ordered
<1>2. Ordered /\ [Next]_vars => Ordered'
  BY NextTyped, NextPrepared, NextLocked DEF Ordered
<1>3. Ordered /\ Ordered' /\ Sealing /\ [Next]_vars => Sealing'
  BY NextSealing
<1> QED
  BY <1>1, <1>2, <1>3, PTL DEF Spec

(* With no writer at work, every file is what the manifest says of it, or   *)
(* was left by a command that failed: for every protocol, set of commands   *)
(* and number of processes, whichever of them are killed and when.          *)
THEOREM FilesSealed == Spec => []SealedUnlessLoose
<1>1. Ordered /\ Sealing => SealedUnlessLoose
  BY DEF Sealing
<1> QED
  BY <1>1, OrderedSealing, PTL

-----------------------------------------------------------------------------
(* What is on disk never goes back.                                         *)

LEMMA NoStepBack ==
    ASSUME Ordered, Sealing, [Next]_vars
    PROVE  /\ \A f \in Files : manifest'[f] >= manifest[f]
           /\ \A v \in Views : view'[v] >= view[v]
<1> DEFINE Kept == /\ \A f \in Files : manifest'[f] >= manifest[f]
                   /\ \A v \in Views : view'[v] >= view[v]
<1>0. /\ manifest \in [Files -> Nat] /\ view \in [Views -> Nat]
      /\ Len(ledger) \in Nat /\ ledger \in Seq(Entry) /\ loc \in [Procs -> Local]
  BY DEF Ordered, Typed, TypeOK
<1>1. ASSUME UNCHANGED <<manifest, view>> PROVE Kept
  BY <1>0, <1>1
<1>2. ASSUME NEW p \in Procs, Seal(p) PROVE Kept
  <2>1. loc[p].man = manifest /\ view' = view
        /\ manifest' = [loc[p].man EXCEPT !["ledger"] = Len(ledger)]
    BY <1>2 DEF Seal, Sealing, Held
  <2> QED
    BY <1>0, <2>1 DEF Sealing, Bounded
<1>3. ASSUME NEW p \in Procs, EndPass(p) PROVE Kept
  <2>1. view' = view /\ manifest' \in {manifest, loc[p].man}
    BY <1>3 DEF EndPass
  <2>2. \A f \in Files : loc[p].man[f] \in {manifest[f], Len(ledger)}
    BY <1>3, RenderHeld DEF EndPass, Rendering
  <2> QED
    BY <1>0, <2>1, <2>2 DEF Sealing, Bounded
<1>4. ASSUME NEW p \in Procs, WriteRender(p) \/ RenderFails(p) PROVE Kept
  <2> DEFINE v == Pass(p)[loc[p].rendered + 1]
  <2>1. /\ manifest' = manifest
        /\ view' = view \/ view' = [view EXCEPT ![v] = loc[p].mem]
    BY <1>4 DEF WriteRender, RenderFails
  <2>2. loc[p].mem = Len(ledger)
    BY <1>4, RenderHeld DEF WriteRender, RenderFails, Rendering
  <2> QED
    BY <1>0, <2>1, <2>2 DEF Sealing, Bounded
<1>5. ASSUME NEW p \in Procs, Proceed(p) PROVE Kept
  <2>1. CASE Seal(p) \/ EndPass(p) \/ WriteRender(p) \/ RenderFails(p)
    BY <2>1, <1>2, <1>3, <1>4
  <2>2. CASE ~(Seal(p) \/ EndPass(p) \/ WriteRender(p) \/ RenderFails(p))
    <3>1. UNCHANGED <<manifest, view>>
      BY <1>5, <2>2
      DEF Proceed, ReadLedger, NextItem, Prepare, SkipItem, Refuse, QueryFails, EvaluateHooks,
          TakeLock, TakeShared, TimeOut, Unlock, Decide, StateMoved, AppendNext,
          AppendFails, SealFails, SaveFails, WriteCache, HashFile, Quit, Die, Exit,
          disk
    <3> QED
      BY <1>1, <3>1
  <2> QED
    BY <2>1, <2>2
<1>6. ASSUME NEW p \in Procs,
             \/ Kill(p)
             \/ \E j \in Jobs : Start(p, j)
             \/ \E q \in Procs, j \in GateJobs : RunGateCommand(p, q, j)
      PROVE  Kept
  BY <1>1, <1>6 DEF Kill, Die, Exit, Start, RunGateCommand, disk
<1>7. CASE UNCHANGED vars
  BY <1>1, <1>7 DEF vars
<1> QED
  BY <1>5, <1>6, <1>7 DEF Next

(* A writer that loaded the manifest before another's seal would put an     *)
(* older hash back: none does.                                              *)
THEOREM SealsKept == Spec => SealsNeverRegress
<1>1. Ordered /\ Sealing /\ [Next]_vars
        => [\A f \in Files : manifest'[f] >= manifest[f]]_vars
  BY NoStepBack
<1> QED
  BY <1>1, OrderedSealing, PTL DEF Spec, SealsNeverRegress

(* Nor does a render made from a shorter ledger replace a longer one's.     *)
THEOREM ViewsKept == Spec => ViewsNeverRegress
<1>1. Ordered /\ Sealing /\ [Next]_vars
        => [\A v \in Views : view'[v] >= view[v]]_vars
  BY NoStepBack
<1> QED
  BY <1>1, OrderedSealing, PTL DEF Spec, ViewsNeverRegress

-----------------------------------------------------------------------------
(* manifest verify reports no writer's unfinished work, and a command never *)
(* holds the lock while the child its gate command runs may ask for it.     *)

(* Only a process that holds the lock exclusively writes the files.         *)
LEMMA NoWriterNoChange ==
    ASSUME Ordered, [Next]_vars, writer = NoProc
    PROVE  UNCHANGED <<ledger, manifest, view, loose>>
<1>0. \A p \in Procs : pc[p] \notin Exclusive /\ writer # p
  BY NamesAssumption DEF Ordered, Locked
<1>1. ASSUME NEW p \in Procs, Proceed(p)
      PROVE  UNCHANGED <<ledger, manifest, view, loose>>
  <2>1. ~(Decide(p) \/ StateMoved(p) \/ AppendNext(p) \/ AppendFails(p)
          \/ Seal(p) \/ SealFails(p) \/ WriteRender(p) \/ EndPass(p)
          \/ SaveFails(p) \/ RenderFails(p))
    BY <1>0 DEF Exclusive, Decide, StateMoved, AppendNext, AppendFails, Seal,
                SealFails, WriteRender, EndPass, SaveFails, RenderFails, PassOpen
  <2> QED
    BY <1>1, <2>1
    DEF Proceed, ReadLedger, NextItem, Prepare, SkipItem, Refuse, QueryFails, EvaluateHooks,
        TakeLock, TakeShared, TimeOut, Unlock, WriteCache, HashFile, Quit, Exit,
        disk
<1>2. ASSUME NEW p \in Procs,
             \/ Kill(p)
             \/ \E j \in Jobs : Start(p, j)
             \/ \E q \in Procs, j \in GateJobs : RunGateCommand(p, q, j)
      PROVE  UNCHANGED <<ledger, manifest, view, loose>>
  BY <1>0, <1>2 DEF Kill, Die, Exit, Start, RunGateCommand, disk
<1> QED
  BY <1>1, <1>2 DEF Next, vars

(* A mismatch is found, and a child waited for, in one phase only.          *)
Quiet(p) ==
    /\ pc[p] # "hash" => loc[p].found = {}
    /\ pc[p] = "hash" => loc[p].man = manifest
    /\ pc[p] # "check" => loc[p].child = NoProc

Verifying == VerdictTrue /\ \A p \in Procs : Quiet(p)

LEMMA FreshQuiet ==
    \A j \in Jobs : Fresh(j).found = {} /\ Fresh(j).child = NoProc
BY DEF Fresh

(* What the steps leave in memory, by the phase they are taken in.          *)
LEMMA MemoryKept ==
    ASSUME Ordered, NEW p \in Procs, Proceed(p), Quiet(p)
    PROVE  \/ /\ pc'[p] = "idle"
              /\ loc'[p].found = {} /\ loc'[p].child = NoProc
           \/ \E f \in Files : HashFile(p, f)
           \/ /\ pc[p] # "hash" /\ loc'[p].found = {}
              /\ loc'[p].child = NoProc
              /\ pc'[p] = "hash" => loc'[p].man = manifest
<1> USE DEF Remember
<1>0. /\ loc[p] \in Local /\ loc \in [Procs -> Local] /\ Typed
      /\ pc \in [Procs -> Phase] /\ pc[p] \in DOMAIN Flow[Cmd(p)]
      /\ Cmd(p) \in Commands
      /\ NoJob \in Jobs
  BY CmdType, JobFacts DEF Ordered, Typed, TypeOK
<1>1. ASSUME Goto(p), pc[p] \notin {"share", "hash"} PROVE pc'[p] # "hash"
  <2>1. FlowStep(Cmd(p), pc[p]) /\ pc'[p] = Flow[Cmd(p)][pc[p]]
    BY <1>0, <1>1, GotoFacts
  <2>2. \A c \in Commands : \A ph \in DOMAIN Flow[c] : Flow[c][ph] = "hash" => ph = "share"
    BY FlowFacts DEF FlowStep, Shared
  <2> QED
    BY <1>0, <1>1, <2>1, <2>2
<1>2. ASSUME pc'[p] = "idle", loc'[p] = Fresh(NoJob)
      PROVE  loc'[p].found = {} /\ loc'[p].child = NoProc
  BY <1>0, <1>2, FreshQuiet
<1>3. CASE Refuse(p) \/ QueryFails(p) \/ TimeOut(p) \/ StateMoved(p) \/ SealFails(p)
           \/ (AppendFails(p) /\ Die(p)) \/ (EvaluateHooks(p) /\ Quit(p))
  BY <1>0, <1>2, <1>3 DEF Refuse, QueryFails, TimeOut, StateMoved, SealFails, Quit, Die, Exit
<1>4. CASE WriteCache(p)
  BY <1>0, <1>2, <1>4, GotoFacts, CacheIsLast DEF WriteCache
<1>5. CASE ReadLedger(p)
  <2> DEFINE todo == IF pc[p] = "read" THEN Passes(p) ELSE <<>>
             l == [loc[p] EXCEPT !.mem = Len(ledger), !.todo = todo]
  <2>1. loc'[p] = l
    BY <1>0, <1>5 DEF ReadLedger
  <2> HIDE DEF todo
  <2>2. l.found = loc[p].found /\ l.child = loc[p].child
    BY <1>0 DEF Local
  <2> QED
    BY <1>1, <1>5, <2>1, <2>2 DEF ReadLedger, Quiet
<1>6. CASE NextItem(p)
  <2>1. loc'[p].found = loc[p].found /\ loc'[p].child = loc[p].child
    BY <1>0, <1>6 DEF NextItem, Local
  <2> QED
    BY <1>0, <1>1, <1>6, <2>1 DEF NextItem, Quiet
<1>7. CASE Prepare(p)
  <2>1. PICK i \in DOMAIN Transitions :
          Remember(p, [loc[p] EXCEPT !.owed = Group(i), !.mem = Len(ledger),
                                     !.child = NoProc])
    BY <1>7 DEF Prepare
  <2>2. loc'[p].found = loc[p].found /\ loc'[p].child = NoProc
    BY <1>0, <2>1 DEF Local
  <2> QED
    BY <1>1, <1>7, <2>2 DEF Prepare, Quiet
<1>8. CASE SkipItem(p)
  <2>1. loc'[p].found = loc[p].found /\ loc'[p].child = NoProc
    BY <1>0, <1>8 DEF SkipItem, Local
  <2> QED
    BY <1>0, <1>8, <2>1 DEF SkipItem, Quiet
<1>9. CASE EvaluateHooks(p) /\ ~Quit(p)
  <2>1. loc'[p].found = loc[p].found /\ loc'[p].child = NoProc
    BY <1>0, <1>9 DEF EvaluateHooks, Local
  <2> QED
    BY <1>1, <1>9, <2>1 DEF EvaluateHooks, Quiet
<1>10. CASE TakeLock(p)
  <2>1. loc'[p].found = loc[p].found /\ loc'[p].child = loc[p].child
    BY <1>0, <1>10 DEF TakeLock, Local
  <2> QED
    BY <1>1, <1>10, <2>1 DEF TakeLock, Quiet
<1>11. CASE TakeShared(p)
  <2>1. /\ loc'[p].found = loc[p].found /\ loc'[p].child = loc[p].child
        /\ loc'[p].man = manifest
    BY <1>0, <1>11 DEF TakeShared, Local
  <2> QED
    BY <1>11, <2>1 DEF TakeShared, Quiet
<1>12. CASE Unlock(p)
  <2>1. CASE NextPhase(p) = "idle"
    BY <1>0, <1>2, <1>12, <2>1, GotoFacts DEF Unlock, NextPhase
  <2>2. CASE NextPhase(p) # "idle"
    <3>1. loc'[p].found = loc[p].found /\ loc'[p].child = loc[p].child
      BY <1>0, <1>12, <2>2 DEF Unlock, Local
    <3>2. pc[p] # "hash"
      <4>1. Flow[Cmd(p)]["hash"] = "idle" \/ "hash" \notin DOMAIN Flow[Cmd(p)]
        BY <1>0 DEF Flow, Commands, cmd_transition, cmd_event, handle_record_event,
                    cmd_ledger_checkpoint, cmd_reseal, cmd_hook_eval, cmd_batch,
                    cmd_render, cmd_manifest_verify
      <4> QED
        BY <1>0, <2>2, <4>1 DEF NextPhase
    <3> QED
      BY <1>1, <1>12, <3>1, <3>2 DEF Unlock, Finished, Quiet
  <2> QED
    BY <2>1, <2>2
<1>13. CASE Decide(p)
  <2>1. loc'[p].found = loc[p].found /\ loc'[p].child = loc[p].child
    BY <1>0, <1>13 DEF Decide, Local
  <2> QED
    BY <1>1, <1>13, <2>1 DEF Decide, Quiet
<1>14. CASE AppendNext(p)
  <2> DEFINE emits == WithEmitted(p, Head(loc[p].owed))
             rest == Tail(loc[p].owed)
             l == [loc[p] EXCEPT !.mem = Len(ledger) + 1, !.owed = rest,
                                 !.emitted = emits]
  <2>1. loc'[p] = l
    BY <1>0, <1>14 DEF AppendNext
  <2> HIDE DEF emits, rest
  <2>2. l.found = loc[p].found /\ l.child = loc[p].child
    BY <1>0 DEF Local
  <2> QED
    BY <1>1, <1>14, <2>1, <2>2 DEF AppendNext, NextOwed, Quiet
<1>15. CASE AppendFails(p) /\ ~Die(p)
  <2> DEFINE rest == Tail(loc[p].owed)
             l == [loc[p] EXCEPT !.owed = rest]
  <2>1. loc'[p] = l
    BY <1>0, <1>15 DEF AppendFails
  <2> HIDE DEF rest
  <2>2. l.found = loc[p].found /\ l.child = loc[p].child
    BY <1>0 DEF Local
  <2> QED
    BY <1>1, <1>15, <2>1, <2>2 DEF AppendFails, NextOwed, Quiet
<1>16. CASE Seal(p)
  <2> DEFINE sealed == [loc[p].man EXCEPT !["ledger"] = Len(ledger)]
             todo == IF NextPhase(p) = "render" THEN Passes(p) ELSE <<>>
             l == [loc[p] EXCEPT !.man = sealed, !.todo = todo]
  <2>1. loc'[p] = l
    BY <1>0, <1>16 DEF Seal
  <2> HIDE DEF sealed, todo
  <2>2. l.found = loc[p].found /\ l.child = loc[p].child
    BY <1>0 DEF Local
  <2> QED
    BY <1>1, <1>16, <2>1, <2>2 DEF Seal, Quiet
<1>17. CASE WriteRender(p)
  <2> DEFINE man == [loc[p].man EXCEPT ![Pass(p)[loc[p].rendered + 1]] = loc[p].mem]
             l == [loc[p] EXCEPT !.man = man, !.rendered = loc[p].rendered + 1]
  <2>1. loc'[p] = l
    BY <1>0, <1>17 DEF WriteRender
  <2> HIDE DEF man
  <2>2. l.found = loc[p].found /\ l.child = loc[p].child
    BY <1>0 DEF Local
  <2> QED
    BY <1>17, <2>1, <2>2 DEF WriteRender, PassOpen, Quiet
<1>18. ASSUME PassOver(p), PassOpen(p), pc'[p] = pc[p]
       PROVE  /\ pc[p] = "render" /\ pc'[p] = "render"
              /\ loc'[p].found = {} /\ loc'[p].child = NoProc
  <2> DEFINE rest == Tail(loc[p].todo)
             l == [loc[p] EXCEPT !.todo = rest, !.rendered = 0]
  <2>1. loc'[p] = l
    BY <1>0, <1>18 DEF PassOver
  <2> HIDE DEF rest
  <2>2. l.found = loc[p].found /\ l.child = loc[p].child
    BY <1>0 DEF Local
  <2> QED
    BY <1>18, <2>1, <2>2 DEF PassOpen, Quiet
<1>19. CASE EndPass(p) \/ SaveFails(p) \/ (RenderFails(p) /\ Cmd(p) # "render")
  BY <1>18, <1>19 DEF EndPass, SaveFails, RenderFails
<1>20. CASE RenderFails(p) /\ Cmd(p) = "render"
  BY <1>0, <1>2, <1>20 DEF RenderFails
<1> QED
  BY <1>3, <1>4, <1>5, <1>6, <1>7, <1>8, <1>9, <1>10, <1>11, <1>12, <1>13,
     <1>14, <1>15, <1>16, <1>17, <1>19, <1>20
  DEF Proceed

(* A step of p keeps what the others have found, and what they know.        *)
LEMMA OthersVerifying ==
    ASSUME Ordered, Verifying, [Next]_vars, NEW p \in Procs,
           NEW q \in Procs \ {p}, pc'[q] = pc[q], loc'[q] = loc[q]
    PROVE  Quiet(q)' /\ (pc'[q] = "hash" => loc'[q].found \subseteq loose')
<1>1. CASE pc[q] = "hash"
  <2>1. writer = NoProc
    BY <1>1 DEF Ordered, Locked, Shared, Typed, TypeOK
  <2>2. UNCHANGED <<manifest, loose>>
    BY <2>1, NoWriterNoChange
  <2> QED
    BY <1>1, <2>2 DEF Verifying, VerdictTrue, Quiet
<1>2. CASE pc[q] # "hash"
  BY <1>2 DEF Verifying, Quiet
<1> QED
  BY <1>1, <1>2

LEMMA HashVerifying ==
    ASSUME Ordered, Sealing, Verifying, [Next]_vars, NEW p \in Procs,
           NEW f \in Files, HashFile(p, f)
    PROVE  Quiet(p)' /\ loc'[p].found \subseteq loose'
<1>1. /\ loc[p] \in Local /\ loc \in [Procs -> Local] /\ pc[p] = "hash"
      /\ pc' = pc /\ UNCHANGED <<manifest, loose>> /\ p \in readers
  BY DEF HashFile, Ordered, Typed, TypeOK, Locked, Shared, disk
<1> DEFINE found == IF loc[p].man[f] \in {0, Content(f)} THEN loc[p].found
                    ELSE loc[p].found \cup {f}
           unread == loc[p].unread \ {f}
           l == [loc[p] EXCEPT !.unread = unread, !.found = found]
<1>2. loc'[p] = l
  BY <1>1 DEF HashFile, Remember
<1>3. writer = NoProc /\ Unsealed \subseteq loose
  BY <1>1 DEF Ordered, Locked, Sealing, SealedUnlessLoose
<1>4. loc[p].man = manifest /\ loc[p].found \subseteq loose /\ loc[p].child = NoProc
  BY <1>1 DEF Verifying, VerdictTrue, Quiet
<1>5. found \subseteq loose
  BY <1>3, <1>4 DEF Unsealed
<1> HIDE DEF found, unread
<1>6. l.found = found /\ l.man = loc[p].man /\ l.child = loc[p].child
  BY <1>1 DEF Local
<1> QED
  BY <1>1, <1>2, <1>4, <1>5, <1>6 DEF Quiet

LEMMA NextVerifying ==
    ASSUME Ordered, Sealing, Verifying, [Next]_vars
    PROVE  Verifying'
<1>0. loc \in [Procs -> Local] /\ pc \in [Procs -> Phase]
  BY DEF Ordered, Typed, TypeOK
<1> DEFINE Known(q) == Quiet(q)' /\ (pc'[q] = "hash" => loc'[q].found \subseteq loose')
<1>1. ASSUME NEW p \in Procs, Alone(p), Known(p) PROVE Verifying'
  <2>1. \A q \in Procs \ {p} : Known(q)
    BY <1>1, OthersVerifying DEF Alone
  <2> QED
    BY <1>1, <2>1 DEF Verifying, VerdictTrue
<1>2. ASSUME NEW p \in Procs, Proceed(p) PROVE Verifying'
  <2>1. Alone(p)
    BY <1>2, ProceedFrame DEF Ordered, Alone
  <2>2. CASE \E f \in Files : HashFile(p, f)
    BY <1>1, <2>1, <2>2, HashVerifying
  <2>3. CASE ~\E f \in Files : HashFile(p, f)
    <3>1. Quiet(p)
      BY DEF Verifying
    <3>2. \/ pc'[p] = "idle" /\ loc'[p].found = {} /\ loc'[p].child = NoProc
          \/ /\ pc[p] # "hash" /\ loc'[p].found = {} /\ loc'[p].child = NoProc
             /\ pc'[p] = "hash" => loc'[p].man = manifest
      BY <1>2, <2>3, <3>1, MemoryKept
    <3>3. pc'[p] = "hash" => manifest' = manifest
      <4> SUFFICES ASSUME pc'[p] = "hash" PROVE manifest' = manifest
        OBVIOUS
      <4>1. pc[p] # "hash"
        BY <3>2
      <4>2. ~Seal(p)
        BY GotoFacts, FlowHeld, CmdType DEF Seal, Ordered, Typed
      <4>3. ~EndPass(p)
        BY <4>1 DEF EndPass
      <4>4. TakeShared(p) \/ UNCHANGED manifest
        BY <1>2, <2>3, <4>2, <4>3
        DEF Proceed, ReadLedger, NextItem, Prepare, SkipItem, Refuse, QueryFails,
            EvaluateHooks, TakeLock, TimeOut, Unlock, Decide, StateMoved,
            AppendNext, AppendFails, SealFails, WriteRender, SaveFails,
            RenderFails, WriteCache, Quit, Die, Exit, disk
      <4> QED
        BY <4>4 DEF TakeShared, disk
    <3> QED
      BY <1>1, <2>1, <3>2, <3>3 DEF Quiet
  <2> QED
    BY <2>2, <2>3
<1>3. ASSUME NEW p \in Procs, Kill(p) PROVE Verifying'
  <2>1. Alone(p) /\ pc'[p] = "idle" /\ loc'[p] = Fresh(NoJob)
    BY <1>0, <1>3 DEF Kill, Die, Exit, Remember, Alone
  <2> QED
    BY <1>1, <2>1, JobFacts, FreshQuiet DEF Quiet
<1>4. ASSUME NEW p \in Procs, NEW j \in Jobs, Start(p, j) PROVE Verifying'
  <2>1. Alone(p) /\ loc'[p] = Fresh(j) /\ pc'[p] \notin Shared
    BY <1>0, <1>4, LaunchTyped DEF Start, Launch, Remember, Alone, Ordered
  <2> QED
    BY <1>1, <2>1, FreshQuiet DEF Quiet, Shared
<1>5. ASSUME NEW p \in Procs, NEW q \in Procs, NEW j \in GateJobs,
             RunGateCommand(p, q, j)
      PROVE  Verifying'
  <2> DEFINE l == [loc[p] EXCEPT !.child = q]
  <2>1. /\ pc[p] = "check" /\ q # p /\ Launch(q, j) /\ j \in Jobs
        /\ loc' = [loc EXCEPT ![p] = l, ![q] = Fresh(j)]
    BY <1>5, JobFacts DEF RunGateCommand
  <2>2. pc'[q] \notin Shared /\ \A r \in Procs \ {q} : pc'[r] = pc[r]
    BY <2>1, LaunchTyped DEF Ordered
  <2>3. l.found = {}
    <3>1. loc[p].found = {} /\ loc[p] \in Local
      BY <1>0, <2>1 DEF Verifying, Quiet
    <3> QED
      BY <3>1 DEF Local
  <2> HIDE DEF l
  <2>4. /\ loc'[p] = l /\ loc'[q] = Fresh(j)
        /\ \A r \in Procs \ {p, q} : loc'[r] = loc[r]
    BY <1>0, <2>1
  <2>5. Known(p)
    BY <2>1, <2>2, <2>3, <2>4 DEF Quiet
  <2>6. Known(q)
    BY <2>1, <2>2, <2>4, FreshQuiet DEF Quiet, Shared
  <2>7. \A r \in Procs \ {p, q} : Known(r)
    BY <2>2, <2>4, OthersVerifying
  <2> QED
    BY <2>5, <2>6, <2>7 DEF Verifying, VerdictTrue
<1>6. CASE UNCHANGED vars
  BY <1>6 DEF vars, Verifying, VerdictTrue, Quiet
<1> QED
  BY <1>2, <1>3, <1>4, <1>5, <1>6 DEF Next

LEMMA Verified == Spec => [](Ordered /\ Verifying)
<1>1. Init => Verifying
  BY JobFacts, FreshQuiet DEF Init, Verifying, VerdictTrue, Quiet
<1>2. Ordered /\ Sealing /\ Verifying /\ [Next]_vars => Verifying'
  BY NextVerifying
<1> QED
  BY <1>1, <1>2, OrderedSealing, PTL DEF Spec

(* manifest verify never reports a file another command is about to seal:   *)
(* what it finds, a command that failed or was killed left behind.          *)
THEOREM VerdictsTrue == Spec => []VerdictTrue
<1>1. Verifying => VerdictTrue
  BY DEF Verifying
<1> QED
  BY <1>1, Verified, PTL

(* No command waits for its gate command with a lock the command's own      *)
(* sahjhan would wait for.                                                  *)
THEOREM ChildrenFree == Spec => []NoWaitOnParent
<1>1. Ordered /\ Verifying => NoWaitOnParent
  <2> SUFFICES ASSUME Ordered, Verifying, NEW p \in Procs, loc[p].child # NoProc
               PROVE  writer # p /\ p \notin readers
    BY DEF NoWaitOnParent
  <2>1. pc[p] = "check"
    BY DEF Verifying, Quiet
  <2> QED
    BY <2>1 DEF Ordered, Locked, Exclusive, Shared
<1> QED
  BY <1>1, Verified, PTL
=============================================================================
