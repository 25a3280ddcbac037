-------------------------- MODULE Lifecycle_proofs ---------------------------
(***************************************************************************)
(* init, reset and the commands around them keep a data directory whole, as *)
(* long as one process at a time holds its lock: for every number of        *)
(* processes, runs, directories and failures.  The lock is an flock on the  *)
(* directory's inode, so that one process at a time holds it is itself a    *)
(* theorem while the directory is made once only; a directory that a failed *)
(* init removed and another made again has two locks.                       *)
(***************************************************************************)
EXTENDS Lifecycle, TLAPS

Before == {"idle", "exists", "mkdir", "open", "wait"}
Starting == {"genesis", "register", "track"}
Undoing == {"undo", "undo_rest", "undo_dir"}
Locked ==
    {"start", "create", "report", "archive", "archive_manifest", "load",
     "append", "write", "seal"} \cup Starting \cup Undoing

Inside(p) == pc[p] \in Locked

(* The phases that have begun to change what the manifest seals.            *)
Unsettled == {"genesis", "register", "track", "undo", "archive_manifest", "seal"}

(* No two commands are past their lock at once.                             *)
OneInside == \A p, q \in Procs : Inside(p) /\ Inside(q) => p = q

-----------------------------------------------------------------------------
(* The inductive invariant.                                                 *)

Locals ==
    [cmd : {"none", "init", "reset", "append", "reseal"}, inode : 0 .. MaxDirs,
     existed : BOOLEAN, registry : BOOLEAN, manifest : BOOLEAN,
     run : 0 .. MaxRuns, stamp : 0 .. MaxRuns]
SealType == [run : 0 .. MaxRuns, size : Nat]

TypeOK ==
    /\ dirs \in 0 .. MaxDirs /\ dir \in 0 .. MaxDirs
    /\ holder \in [Dirs -> Procs \cup {NoProc}]
    /\ runs \in 0 .. MaxRuns /\ ledger \in 0 .. runs
    /\ size \in [Runs -> Nat]
    /\ manifest \in SealType
    /\ registry \in BOOLEAN
    /\ archives \in [Stamps -> [ledger : 0 .. MaxRuns, manifest : SealType]]
    /\ clock \in 0 .. MaxRuns
    /\ reported \subseteq 0 .. MaxRuns
    /\ broken \subseteq {"seal", "genesis"}
    /\ pc \in [Procs -> Before \cup Locked]
    /\ at \in [Procs -> Locals]

(* A process inside holds the lock on the inode it opened.                  *)
LockKept ==
    /\ \A p \in Procs :
          /\ pc[p] = "wait" => at[p].inode \in Dirs
          /\ Inside(p) => at[p].inode \in Dirs /\ holder[at[p].inode] = p
    /\ \A d \in Dirs :
          holder[d] # NoProc => Inside(holder[d]) /\ at[holder[d]].inode = d

(* Runs are numbered as they are made.                                      *)
Numbered ==
    /\ \A r \in Runs : r > runs => size[r] = 0
    /\ \A s \in Stamps : archives[s].ledger <= runs
    /\ \A r \in reported : r \in 1 .. runs

(* The run a process makes is new: nobody has seen it.                      *)
Fresh(r) ==
    /\ r \notin reported
    /\ \A s \in Stamps : r # NoRun => archives[s].ledger # r

Working(p) ==
    /\ pc[p] = "create" => ledger = NoRun
    /\ pc[p] \in Starting \cup {"report"} =>
          /\ ledger = at[p].run /\ at[p].run \in Runs /\ Fresh(at[p].run)
          /\ size[at[p].run] = IF pc[p] = "genesis" THEN 0 ELSE 1
    /\ pc[p] = "report" => manifest = SealOf(ledger)
    /\ pc[p] = "undo" =>
          ledger \in {NoRun, at[p].run} /\ Fresh(at[p].run)
    /\ pc[p] \in {"undo_rest", "undo_dir", "archive_manifest"} => ledger = NoRun
    /\ pc[p] \in {"create", "undo", "undo_rest"} \cup Starting =>
          /\ at[p].manifest = (manifest # NoSeal)
          /\ at[p].manifest => "seal" \in broken
    /\ pc[p] \in {"write", "seal"} => ledger = at[p].run /\ at[p].run \in Runs

WorkKept == \A p \in Procs : Working(p)

(* What nobody is at work on is sealed.                                     *)
Intact == manifest = IF ledger = NoRun THEN NoSeal ELSE SealOf(ledger)
Sealed == "seal" \notin broken /\ (\A p \in Procs : pc[p] \notin Unsettled) => Intact

Orderly == TypeOK /\ LockKept /\ Numbered /\ WorkKept /\ Sealed /\ Usable

(* With a stamp of its own for each reset, no archive is written over.      *)
Stamped == \A s \in Stamps : s > clock => archives[s].ledger = NoRun

-----------------------------------------------------------------------------
(* Steps.                                                                   *)

(* Not past its lock, a process changes the data directory's inode only.    *)
Approaches(p) ==
    \/ CallInit(p) \/ SeeDir(p) \/ MakeDir(p) \/ CallOnRun(p)
    \/ OpenDir(p) \/ NoDirToOpen(p) \/ TakeLock(p) \/ LockTimeout(p)

Works(p) ==
    \/ Refusal(p) \/ CreateLedger(p) \/ WriteGenesis(p) \/ Register(p)
    \/ TrackNew(p) \/ Report(p) \/ WriteFails(p)
    \/ UndoLedger(p) \/ UndoFiles(p) \/ UndoDir(p)
    \/ ArchiveLedger(p) \/ ArchiveManifest(p)
    \/ LoadManifest(p) \/ OpenToAppend(p) \/ Write(p) \/ Seal(p)
    \/ CommandFails(p)

LEMMA NextSteps ==
    ASSUME Next
    PROVE  \E p \in Procs : Approaches(p) \/ Works(p) \/ Kill(p)
  BY Zenon DEF Next, Approaches, Works

LEMMA InitOrderly == Init => Orderly /\ RunsKept /\ Stamped
<1> SUFFICES ASSUME Init PROVE Orderly /\ RunsKept /\ Stamped
  OBVIOUS
<1>1. TypeOK
  <2>1. Blank \in Locals /\ NoSeal \in SealType
    BY BoundsAssumption DEF Blank, Locals, NoDir, NoRun, NoSeal, SealType
  <2>2. NoArchive \in [ledger : 0 .. MaxRuns, manifest : SealType]
    BY <2>1, BoundsAssumption DEF NoArchive, NoRun
  <2>3. "idle" \in Before \cup Locked
    BY DEF Before
  <2>4. /\ holder \in [Dirs -> Procs \cup {NoProc}] /\ size \in [Runs -> Nat]
        /\ pc \in [Procs -> Before \cup Locked] /\ at \in [Procs -> Locals]
        /\ archives \in [Stamps -> [ledger : 0 .. MaxRuns, manifest : SealType]]
    BY <2>1, <2>2, <2>3 DEF Init
  <2>5. /\ dirs \in 0 .. MaxDirs /\ dir \in 0 .. MaxDirs /\ runs \in 0 .. MaxRuns
        /\ ledger \in 0 .. runs /\ clock \in 0 .. MaxRuns
    BY BoundsAssumption DEF Init, NoDir, NoRun
  <2> QED
    BY <2>1, <2>4, <2>5 DEF Init, TypeOK
<1>2. LockKept
  BY DEF Init, LockKept, Inside, Locked, Starting, Undoing
<1>3. Numbered /\ Stamped
  BY DEF Init, Numbered, Stamped, NoArchive, NoRun
<1>4. WorkKept
  BY DEF Init, WorkKept, Working, Starting
<1>5. Sealed /\ Usable /\ RunsKept
  BY DEF Init, Sealed, Intact, Usable, RunsKept
<1> QED
  BY <1>1, <1>2, <1>3, <1>4, <1>5 DEF Orderly

(* A command that ends takes its lock and its locals with it.               *)
LEMMA ExitFacts ==
    ASSUME TypeOK, NEW p \in Procs, Exit(p)
    PROVE  /\ pc' \in [Procs -> Before \cup Locked] /\ at' \in [Procs -> Locals]
           /\ holder' \in [Dirs -> Procs \cup {NoProc}]
           /\ pc'[p] = "idle" /\ at'[p] = Blank
           /\ \A q \in Procs \ {p} : pc'[q] = pc[q] /\ at'[q] = at[q]
           /\ \A d \in Dirs : holder'[d] = IF holder[d] = p THEN NoProc ELSE holder[d]
<1>1. Blank \in Locals /\ "idle" \in Before
  BY BoundsAssumption DEF Blank, Locals, NoDir, NoRun, Before
<1> QED
  BY <1>1 DEF TypeOK, Exit

LEMMA GotoFacts ==
    ASSUME TypeOK, NEW p \in Procs, NEW from, NEW to \in Before \cup Locked,
           Goto(p, from, to)
    PROVE  /\ pc' \in [Procs -> Before \cup Locked]
           /\ pc[p] = from /\ pc'[p] = to
           /\ \A q \in Procs \ {p} : pc'[q] = pc[q]
  BY DEF TypeOK, Goto

LEMMA DirType ==
    ASSUME TypeOK, NEW p \in Procs
    PROVE  /\ RemoveDir(p) => dir' \in 0 .. MaxDirs
           /\ EnsureDir => dir' \in 0 .. MaxDirs /\ dirs' \in 0 .. MaxDirs
  BY BoundsAssumption DEF TypeOK, RemoveDir, EnsureDir, NoDir

LEMMA SealTypes ==
    ASSUME TypeOK
    PROVE  /\ NoSeal \in SealType
           /\ ledger # NoRun =>
                 ledger \in Runs /\ SealOf(ledger) \in SealType /\ SealOf(ledger) # NoSeal
  BY BoundsAssumption DEF TypeOK, NoSeal, NoRun, SealType, SealOf, Runs

-----------------------------------------------------------------------------
(* Types.                                                                   *)

LocalTypes ==
    /\ holder \in [Dirs -> Procs \cup {NoProc}]
    /\ pc \in [Procs -> Before \cup Locked]
    /\ at \in [Procs -> Locals]

SharedTypes ==
    /\ dirs \in 0 .. MaxDirs /\ dir \in 0 .. MaxDirs
    /\ runs \in 0 .. MaxRuns /\ ledger \in 0 .. runs
    /\ size \in [Runs -> Nat]
    /\ manifest \in SealType
    /\ registry \in BOOLEAN
    /\ archives \in [Stamps -> [ledger : 0 .. MaxRuns, manifest : SealType]]
    /\ clock \in 0 .. MaxRuns
    /\ reported \subseteq 0 .. MaxRuns
    /\ broken \subseteq {"seal", "genesis"}

LEMMA TypeParts == TypeOK <=> LocalTypes /\ SharedTypes
  BY DEF TypeOK, LocalTypes, SharedTypes

LEMMA ApproachTypes ==
    ASSUME TypeOK, NEW p \in Procs, Approaches(p)
    PROVE  TypeOK'
<1> USE DEF Before, Locked
<1>1. CASE CallInit(p)
  BY <1>1 DEF CallInit, Goto, TypeOK, Locals, shared
<1>2. CASE SeeDir(p)
  <2> DEFINE b == dir # NoDir
  <2>1. b \in BOOLEAN
    OBVIOUS
  <2>2. at' = [at EXCEPT ![p].existed = b]
    BY <1>2 DEF SeeDir
  <2> HIDE DEF b
  <2>3. at' \in [Procs -> Locals]
    BY <2>1, <2>2 DEF TypeOK, Locals
  <2> QED
    BY <1>2, <2>3 DEF SeeDir, Goto, TypeOK, shared
<1>3. CASE MakeDir(p)
  BY <1>3, DirType DEF MakeDir, Goto, TypeOK
<1>4. CASE CallOnRun(p)
  BY <1>4 DEF CallOnRun, Goto, TypeOK, Locals, shared
<1>5. CASE OpenDir(p)
  BY <1>5 DEF OpenDir, Goto, TypeOK, Locals, shared
<1>6. CASE NoDirToOpen(p)
  BY <1>6, ExitFacts DEF NoDirToOpen, TypeOK, shared
<1>7. CASE TakeLock(p)
  BY <1>7 DEF TakeLock, AfterLock, Goto, TypeOK, Dirs, shared
<1>8. CASE LockTimeout(p)
  BY <1>8, ExitFacts, DirType DEF LockTimeout, TypeOK
<1> QED
  BY <1>1, <1>2, <1>3, <1>4, <1>5, <1>6, <1>7, <1>8 DEF Approaches

(* An assignment to one of a process's locals.                              *)
LEMMA LedgerType ==
    ASSUME TypeOK
    PROVE  ledger \in 0 .. MaxRuns /\ (ledger # NoRun => ledger \in Runs)
<1>1. ledger \in Nat /\ runs \in Nat /\ MaxRuns \in Nat /\ ledger <= runs /\ runs <= MaxRuns
  BY BoundsAssumption DEF TypeOK
<1> QED
  BY <1>1 DEF NoRun, Runs

LEMMA RunSet ==
    ASSUME TypeOK, NEW p \in Procs, NEW r \in 0 .. MaxRuns
    PROVE  /\ [at EXCEPT ![p].run = r] \in [Procs -> Locals]
           /\ [at EXCEPT ![p].stamp = r] \in [Procs -> Locals]
<1>1. at \in [Procs -> Locals] /\ at[p] \in Locals
  BY DEF TypeOK
<1>2. [at[p] EXCEPT !.run = r] \in Locals /\ [at[p] EXCEPT !.stamp = r] \in Locals
  BY <1>1 DEF Locals
<1> QED
  BY <1>1, <1>2

LEMMA FlagsSet ==
    ASSUME TypeOK, NEW p \in Procs, NEW b \in BOOLEAN, NEW c \in BOOLEAN
    PROVE  /\ [at EXCEPT ![p].manifest = b] \in [Procs -> Locals]
           /\ [at EXCEPT ![p].registry = c, ![p].manifest = b] \in [Procs -> Locals]
<1>1. at \in [Procs -> Locals] /\ at[p] \in Locals
  BY DEF TypeOK
<1>2. [at[p] EXCEPT !.manifest = b] \in Locals
  BY <1>1 DEF Locals
<1>3. [at[p] EXCEPT !.registry = c] \in Locals
  BY <1>1 DEF Locals
<1>4. [[at[p] EXCEPT !.registry = c] EXCEPT !.manifest = b] \in Locals
  BY <1>3 DEF Locals
<1>5. [at EXCEPT ![p].registry = c, ![p].manifest = b] =
        [at EXCEPT ![p] = [[at[p] EXCEPT !.registry = c] EXCEPT !.manifest = b]]
  BY <1>1
<1> QED
  BY <1>1, <1>2, <1>4, <1>5

LEMMA WorkTypes ==
    ASSUME TypeOK, NEW p \in Procs, Works(p)
    PROVE  TypeOK'
<1> USE DEF Before, Locked
<1>1. CASE Refusal(p)
  <2>1. CASE Begin(p)
    <3> DEFINE b == manifest # NoSeal
    <3>1. b \in BOOLEAN /\ registry \in BOOLEAN
      BY DEF TypeOK
    <3>2. at' = [at EXCEPT ![p].registry = registry, ![p].manifest = b]
      BY <2>1 DEF Begin
    <3> HIDE DEF b
    <3>3. at' \in [Procs -> Locals]
      BY <3>1, <3>2, FlagsSet
    <3> QED
      BY <2>1, <3>3 DEF Begin, Goto, TypeOK, shared
  <2>2. CASE Exit(p) /\ UNCHANGED shared
    BY <2>2, ExitFacts DEF TypeOK, shared
  <2> QED
    BY <1>1, <2>1, <2>2 DEF Refusal
<1>2. CASE CreateLedger(p)
  <2>1. /\ runs' \in 0 .. MaxRuns /\ ledger' \in 0 .. runs'
        /\ \E r \in 0 .. MaxRuns : at' = [at EXCEPT ![p].run = r]
    BY <1>2, BoundsAssumption DEF CreateLedger, TypeOK, NoRun
  <2>2. at' \in [Procs -> Locals]
    <3>1. PICK r \in 0 .. MaxRuns : at' = [at EXCEPT ![p].run = r]
      BY <2>1
    <3> QED
      BY <3>1, RunSet
  <2>3. pc' \in [Procs -> Before \cup Locked]
    BY <1>2, GotoFacts DEF CreateLedger, Undoing, Starting
  <2> QED
    BY <1>2, <2>1, <2>2, <2>3 DEF CreateLedger, TypeOK
<1>3. CASE WriteGenesis(p)
  BY <1>3, GotoFacts DEF WriteGenesis, TypeOK, Starting
<1>4. CASE Register(p)
  BY <1>4, GotoFacts, DirType DEF Register, TypeOK, Starting
<1>5. CASE TrackNew(p)
  <2>1. pc' \in [Procs -> Before \cup Locked]
    BY <1>5, GotoFacts DEF TrackNew, Undoing
  <2>2. manifest' \in SealType
    BY <1>5, SealTypes DEF TrackNew, TypeOK
  <2> QED
    BY <1>5, <2>1, <2>2 DEF TrackNew, TypeOK
<1>6. CASE UndoLedger(p)
  BY <1>6, GotoFacts DEF UndoLedger, TypeOK, NoRun, Undoing
<1>7. CASE UndoFiles(p)
  <2>1. pc' \in [Procs -> Before \cup Locked]
    BY <1>7, GotoFacts DEF UndoFiles, Undoing
  <2>2. manifest' \in SealType
    BY <1>7, SealTypes DEF UndoFiles, TypeOK
  <2>3. registry' \in BOOLEAN
    <3>1. at[p].registry \in BOOLEAN /\ registry \in BOOLEAN
      BY DEF TypeOK, Locals
    <3>2. registry' = (registry /\ at[p].registry)
      BY <1>7 DEF UndoFiles
    <3> QED
      BY <3>1, <3>2
  <2> QED
    BY <1>7, <2>1, <2>2, <2>3 DEF UndoFiles, TypeOK
<1>8. CASE UndoDir(p)
  BY <1>8, ExitFacts, DirType DEF UndoDir, TypeOK
<1>9. CASE WriteFails(p)
  <2> DEFINE r == IF pc[p] = "create" THEN NoRun ELSE at[p].run
  <2>1. r \in 0 .. MaxRuns
    BY BoundsAssumption DEF TypeOK, Locals, NoRun
  <2>2. at' \in [Procs -> Locals]
    <3>1. at' = [at EXCEPT ![p].run = r]
      BY <1>9 DEF WriteFails
    <3> QED
      BY <2>1, <3>1, RunSet
  <2>3. pc' \in [Procs -> Before \cup Locked]
    BY <1>9 DEF WriteFails, TypeOK, Undoing
  <2> QED
    BY <1>9, <2>2, <2>3 DEF WriteFails, TypeOK
<1>10. CASE Report(p)
  <2>1. UNCHANGED <<dir, dirs, ledger, size, runs, manifest, registry, archives, clock, broken>>
    BY <1>10 DEF Report
  <2>2. reported' \subseteq 0 .. MaxRuns
    <3>1. at[p].run \in 0 .. MaxRuns
      BY DEF TypeOK, Locals
    <3> QED
      BY <1>10, <3>1 DEF Report, TypeOK
  <2> QED
    BY <1>10, <2>1, <2>2, ExitFacts DEF Report, TypeOK
<1>11. CASE ArchiveLedger(p)
  <2>1. CASE Exit(p) /\ UNCHANGED <<archives, ledger, broken, clock>>
    BY <1>11, <2>1, ExitFacts DEF ArchiveLedger, TypeOK
  <2>2. ASSUME NEW s \in Stamps, Goto(p, "archive", "archive_manifest"),
               at' = [at EXCEPT ![p].stamp = s],
               archives' = [archives EXCEPT ![s].ledger = ledger],
               ledger' = NoRun, broken' = broken \ {"genesis"}, clock' = s,
               holder' = holder
        PROVE  TypeOK'
    <3>1. s \in 0 .. MaxRuns
      BY BoundsAssumption DEF Stamps
    <3>2. at' \in [Procs -> Locals]
      BY <2>2, <3>1, RunSet
    <3>3. pc' \in [Procs -> Before \cup Locked]
      BY <2>2, GotoFacts
    <3>4. archives' \in [Stamps -> [ledger : 0 .. MaxRuns, manifest : SealType]]
      <4>1. archives[s] \in [ledger : 0 .. MaxRuns, manifest : SealType] /\ ledger \in 0 .. MaxRuns
        BY LedgerType DEF TypeOK
      <4>2. [archives[s] EXCEPT !.ledger = ledger] \in [ledger : 0 .. MaxRuns, manifest : SealType]
        BY <4>1
      <4> QED
        BY <2>2, <4>2 DEF TypeOK
    <3>5. ledger' \in 0 .. runs
      BY <2>2 DEF TypeOK, NoRun
    <3>6. UNCHANGED <<dir, dirs, size, runs, manifest, registry, reported>>
      BY <1>11 DEF ArchiveLedger
    <3> QED
      BY <2>2, <3>1, <3>2, <3>3, <3>4, <3>5, <3>6 DEF TypeOK
  <2> QED
    BY <1>11, <2>1, <2>2 DEF ArchiveLedger
<1>12. CASE ArchiveManifest(p)
  <2>1. CASE Exit(p) /\ UNCHANGED <<archives, manifest>>
    BY <1>12, <2>1, ExitFacts DEF ArchiveManifest, TypeOK
  <2>2. CASE /\ Goto(p, "archive_manifest", "start")
             /\ archives' = [archives EXCEPT ![at[p].stamp].manifest = manifest]
             /\ manifest' = NoSeal
             /\ UNCHANGED <<holder, at>>
    <3>1. archives' \in [Stamps -> [ledger : 0 .. MaxRuns, manifest : SealType]]
      <4>1. ASSUME NEW s \in Stamps
            PROVE  [archives[s] EXCEPT !.manifest = manifest] \in
                      [ledger : 0 .. MaxRuns, manifest : SealType]
        BY DEF TypeOK
      <4> QED
        BY <2>2, <4>1 DEF TypeOK
    <3>2. pc' \in [Procs -> Before \cup Locked]
      BY <2>2, GotoFacts
    <3> QED
      BY <1>12, <2>2, <3>1, <3>2, SealTypes DEF ArchiveManifest, TypeOK
  <2> QED
    BY <1>12, <2>1, <2>2 DEF ArchiveManifest
<1>13. CASE LoadManifest(p)
  <2>1. CASE Exit(p)
    BY <1>13, <2>1, ExitFacts DEF LoadManifest, TypeOK, shared
  <2>2. CASE /\ Goto(p, "load", "append")
             /\ at' = [at EXCEPT ![p].manifest = manifest # NoSeal]
             /\ holder' = holder
    <3> DEFINE b == manifest # NoSeal
    <3>1. b \in BOOLEAN /\ TRUE \in BOOLEAN
      OBVIOUS
    <3>2. at' = [at EXCEPT ![p].manifest = b]
      BY <2>2
    <3> HIDE DEF b
    <3>3. at' \in [Procs -> Locals]
      BY <3>1, <3>2, FlagsSet
    <3>4. pc' \in [Procs -> Before \cup Locked]
      BY <2>2, GotoFacts
    <3> QED
      BY <1>13, <2>2, <3>3, <3>4 DEF LoadManifest, TypeOK, shared
  <2> QED
    BY <1>13, <2>1, <2>2 DEF LoadManifest
<1>14. CASE OpenToAppend(p)
  <2>1. CASE Exit(p)
    BY <1>14, <2>1, ExitFacts DEF OpenToAppend, TypeOK, shared
  <2>2. CASE /\ Goto(p, "append", "write")
             /\ at' = [at EXCEPT ![p].run = ledger]
             /\ holder' = holder
    <3>1. ledger \in 0 .. MaxRuns
      BY LedgerType
    <3>2. at' \in [Procs -> Locals]
      BY <2>2, <3>1, RunSet
    <3>3. pc' \in [Procs -> Before \cup Locked]
      BY <2>2, GotoFacts
    <3> QED
      BY <1>14, <2>2, <3>2, <3>3 DEF OpenToAppend, TypeOK, shared
  <2> QED
    BY <1>14, <2>1, <2>2 DEF OpenToAppend
<1>15. CASE Write(p)
  <2>1. CASE Exit(p) /\ size' = size
    BY <1>15, <2>1, ExitFacts DEF Write, TypeOK
  <2>2. CASE /\ Goto(p, "write", "seal")
             /\ size[at[p].run] \in 1 .. (MaxSize - 1)
             /\ size' = [size EXCEPT ![at[p].run] = @ + 1]
             /\ UNCHANGED <<holder, at>>
    <3>1. size' \in [Runs -> Nat]
      <4> DEFINE r == at[p].run
      <4>1. size[r] + 1 \in Nat
        BY <2>2, BoundsAssumption
      <4>2. size' = [size EXCEPT ![r] = size[r] + 1]
        BY <2>2
      <4> HIDE DEF r
      <4> QED
        BY <4>1, <4>2 DEF TypeOK
    <3>2. pc' \in [Procs -> Before \cup Locked]
      BY <2>2, GotoFacts
    <3> QED
      BY <1>15, <2>2, <3>1, <3>2 DEF Write, TypeOK
  <2> QED
    BY <1>15, <2>1, <2>2 DEF Write
<1>16. CASE Seal(p)
  <2>1. manifest' \in SealType /\ broken' \subseteq {"seal", "genesis"}
    BY <1>16, SealTypes DEF Seal, TypeOK
  <2> QED
    BY <1>16, <2>1, ExitFacts DEF Seal, TypeOK
<1>17. CASE CommandFails(p)
  <2>1. LeftBy(p) \subseteq {"seal", "genesis"}
    BY DEF LeftBy
  <2> QED
    BY <1>17, <2>1, ExitFacts DEF CommandFails, TypeOK
<1> QED
  BY <1>1, <1>2, <1>3, <1>4, <1>5, <1>6, <1>7, <1>8, <1>9, <1>10, <1>11,
     <1>12, <1>13, <1>14, <1>15, <1>16, <1>17 DEF Works

LEMMA KillTypes ==
    ASSUME TypeOK, NEW p \in Procs, Kill(p)
    PROVE  TypeOK'
<1>1. LeftBy(p) \subseteq {"seal", "genesis"}
  BY DEF LeftBy
<1> QED
  BY <1>1, ExitFacts DEF Kill, TypeOK

LEMMA TypeStep ==
    ASSUME TypeOK, [Next]_vars
    PROVE  TypeOK'
<1>1. CASE UNCHANGED vars
  BY <1>1 DEF vars, shared, TypeOK
<1> QED
  BY <1>1, NextSteps, ApproachTypes, WorkTypes, KillTypes

-----------------------------------------------------------------------------
(* The lock.                                                                *)

(* Whatever p does, the others are where they were.                         *)
LEMMA OthersStay ==
    ASSUME TypeOK, NEW p \in Procs, Approaches(p) \/ Works(p) \/ Kill(p),
           NEW q \in Procs, q # p
    PROVE  pc'[q] = pc[q] /\ at'[q] = at[q]
<1>1. CASE Exit(p)
  BY <1>1, ExitFacts
<1>2. CASE ~Exit(p) /\ Approaches(p)
  BY <1>2 DEF TypeOK, Goto, Approaches, CallInit, SeeDir, MakeDir, CallOnRun, OpenDir,
         NoDirToOpen, TakeLock, LockTimeout
<1>3. CASE ~Exit(p) /\ Works(p)
  BY <1>3 DEF TypeOK, Goto, Works, Begin, Refusal, CreateLedger, WriteGenesis,
         Register, TrackNew, Report, WriteFails, UndoLedger, UndoFiles,
         UndoDir, ArchiveLedger, ArchiveManifest, LoadManifest, OpenToAppend,
         Write, Seal, CommandFails
<1>4. CASE Kill(p)
  BY <1>4, ExitFacts DEF Kill
<1> QED
  BY <1>1, <1>2, <1>3, <1>4

(* What a step of p does to the locks: none, or p takes its own, or p ends. *)
LEMMA LockSteps ==
    ASSUME TypeOK, NEW p \in Procs, Approaches(p) \/ Works(p) \/ Kill(p)
    PROVE  \/ Exit(p)
           \/ TakeLock(p)
           \/ OpenDir(p)
           \/ /\ holder' = holder /\ at'[p].inode = at[p].inode
              /\ Inside(p) <=> Inside(p)'
              /\ pc'[p] # "wait"
<1>1. CASE Approaches(p)
  BY <1>1 DEF TypeOK, Locals, Goto, Approaches, CallInit, SeeDir, MakeDir, CallOnRun,
         OpenDir, NoDirToOpen, TakeLock, LockTimeout, Inside, Before, Locked,
         Starting, Undoing
<1>2. CASE Works(p)
  BY <1>2 DEF TypeOK, Locals, Goto, Works, Begin, Refusal, CreateLedger,
         WriteGenesis, Register, TrackNew, Report, WriteFails, UndoLedger,
         UndoFiles, UndoDir, ArchiveLedger, ArchiveManifest, LoadManifest,
         OpenToAppend, Write, Seal, CommandFails, Inside, Before, Locked,
         Starting, Undoing
<1>3. CASE Kill(p)
  BY <1>3 DEF Kill
<1> QED
  BY <1>1, <1>2, <1>3

LEMMA LockStep ==
    ASSUME TypeOK, LockKept, [Next]_vars
    PROVE  LockKept'
<1>1. CASE UNCHANGED vars
  BY <1>1 DEF vars, shared, LockKept, Inside
<1>2. ASSUME NEW p \in Procs, Approaches(p) \/ Works(p) \/ Kill(p)
      PROVE  LockKept'
  <2> DEFINE Of(q) == /\ pc[q] = "wait" => at[q].inode \in Dirs
                      /\ Inside(q) => at[q].inode \in Dirs /\ holder[at[q].inode] = q
             Held(d) == holder[d] # NoProc => Inside(holder[d]) /\ at[holder[d]].inode = d
  <2>1. \A q \in Procs : Of(q)
    BY DEF LockKept
  <2>2. \A d \in Dirs : Held(d)
    BY DEF LockKept
  <2>3. \A q \in Procs \ {p} : pc'[q] = pc[q] /\ at'[q] = at[q] /\ (Inside(q)' <=> Inside(q))
    BY <1>2, OthersStay DEF Inside
  <2>4. holder \in [Dirs -> Procs \cup {NoProc}]
    BY DEF TypeOK
  <2>5. CASE Exit(p)
    <3>1. /\ pc'[p] = "idle" /\ ~Inside(p)'
          /\ \A d \in Dirs : holder'[d] = IF holder[d] = p THEN NoProc ELSE holder[d]
      BY <2>5, ExitFacts DEF Inside, Locked, Starting, Undoing
    <3>2. ASSUME NEW q \in Procs PROVE Of(q)'
      BY <2>1, <2>3, <2>4, <3>1
    <3>3. ASSUME NEW d \in Dirs PROVE Held(d)'
      BY <2>2, <2>3, <2>4, <3>1
    <3> QED
      BY <3>2, <3>3 DEF LockKept
  <2>6. CASE TakeLock(p)
    <3> DEFINE i == at[p].inode
    <3>1. /\ i \in Dirs /\ holder[i] = NoProc /\ holder' = [holder EXCEPT ![i] = p]
          /\ at' = at /\ Inside(p)' /\ pc'[p] # "wait"
      BY <2>1, <2>6 DEF TakeLock, AfterLock, Goto, TypeOK, Inside, Locked
    <3>2. \A q \in Procs \ {p} : Inside(q) => at[q].inode # i
      BY <2>1, <3>1, ProcsAssumption
    <3>3. ASSUME NEW q \in Procs PROVE Of(q)'
      BY <2>1, <2>3, <2>4, <3>1, <3>2
    <3>4. ASSUME NEW d \in Dirs PROVE Held(d)'
      <4>1. CASE d = i
        BY <2>4, <3>1, <4>1
      <4>2. CASE d # i
        <5>1. holder'[d] = holder[d]
          BY <2>4, <3>1, <4>2
        <5>2. holder[d] # p
          <6>1. ~Inside(p)
            BY <2>6 DEF TakeLock, Goto, Inside, Locked, Starting, Undoing
          <6> QED
            BY <2>2, <6>1, ProcsAssumption
        <5> QED
          BY <2>2, <2>3, <2>4, <3>1, <5>1, <5>2
      <4> QED
        BY <4>1, <4>2
    <3> QED
      BY <3>3, <3>4 DEF LockKept
  <2>7. CASE OpenDir(p)
    <3>1. /\ at'[p].inode \in Dirs /\ holder' = holder
          /\ ~Inside(p) /\ ~Inside(p)'
      BY <2>7, BoundsAssumption
         DEF OpenDir, Goto, TypeOK, Locals, Inside, Locked, Starting, Undoing, Dirs, NoDir
    <3>2. ASSUME NEW q \in Procs PROVE Of(q)'
      BY <2>1, <2>3, <3>1
    <3>3. ASSUME NEW d \in Dirs PROVE Held(d)'
      BY <2>2, <2>3, <2>4, <3>1, ProcsAssumption
    <3> QED
      BY <3>2, <3>3 DEF LockKept
  <2>8. CASE /\ holder' = holder /\ at'[p].inode = at[p].inode
             /\ Inside(p) <=> Inside(p)'
             /\ pc'[p] # "wait"
    <3>1. ASSUME NEW q \in Procs PROVE Of(q)'
      BY <2>1, <2>3, <2>8
    <3>2. ASSUME NEW d \in Dirs PROVE Held(d)'
      BY <2>2, <2>3, <2>4, <2>8
    <3> QED
      BY <3>1, <3>2 DEF LockKept
  <2> QED
    BY <1>2, <2>5, <2>6, <2>7, <2>8, LockSteps
<1> QED
  BY <1>1, <1>2, NextSteps

(* While the data directory is made once only, its lock excludes: of the    *)
(* commands that write_run, reset and append with it, one is at work.       *)
THEOREM OneLock == MaxDirs = 1 => (Spec => []OneInside)
<1> SUFFICES ASSUME MaxDirs = 1 PROVE Spec => []OneInside
  OBVIOUS
<1>1. Init => TypeOK /\ LockKept
  BY InitOrderly DEF Orderly
<1>2. TypeOK /\ LockKept /\ [Next]_vars => TypeOK' /\ LockKept'
  BY TypeStep, LockStep
<1>3. TypeOK /\ LockKept => OneInside
  <2> SUFFICES ASSUME TypeOK, LockKept, NEW p \in Procs, NEW q \in Procs,
                      Inside(p), Inside(q)
               PROVE  p = q
    BY DEF OneInside
  <2>1. Dirs = {1}
    BY DEF Dirs
  <2> QED
    BY <2>1 DEF LockKept
<1> QED
  BY <1>1, <1>2, <1>3, PTL DEF Spec

-----------------------------------------------------------------------------
(* What the process inside does, and what it leaves.                        *)

data == <<ledger, size, runs, manifest, archives, clock, reported>>

LEMMA Phases ==
    ASSUME NEW p \in Procs
    PROVE  /\ pc[p] \in Before => ~Inside(p)
           /\ TypeOK /\ ~Inside(p) => pc[p] \in Before
           /\ pc[p] \in Unsettled => Inside(p)
           /\ Works(p) => Inside(p)
<1>1. Works(p) => Inside(p)
  BY DEF Works, Goto, Begin, Refusal, CreateLedger, WriteGenesis, Register,
         TrackNew, Report, WriteFails, UndoLedger, UndoFiles, UndoDir,
         ArchiveLedger, ArchiveManifest, LoadManifest, OpenToAppend, Write,
         Seal, CommandFails, Inside, Locked, Starting, Undoing
<1> QED
  BY <1>1 DEF Before, Inside, Locked, Starting, Undoing, Unsettled, TypeOK

(* Outside its lock a process has no work of the run in hand.               *)
LEMMA NoWorkOutside ==
    ASSUME NEW p \in Procs, pc[p] \in Before \cup {"start", "archive", "load", "append"}
    PROVE  Working(p)
  BY DEF Before, Working, Starting

LEMMA OutsideSteps ==
    ASSUME TypeOK, NEW p \in Procs, ~Inside(p), Approaches(p) \/ Works(p) \/ Kill(p)
    PROVE  /\ UNCHANGED data /\ broken' = broken
           /\ pc'[p] \in Before \cup {"start", "archive", "load"}
<1>1. pc[p] \in Before /\ ~Works(p)
  BY Phases
<1>2. CASE Approaches(p)
  <2>1. UNCHANGED data /\ broken' = broken
    BY <1>2 DEF Approaches, CallInit, SeeDir, MakeDir, CallOnRun, OpenDir,
         NoDirToOpen, TakeLock, LockTimeout, shared, data
  <2>2. pc'[p] \in Before \cup {"start", "archive", "load"}
    <3>1. CASE Exit(p)
      BY <3>1, ExitFacts DEF Before
    <3>2. CASE ~Exit(p)
      BY <1>2, <3>2 DEF Approaches, CallInit, SeeDir, MakeDir, CallOnRun, OpenDir,
         NoDirToOpen, TakeLock, LockTimeout, AfterLock, Goto, TypeOK, Before
    <3> QED
      BY <3>1, <3>2
  <2> QED
    BY <2>1, <2>2
<1>3. CASE Kill(p)
  <2>1. LeftBy(p) = {}
    BY <1>1 DEF LeftBy, Before
  <2>2. broken' = broken /\ UNCHANGED data /\ pc'[p] = "idle"
    BY <1>3, <2>1, ExitFacts DEF Kill, data
  <2> QED
    BY <2>2 DEF Before
<1> QED
  BY <1>1, <1>2, <1>3

LEMMA WorkOutside ==
    ASSUME Orderly, OneInside, NEW p \in Procs, ~Inside(p),
           Approaches(p) \/ Works(p) \/ Kill(p)
    PROVE  WorkKept' /\ Sealed'
<1>1. /\ UNCHANGED data /\ broken' = broken
      /\ pc'[p] \in Before \cup {"start", "archive", "load"}
  BY OutsideSteps DEF Orderly
<1>2. \A q \in Procs \ {p} : pc'[q] = pc[q] /\ at'[q] = at[q]
  BY OthersStay DEF Orderly
<1>3. Working(p)'
  BY <1>1, NoWorkOutside, Zenon DEF Before, Working, Starting
<1>4. ASSUME NEW q \in Procs \ {p} PROVE Working(q)'
  BY <1>1, <1>2 DEF Orderly, WorkKept, Working, Fresh, SealOf, data
<1>5. Sealed'
  <2>1. pc[p] \notin Unsettled
    BY Phases
  <2>2. (\A q \in Procs : pc'[q] \notin Unsettled) => \A q \in Procs : pc[q] \notin Unsettled
    BY <1>2, <2>1
  <2>3. Intact => Intact'
    BY <1>1 DEF Intact, SealOf, data
  <2> QED
    BY <1>1, <2>2, <2>3 DEF Orderly, Sealed
<1> QED
  BY <1>3, <1>4, <1>5 DEF WorkKept

(* Alone inside, p answers for the directory.                               *)
LEMMA Alone ==
    ASSUME Orderly, OneInside, NEW p \in Procs, Inside(p)
    PROVE  /\ \A q \in Procs \ {p} : pc[q] \in Before
           /\ "seal" \notin broken /\ pc[p] \notin Unsettled => Intact
           /\ Working(p)
<1>1. \A q \in Procs \ {p} : ~Inside(q)
  BY DEF OneInside
<1>2. \A q \in Procs \ {p} : pc[q] \in Before /\ pc[q] \notin Unsettled
  BY <1>1, Phases DEF Orderly
<1> QED
  BY <1>2 DEF Orderly, Sealed, WorkKept

Answers(p) ==
    /\ Working(p)
    /\ "seal" \notin broken /\ pc[p] \notin Unsettled => Intact

LEMMA AnswersSuffice ==
    ASSUME Orderly, OneInside, NEW p \in Procs, Inside(p),
           Approaches(p) \/ Works(p) \/ Kill(p), Answers(p)'
    PROVE  WorkKept' /\ Sealed'
<1>1. \A q \in Procs \ {p} : pc'[q] = pc[q] /\ pc[q] \in Before
  BY Alone, OthersStay DEF Orderly
<1>2. ASSUME NEW q \in Procs \ {p} PROVE Working(q)'
  BY <1>1, <1>2 DEF Before, Working, Starting
<1> QED
  BY <1>2 DEF Answers, WorkKept, Sealed

(* A command that ends answers for a directory that is intact.              *)
LEMMA ExitAnswers ==
    ASSUME TypeOK, NEW p \in Procs, Exit(p), "seal" \notin broken' => Intact'
    PROVE  Answers(p)'
<1>1. pc'[p] = "idle"
  BY ExitFacts
<1> QED
  BY <1>1 DEF Answers, Working, Starting

LEMMA StartAnswers ==
    ASSUME Orderly, OneInside, NEW p \in Procs,
           Refusal(p) \/ CreateLedger(p) \/ WriteGenesis(p) \/ Register(p)
    PROVE  Answers(p)'
<1> USE DEF Orderly
<1>1. CASE Refusal(p)
  <2>1. pc[p] = "start" /\ ("seal" \notin broken => Intact)
    BY <1>1, Alone, Phases DEF Refusal, Begin, Goto, Unsettled, Inside, Locked
  <2>2. CASE ledger = NoRun /\ Begin(p)
    <3>1. /\ pc'[p] = "create" /\ UNCHANGED shared
          /\ at'[p].manifest = (manifest # NoSeal)
      BY <2>2 DEF Begin, Goto, TypeOK, Locals
    <3>2. manifest # NoSeal => "seal" \in broken
      BY <2>1, <2>2 DEF Intact
    <3> QED
      BY <2>1, <2>2, <3>1, <3>2
         DEF Answers, Working, Starting, Intact, SealOf, shared
  <2>3. CASE Exit(p) /\ UNCHANGED shared
    <3>1. "seal" \notin broken' => Intact'
      BY <2>1, <2>3 DEF shared, Intact, SealOf
    <3> QED
      BY <2>3, <3>1, ExitAnswers
  <2> QED
    BY <1>1, <2>2, <2>3 DEF Refusal
<1>2. CASE CreateLedger(p)
  <2>1. /\ pc[p] = "create" /\ ledger = NoRun
        /\ at[p].manifest = (manifest # NoSeal)
        /\ at[p].manifest => "seal" \in broken
    BY <1>2, Alone DEF CreateLedger, Goto, Inside, Locked, Working
  <2>2. CASE /\ runs < MaxRuns /\ Goto(p, "create", "genesis")
             /\ ledger' = runs + 1 /\ runs' = runs + 1
             /\ at' = [at EXCEPT ![p].run = runs + 1]
    <3>1. runs + 1 \in Runs /\ runs + 1 > runs /\ runs \in Nat
      BY <2>2, BoundsAssumption DEF TypeOK, Runs
    <3>2. pc'[p] = "genesis" /\ at'[p].run = runs + 1 /\ at'[p].manifest = at[p].manifest
      BY <2>2 DEF Goto, TypeOK, Locals
    <3>3. size[runs + 1] = 0 /\ Fresh(runs + 1)
      <4>1. size[runs + 1] = 0
        BY <3>1 DEF Numbered
      <4>2. runs + 1 \notin reported
        BY <3>1 DEF Numbered
      <4>3. \A s \in Stamps : archives[s].ledger # runs + 1
        BY <3>1, BoundsAssumption DEF Numbered, TypeOK
      <4> QED
        BY <4>1, <4>2, <4>3 DEF Fresh
    <3>4. UNCHANGED <<size, manifest, archives, reported, broken>>
      BY <1>2 DEF CreateLedger
    <3> QED
      BY <2>1, <2>2, <3>1, <3>2, <3>3, <3>4
         DEF Answers, Working, Starting, Unsettled, Fresh
  <2>3. CASE /\ Goto(p, "create", "undo")
             /\ at' = [at EXCEPT ![p].run = NoRun]
             /\ UNCHANGED <<ledger, runs>>
    <3>1. pc'[p] = "undo" /\ at'[p].run = NoRun /\ at'[p].manifest = at[p].manifest
      BY <2>3 DEF Goto, TypeOK, Locals
    <3>2. NoRun \notin reported
      BY DEF Numbered, NoRun, TypeOK
    <3> QED
      BY <1>2, <2>1, <2>3, <3>1, <3>2
         DEF CreateLedger, Answers, Working, Starting, Unsettled, Fresh
  <2> QED
    BY <1>2, <2>2, <2>3 DEF CreateLedger
<1>3. CASE WriteGenesis(p)
  <2>1. pc[p] = "genesis" /\ pc'[p] = "register" /\ Working(p)
    BY <1>3, Alone DEF WriteGenesis, Goto, Inside, Locked, Starting, TypeOK
  <2>2. at[p].run \in Runs /\ size' = [size EXCEPT ![at[p].run] = 1]
    BY <1>3, <2>1 DEF WriteGenesis, Working, Starting
  <2>3. size'[at[p].run] = 1
    BY <2>2 DEF TypeOK
  <2> QED
    BY <1>3, <2>1, <2>3 DEF WriteGenesis, Answers, Working, Starting, Unsettled, Fresh
<1>4. CASE Register(p)
  <2>1. pc[p] = "register" /\ pc'[p] = "track" /\ Working(p)
    BY <1>4, Alone DEF Register, Goto, Inside, Locked, Starting, TypeOK
  <2> QED
    BY <1>4, <2>1 DEF Register, Answers, Working, Starting, Unsettled, Fresh
<1> QED
  BY <1>1, <1>2, <1>3, <1>4

LEMMA EndAnswers ==
    ASSUME Orderly, OneInside, NEW p \in Procs,
           TrackNew(p) \/ Report(p) \/ WriteFails(p)
    PROVE  Answers(p)'
<1> USE DEF Orderly
<1>1. CASE TrackNew(p)
  <2>1. pc[p] = "track" /\ Working(p)
    BY <1>1, Alone DEF TrackNew, Goto, Inside, Locked, Starting
  <2>2. ledger = at[p].run /\ ledger \in Runs /\ ledger # NoRun
    BY <2>1 DEF Working, Starting, Runs, NoRun
  <2>3. pc'[p] = "report" /\ manifest' = SealOf(ledger)
    BY <1>1, <2>2 DEF TrackNew, Goto, TypeOK
  <2>4. UNCHANGED <<ledger, size, at, reported, archives>>
    BY <1>1 DEF TrackNew
  <2>5. Intact'
    BY <2>2, <2>3, <2>4 DEF Intact, SealOf
  <2> QED
    BY <2>1, <2>2, <2>3, <2>4, <2>5 DEF Answers, Working, Starting, Fresh, SealOf
<1>2. CASE Report(p)
  <2>1. pc[p] = "report" /\ Working(p)
    BY <1>2, Alone DEF Report, Inside, Locked
  <2>2. Intact'
    BY <1>2, <2>1 DEF Report, Working, Starting, Intact, SealOf, Runs, NoRun
  <2> QED
    BY <1>2, <2>2, ExitAnswers DEF Report
<1>3. CASE WriteFails(p)
  <2>1. /\ pc[p] \in {"create", "genesis", "register", "track"} /\ pc'[p] = "undo"
        /\ Working(p)
    BY <1>3, Alone DEF WriteFails, Inside, Locked, Starting, TypeOK
  <2>2. at'[p].run = IF pc[p] = "create" THEN NoRun ELSE at[p].run
    BY <1>3 DEF WriteFails, TypeOK, Locals
  <2>3. at'[p].manifest = at[p].manifest
    BY <1>3 DEF WriteFails, TypeOK, Locals
  <2>4. UNCHANGED <<ledger, manifest, archives, reported, broken>>
    BY <1>3 DEF WriteFails
  <2>5. NoRun \notin reported
    BY DEF Numbered, NoRun, TypeOK
  <2>6. ledger \in {NoRun, at'[p].run} /\ Fresh(at'[p].run)
    BY <2>1, <2>2, <2>5 DEF Working, Starting, Fresh
  <2> QED
    BY <2>1, <2>3, <2>4, <2>6 DEF Answers, Working, Starting, Unsettled, Fresh
<1> QED
  BY <1>1, <1>2, <1>3

LEMMA UndoAnswers ==
    ASSUME Orderly, OneInside, NEW p \in Procs,
           UndoLedger(p) \/ UndoFiles(p) \/ UndoDir(p)
    PROVE  Answers(p)'
<1> USE DEF Orderly
<1>1. CASE UndoLedger(p)
  <2>1. pc[p] = "undo" /\ pc'[p] = "undo_rest" /\ Working(p)
    BY <1>1, Alone DEF UndoLedger, Goto, Inside, Locked, Undoing, TypeOK
  <2>2. ledger' = NoRun /\ UNCHANGED <<manifest, broken, at>>
    BY <1>1 DEF UndoLedger
  <2> QED
    BY <2>1, <2>2 DEF Answers, Working, Starting, Unsettled, Intact
<1>2. CASE UndoFiles(p)
  <2>1. pc[p] = "undo_rest" /\ pc'[p] = "undo_dir" /\ Working(p)
    BY <1>2, Alone DEF UndoFiles, Goto, Inside, Locked, Undoing, TypeOK
  <2>2. /\ ledger' = ledger /\ UNCHANGED broken
        /\ manifest' = IF at[p].manifest THEN manifest ELSE NoSeal
    BY <1>2 DEF UndoFiles
  <2> QED
    BY <2>1, <2>2 DEF Answers, Working, Starting, Unsettled, Intact
<1>3. CASE UndoDir(p)
  <2>1. pc[p] = "undo_dir" /\ ("seal" \notin broken => Intact)
    BY <1>3, Alone DEF UndoDir, Inside, Locked, Undoing, Unsettled
  <2>2. "seal" \notin broken' => Intact'
    BY <1>3, <2>1 DEF UndoDir, Intact, SealOf
  <2> QED
    BY <1>3, <2>2, ExitAnswers DEF UndoDir
<1> QED
  BY <1>1, <1>2, <1>3

LEMMA ArchiveAnswers ==
    ASSUME Orderly, OneInside, NEW p \in Procs,
           ArchiveLedger(p) \/ ArchiveManifest(p)
    PROVE  Answers(p)'
<1> USE DEF Orderly
<1>1. CASE ArchiveLedger(p)
  <2>1. pc[p] = "archive" /\ ("seal" \notin broken => Intact)
    BY <1>1, Alone DEF ArchiveLedger, Goto, Inside, Locked, Unsettled
  <2>2. CASE Exit(p) /\ UNCHANGED <<archives, ledger, broken, clock>>
    <3>1. "seal" \notin broken' => Intact'
      BY <1>1, <2>1, <2>2 DEF ArchiveLedger, Intact, SealOf
    <3> QED
      BY <2>2, <3>1, ExitAnswers
  <2>3. CASE Goto(p, "archive", "archive_manifest") /\ ledger' = NoRun
    BY <2>3 DEF Goto, TypeOK, Answers, Working, Starting, Unsettled
  <2> QED
    BY <1>1, <2>2, <2>3 DEF ArchiveLedger
<1>2. CASE ArchiveManifest(p)
  <2>1. pc[p] = "archive_manifest" /\ ledger = NoRun /\ ledger' = NoRun /\ broken' = broken
    BY <1>2, Alone DEF ArchiveManifest, Goto, Inside, Locked, Working
  <2>2. CASE Exit(p) /\ manifest = NoSeal /\ UNCHANGED manifest
    <3>1. Intact'
      BY <2>1, <2>2 DEF Intact
    <3> QED
      BY <2>2, <3>1, ExitAnswers
  <2>3. CASE Goto(p, "archive_manifest", "start") /\ manifest' = NoSeal
    BY <2>1, <2>3 DEF Goto, TypeOK, Answers, Working, Starting, Intact
  <2> QED
    BY <1>2, <2>2, <2>3 DEF ArchiveManifest
<1> QED
  BY <1>1, <1>2

LEMMA AppendAnswers ==
    ASSUME Orderly, OneInside, NEW p \in Procs,
           LoadManifest(p) \/ OpenToAppend(p) \/ Write(p) \/ Seal(p)
    PROVE  Answers(p)'
<1> USE DEF Orderly
<1>1. CASE LoadManifest(p)
  <2>1. pc[p] = "load" /\ ("seal" \notin broken => Intact)
    BY <1>1, Alone DEF LoadManifest, Goto, Inside, Locked, Unsettled
  <2>2. "seal" \notin broken' => Intact'
    BY <1>1, <2>1 DEF LoadManifest, shared, Intact, SealOf
  <2>3. CASE Exit(p)
    BY <2>2, <2>3, ExitAnswers
  <2>4. CASE Goto(p, "load", "append")
    BY <2>2, <2>4 DEF Goto, TypeOK, Answers, Working, Starting
  <2> QED
    BY <1>1, <2>3, <2>4 DEF LoadManifest
<1>2. CASE OpenToAppend(p)
  <2>1. pc[p] = "append" /\ ("seal" \notin broken => Intact)
    BY <1>2, Alone DEF OpenToAppend, Goto, Inside, Locked, Unsettled
  <2>2. "seal" \notin broken' => Intact'
    BY <1>2, <2>1 DEF OpenToAppend, shared, Intact, SealOf
  <2>3. CASE Exit(p)
    BY <2>2, <2>3, ExitAnswers
  <2>4. CASE ledger # NoRun /\ Goto(p, "append", "write") /\ at' = [at EXCEPT ![p].run = ledger]
    <3>1. at'[p].run = ledger /\ ledger \in Runs /\ pc'[p] = "write" /\ ledger' = ledger
      BY <1>2, <2>4, LedgerType DEF OpenToAppend, Goto, TypeOK, Locals, shared
    <3> QED
      BY <2>2, <3>1 DEF Answers, Working, Starting
  <2> QED
    BY <1>2, <2>3, <2>4 DEF OpenToAppend
<1>3. CASE Write(p)
  <2>1. pc[p] = "write" /\ Working(p) /\ ("seal" \notin broken => Intact)
    BY <1>3, Alone DEF Write, Goto, Inside, Locked, Unsettled
  <2>2. CASE Exit(p) /\ size' = size
    <3>1. "seal" \notin broken' => Intact'
      BY <1>3, <2>1, <2>2 DEF Write, Intact, SealOf
    <3> QED
      BY <2>2, <3>1, ExitAnswers
  <2>3. CASE Goto(p, "write", "seal") /\ UNCHANGED at
    BY <1>3, <2>1, <2>3 DEF Write, Goto, TypeOK, Answers, Working, Starting, Unsettled
  <2> QED
    BY <1>3, <2>2, <2>3 DEF Write
<1>4. CASE Seal(p)
  <2>1. "seal" \notin broken' => Intact'
    <3>1. CASE at[p].manifest /\ ledger # NoRun
      BY <1>4, <3>1 DEF Seal, Intact, SealOf
    <3>2. CASE ~(at[p].manifest /\ ledger # NoRun)
      BY <1>4, <3>2 DEF Seal
    <3> QED
      BY <3>1, <3>2
  <2> QED
    BY <1>4, <2>1, ExitAnswers DEF Seal
<1> QED
  BY <1>1, <1>2, <1>3, <1>4

(* A command cut off in the middle leaves a directory that is intact, or    *)
(* says what is broken.                                                     *)
LEMMA EndedAnswers ==
    ASSUME Orderly, OneInside, NEW p \in Procs, Inside(p),
           CommandFails(p) \/ Kill(p)
    PROVE  Answers(p)'
<1> USE DEF Orderly
<1>1. /\ Exit(p) /\ broken' = broken \cup LeftBy(p)
      /\ UNCHANGED <<ledger, size, manifest>>
  BY DEF CommandFails, Kill
<1>2. pc[p] \in Unsettled => "seal" \in LeftBy(p)
  BY DEF Unsettled, LeftBy
<1>3. "seal" \notin broken' => Intact
  BY <1>1, <1>2, Alone
<1>4. "seal" \notin broken' => Intact'
  BY <1>1, <1>3 DEF Intact, SealOf
<1> QED
  BY <1>1, <1>4, ExitAnswers

LEMMA WorkStep ==
    ASSUME Orderly, OneInside, [Next]_vars
    PROVE  WorkKept' /\ Sealed'
<1>1. CASE UNCHANGED vars
  BY <1>1 DEF vars, shared, Orderly, WorkKept, Working, Fresh, Sealed, Intact, SealOf
<1>2. ASSUME NEW p \in Procs, Approaches(p) \/ Works(p) \/ Kill(p)
      PROVE  WorkKept' /\ Sealed'
  <2>1. CASE ~Inside(p)
    BY <1>2, <2>1, WorkOutside
  <2>2. CASE Inside(p) /\ ~Approaches(p)
    <3>1. Answers(p)'
      BY <1>2, <2>2, StartAnswers, EndAnswers, UndoAnswers, ArchiveAnswers,
         AppendAnswers, EndedAnswers DEF Works
    <3> QED
      BY <1>2, <2>2, <3>1, AnswersSuffice
  <2>3. ~(Inside(p) /\ Approaches(p))
    BY DEF Approaches, CallInit, SeeDir, MakeDir, CallOnRun, OpenDir,
         NoDirToOpen, TakeLock, LockTimeout, Goto, Inside, Locked, Starting, Undoing
  <2> QED
    BY <2>1, <2>2, <2>3
<1> QED
  BY <1>1, <1>2, NextSteps

-----------------------------------------------------------------------------
(* The numbers of the runs, and the ledgers without a genesis.              *)

(* Steps that leave the ledgers of all runs, archived or not, as they were. *)
LEMMA QuietSteps ==
    ASSUME TypeOK, NEW p \in Procs, Approaches(p) \/ Works(p) \/ Kill(p),
           ~CreateLedger(p), ~WriteGenesis(p), ~Report(p), ~Write(p),
           ~ArchiveLedger(p), ~ArchiveManifest(p)
    PROVE  UNCHANGED <<size, runs, archives, clock, reported>>
<1>1. CASE Approaches(p)
  BY <1>1 DEF Approaches, CallInit, SeeDir, MakeDir, CallOnRun, OpenDir,
       NoDirToOpen, TakeLock, LockTimeout, shared
<1>2. CASE Works(p)
  BY <1>2 DEF Works, Refusal, Begin, Register, TrackNew, WriteFails, UndoLedger,
       UndoFiles, UndoDir, LoadManifest, OpenToAppend, Seal, CommandFails, shared
<1>3. CASE Kill(p)
  BY <1>3 DEF Kill
<1> QED
  BY <1>1, <1>2, <1>3

(* A manifest archived leaves the ledgers in the archive alone.             *)
LEMMA ManifestArchived ==
    ASSUME TypeOK, NEW p \in Procs, ArchiveManifest(p)
    PROVE  /\ \A s \in Stamps : archives'[s].ledger = archives[s].ledger
           /\ UNCHANGED <<ledger, size, runs, clock, reported>>
  BY DEF ArchiveManifest, TypeOK

(* What is written to, reported and archived is the ledger in place.        *)
LEMMA Grows ==
    ASSUME Orderly, OneInside, NEW p \in Procs, Write(p)
    PROVE  /\ UNCHANGED <<ledger, runs, archives, clock, reported>>
           /\ \/ size' = size
              \/ /\ ledger \in Runs /\ at[p].run = ledger /\ size[ledger] > 0
                 /\ size' = [size EXCEPT ![ledger] = @ + 1]
<1>1. pc[p] = "write" /\ Working(p)
  BY Alone DEF Write, Goto, Inside, Locked
<1>2. at[p].run \in Runs /\ ledger = at[p].run
  BY <1>1 DEF Working
<1>3. size[ledger] \in 1 .. (MaxSize - 1) => size[ledger] > 0
  BY BoundsAssumption
<1> QED
  BY <1>2, <1>3 DEF Write

LEMMA Begins ==
    ASSUME Orderly, OneInside, NEW p \in Procs, WriteGenesis(p)
    PROVE  /\ pc[p] = "genesis" /\ ledger \in Runs /\ at[p].run = ledger
           /\ size[ledger] = 0 /\ Fresh(ledger)
           /\ size' = [size EXCEPT ![ledger] = 1]
           /\ UNCHANGED <<ledger, runs, archives, clock, reported>>
<1>1. pc[p] = "genesis" /\ Working(p)
  BY Alone DEF WriteGenesis, Goto, Inside, Locked, Starting
<1> QED
  BY <1>1 DEF WriteGenesis, Working, Starting

LEMMA Reports ==
    ASSUME Orderly, OneInside, NEW p \in Procs, Report(p)
    PROVE  /\ ledger \in Runs /\ size[ledger] = 1
           /\ reported' = reported \cup {ledger}
           /\ UNCHANGED <<ledger, runs, size, archives, clock>>
<1>1. pc[p] = "report" /\ Working(p)
  BY Alone DEF Report, Inside, Locked
<1> QED
  BY <1>1 DEF Report, Working, Starting

LEMMA Archives ==
    ASSUME TypeOK, NEW p \in Procs, ArchiveLedger(p)
    PROVE  \/ UNCHANGED <<ledger, size, runs, archives, clock, reported>>
           \/ /\ ledger \in Runs /\ ledger' = NoRun
              /\ UNCHANGED <<size, runs, reported>>
              /\ \E s \in Stamps :
                    /\ s - clock \in IF Apart THEN {1} ELSE {0, 1}
                    /\ archives' = [archives EXCEPT ![s].ledger = ledger]
                    /\ clock' = s
  BY LedgerType DEF ArchiveLedger

LEMMA NumberedStep ==
    ASSUME Orderly, OneInside, [Next]_vars
    PROVE  Numbered'
<1> USE DEF Orderly
<1>0. /\ runs \in Nat /\ runs' \in Nat /\ ledger <= runs /\ ledger \in Nat
      /\ \A s \in Stamps : archives[s].ledger \in Nat
      /\ size \in [Runs -> Nat] /\ Runs \subseteq Nat
  <2>1. TypeOK /\ TypeOK'
    BY TypeStep
  <2>2. runs \in Nat /\ runs' \in Nat
    BY <2>1, BoundsAssumption DEF TypeOK
  <2>3. ledger <= runs /\ ledger \in Nat
    BY <2>1, <2>2 DEF TypeOK
  <2>4. \A s \in Stamps : archives[s].ledger \in Nat
    BY <2>1, BoundsAssumption DEF TypeOK
  <2> QED
    BY <2>1, <2>2, <2>3, <2>4 DEF TypeOK, Runs
<1>1. CASE UNCHANGED vars
  BY <1>1 DEF vars, shared, Numbered
<1>2. ASSUME NEW p \in Procs, Approaches(p) \/ Works(p) \/ Kill(p)
      PROVE  Numbered'
  <2>1. CASE UNCHANGED <<size, runs, archives, reported>>
    BY <2>1 DEF Numbered
  <2>2. CASE CreateLedger(p)
    <3>1. (runs' = runs + 1 \/ runs' = runs) /\ UNCHANGED <<size, archives, reported>>
      BY <2>2 DEF CreateLedger
    <3>2. \A r \in Nat : r > runs' => r > runs
      BY <1>0, <3>1
    <3>3. \A r \in Nat : r <= runs => r <= runs'
      BY <1>0, <3>1
    <3>4. \A r \in 1 .. runs : r \in 1 .. runs'
      BY <1>0, <3>1
    <3> QED
      BY <1>0, <3>1, <3>2, <3>3, <3>4 DEF Numbered
  <2>3. CASE WriteGenesis(p)
    <3>1. \A r \in Runs : r > runs => size'[r] = size[r]
      BY <1>0, <2>3, Begins
    <3> QED
      BY <2>3, <3>1, Begins DEF Numbered
  <2>4. CASE Report(p)
    <3>1. ledger \in 1 .. runs
      BY <1>0, <2>4, Reports DEF Runs
    <3> QED
      BY <2>4, <3>1, Reports DEF Numbered
  <2>5. CASE Write(p)
    <3>1. \A r \in Runs : r > runs => size'[r] = size[r]
      BY <1>0, <2>5, Grows
    <3> QED
      BY <2>5, <3>1, Grows DEF Numbered
  <2>6. CASE ArchiveLedger(p)
    <3>1. CASE UNCHANGED <<size, runs, archives, reported>>
      BY <3>1, <2>1
    <3>2. ASSUME NEW s \in Stamps, archives' = [archives EXCEPT ![s].ledger = ledger],
                 UNCHANGED <<size, runs, reported>>
          PROVE  Numbered'
      <4>1. \A t \in Stamps : archives'[t].ledger \in {archives[t].ledger, ledger}
        BY <3>2 DEF TypeOK
      <4> QED
        BY <1>0, <3>2, <4>1 DEF Numbered
    <3> QED
      BY <2>6, <3>1, <3>2, Archives
  <2>7. CASE ArchiveManifest(p)
    BY <2>7, ManifestArchived DEF Numbered
  <2> QED
    BY <1>2, <2>1, <2>2, <2>3, <2>4, <2>5, <2>6, <2>7, QuietSteps
<1> QED
  BY <1>1, <1>2, NextSteps

(* A step that makes no ledger makes none without a genesis.                *)
LEMMA GenesisStays ==
    ASSUME Orderly, OneInside, NEW p \in Procs, Works(p) \/ Kill(p), ~CreateLedger(p)
    PROVE  /\ ledger' \in {ledger, NoRun}
           /\ ledger # NoRun /\ size'[ledger] = 0 => size[ledger] = 0
           /\ ledger' # NoRun /\ "genesis" \in broken => "genesis" \in broken'
<1> USE DEF Orderly
<1>1. ledger' \in {ledger, NoRun}
  BY DEF Works, Goto, Begin, Refusal, WriteGenesis, Register, TrackNew, Report,
     WriteFails, UndoLedger, UndoFiles, UndoDir, ArchiveLedger, ArchiveManifest,
     LoadManifest, OpenToAppend, Write, Seal, CommandFails, Kill, shared
<1>2. ledger' # NoRun /\ "genesis" \in broken => "genesis" \in broken'
  BY DEF Works, Goto, Begin, Refusal, WriteGenesis, Register, TrackNew, Report,
     WriteFails, UndoLedger, UndoFiles, UndoDir, ArchiveLedger, ArchiveManifest,
     LoadManifest, OpenToAppend, Write, Seal, CommandFails, Kill, shared
<1>3. ASSUME ledger # NoRun, size'[ledger] = 0 PROVE size[ledger] = 0
  <2>1. ledger \in Runs /\ size[ledger] \in Nat
    BY <1>3, LedgerType DEF TypeOK
  <2>2. CASE WriteGenesis(p)
    BY <2>2, Begins
  <2>3. CASE Write(p)
    <3>1. CASE size' = size
      BY <1>3, <3>1
    <3>2. CASE size' = [size EXCEPT ![ledger] = @ + 1]
      BY <1>3, <2>1, <3>2 DEF TypeOK
    <3> QED
      BY <2>3, <3>1, <3>2, Grows
  <2>4. CASE ~WriteGenesis(p) /\ ~Write(p)
    <3>1. size' = size
      BY <2>4, QuietSteps, Reports, Archives, ManifestArchived
    <3> QED
      BY <1>3, <3>1
  <2> QED
    BY <2>2, <2>3, <2>4
<1> QED
  BY <1>1, <1>2, <1>3

LEMMA UsableStep ==
    ASSUME Orderly, OneInside, [Next]_vars
    PROVE  Usable'
<1> USE DEF Orderly
<1>1. CASE UNCHANGED vars
  BY <1>1 DEF vars, shared, Usable
<1>2. ASSUME NEW p \in Procs, Approaches(p) \/ Works(p) \/ Kill(p)
      PROVE  Usable'
  <2>0. \A q \in Procs \ {p} : pc'[q] = pc[q] /\ at'[q] = at[q]
    BY <1>2, OthersStay
  <2>1. CASE ~Inside(p)
    <3>1. UNCHANGED data /\ broken' = broken
      BY <1>2, <2>1, OutsideSteps
    <3>2. pc[p] \notin {"genesis", "undo"}
      BY <2>1 DEF Inside, Locked, Starting, Undoing
    <3> QED
      BY <2>0, <3>1, <3>2 DEF Usable, data
  <2>2. CASE CreateLedger(p)
    <3>1. pc[p] = "create" /\ ledger = NoRun
      BY <2>2, Alone DEF CreateLedger, Goto, Inside, Locked, Working
    <3>2. ledger' # NoRun =>
             pc'[p] = "genesis" /\ at'[p].run = ledger'
      BY <2>2, <3>1 DEF CreateLedger, Goto, TypeOK, Locals
    <3> QED
      BY <3>2 DEF Usable
  <2>3. ASSUME Inside(p), ~CreateLedger(p), ledger' # NoRun, size'[ledger'] = 0
        PROVE  \/ "genesis" \in broken'
               \/ \E q \in Procs : pc'[q] \in {"genesis", "undo"} /\ at'[q].run = ledger'
    <3>1. ~Approaches(p)
      BY <2>3 DEF Approaches, CallInit, SeeDir, MakeDir, CallOnRun, OpenDir,
           NoDirToOpen, TakeLock, LockTimeout, Goto, Inside, Locked, Starting, Undoing
    <3>2. ledger' = ledger /\ size[ledger] = 0 /\ ("genesis" \in broken => "genesis" \in broken')
      BY <1>2, <2>3, <3>1, GenesisStays
    <3>3. CASE "genesis" \in broken
      BY <3>2, <3>3
    <3>4. CASE "genesis" \notin broken
      <4>1. pc[p] \in {"genesis", "undo"} /\ at[p].run = ledger
        <5>1. PICK q \in Procs : pc[q] \in {"genesis", "undo"} /\ at[q].run = ledger
          BY <2>3, <3>2, <3>4 DEF Usable
        <5>2. Inside(q)
          BY <5>1 DEF Inside, Locked, Starting, Undoing
        <5> QED
          BY <2>3, <5>1, <5>2 DEF OneInside
      <4>2. CASE Kill(p)
        BY <4>1, <4>2 DEF Kill, LeftBy
      <4>3. CASE WriteFails(p)
        <5>1. pc'[p] = "undo" /\ at'[p].run = at[p].run
          BY <4>1, <4>3 DEF WriteFails, TypeOK, Locals
        <5> QED
          BY <3>2, <4>1, <5>1
      <4>4. CASE WriteGenesis(p)
        <5>1. size'[ledger] = 1
          BY <4>4, Begins DEF TypeOK
        <5> QED
          BY <2>3, <3>2, <5>1
      <4>5. CASE UndoLedger(p)
        BY <2>3, <4>5 DEF UndoLedger
      <4>6. Works(p) => WriteFails(p) \/ WriteGenesis(p) \/ UndoLedger(p)
        BY <4>1, <2>3 DEF Works, Goto, Begin, Refusal, CreateLedger, Register,
           TrackNew, Report, UndoFiles, UndoDir, ArchiveLedger, ArchiveManifest,
           LoadManifest, OpenToAppend, Write, Seal, CommandFails
      <4> QED
        BY <1>2, <3>1, <4>2, <4>3, <4>4, <4>5, <4>6
    <3> QED
      BY <3>3, <3>4
  <2> QED
    BY <2>1, <2>2, <2>3 DEF Usable
<1> QED
  BY <1>1, <1>2, NextSteps

LEMMA OrderlyStep ==
    ASSUME Orderly, OneInside, [Next]_vars
    PROVE  Orderly'
  BY TypeStep, LockStep, NumberedStep, WorkStep, UsableStep DEF Orderly

(* Inside its lock, a process answers for the directory; unlocked, it is    *)
(* intact.                                                                  *)
LEMMA OrderlySafe ==
    ASSUME Orderly
    PROVE  Whole /\ RollbackTakesOwn /\ Usable
<1>1. ASSUME Unlocked, "seal" \notin broken PROVE Intact
  <2>1. \A p \in Procs : pc[p] \notin Unsettled
    <3> SUFFICES ASSUME NEW p \in Procs, Inside(p) PROVE FALSE
      BY Phases
    <3> QED
      BY <1>1, ProcsAssumption DEF Orderly, LockKept, Unlocked
  <2> QED
    BY <1>1, <2>1 DEF Orderly, Sealed
<1>2. RollbackTakesOwn
  BY DEF Orderly, WorkKept, Working, RollbackTakesOwn
<1> QED
  BY <1>1, <1>2 DEF Orderly, Whole, Intact

(* As long as one command at a time is past its lock, none leaves a         *)
(* directory whose manifest seals another ledger than the one in place, or  *)
(* less of it, unless it was cut off between the ledger and the manifest.   *)
THEOREM DirectoryWhole == Spec /\ []OneInside => []Whole
<1>1. Init => Orderly
  BY InitOrderly
<1>2. Orderly /\ OneInside /\ [Next]_vars => Orderly'
  BY OrderlyStep
<1>3. Orderly => Whole
  BY OrderlySafe
<1> QED
  BY <1>1, <1>2, <1>3, PTL DEF Spec

(* Nor does a failed init or reset remove a ledger it did not make.         *)
THEOREM RollbackOwn == Spec /\ []OneInside => []RollbackTakesOwn
<1>1. Init => Orderly
  BY InitOrderly
<1>2. Orderly /\ OneInside /\ [Next]_vars => Orderly'
  BY OrderlyStep
<1>3. Orderly => RollbackTakesOwn
  BY OrderlySafe
<1> QED
  BY <1>1, <1>2, <1>3, PTL DEF Spec

(* Nor is there a ledger without a genesis, refused by init and by reset,   *)
(* that no command is making or removing and none was killed over.          *)
THEOREM LedgersUsable == Spec /\ []OneInside => []Usable
<1>1. Init => Orderly
  BY InitOrderly
<1>2. Orderly /\ OneInside /\ [Next]_vars => Orderly'
  BY OrderlyStep
<1>3. Orderly => Usable
  BY OrderlySafe
<1> QED
  BY <1>1, <1>2, <1>3, PTL DEF Spec
-----------------------------------------------------------------------------
(* The runs, while no two resets fall in the same second.                   *)

(* A reset archives under a name no reset has used.                         *)
LEMMA ArchivedAnew ==
    ASSUME Apart, TypeOK, Stamped, NEW p \in Procs, ArchiveLedger(p)
    PROVE  \/ UNCHANGED <<ledger, size, runs, archives, clock, reported>>
           \/ /\ ledger \in Runs /\ ledger' = NoRun
              /\ UNCHANGED <<size, runs, reported>>
              /\ \E s \in Stamps :
                    /\ s > clock /\ clock' = s /\ archives[s].ledger = NoRun
                    /\ archives'[s].ledger = ledger
                    /\ \A t \in Stamps \ {s} : archives'[t].ledger = archives[t].ledger
<1>1. CASE UNCHANGED <<ledger, size, runs, archives, clock, reported>>
  BY <1>1
<1>2. ASSUME NEW s \in Stamps, s - clock \in IF Apart THEN {1} ELSE {0, 1},
             archives' = [archives EXCEPT ![s].ledger = ledger], clock' = s,
             ledger \in Runs, ledger' = NoRun, UNCHANGED <<size, runs, reported>>
      PROVE  /\ s > clock /\ clock' = s /\ archives[s].ledger = NoRun
             /\ archives'[s].ledger = ledger
             /\ \A t \in Stamps \ {s} : archives'[t].ledger = archives[t].ledger
  <2>1. s > clock
    BY <1>2, BoundsAssumption DEF TypeOK, Stamps
  <2> QED
    BY <1>2, <2>1 DEF TypeOK, Stamped
<1> QED
  BY <1>1, <1>2, Archives

LEMMA StampedStep ==
    ASSUME Apart, Orderly, OneInside, Stamped, [Next]_vars
    PROVE  Stamped'
<1> USE DEF Orderly
<1>1. CASE UNCHANGED vars
  BY <1>1 DEF vars, shared, Stamped
<1>2. ASSUME NEW p \in Procs, Approaches(p) \/ Works(p) \/ Kill(p)
      PROVE  Stamped'
  <2>1. CASE UNCHANGED <<archives, clock>>
    BY <2>1 DEF Stamped
  <2>2. CASE ArchiveLedger(p)
    <3>1. ASSUME NEW s \in Stamps, s > clock, clock' = s,
                 \A t \in Stamps \ {s} : archives'[t].ledger = archives[t].ledger
          PROVE  Stamped'
      <4>1. \A t \in Stamps : t > s => t > clock /\ t # s
        BY <3>1, BoundsAssumption DEF Stamps, TypeOK
      <4> QED
        BY <3>1, <4>1 DEF Stamped
    <3> QED
      BY <2>1, <2>2, <3>1, ArchivedAnew
  <2>3. CASE ArchiveManifest(p)
    BY <2>3, ManifestArchived DEF Stamped
  <2>4. CASE CreateLedger(p)
    BY <2>1, <2>4 DEF CreateLedger
  <2> QED
    BY <1>2, <2>1, <2>2, <2>3, <2>4, QuietSteps, Begins, Grows, Reports
<1> QED
  BY <1>1, <1>2, NextSteps

(* A rollback removes no ledger that was reported.                          *)
LEMMA TakesBack ==
    ASSUME Orderly, OneInside, NEW p \in Procs, UndoLedger(p)
    PROVE  /\ ledger \notin reported /\ ledger' = NoRun
           /\ UNCHANGED <<size, runs, archives, clock, reported>>
<1>1. pc[p] = "undo" /\ Working(p)
  BY Alone DEF UndoLedger, Goto, Inside, Locked, Undoing
<1>2. NoRun \notin reported
  BY DEF Orderly, Numbered, NoRun, TypeOK
<1> QED
  BY <1>1, <1>2 DEF Working, Starting, Fresh, UndoLedger

(* Other steps leave what is in place in place.                             *)
LEMMA LedgerStays ==
    ASSUME NEW p \in Procs, Approaches(p) \/ Works(p) \/ Kill(p),
           ~CreateLedger(p), ~UndoLedger(p), ~ArchiveLedger(p)
    PROVE  ledger' = ledger
<1>1. CASE Approaches(p)
  BY <1>1 DEF Approaches, CallInit, SeeDir, MakeDir, CallOnRun, OpenDir,
       NoDirToOpen, TakeLock, LockTimeout, shared
<1>2. CASE Works(p)
  BY <1>2 DEF Works, Refusal, Begin, WriteGenesis, Register, TrackNew, Report,
       WriteFails, UndoFiles, UndoDir, ArchiveManifest, LoadManifest,
       OpenToAppend, Write, Seal, CommandFails, shared
<1>3. CASE Kill(p)
  BY <1>3 DEF Kill
<1> QED
  BY <1>1, <1>2, <1>3

LEMMA Creates ==
    ASSUME Orderly, OneInside, NEW p \in Procs, CreateLedger(p)
    PROVE  /\ ledger = NoRun
           /\ ledger' # NoRun => ledger' = runs + 1 /\ runs + 1 \in Runs /\ size[runs + 1] = 0
           /\ UNCHANGED <<size, archives, clock, reported>>
<1>1. pc[p] = "create" /\ ledger = NoRun
  BY Alone DEF CreateLedger, Goto, Inside, Locked, Working
<1>2. runs < MaxRuns => runs + 1 \in Runs /\ runs + 1 > runs
  BY BoundsAssumption DEF Orderly, TypeOK, Runs
<1> QED
  BY <1>1, <1>2 DEF CreateLedger, Orderly, Numbered

LEMMA RunsKeptStep ==
    ASSUME Apart, Orderly, OneInside, Stamped, RunsKept, [Next]_vars
    PROVE  RunsKept'
<1> USE DEF Orderly
<1>1. CASE UNCHANGED vars
  BY <1>1 DEF vars, shared, RunsKept
<1>2. ASSUME NEW p \in Procs, Approaches(p) \/ Works(p) \/ Kill(p)
      PROVE  RunsKept'
  <2>0. NoRun \notin reported
    BY DEF Numbered, NoRun, TypeOK
  <2>1. CASE UNCHANGED <<ledger, archives, reported>>
    BY <2>1 DEF RunsKept
  <2>2. CASE CreateLedger(p)
    BY <2>0, <2>2, Creates DEF RunsKept
  <2>3. CASE Report(p)
    BY <2>3, Reports DEF RunsKept
  <2>4. CASE UndoLedger(p)
    BY <2>4, TakesBack DEF RunsKept
  <2>5. CASE ArchiveLedger(p)
    <3>1. ASSUME NEW s \in Stamps, archives[s].ledger = NoRun, archives'[s].ledger = ledger,
                 \A t \in Stamps \ {s} : archives'[t].ledger = archives[t].ledger,
                 reported' = reported
          PROVE  RunsKept'
      BY <2>0, <3>1 DEF RunsKept
    <3> QED
      BY <2>1, <2>5, <3>1, ArchivedAnew
  <2>6. CASE ArchiveManifest(p)
    BY <2>6, ManifestArchived DEF RunsKept
  <2> QED
    BY <1>2, <2>1, <2>2, <2>3, <2>4, <2>5, <2>6, QuietSteps, LedgerStays, Begins, Grows
<1> QED
  BY <1>1, <1>2, NextSteps

Ordered == Orderly /\ Stamped /\ RunsKept

(* A run that init or reset reported as started is the current one, or in   *)
(* the archive: none is lost.                                               *)
THEOREM NoRunLost == Apart => (Spec /\ []OneInside => []RunsKept)
<1> SUFFICES ASSUME Apart PROVE Spec /\ []OneInside => []RunsKept
  OBVIOUS
<1>1. Init => Ordered
  BY InitOrderly DEF Ordered
<1>2. Ordered /\ OneInside /\ [Next]_vars => Ordered'
  BY OrderlyStep, StampedStep, RunsKeptStep DEF Ordered
<1>3. Ordered => RunsKept
  BY DEF Ordered
<1> QED
  BY <1>1, <1>2, <1>3, PTL DEF Spec

-----------------------------------------------------------------------------
(* The directory implements its abstraction.                                *)

LEMMA SameRuns ==
    ASSUME UNCHANGED <<ledger, size, reported>>,
           \A s \in Stamps : archives'[s].ledger = archives[s].ledger
    PROVE  UNCHANGED Abstract!vars
  BY DEF Abstract!vars, Current, Archived, Readable

LEMMA AbstractStep ==
    ASSUME Apart, Orderly, OneInside, Stamped, [Next]_vars
    PROVE  Abstract!Next \/ UNCHANGED Abstract!vars
<1> USE DEF Orderly
<1>1. CASE UNCHANGED vars
  BY <1>1, SameRuns DEF vars, shared
<1>2. ASSUME NEW p \in Procs, Approaches(p) \/ Works(p) \/ Kill(p)
      PROVE  Abstract!Next \/ UNCHANGED Abstract!vars
  <2>0. size \in [Runs -> Nat] /\ DOMAIN size = Runs
    BY DEF TypeOK
  <2>1. CASE CreateLedger(p)
    <3>1. Current = NoRun /\ Current' = NoRun
      BY <2>1, Creates DEF Current, Readable
    <3> QED
      BY <2>1, <3>1, Creates DEF Abstract!vars, Archived
  <2>2. CASE WriteGenesis(p)
    <3>0. /\ ledger \in Runs /\ ledger # NoRun /\ ledger' = ledger /\ size[ledger] = 0
          /\ size'[ledger] = 1 /\ \A r \in Runs \ {ledger} : size'[r] = size[r]
      <4>1. /\ ledger \in Runs /\ ledger' = ledger /\ size[ledger] = 0
            /\ size' = [size EXCEPT ![ledger] = 1]
        BY <2>2, Begins
      <4>2. ledger # NoRun
        BY <4>1 DEF Runs, NoRun
      <4> QED
        BY <2>0, <4>1, <4>2
    <3>1. Current = NoRun /\ Current' = ledger
      BY <3>0 DEF Current, Readable
    <3>2. ledger \notin Archived
      BY <2>2, Begins DEF Archived
    <3>3. Archived' = Archived
      <4>1. archives' = archives /\ \A s \in Stamps : archives[s].ledger # ledger
        BY <2>2, <3>0, Begins DEF Fresh
      <4> QED
        BY <3>0, <4>1 DEF Archived
    <3>4. Abstract!Start(ledger)
      BY <2>2, <3>1, <3>2, <3>3, Begins DEF Abstract!Start
    <3> QED
      BY <2>0, <2>2, <3>4, Begins DEF Abstract!Next
  <2>3. CASE Report(p)
    <3>1. Current = ledger /\ ledger # NoRun /\ Current' = Current /\ Archived' = Archived
      BY <2>3, Reports DEF Current, Readable, Archived, Runs, NoRun
    <3>2. Abstract!Report
      BY <2>3, <3>1, Reports DEF Abstract!Report
    <3> QED
      BY <3>2 DEF Abstract!Next
  <2>4. CASE Write(p)
    <3>1. CASE size' = size
      BY <2>4, <3>1, Grows, SameRuns
    <3>2. CASE /\ ledger \in Runs /\ size[ledger] > 0
               /\ size' = [size EXCEPT ![ledger] = @ + 1]
      <4>1. \A r \in Runs : size'[r] > 0 <=> size[r] > 0
        BY <2>0, <3>2
      <4>2. Current = ledger /\ ledger # NoRun /\ Current' = Current
        BY <2>4, <3>2, <4>1, Grows DEF Current, Readable, Runs, NoRun
      <4>3. Archived' = Archived
        BY <2>4, <4>1, Grows DEF Archived
      <4>4. Abstract!Grow
        BY <2>4, <3>2, <4>2, <4>3, Grows DEF Abstract!Grow
      <4> QED
        BY <4>4 DEF Abstract!Next
    <3> QED
      BY <2>4, <3>1, <3>2, Grows
  <2>5. CASE UndoLedger(p)
    <3>1. Current' = NoRun /\ Archived' = Archived
      BY <2>5, TakesBack DEF Current, Readable, Archived
    <3>2. Current \notin reported
      BY <2>5, TakesBack DEF Current, Numbered, NoRun, TypeOK
    <3>3. Abstract!TakeBack
      BY <2>5, <3>1, <3>2, TakesBack DEF Abstract!TakeBack
    <3> QED
      BY <3>3 DEF Abstract!Next
  <2>6. CASE ArchiveLedger(p)
    <3>1. CASE UNCHANGED <<ledger, size, runs, archives, clock, reported>>
      BY <3>1, SameRuns
    <3>2. ASSUME NEW s \in Stamps, archives[s].ledger = NoRun, archives'[s].ledger = ledger,
                 \A t \in Stamps \ {s} : archives'[t].ledger = archives[t].ledger,
                 ledger \in Runs, ledger' = NoRun, UNCHANGED <<size, reported>>
          PROVE  Abstract!Next \/ UNCHANGED Abstract!vars
      <4>1. Current' = NoRun
        BY <3>2 DEF Current, Readable
      <4>2. Archived' = IF size[ledger] > 0 THEN Archived \cup {ledger} ELSE Archived
        BY <3>2 DEF Archived, Runs, NoRun
      <4>3. CASE size[ledger] > 0
        <5>1. Current = ledger /\ ledger # NoRun
          BY <3>2, <4>3 DEF Current, Readable, Runs, NoRun
        <5>2. Abstract!Archive
          BY <3>2, <4>1, <4>2, <4>3, <5>1 DEF Abstract!Archive
        <5> QED
          BY <5>2 DEF Abstract!Next
      <4>4. CASE ~(size[ledger] > 0)
        BY <3>2, <4>1, <4>2, <4>4 DEF Current, Readable, Abstract!vars
      <4> QED
        BY <4>3, <4>4
    <3> QED
      BY <2>6, <3>1, <3>2, ArchivedAnew
  <2>7. CASE ArchiveManifest(p)
    BY <2>7, ManifestArchived, SameRuns
  <2> QED
    BY <1>2, <2>1, <2>2, <2>3, <2>4, <2>5, <2>6, <2>7, QuietSteps, LedgerStays, SameRuns
<1> QED
  BY <1>1, <1>2, NextSteps

(* init and reset keep what Runs promises: one run at a time grows, an      *)
(* archived one stays as it was, a reported one is never taken back.        *)
THEOREM DirectoryImplementsRuns == Apart => (Spec /\ []OneInside => ImplementsRuns)
<1> SUFFICES ASSUME Apart PROVE Spec /\ []OneInside => ImplementsRuns
  OBVIOUS
<1>1. Init => Ordered /\ Abstract!Init
  <2>1. Init => Abstract!Init
    BY DEF Init, Abstract!Init, Current, Readable, Archived
  <2> QED
    BY <2>1, InitOrderly DEF Ordered
<1>2. Ordered /\ OneInside /\ [Next]_vars => Ordered'
  BY OrderlyStep, StampedStep, RunsKeptStep DEF Ordered
<1>3. Ordered /\ OneInside /\ [Next]_vars => [Abstract!Next]_(Abstract!vars)
  BY AbstractStep DEF Ordered
<1> QED
  BY <1>1, <1>2, <1>3, PTL DEF Spec, ImplementsRuns, Abstract!Spec

(* Made once, a data directory is kept whole with no more assumed of it.    *)
THEOREM OneDirectory ==
    MaxDirs = 1 /\ Apart =>
      (Spec => [](Whole /\ RunsKept /\ RollbackTakesOwn /\ Usable) /\ ImplementsRuns)
<1> SUFFICES ASSUME MaxDirs = 1, Apart
             PROVE  Spec => [](Whole /\ RunsKept /\ RollbackTakesOwn /\ Usable) /\ ImplementsRuns
  OBVIOUS
<1>1. Spec => []OneInside
  BY OneLock
<1>2. Spec /\ []OneInside => []Whole /\ []RunsKept /\ []RollbackTakesOwn /\ []Usable
  <2>1. Spec /\ []OneInside => []RunsKept
    BY NoRunLost
  <2> QED
    BY <2>1, DirectoryWhole, RollbackOwn, LedgersUsable, PTL
<1>3. Spec /\ []OneInside => ImplementsRuns
  BY DirectoryImplementsRuns
<1> QED
  BY <1>1, <1>2, <1>3, PTL
=============================================================================
