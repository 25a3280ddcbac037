----------------------------- MODULE Lifecycle ------------------------------
(***************************************************************************)
(* cli/init.rs: the runs of one data directory.  init starts one, reset     *)
(* archives it and starts the next, and the other commands append to the    *)
(* ledger they find.  The manifest lock is an flock on the directory's      *)
(* inode, which a failed init may unlink.  A run is known by the number of  *)
(* its ledger file: renaming or removing a path does not change the file.   *)
(***************************************************************************)
EXTENDS Integers, FiniteSets

CONSTANTS
    Procs, NoProc,
    Apart,         \* no two resets fall in the same second
    Faults,        \* the failures considered: "kill", "io"
    MaxRuns, MaxSize, MaxDirs, MaxFaults     \* bounds

ASSUME ProcsAssumption == NoProc \notin Procs
ASSUME BoundsAssumption ==
    MaxRuns \in Nat /\ MaxSize \in Nat /\ MaxDirs \in Nat \ {0} /\ MaxFaults \in Nat

Runs == 1..MaxRuns
Dirs == 1..MaxDirs
Stamps == 1..MaxRuns           \* the seconds of the archives' names
NoRun == 0
NoDir == 0
NoSeal == [run |-> NoRun, size |-> 0]
Seals == [run : Runs, size : 0..MaxSize] \cup {NoSeal}
NoArchive == [ledger |-> NoRun, manifest |-> NoSeal]

VARIABLES
    dir,         \* the inode at the data directory's path
    dirs,        \* the inodes made so far
    holder,      \* the process that holds the flock on each inode
    ledger,      \* the file at ledger.jsonl, by the run it is the ledger of
    size,        \* the entries in each run's file
    runs,        \* the files made so far
    manifest,    \* what manifest.json seals of the ledger
    registry,    \* ledgers.toml exists
    archives,    \* ledger.<stamp>.jsonl and manifest.<stamp>.json
    clock,       \* the second of the latest reset
    reported,    \* the runs an init or a reset reported as started
    broken,      \* what a failed or killed command has left undone
    faults,      \* the failures so far
    pc, at       \* where each process is in its command, and its locals

shared == <<dir, dirs, ledger, size, runs, manifest, registry, archives, clock,
            reported, broken, faults>>
vars == <<shared, holder, pc, at>>

Blank ==
    [cmd |-> "none", inode |-> NoDir, existed |-> TRUE, registry |-> FALSE,
     manifest |-> FALSE, run |-> NoRun, stamp |-> 0]

Init ==
    /\ dir = NoDir /\ dirs = 0
    /\ holder = [d \in Dirs |-> NoProc]
    /\ ledger = NoRun /\ runs = 0
    /\ size = [r \in Runs |-> 0]
    /\ manifest = NoSeal
    /\ registry = FALSE
    /\ archives = [s \in Stamps |-> NoArchive]
    /\ clock = 0 /\ reported = {} /\ broken = {} /\ faults = 0
    /\ pc = [p \in Procs |-> "idle"]
    /\ at = [p \in Procs |-> Blank]

Goto(p, from, to) == pc[p] = from /\ pc' = [pc EXCEPT ![p] = to]

(* The process ends; with it goes its lock.                                 *)
Exit(p) ==
    /\ pc' = [pc EXCEPT ![p] = "idle"]
    /\ at' = [at EXCEPT ![p] = Blank]
    /\ holder' = [d \in Dirs |-> IF holder[d] = p THEN NoProc ELSE holder[d]]

(* Ledger::open finds a file with a genesis.                                *)
Readable == ledger # NoRun /\ size[ledger] > 0

(* remove_dir takes away an empty directory only; a run that was reported   *)
(* has left its status cache.                                               *)
Empty ==
    /\ ledger = NoRun /\ manifest = NoSeal /\ ~registry /\ reported = {}
    /\ \A s \in Stamps : archives[s] = NoArchive
RemoveDir(p) == dir' = IF ~at[p].existed /\ Empty THEN NoDir ELSE dir

EnsureDir ==
    IF dir # NoDir THEN UNCHANGED <<dir, dirs>>
    ELSE dirs < MaxDirs /\ dir' = dirs + 1 /\ dirs' = dirs + 1

SealOf(r) == [run |-> r, size |-> size[r]]

(* An operation of the file system fails, or the process is killed.         *)
Fault(kind) == kind \in Faults /\ faults < MaxFaults /\ faults' = faults + 1
-----------------------------------------------------------------------------
(* The commands up to their lock.                                           *)

(* init_refusal; then the directory's existence is looked up, and it is     *)
(* made, as two steps.                                                      *)
CallInit(p) ==
    /\ ledger = NoRun
    /\ Goto(p, "idle", "exists")
    /\ at' = [at EXCEPT ![p].cmd = "init"]
    /\ UNCHANGED <<shared, holder>>

SeeDir(p) ==
    /\ Goto(p, "exists", "mkdir")
    /\ at' = [at EXCEPT ![p].existed = dir # NoDir]
    /\ UNCHANGED <<shared, holder>>

MakeDir(p) ==
    /\ Goto(p, "mkdir", "open")
    /\ EnsureDir
    /\ UNCHANGED <<ledger, size, runs, manifest, registry, archives, clock,
                   reported, broken, faults, holder, at>>

(* reset opens the ledger before it waits for the lock, as every command    *)
(* that appends does.  reseal is told apart: it needs no manifest.          *)
CallOnRun(p) ==
    /\ Readable
    /\ Goto(p, "idle", "open")
    /\ \E cmd \in {"reset", "append", "reseal"} :
          at' = [at EXCEPT ![p].cmd = cmd]
    /\ UNCHANGED <<shared, holder>>

(* File::open on the data directory: from here the process waits for the    *)
(* lock on this inode, whatever comes to be at the path.                    *)
OpenDir(p) ==
    /\ dir # NoDir
    /\ Goto(p, "open", "wait")
    /\ at' = [at EXCEPT ![p].inode = dir]
    /\ UNCHANGED <<shared, holder>>

NoDirToOpen(p) ==
    /\ pc[p] = "open" /\ dir = NoDir
    /\ Exit(p)
    /\ UNCHANGED shared

AfterLock(cmd) ==
    CASE cmd = "init" -> "start" [] cmd = "reset" -> "archive" [] OTHER -> "load"

Slip_LockIgnoresHolder(p) ==
    /\ Goto(p, "wait", AfterLock(at[p].cmd))
    /\ holder' = [holder EXCEPT ![at[p].inode] = p]
    /\ UNCHANGED <<shared, at>>

TakeLock(p) ==
    /\ Goto(p, "wait", AfterLock(at[p].cmd))
    /\ holder[at[p].inode] = NoProc
    /\ holder' = [holder EXCEPT ![at[p].inode] = p]
    /\ UNCHANGED <<shared, at>>

LockTimeout(p) ==
    /\ pc[p] = "wait" /\ holder[at[p].inode] # NoProc
    /\ RemoveDir(p)
    /\ Exit(p)
    /\ UNCHANGED <<dirs, ledger, size, runs, manifest, registry, archives,
                   clock, reported, broken, faults>>
-----------------------------------------------------------------------------
(* init_locked and write_run: the start of a run, for init and reset.       *)

Begin(p) ==
    /\ Goto(p, "start", "create")
    /\ at' = [at EXCEPT ![p].registry = registry, ![p].manifest = manifest # NoSeal]
    /\ UNCHANGED <<shared, holder>>

(* init_refusal again, under the lock.                                      *)
Slip_RefusesOnlyBefore(p) == Begin(p)
Refusal(p) ==
    \/ ledger = NoRun /\ Begin(p)
    \/ ledger # NoRun /\ pc[p] = "start" /\ Exit(p) /\ UNCHANGED shared

(* create_new: fails where a file is, or no directory.                      *)
CreateLedger(p) ==
    /\ \/ /\ ledger = NoRun /\ dir # NoDir /\ runs < MaxRuns
          /\ Goto(p, "create", "genesis")
          /\ ledger' = runs + 1
          /\ runs' = runs + 1
          /\ at' = [at EXCEPT ![p].run = runs + 1]
       \/ /\ ledger # NoRun \/ dir = NoDir
          /\ Goto(p, "create", "undo")
          /\ at' = [at EXCEPT ![p].run = NoRun]
          /\ UNCHANGED <<ledger, runs>>
    /\ UNCHANGED <<dir, dirs, size, manifest, registry, archives, clock,
                   reported, broken, faults, holder>>

WriteGenesis(p) ==
    /\ Goto(p, "genesis", "register")
    /\ size' = [size EXCEPT ![at[p].run] = 1]
    /\ UNCHANGED <<dir, dirs, ledger, runs, manifest, registry, archives, clock,
                   reported, broken, faults, holder, at>>

(* LedgerRegistry::create and save, which makes a missing directory.        *)
Register(p) ==
    /\ Goto(p, "register", "track")
    /\ EnsureDir
    /\ registry' = TRUE
    /\ UNCHANGED <<ledger, size, runs, manifest, archives, clock, reported,
                   broken, faults, holder, at>>

(* The ledger is hashed by its path, and the manifest saved by a rename.    *)
TrackNew(p) ==
    /\ \/ /\ ledger # NoRun
          /\ Goto(p, "track", "report")
          /\ manifest' = SealOf(ledger)
          /\ broken' = broken \ {"seal"}
       \/ /\ ledger = NoRun
          /\ Goto(p, "track", "undo")
          /\ UNCHANGED <<manifest, broken>>
    /\ UNCHANGED <<dir, dirs, ledger, size, runs, registry, archives, clock,
                   reported, faults, holder, at>>

Report(p) ==
    /\ pc[p] = "report"
    /\ reported' = reported \cup {at[p].run}
    /\ Exit(p)
    /\ UNCHANGED <<dir, dirs, ledger, size, runs, manifest, registry, archives,
                   clock, broken, faults>>

(* A write of write_run fails.                                              *)
WriteFails(p) ==
    /\ Fault("io")
    /\ pc[p] \in {"create", "genesis", "register", "track"}
    /\ pc' = [pc EXCEPT ![p] = "undo"]
    /\ at' = [at EXCEPT ![p].run = IF pc[p] = "create" THEN NoRun ELSE @]
    /\ UNCHANGED <<dir, dirs, ledger, size, runs, manifest, registry, archives,
                   clock, reported, broken, holder>>

(* The rollback: whatever is at ledger.jsonl, then what was not there.      *)
Slip_KeepsLedger(p) == Goto(p, "undo", "undo_rest") /\ UNCHANGED <<shared, holder, at>>
UndoLedger(p) ==
    /\ Goto(p, "undo", "undo_rest")
    /\ ledger' = NoRun
    /\ UNCHANGED <<dir, dirs, size, runs, manifest, registry, archives, clock,
                   reported, broken, faults, holder, at>>

UndoFiles(p) ==
    /\ Goto(p, "undo_rest", "undo_dir")
    /\ registry' = (registry /\ at[p].registry)
    /\ manifest' = IF at[p].manifest THEN manifest ELSE NoSeal
    /\ UNCHANGED <<dir, dirs, ledger, size, runs, archives, clock, reported,
                   broken, faults, holder, at>>

UndoDir(p) ==
    /\ pc[p] = "undo_dir"
    /\ RemoveDir(p)
    /\ Exit(p)
    /\ UNCHANGED <<dirs, ledger, size, runs, manifest, registry, archives,
                   clock, reported, broken, faults>>
-----------------------------------------------------------------------------
(* reset, holding the lock: two renames, and a new run.                     *)

ArchiveLedger(p) ==
    /\ \/ \E s \in Stamps :
            /\ ledger # NoRun
            /\ s - clock \in IF Apart THEN {1} ELSE {0, 1}
            /\ Goto(p, "archive", "archive_manifest")
            /\ at' = [at EXCEPT ![p].stamp = s]
            /\ archives' = [archives EXCEPT ![s].ledger = ledger]
            /\ ledger' = NoRun
            /\ broken' = broken \ {"genesis"}
            /\ clock' = s
            /\ holder' = holder
       \/ /\ ledger = NoRun /\ pc[p] = "archive"
          /\ Exit(p)
          /\ UNCHANGED <<archives, ledger, broken, clock>>
    /\ UNCHANGED <<dir, dirs, size, runs, manifest, registry, reported, faults>>

(* A manifest that is not there ends the reset, its ledger archived.        *)
ArchiveManifest(p) ==
    /\ \/ /\ manifest # NoSeal
          /\ Goto(p, "archive_manifest", "start")
          /\ archives' = [archives EXCEPT ![at[p].stamp].manifest = manifest]
          /\ manifest' = NoSeal
          /\ UNCHANGED <<holder, at>>
       \/ /\ manifest = NoSeal /\ pc[p] = "archive_manifest"
          /\ Exit(p)
          /\ UNCHANGED <<archives, manifest>>
    /\ UNCHANGED <<dir, dirs, ledger, size, runs, registry, clock, reported,
                   broken, faults>>
-----------------------------------------------------------------------------
(* A command that appends, holding the lock.                                *)

LoadManifest(p) ==
    /\ \/ /\ manifest # NoSeal \/ at[p].cmd = "reseal"
          /\ Goto(p, "load", "append")
          /\ at' = [at EXCEPT ![p].manifest = manifest # NoSeal]
          /\ holder' = holder
       \/ /\ manifest = NoSeal /\ at[p].cmd = "append" /\ pc[p] = "load"
          /\ Exit(p)
    /\ UNCHANGED shared

(* Ledger::append opens the ledger anew, by its path.                       *)
OpenToAppend(p) ==
    /\ \/ /\ ledger # NoRun
          /\ Goto(p, "append", "write")
          /\ at' = [at EXCEPT ![p].run = ledger]
          /\ holder' = holder
       \/ /\ ledger = NoRun /\ pc[p] = "append"
          /\ Exit(p)
    /\ UNCHANGED shared

(* A file without a genesis makes it panic.                                 *)
Write(p) ==
    /\ \/ /\ Goto(p, "write", "seal")
          /\ size[at[p].run] \in 1..(MaxSize - 1)
          /\ size' = [size EXCEPT ![at[p].run] = @ + 1]
          /\ UNCHANGED <<holder, at>>
       \/ /\ pc[p] = "write" /\ size[at[p].run] = 0
          /\ Exit(p)
          /\ size' = size
    /\ UNCHANGED <<dir, dirs, ledger, runs, manifest, registry, archives, clock,
                   reported, broken, faults>>

(* Track and save; reseal without a manifest succeeds with a warning.       *)
Slip_SealsBeforeAppend(p) ==
    /\ pc[p] = "seal"
    /\ manifest' = [SealOf(ledger) EXCEPT !.size = @ - 1]
    /\ broken' = broken \ {"seal"}
    /\ Exit(p)
    /\ UNCHANGED <<dir, dirs, ledger, size, runs, registry, archives, clock,
                   reported, faults>>
Seal(p) ==
    /\ pc[p] = "seal"
    /\ IF at[p].manifest /\ ledger # NoRun
       THEN manifest' = SealOf(ledger) /\ broken' = broken \ {"seal"}
       ELSE broken' = broken \cup {"seal"} /\ manifest' = manifest
    /\ Exit(p)
    /\ UNCHANGED <<dir, dirs, ledger, size, runs, registry, archives, clock,
                   reported, faults>>
-----------------------------------------------------------------------------
(* What a command that ends at this point leaves undone.                    *)
LeftBy(p) ==
    CASE pc[p] = "genesis" -> {"seal", "genesis"}
      [] pc[p] = "undo" -> {"seal", "genesis"}
      [] pc[p] \in {"register", "track", "archive_manifest", "seal"} -> {"seal"}
      [] OTHER -> {}

(* A rename of reset, or an append or its seal, fails: the command ends.    *)
CommandFails(p) ==
    /\ Fault("io")
    /\ pc[p] \in {"archive", "archive_manifest", "write", "seal"}
    /\ broken' = broken \cup LeftBy(p)
    /\ Exit(p)
    /\ UNCHANGED <<dir, dirs, ledger, size, runs, manifest, registry, archives,
                   clock, reported>>

Kill(p) ==
    /\ Fault("kill")
    /\ pc[p] # "idle"
    /\ broken' = broken \cup LeftBy(p)
    /\ Exit(p)
    /\ UNCHANGED <<dir, dirs, ledger, size, runs, manifest, registry, archives,
                   clock, reported>>

Next ==
    \E p \in Procs :
        \/ CallInit(p) \/ SeeDir(p) \/ MakeDir(p) \/ CallOnRun(p)
        \/ OpenDir(p) \/ NoDirToOpen(p) \/ TakeLock(p) \/ LockTimeout(p)
        \/ Refusal(p) \/ CreateLedger(p) \/ WriteGenesis(p) \/ Register(p)
        \/ TrackNew(p) \/ Report(p) \/ WriteFails(p)
        \/ UndoLedger(p) \/ UndoFiles(p) \/ UndoDir(p)
        \/ ArchiveLedger(p) \/ ArchiveManifest(p)
        \/ LoadManifest(p) \/ OpenToAppend(p) \/ Write(p) \/ Seal(p)
        \/ CommandFails(p) \/ Kill(p)

Spec == Init /\ [][Next]_vars
-----------------------------------------------------------------------------
(* Properties.                                                              *)

Unlocked == \A d \in Dirs : holder[d] = NoProc

(* Between commands the ledger and the manifest go together: neither is     *)
(* there, or the manifest seals the whole ledger of the same run.  What a   *)
(* reset leaves on its way, no later command finds.                         *)
Whole ==
    Unlocked /\ "seal" \notin broken =>
        manifest = IF ledger = NoRun THEN NoSeal ELSE SealOf(ledger)

(* A run reported as started is the current one or an archived one.         *)
RunsKept ==
    \A r \in reported : r = ledger \/ \E s \in Stamps : archives[s].ledger = r

(* "takes back the files ... that this init created, and nothing that was   *)
(* already there" (init.rs): the ledger a rollback removes is its own.      *)
RollbackTakesOwn ==
    \A p \in Procs : pc[p] = "undo" => ledger \in {NoRun, at[p].run}

(* "The retry then finds no ledger and starts over" (init.rs): a ledger     *)
(* without a genesis, which both init and reset refuse, is one whose init   *)
(* is still at work, or was killed.                                         *)
Usable ==
    ledger # NoRun /\ size[ledger] = 0 =>
        \/ "genesis" \in broken
        \/ \E p \in Procs : pc[p] \in {"genesis", "undo"} /\ at[p].run = ledger

(* The directory implements its abstraction: archives are frozen, no        *)
(* reported run is lost, one run at a time grows.                           *)
Current == IF Readable THEN ledger ELSE NoRun
Archived == {r \in Runs : size[r] > 0 /\ \E s \in Stamps : archives[s].ledger = r}
Abstract == INSTANCE Runs WITH current <- Current, archive <- Archived
ImplementsRuns == Abstract!Spec
=============================================================================
