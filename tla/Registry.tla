------------------------------ MODULE Registry ------------------------------
(***************************************************************************)
(* ledger/registry.rs, cli/ledger.rs and the choice of a ledger in          *)
(* cli/commands.rs.  The registry is a file that a command loads, changes   *)
(* in memory and writes back, with no lock and no rename; the active-ledger *)
(* marker is another.  A write empties the file before it fills it, and an  *)
(* empty registry is a valid one; two commands may have it open at once,    *)
(* and a third may unlink it.                                               *)
(***************************************************************************)
EXTENDS SequencesExt

CONSTANTS
    Procs,
    Jobs,           \* what a process may be asked: command, name, path, activate
    NoName,         \* no marker, or an empty one
    Absent, Torn,   \* no file, or one that is no TOML
    MaxCommands     \* bound on the commands

ASSUME MaxCommandsAssumption == MaxCommands \in Nat

Default == "default"                  \* the name and the path init registers
Reports == {"create", "import"}       \* name the ledger they registered
Starts == {"init", "reset"}           \* hold the manifest lock throughout
Registers == Reports \cup Starts
Commands == Registers \cup {"remove", "activate", "deactivate", "event", "checkpoint"}
Words == {NoName, Default} \cup {j.name : j \in Jobs} \cup {j.path : j \in Jobs}

ASSUME JobsAssumption ==
    /\ Jobs \subseteq [cmd : Commands, name : Words, path : Words, activate : BOOLEAN]
    /\ \A j \in Jobs : j.cmd \in Starts => j.path = Default

\* A registry is neither no file nor a torn one.
ASSUME FileAssumption ==
    Absent # Torn /\ {Absent, Torn} \cap Seq([name : Words, path : Words]) = {}

VARIABLES
    file,       \* ledgers.toml: its entries in order
    marker,     \* active-ledger
    ledgers,    \* the ledger files there are, by path
    unlinked,   \* the processes that have a registry open which was removed
    known,      \* the entries of all complete writes
    acked,      \* the names a create or an import reported, and no remove since
    exposed,    \* those of them that another command, or a failure, may take
    mixed,      \* a write ended in the rest of a longer one
    pc, job,    \* each process and its command
    mem,        \* the entries it loaded
    to,         \* the ledger it chose
    existed,    \* init found a registry when it began
    count

disk == <<file, marker, ledgers, unlinked>>
told == <<known, acked, exposed, mixed>>
locals == <<job, mem, to, existed>>
vars == <<disk, told, pc, locals, count>>

NoJob == [cmd |-> "none", name |-> NoName, path |-> NoName, activate |-> FALSE]
Entry(name, path) == [name |-> name, path |-> path]
Names(entries) == {entries[n].name : n \in DOMAIN entries}
\* The path of the first entry of that name.
PathsOf(entries, name) ==
    LET named == {n \in DOMAIN entries : entries[n].name = name}
    IN  {entries[n].path : n \in {n \in named : \A m \in named : n <= m}}

Init ==
    /\ file = Absent /\ marker = NoName /\ ledgers = {} /\ unlinked = {}
    /\ known = {} /\ acked = {} /\ exposed = {} /\ mixed = FALSE
    /\ pc = [p \in Procs |-> "idle"]
    /\ job = [p \in Procs |-> NoJob]
    /\ mem = [p \in Procs |-> <<>>]
    /\ to = [p \in Procs |-> NoName]
    /\ existed = [p \in Procs |-> TRUE]
    /\ count = 0

At(p, here, next) == pc[p] = here /\ pc' = [pc EXCEPT ![p] = next]
Does(p, cmds) == job[p].cmd \in cmds

\* The command of p is over.
Done(p) ==
    /\ pc' = [pc EXCEPT ![p] = "idle"]
    /\ job' = [job EXCEPT ![p] = NoJob]
    /\ mem' = [mem EXCEPT ![p] = <<>>]
    /\ to' = [to EXCEPT ![p] = NoName]
    /\ existed' = [existed EXCEPT ![p] = TRUE]

\* LedgerRegistry::new: no file is an empty registry; a malformed one has no
\* entries to find either, and is an error to a command that changes them.
Entries == IF file \in {Absent, Torn} THEN <<>> ELSE file
Finds(name) == name \in Names(Entries)

(***************************************************************************)
(* A command begins.                                                        *)
(***************************************************************************)

First(cmd) ==
    CASE cmd \in Reports -> "make"
      [] cmd = "init" -> "check"
      [] cmd = "reset" -> "archive"
      [] cmd = "deactivate" -> "unmark"
      [] cmd \in {"event", "checkpoint"} -> "choose"
      [] OTHER -> "load"

\* An init or a reset that waits for the other's lock has not begun.
Call(p) ==
    /\ pc[p] = "idle" /\ count < MaxCommands
    /\ \E j \in Jobs :
        /\ j.cmd \in Starts => \A q \in Procs : ~Does(q, Starts)
        /\ job' = [job EXCEPT ![p] = j]
        /\ pc' = [pc EXCEPT ![p] = First(j.cmd)]
        /\ to' = [to EXCEPT ![p] = j.path]
    /\ count' = count + 1
    /\ UNCHANGED <<disk, told, mem, existed>>

\* cmd_reset renames the default ledger, then removes the marker.
Archive(p) ==
    /\ \/ pc[p] = "archive" /\ Default \notin ledgers /\ Done(p) /\ UNCHANGED ledgers
       \/ /\ At(p, "archive", "unmark") /\ Default \in ledgers
          /\ ledgers' = ledgers \ {Default}
          /\ UNCHANGED locals
    /\ UNCHANGED <<file, marker, unlinked, told, count>>

RemoveMarker(p) ==
    /\ pc[p] = "unmark"
    /\ marker' = NoName
    /\ \/ ~Does(p, {"reset"}) /\ Done(p)
       \/ Does(p, {"reset"}) /\ At(p, "unmark", "check") /\ UNCHANGED locals
    /\ UNCHANGED <<file, ledgers, unlinked, told, count>>

\* init_locked: the refusal under the lock, and what a failure may take back.
CheckRun(p) ==
    /\ \/ pc[p] = "check" /\ to[p] \in ledgers /\ Done(p)
       \/ /\ At(p, "check", "make") /\ to[p] \notin ledgers
          /\ existed' = [existed EXCEPT ![p] = file # Absent]
          /\ UNCHANGED <<job, mem, to>>
    /\ UNCHANGED <<disk, told, count>>

\* A defect: the ledger's file is made after its registration.
Slip_RegistersFirst(p) ==
    /\ At(p, "make", "load")
    /\ UNCHANGED <<disk, told, locals, count>>

\* Ledger::init: create_new refuses a path that is taken.
MakeLedger(p) ==
    /\ \/ /\ pc[p] = "make" /\ to[p] \in ledgers /\ ~Does(p, Starts)
          /\ Done(p) /\ UNCHANGED ledgers
       \/ /\ At(p, "make", "load") /\ to[p] \notin ledgers
          /\ ledgers' = ledgers \cup {to[p]}
          /\ UNCHANGED locals
    /\ UNCHANGED <<file, marker, unlinked, told, count>>

(***************************************************************************)
(* Load, change, save.                                                      *)
(***************************************************************************)

\* A name that is taken, or missing.
Refused(p) ==
    \/ Does(p, Registers) /\ Finds(job[p].name)
    \/ Does(p, {"remove", "activate"}) /\ ~Finds(job[p].name)

\* retain keeps the entries of other names, in their order.
Retained(entries, name) ==
    LET kept == {n \in DOMAIN entries : entries[n].name # name} IN
    {[m \in DOMAIN at |-> entries[at[m]]] :
        at \in {f \in [1..Cardinality(kept) -> kept] :
                  /\ ToSet(f) = kept
                  /\ \A m, n \in DOMAIN f : m < n => f[m] < f[n]}}

\* create_with_template pushes, remove retains the others: one result each.
Changed(p, entries) ==
    IF Does(p, Registers) THEN {Append(entries, Entry(job[p].name, to[p]))}
    ELSE Retained(entries, job[p].name)

\* A command ends that finds no registry it can read, or is refused; init
\* and reset fail at the first and skip a "default" that is there.  One that
\* goes on to write will write no name that it has not found.
Load(p) ==
    /\ \/ pc[p] = "load" /\ ~Does(p, Starts) /\ (file = Torn \/ Refused(p)) /\ Done(p)
       \/ Does(p, Starts) /\ file # Torn /\ Refused(p) /\ At(p, "load", "track") /\ UNCHANGED locals
       \/ /\ file # Torn /\ ~Refused(p)
          /\ \/ ~Does(p, {"activate"}) /\ At(p, "load", "truncate")
             \/ Does(p, {"activate"}) /\ At(p, "load", "mark")
          /\ mem' = [mem EXCEPT ![p] = Entries]
          /\ UNCHANGED <<job, to, existed>>
    /\ exposed' = exposed \cup {name \in acked : pc'[p] = "truncate" /\ ~Finds(name)}
    /\ UNCHANGED <<disk, known, acked, mixed, count>>

\* fs::write opens with truncate.
Truncate(p) ==
    /\ At(p, "truncate", "write")
    /\ file' = <<>>
    /\ UNCHANGED <<marker, ledgers, unlinked, told, locals, count>>

\* A write that meets what another wrote since the truncation replaces its
\* first bytes: a rest that is left begins within an entry, which is no TOML,
\* or between two.
Rests == IF file \in {Absent, Torn} THEN {}
         ELSE {SubSeq(file, n, Len(file)) : n \in 2..Len(file)}
Fills(entries) ==
    \/ file' = entries /\ UNCHANGED mixed
    \/ file # <<>> /\ file' = Torn /\ UNCHANGED mixed
    \/ (\E rest \in Rests : file' = entries \o rest) /\ mixed' = TRUE

\* A command that registers or removes while p does: it has read and not yet
\* written, or it may still take back the registry.
Overlaps(q) == pc[q] \in {"truncate", "write"} \/ ~existed[q]

\* The success of a remove, a create and an import; init has more to do.
Write(p) ==
    /\ pc[p] = "write"
    /\ \E entries \in Changed(p, mem[p]) :
          IF p \in unlinked THEN UNCHANGED <<file, known, mixed>>
          ELSE Fills(entries) /\ known' = known \cup ToSet(entries)
    /\ acked' = (acked \cup {name \in {job[p].name} : Does(p, Reports)})
                 \ {name \in {job[p].name} : Does(p, {"remove"})}
    /\ exposed' =
          IF file' = Torn THEN acked'
          ELSE IF p \in unlinked \/ \E q \in Procs \ {p} : Overlaps(q)
               THEN exposed \cup {job[p].name}
          ELSE exposed \ {name \in {job[p].name} : Does(p, Reports)}
    /\ \/ Does(p, Starts) /\ At(p, "write", "track") /\ UNCHANGED locals
       \/ ~Does(p, Starts) /\ job[p].activate /\ At(p, "write", "mark") /\ UNCHANGED locals
       \/ ~Does(p, Starts) /\ ~job[p].activate /\ Done(p)
    /\ unlinked' = unlinked \ {p}
    /\ UNCHANGED <<marker, ledgers, count>>

\* The disk is full, or the process is killed: nothing is written, a part that
\* is a registry, or one that is none.  A failed init takes back what it made.
WriteFails(p) ==
    /\ pc[p] = "write"
    /\ IF p \in unlinked THEN UNCHANGED <<file, mixed, exposed>>
       ELSE /\ \/ file' \in {file, Torn} /\ UNCHANGED mixed
               \/ \E entries \in Changed(p, mem[p]) : \E n \in 1..(Len(entries) - 1) :
                     Fills(SubSeq(entries, 1, n))
            /\ exposed' = acked
    /\ \/ Done(p)
       \/ Does(p, Starts) /\ At(p, "write", "unmake") /\ UNCHANGED locals
    /\ unlinked' = unlinked \ {p}
    /\ UNCHANGED <<marker, ledgers, known, acked, count>>

(***************************************************************************)
(* The rest of init_locked: the manifest, or the rollback.                  *)
(***************************************************************************)

Track(p) ==
    /\ pc[p] = "track" /\ Done(p)
    /\ UNCHANGED <<disk, told, count>>

\* A write of the run's files fails, or a reading of the registry.
InitFails(p) ==
    /\ Does(p, Starts)
    /\ \E here \in {"make", "load", "track"} : At(p, here, "unmake")
    /\ UNCHANGED <<disk, told, locals, count>>

\* A defect: a registry that was there is taken back too.
Slip_TakesAll(p) ==
    /\ At(p, "unmake", "unregister") /\ UNCHANGED locals
    /\ ledgers' = ledgers \ {to[p]}
    /\ UNCHANGED <<file, marker, unlinked, told, count>>

RemoveLedger(p) ==
    /\ \/ pc[p] = "unmake" /\ existed[p] /\ Done(p)
       \/ At(p, "unmake", "unregister") /\ ~existed[p] /\ UNCHANGED locals
    /\ ledgers' = ledgers \ {to[p]}
    /\ UNCHANGED <<file, marker, unlinked, told, count>>

\* Who has the registry open writes to a file that has no name any more.
RemoveRegistry(p) ==
    /\ pc[p] = "unregister" /\ Done(p)
    /\ file' = Absent
    /\ unlinked' = {q \in Procs : pc[q] = "write"}
    /\ UNCHANGED <<marker, ledgers, told, count>>

\* write_active_ledger, a truncate and a write.
Mark(p) ==
    \/ /\ At(p, "mark", "named")
       /\ marker' = NoName
       /\ UNCHANGED <<file, ledgers, unlinked, told, locals, count>>
    \/ /\ pc[p] = "named"
       /\ marker' = job[p].name
       /\ Done(p)
       /\ UNCHANGED <<file, ledgers, unlinked, told, count>>

(***************************************************************************)
(* resolve_ledger_from_targeting, for a command that appends.               *)
(***************************************************************************)

\* --ledger-path, --ledger <name>, or the marker's name.
Choose(p) ==
    /\ pc[p] = "choose"
    /\ \/ /\ job[p].path # NoName
          /\ At(p, "choose", "open") /\ UNCHANGED locals
       \/ /\ job[p].path = NoName /\ job[p].name # NoName
          /\ At(p, "choose", "named?") /\ UNCHANGED locals
       \/ /\ job[p].path = NoName /\ job[p].name = NoName /\ marker # NoName
          /\ At(p, "choose", "marked?")
          /\ job' = [job EXCEPT ![p].name = marker]
          /\ UNCHANGED <<mem, to, existed>>
       \/ /\ job[p].path = NoName /\ job[p].name = NoName /\ marker = NoName
          /\ \/ Does(p, {"event"}) /\ At(p, "choose", "first?") /\ UNCHANGED locals
             \/ Does(p, {"checkpoint"}) /\ Done(p)
    /\ UNCHANGED <<disk, told, count>>

\* Chosen is the ledger, whichever way: the file is opened and appended to.
Choice(p, here, paths) ==
    /\ At(p, here, "open")
    /\ \E path \in paths : to' = [to EXCEPT ![p] = path]
    /\ UNCHANGED <<job, mem, existed>>

\* A defect: a name that is not found falls back to the default ledger.
Slip_Lenient(p) ==
    /\ pc[p] = "named?"
    /\ \/ /\ Finds(job[p].name)
          /\ Choice(p, "named?", PathsOf(Entries, job[p].name))
       \/ /\ ~Finds(job[p].name)
          /\ Choice(p, "named?", {Default})
    /\ UNCHANGED <<disk, told, count>>

\* A name the user gave must be registered.
ByName(p) ==
    /\ pc[p] = "named?"
    /\ \/ /\ Finds(job[p].name)
          /\ Choice(p, "named?", PathsOf(Entries, job[p].name))
       \/ /\ ~Finds(job[p].name)
          /\ Done(p)
    /\ UNCHANGED <<disk, told, count>>

\* A marker whose name is not found is warned of, and an event goes on to the
\* next choice; a checkpoint ends.
ByMarker(p) ==
    /\ pc[p] = "marked?"
    /\ \/ /\ Finds(job[p].name)
          /\ Choice(p, "marked?", PathsOf(Entries, job[p].name))
       \/ /\ ~Finds(job[p].name)
          /\ \/ /\ Does(p, {"event"}) /\ At(p, "marked?", "first?")
                /\ job' = [job EXCEPT ![p].name = NoName]
                /\ UNCHANGED <<mem, to, existed>>
             \/ Does(p, {"checkpoint"}) /\ Done(p)
    /\ UNCHANGED <<disk, told, count>>

\* The first entry, or else data_dir/ledger.jsonl.
ByDefault(p) ==
    /\ \/ Entries # <<>> /\ Choice(p, "first?", {Head(Entries).path})
       \/ Entries = <<>> /\ Choice(p, "first?", {Default})
    /\ UNCHANGED <<disk, told, count>>

\* Ledger::open and the append, of which only the ledger matters here.
AppendEntry(p) ==
    /\ pc[p] = "open"
    /\ Done(p)
    /\ UNCHANGED <<disk, told, count>>

\* A process killed where it writes nothing leaves what it has done.
Kill(p) ==
    /\ pc[p] \notin {"idle", "write"}
    /\ Done(p)
    /\ UNCHANGED <<disk, told, count>>

Next ==
    \E p \in Procs :
        \/ Call(p) \/ Archive(p) \/ RemoveMarker(p) \/ CheckRun(p) \/ MakeLedger(p)
        \/ Load(p) \/ Truncate(p) \/ Write(p) \/ WriteFails(p) \/ Mark(p)
        \/ Track(p) \/ InitFails(p) \/ RemoveLedger(p) \/ RemoveRegistry(p)
        \/ Choose(p) \/ ByName(p) \/ ByMarker(p) \/ ByDefault(p) \/ AppendEntry(p)
        \/ Kill(p)

Spec == Init /\ [][Next]_vars

(***************************************************************************)
(* Properties.                                                              *)
(***************************************************************************)

\* A name is registered once, unless one write ended in the rest of another,
\* and its ledger's file is there, unless it is the default ledger, which a
\* reset renames and a failed init takes back: whichever commands overlap,
\* fail or are killed.
RegisteredOnce ==
    \A n \in DOMAIN Entries :
        /\ Entries[n].path \in ledgers \cup {Default}
        /\ ~mixed => \A m \in DOMAIN Entries : Entries[m].name = Entries[n].name => m = n

\* A ledger a create or an import reported is in the registry until a remove,
\* once nobody writes it, unless it was registered while another command had
\* read the registry and not yet written it, or while an init that had found
\* none could still fail; or, later, a write failed, or met another's, or a
\* command read the registry while it was empty for a write.  Of two commands
\* that do not overlap and do not fail, neither undoes what the other did.
ReportedStays ==
    (\A p \in Procs : pc[p] # "write") => acked \ exposed \subseteq Names(Entries)

\* A user who names a ledger never writes to another, not even while another
\* command rewrites the registry: what is appended to is what that name is
\* registered for, or was when the command looked.
Targeted(p) == job[p].name # NoName /\ job[p].path = NoName
NamedIsWritten ==
    \A p \in Procs :
        pc[p] = "open" /\ Targeted(p) => Entry(job[p].name, to[p]) \in known
=============================================================================
