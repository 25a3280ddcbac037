# Sahjhan in TLA+

Sahjhan keeps a hash-chained ledger of events, derives the state of a declared
protocol (a state machine in TOML) from it, and refuses transitions whose gates
do not pass. The commands are short-lived processes; a daemon answers requests
beside them. They meet only in files of one data directory, so much of what can go
wrong is what happens between two of their system calls. The rest is what a
configuration means: the gates, the hooks, and what `validate` and `lint` say of
them before anything runs. These modules model both.

Contents: [the system](#1-the-system), [the modules](#2-the-modules),
[the runs](#3-the-runs), [fairness](#4-fairness), [the proofs](#5-the-proofs),
[what the checks found](#6-what-the-checks-found),
[what is not modelled](#7-what-is-not-modelled), [the plan](#8-the-plan).

## 1. The system

All paths are under `src/src/` unless they begin with `docs/`.

| Component | State it keeps | Operations | Correct when |
|---|---|---|---|
| Ledger file and chain (`ledger/`) | `ledger.jsonl`, one entry a line, each with `seq` and the hash of the one before; `Ledger::entries` in each process | `init`, `open`, `reload`, `append`, `verify` | entries chain and only grow; an acknowledged append stays; a damaged file is refused |
| State machine (`state/`) | the `Ledger` in memory | `derive_state_from_ledger`, `prepare_transition`, `commit_transition`, `record_event` | a transition leaves from the state the ledger is in, on the evidence its gates ask for, its entries together |
| Gates (`gates/`) | none | evaluation over ledger, files, commands, queries | what they accept when the transition is prepared still holds when it is recorded |
| Commands (`cli/`) | none between runs | transition, event, set complete, authed-event, reseal, batch, render, checkpoint, hook eval | see the manifest, the renders and the cache |
| Manifest and its lock (`manifest/`) | `manifest.json`; an `flock` on the data directory | load, `track`, save, verify; exclusive and shared lock, 30 s | outside a writer's critical section every tracked file is the one its hash names; no save undoes another's |
| Renders (`render/`) | the rendered files | `render_triggered`, `render_all` | a view is never replaced by that of a shorter ledger |
| Status cache (`cli/commands.rs`) | `status-cache.json` | written by init, transition, batch | names the current state |
| Hook evaluation (`hooks/eval.rs`, `cli/hooks_cmd.rs`) | none | evaluate, auto-record | a rule that fires is heard; one agent's entries decide nothing for another; a failed record leaves the ledger sealed |
| Daemon's life (`daemon/mod.rs`, `cli/daemon_cmd.rs`) | socket and pid file, connections | start, accept loop, idle timeout, cleanup, stop | who serves is whom the files lead to; a stop stops; no client holds the others for ever |
| Daemon's requests (`daemon/`) | enforcement blob, vault | `record_event`, enforcement read, write, update, merge, vault, sign | no store is lost; a secret is read when the policy allows; `record_event` holds the locks a command would |
| Init, reset, reseal (`cli/init.rs`, `cli/authed_event.rs`) | the data directory, archives | create, archive and restart, accept a changed config | a run that was started is the current one or an archive; an init that fails takes back its own files only |
| Registry (`ledger/registry.rs`, `cli/ledger.rs`) | `ledgers.toml`, the active-ledger marker | create, import, remove, activate, deactivate; the choice of a ledger | a name is registered once; what the user names is what is written |
| Configuration (`config/`) | the TOML files | load, `validate`, `validate_deep` | a protocol it accepts means what it says |
| Lint (`lint/`) | none | L1 to L8 over a configuration | an error is about something that cannot happen, a missing warning about something that does not |
| Queries, diagrams, authentication | none | I/O, text, cryptography | see section 7 |

How they interact. A command opens the ledger (shared `flock`), evaluates gates
on what it read, takes the manifest lock, reads the ledger again, appends (each
append with an exclusive `flock` on the ledger), seals the ledger's hash in the
manifest, renders, saves the manifest, drops the lock and writes the status
cache. A gate of type `command` runs a shell, which usually runs `sahjhan event`:
a child that needs the very lock its parent is about to take. `manifest verify`
holds the lock shared and hashes file after file. The daemon runs `record_event`
through the same functions, in its own process, one request at a time.

What is hard here, and hard to test: gates checked before a lock and used after
it; a group of appends another writer could split; a manifest loaded before
another's save and saved after it; renders from an old copy of the ledger; a
failure or a kill between an append and its seal, or between an entry's JSON and
its newline; a lock on a directory that is removed; two renames with a kill
between them; locks that time out; parents waiting on children; a registry read between the
truncate and the write of another command; a daemon that leaves while the next
starts; a version compared with what was served and not with what is stored;
windows that open at the wrong entry; an event of the engine's own type that a
caller records; a claim of `lint` about every run, made
without running anything. `PROJECT.json` lists each at its line, with the
properties that would catch it.

## 2. The modules

| Module | Models | Lines of code it stands for |
|---|---|---|
| `Rules` | what a configuration declares; the functions from a ledger to a state, candidates and gates; the entries of one transition | `config/transitions.rs`, `config/events.rs`, `gates/ledger.rs`, `state/machine.rs` |
| `Protocol` | the abstract specification: what the engine promises of a ledger, with no process, lock, file or failure | the contract of `state/machine.rs` |
| `Engine` | the commands at work at once | `cli/*`, `state/machine.rs`, `manifest/*`, `render/engine.rs`, `daemon/mod.rs` |
| `EventLog` | the abstract log: a chain that grows one successor at a time | `ledger/entry.rs`, `Ledger::verify` |
| `LedgerFile` | one ledger file, system call by system call | `ledger/chain.rs` |
| `Runs` | the abstract data directory: one current run or none, frozen archives | the contract of `cli/init.rs` |
| `Lifecycle` | init and reset, and the appends around them, on a directory that may be removed | `cli/init.rs`, `manifest/lock.rs`, `cli/authed_event.rs`, `ledger/chain.rs` |
| `Daemon` | start, accept loop, stop, clients | `daemon/mod.rs`, `cli/daemon_cmd.rs` |
| `Enforcement` | the requests the daemon answers from memory | `daemon/mod.rs`, `daemon/enforcement.rs`, `daemon/protocol.rs`, `daemon/vault.rs` |
| `Registry` | the registry's file, the marker, and the choice of a ledger | `ledger/registry.rs`, `cli/ledger.rs`, `cli/commands.rs`, `cli/init.rs` |
| `Gates` | every gate, with templates and filters, as operators | `gates/*` |
| `Hooks` | which rules match and fire, guards, monitors, the decision | `hooks/eval.rs` |
| `Paths` | reachability over the transitions | `lint/graph.rs` |
| `Lint` | the index of producers and references, L1 to L5, L7, L8 | `lint/index.rs`, `lint/checks.rs`, `provenance.rs` |
| `Config` | `validate`, `validate_deep`, the warnings | `config/mod.rs` |
| `Walk` | the abstract run: a walk over the transitions | `state/machine.rs`, the claims of `lint/checks.rs` |
| `Journey` | a run of a protocol, command by command, with all its data | `state/machine.rs`, `state/emit.rs`, `cli/transition.rs`, `cli/hooks_cmd.rs` and others |
| `MC...` | the small instances | |
| `Engine_proofs` | the theorems on the engine and on `Protocol`, and the lemmas on `Rules` | |
| `LedgerFile_proofs`, `Lifecycle_proofs`, `Daemon_proofs`, `Enforcement_proofs`, `Registry_proofs`, `Walk_proofs`, `Journey_proofs` | the theorems on the module each is named after | |

`Engine` composes with `Protocol` (`ImplementsProtocol`, the same variable
`ledger`), `LedgerFile` with `EventLog` (`ImplementsEventLog`, with the log
read off the file's objects), `Lifecycle` with `Runs` (`ImplementsRuns`, the current
run being the one whose ledger opens), and `Journey` with `Walk`
(`ImplementsWalk`, the state being the one `derive_current_state` reads off the
ledger). `Engine` takes an append for one step; that this is right is what
`LedgerFile` shows. `Journey` takes a command for one step; that a transition's
entries are whole and leave from the right state when commands overlap is what
`Engine` shows. `Journey` EXTENDS `Lint` and `Config`, which EXTEND `Hooks`,
`Gates` and `Paths`: each of these is a pure function of a configuration, or of
that and a ledger.

### Engine: state and actions

| Variable | In the code |
|---|---|
| `ledger` | `ledger.jsonl`, as a sequence of entries |
| `manifest` | `manifest.json`: for each file, the contents whose hash it holds |
| `view`, `cache` | the rendered files, `status-cache.json` |
| `writer`, `readers` | who holds the manifest lock (`flock` on the data directory), exclusively or shared |
| `pc`, `loc` | where each process is in its handler, and its local variables |
| `loose` | a history variable: the files a failed, warned or killed command left other than their seal |

Contents are a number: the length of the ledger a file was written from. A ledger
only grows, so two contents hash the same exactly when they are the same number.
(A view written from two lengths may hash the same in the program, if nothing it
shows has changed; the model tells them apart, so it sees every mismatch the
program could and some it could not.)

A handler is a `Flow`: the order of its phases. An action is one phase, whatever
handler it is in, so `TakeLock` is `lock_manifest` followed by the load of the
manifest wherever the code does these. The phases and their actions:

| Phase | Action(s) | Code |
|---|---|---|
| `open`, `read` | `ReadLedger` | `open_targeted_ledger`, a batch's `reload` |
| `item` | `NextItem`, `QueryFails` | `cmd_batch`'s loops |
| `check` | `RunGateCommand`, `Prepare`, `SkipItem`, `Refuse`, `EvaluateHooks` | `prepare_transition`; `evaluate_hooks` |
| `lock`, `relock`, `share` | `TakeLock`, `TakeShared`, `TimeOut` | `lock_manifest`, `lock_manifest_shared` |
| `decide` | `Decide`, `StateMoved` | the reload and the check of the state in `commit_transition` |
| `append` | `AppendNext`, `AppendFails` | each `Ledger::append` of a commit, an event, a checkpoint, a hook's records |
| `seal` | `Seal`, `SealFails` | `track_ledger_in_manifest`, `save_manifest` |
| `render` | `WriteRender`, `EndPass`, `SaveFails`, `RenderFails` | `render_triggered`, `render_all` and the saves after them |
| `drop`, `peek`, `hash` | `Unlock`, `HashFile` | `drop(lock)`; `verify` |
| `cache` | `WriteCache` | `write_status_cache` |
| any | `Kill`, `Start` | a process ends, or begins |

Choices the program does not make are left open: whether a gate command passes,
how many items a batch's query returns, whether a hook's rules match, whether an
emit's template resolves.

What a command records is an `Event` of any type. `sahjhan event` refuses only
types that are declared restricted (`cli/transition.rs:621`), so an event may be a
`state_transition`, a `gate_attestation` or any other of the engine's own, and a
`state_transition` recorded so sets the state without a gate being asked. `to` is
the one field of an entry the model keeps, with any of `Targets` in it. What
`Protocol` then promises is about the transitions the engine takes (`Taken`); an
event recorded by hand is `Record`, whatever its type. The recorder stamped on an
entry tells the two apart, in the code as in the model (`trans`).

### LedgerFile: state and actions

`pieces` is the file: the JSON objects on it in order, a cut one (`Torn`)
included; `ends` are the positions of those that a newline follows, so that two
objects on one line are one without its end before another. `holder` is the
exclusive `flock`; `pc`, `mem`, `base`, `body` are the locals of each process.
`append` is `CallAppend`, `Lock` or `LockTimeout`, `Reread`, `WriteJson`,
`WriteNewline`: `writeln!` on a `File` makes two `write(2)` calls. `Kill` and
`WriteFails` may come at any of them. `acked` and `damaged` are history variables.
The hash of an entry is injective (`MCHash` keeps what it hashes).

### Lifecycle: state and actions

A run is the number of its ledger file, so that a rename or a removal changes
where a run is and not what it holds: `ledger` is the run at `ledger.jsonl`,
`archives` those at `ledger.<second>.jsonl` with their manifests, and `size` the
entries of each. `dir` is the inode at the data directory's path, `holder` who
holds the `flock` on each inode: an init that fails removes the directory if it
made it, and a process that waits for the lock then waits on an inode no path
leads to. `reported` are the runs an init or a reset has announced; `broken` is a
history variable, what a failed or killed command left undone until a later one
seals the ledger. `at` holds the locals (`data_dir_existed`, `registry_existed`,
`manifest_existed`, the archive's second).

| In the code | Actions |
|---|---|
| `cmd_init` before its lock | `CallInit` (first refusal), `SeeDir`, `MakeDir` |
| `cmd_reset`, and every appending command, before its lock | `CallOnRun` |
| `ManifestLock::exclusive` | `OpenDir`, `NoDirToOpen`, `TakeLock`, `LockTimeout` |
| `init_locked`, `write_run` | `Refusal`, `CreateLedger`, `WriteGenesis`, `Register`, `TrackNew`, `Report` |
| their rollback | `WriteFails`, `UndoLedger`, `UndoFiles`, `UndoDir` |
| the archive of `cmd_reset` | `ArchiveLedger`, `ArchiveManifest`, then as init |
| an appending command under the lock | `LoadManifest`, `OpenToAppend`, `Write`, `Seal` |
| any | `CommandFails`, `Kill` |

An append is the two steps that matter here, the path opened and the file written;
the rest of it is `LedgerFile`'s and `Engine`'s. `reseal` is told apart from the
other commands because it goes on without a manifest. The clock only goes forward:
a reset's second is the last one's or a later one.

### Daemon: state and actions

`pidfile` and `socket` are the two files, a daemon being its pid and the socket's
path leading to the listener that bound it; `phase`, `seen`, `term` are where
each daemon is, the pid its start read, and whether its handler has cleared
`RUNNING`; `backlog` and `conn` are the connections; `opr`, `target` the
operator's command and the pid it is about.

| In the code | Actions |
|---|---|
| `DaemonServer::new` | `Look`, `Read`, `Judge`, `RemoveStale` |
| `start` | `Bind`, `WritePid` (a truncate and a write), `Arm`, `StartFails` |
| the accept loop | `Accept`, `Nap`, `Wake` (also the idle timeout), `Terminated` |
| `handle_connection` | `Answer`, `EndOfLines`, `ReadTimeout` |
| `cleanup`, the end of `start` | `cleanup` (two removals), `Exit` |
| `cmd_daemon_start`, `cmd_daemon_stop` | `Start`, `Started`, `Stop`, `Signal`, `Wait`, `RemoveFiles` |
| clients | `Connect`, `Request`, `Close` |
| the system | `Kill` |

The daemon serves one connection at a time, so a signal is noticed only between
connections, and `Wait`'s five seconds may end before the ten of a read timeout:
the stop then kills.

### Enforcement: state and actions

`stored` is the blob under `_enforcement`, a function from keys to scalars, null
or objects; `secret` is the policed vault key; `state` is the state the ledger is
in, or `Unknown` when it cannot be derived. `req`, `answer`, `held` are what an
actor asked, what it is told, and the blob it read with its version. The daemon
answers one request at a time, each an action (`EnforcementRead`,
`handle_enforcement_write`, `handle_enforcement_patch`), but a vault request in
two, for the policy is checked before the vault is locked and the ledger may move
between (`CheckVault`, `UseVault`, `LedgerMoves`). `Restart` loses the memory, and
with it whatever an actor holds a version of. Actors use the blob as
`docs/hardening.md` has it: a shared counter is bumped on the version that was
read, by writing everything back or by `update`; a bucket of one's own is merged
without a version. `bumps`, `mine` and `allowed` are history variables.

### Registry: state and actions

`file` is `ledgers.toml`, `marker` the active-ledger marker, `ledgers` the ledger
files there are. A command that changes the registry is `Load`, `Truncate`,
`Write`: no lock, no rename, and an empty file is a valid registry. What is
written is `Changed`: the loaded entries and a new one, or those `Retained`. Two
processes may have the file open at once: a write that comes second replaces the
first bytes of what is there, and what ends in the rest of a longer text is a
registry of both, or none (`Fills`). `create` and `import` make their file first
(`MakeLedger`), `reset` first takes the default ledger away (`Archive`) and the
marker with it. A command that appends chooses by `--ledger-path` or `--ledger`
(`Choose`, `ByName`), by the marker (`ByMarker`), or takes the first entry
(`ByDefault`); only the last two fall back.

`init` and `reset` hold the manifest lock (one at a time), which the other commands
on the registry do not take. Under it `CheckRun` refuses a ledger that is there and
notes whether there is a registry (`existed`); then come the ledger, the registry
and the manifest (`Track`). When any of the writes fails (`InitFails`,
`WriteFails`), `RemoveLedger` takes back the ledger, and `RemoveRegistry` the
registry if there was none: whatever others have registered since goes with it,
and a process that has the file open writes to one without a name (`unlinked`).

`known`, `acked`, `exposed` and `mixed` are history variables: all entries ever
written, the names reported, those of them another command may take, and whether
a write ended in the rest of another.

### Journey: state and actions

`config` is the protocol loaded, one of the instance's; `ledger` its entries, each
with its type, its fields and the stamp of who recorded it; `fired` the
transitions taken; `visited`, `bare`, `around` the history that `Walk` keeps.
The actions are the commands that append: `cmd_event`, `cmd_authed_event`,
`handle_record_event`, `cmd_set_complete`, `cmd_hook_eval`, `cmd_transition`. A
transition binds its arguments, draws the state's parameters from sets, evaluates
the gates of each candidate in order, resolves its emits, and appends all its
entries. What files, commands, queries and clocks answer is a parameter `world`,
chosen anew at every check.

Callers send what they like (`Inputs`): a declared event with fields it declares or
`Further` ones, or one of the `Strays`, events no protocol declares, those of the
engine's own types included. `cmd_event` validates the fields of a declared event and
lets an undeclared one pass, as the code does; the daemon and `authed-event` refuse
it. A `state_transition` among the strays moves the state, with no transition taken:
`MovedByHand` says of which protocols that can happen, and `Walk` has it as `ByHand`.
The two functions that read the state off a ledger then need not agree: after a
`state_transition` without a `to` the state machine is in the initial state
(`state/machine.rs:545`), and the hooks look further back (`hooks/eval.rs:216`).

Lint claims things of a closed world: an event with declared producers is
recorded by them, where they say they can; one with none may be recorded by
anybody unless it is restricted or `require_producers` is set. `Foreseen` is that
premise. It binds the runs of the protocols without strays (`ClosedWorld`), which are
nine of the eleven; `FindingsAreReal` is about these. Without the premise L2 would be
false of the code, for `sahjhan event` records an unrestricted event in any state.

Gates are trees, and everything that walks one (`eval`, `validate_gate`,
`check_gate_windows`, `gate_event_refs`, `collect_attested_refs`) is in the code a
recursive function. The model walks them by their chains, the paths from the root
(`Chains`): `Subtree` is every gate of a tree, `Reached` tells the chains that go
through composites only, `Above` what stands over a gate. A tree is evaluated by the
one set of composites that pass which agrees with itself (`Consistent`); the theorem
`EvalByParts` shows that this is the recursion.
`MaxDepth` bounds how deep the gates of a configuration nest, which `WellShaped`
asks of every protocol, as it asks that lists are lists and counts numbers. The
parser sees to the latter; the former is no loss, for a configuration is finite
and the theorems hold for every bound.

Three more premises are about what a protocol declares. No property of the runs
mentions them, `MCJourney` assumes them of its protocols, and the theorems that need
one name it: `FindingsHold` the first two, `StampsAreCounted` the first,
`EvidenceIsSpentOnce` the third, the others none. `OwnVocabulary`: a protocol neither
declares an event of the engine's nor has a hook record one; `validate` does not look.
It says nothing of what callers record. `Literally`: a gate needs the events
lint counts as required, which is false of a `not` within a `not` (the run
`lint_negation`), of a count that is a multiple of 2^32 and of a set without
members. `PlainText`: nobody writes a value that reads as an unresolved placeholder.

## 3. The runs

| Run | Asks | Instance | Expect |
|---|---|---|---|
| `engine` | do commands that overlap keep the ledger lawful, the seals, the views, the verdicts, and implement `Protocol`? | 2 processes (symmetric), 7 command lines, a protocol with a gate command, a budgeted self-loop and two candidates, a gate's child that records a `state_transition`, 2 views, 5 entries, batches of 2 | pass |
| `engine_faults` | the same with kills, failed appends, saves and renders, the daemon's `record_event`, and a gate's child that records a `state_transition` to a state no protocol has | 2 processes, 4 command lines, 4 entries | pass |
| `engine_live` | does every command end? | 2 processes, 4 command lines, 5 entries, no symmetry | pass |
| `ledger_file` | is `append` one step, whatever is killed or fails? | 3 processes, 2 bodies, 3 objects, kills and failed writes | pass |
| `lifecycle` | do init, reset and appends keep every run, each rollback to its own files, and the manifest with its ledger? | 3 processes (symmetric), 3 runs of 2 entries, one failure or kill, the directory made once, resets in different seconds | pass |
| `daemon` | is who serves whom the files lead to, does a stop stop, is every client let go? | 2 daemons one after or over the other, 1 operator, 2 clients, one request a connection | pass |
| `enforcement` | is a bump, a bucket or a conflict ever wrong, a secret ever read against the policy? | 2 actors (symmetric), 2 states and none, 3 stores, restarts | pass |
| `registry` | what do commands that overlap do to the registry, and to the choice of a ledger? | 2 processes (symmetric), 12 command lines, 5 commands, 3 paths | pass |
| `decisions` | do `validate` and `lint` say of a protocol what its runs do? | 11 protocols, two of them with strays, 2 worlds, 2 values, ledgers of 6 entries | pass |
| `budget`, `second_reset`, `lint_negation` | section 6 | | violation |

What the properties say:

- `LedgerLawful`: every transition the engine takes leaves from the state the entries
  before it give, with the events its gates require before it, and the entries
  of one transition are contiguous; a `state_transition` that somebody recorded as
  an event moves the state and is not taken for one of the engine's.
- `ImplementsProtocol`: no step of any command appends what `Protocol` forbids.
- `SealedUnlessLoose`: when no writer holds the lock, a file differs from its seal
  only if a command that failed or warned left it so.
- `SealsNeverRegress`, `ViewsNeverRegress`: no save and no render undoes a newer one.
- `VerdictTrue`: a mismatch `manifest verify` has found is one of those, never a
  writer half-way through.
- `NoWaitOnParent`: a command whose child runs sahjhan holds no lock the child needs.
- `EveryCommandEnds`: every command returns or times out.
- `WholeUnlessDamaged`, `MemoryIsPrefix`, `AcknowledgedStays`,
  `UnreadableIsFrozen`, `ImplementsEventLog`, `EveryAppendReturns`: between
  appends the file is whole lines, chained; a copy may be old, never wrong; an
  entry whose append returned stays at its place; a file that does not parse is
  changed by nobody; the entries grow as the abstract log; every call returns.

- `RunsKept`: a run reported as started is the current one or an archive.
- `Whole`: with the lock free, there is neither ledger nor manifest, or the
  manifest seals all of the ledger, unless a command that failed or warned left it so.
- `RollbackTakesOwn`: the ledger a rollback removes is the one its init made.
- `Usable`: a ledger without a genesis, which init and reset both refuse, is being
  made or rolled back, or its init was killed at that point.
- `ImplementsRuns`: one run at a time grows, archives are frozen, a reported run is
  never taken back.

- `ServingIsFound`: a daemon that serves is the one the pid file and the socket lead
  to, whatever daemon leaves, dies or is stopped meanwhile; `StopStops`: after a
  stop that returned success there is neither file nor daemon; `EveryClientLetGo`:
  no client waits for ever behind a silent one.
- `NoLostBump`, `OwnBucketKept`, `ConflictIsReal`: counters count, buckets stay, and a
  conflict means that the blob has changed, not that the ledger has moved under the
  overlay; `SecretByPolicy`: the secret is given only to a request during which the
  policy allowed it at some time.
- `RegisteredOnce`: a name is registered for a ledger that is there (the default one
  apart, which a reset renames), and once, unless a write ended in the rest of another.
- `ReportedStays`: a ledger that `create` or `import` reported stays registered until a
  remove, unless it is `exposed`: registered while another command had read the
  registry and not yet written it, or beside an init that found no registry and so
  takes it back when it fails; or later a write failed or met another, or a command
  read the registry empty. So no command undoes one that ended before it began, and
  init's rollback takes no registry that was there.
- `NamedIsWritten`: a ledger the user named is never replaced by another.
- `FindingsAreReal`: a transition of which L1 or L2 reports an error is never taken.
- `BoundaryHeld`: a run in which nobody records a move by hand gets round a boundary
  only over a route L3 reports.
- `StampsAreProducible`: every entry's stamp is one L8 counts as producible.
- `DeadIsInert`: recording an event L5 calls dead changes no transition's choice and
  no rule's firing.
- `EvidenceSpentOnce`: in a protocol `validate` accepts, a transition gated on an
  event since the one it emits is not taken twice for a subject on one piece of
  evidence. `Spends` says which transitions these are: nothing else emits the event,
  every field the window is keyed on is emitted as it is asked for, and no key is a
  parameter that only the window or only the emit would bind.
- `RulesSpeak`: in a protocol `validate_deep` accepts, a rule that fires is heard.
- `SiblingsApart`: what one agent records never changes whether a rule keyed on its
  own agent fires for another.
- `ImplementsWalk`: what the ledger says of the state is always a walk over the
  transitions, whatever is recorded in between that is no move; where a caller may
  record a move, a transition is still taken from the state the ledger says.

Each property has a mutant: a plausible slip in the code (`Slip_...`, beside the
definition it is a slip of, and used by no action) under which the run fails.

Bounds, and why they are enough. Two writers and a reader suffice for every
conflict over one lock; a third process adds only a second waiter. Four
entries hold a genesis, an event, and a transition with an attestation; with a fifth
a state recorded by hand or a second transition changes the state in between, so a
command can prepare in one state and commit in another. A full disk (`MaxEntries`) is a failed append, so the bound is
a behaviour of the program, not a cut. Two views make a pass that fails in its
middle, and two items a batch that another writer comes between. In `LedgerFile`
three objects let two processes append to copies of different ages after
genesis. In `Lifecycle` three processes are one in the critical section, one that
waits for it and one that has not called yet; three runs are a reset followed by
another; `MaxSize` and `MaxRuns` cut behaviour off (a process at the bound stops).
`MaxDirs = 1` and `Apart` are assumptions as much as bounds: the directory is
made at most once, and no two resets fall in one second. `second_reset` gives up
the second, and section 6 says what the first hides. In `Daemon` two starts are
one daemon that leaves, is stopped or was killed while the next one looks, and two
clients one that waits behind the other; that one operator's commands do not
overlap is an assumption (section 6), and so is `MaxRequests`, for the code puts no
limit on the requests of a connection and a client that never stops asking does
hold the daemon. In `Enforcement` two actors and three stores are the first blob
and two stores that meet; restarts come in between. In `Registry` five commands
are two to register, one to remove or archive, and two that overlap. In `Journey`
each protocol is small enough that six entries hold a whole round of what it is
about: two transitions and their evidence, or a walk through every state. `U32 = 4`
makes the 32-bit casts wrap within reach; the numbers are otherwise small.
`MaxDepth` is the depth of the deepest tree the protocols have, 2, and 3 for the two
negations. The
proofs of section 5 rest on none of these bounds.

`CHECK_DEADLOCK FALSE` is not in the configurations of `Engine`. It is in that of
`LedgerFile`, where a file that no longer parses stops every process for good, and
in those of `Lifecycle`, `Daemon`, `Enforcement`, `Registry` and `Journey`, where all
stop at a bound: no runs, pids, stores, commands or entries are left.

## 4. Fairness

`FairSpec` of `Engine` is weak fairness of `Proceed(p)`: a process that can take
its next step eventually does, which is what the operating system gives a runnable
process. No fairness makes a command start, a child start, or a process fail. A
process waiting for the lock can always proceed, by timing out: `manifest/lock.rs`
polls for 30 seconds and returns an error. A parent waits for its child
(`Waiting`), which itself ends; gate commands have a timeout in the code, which
the model does not need. `FairSpec` of `LedgerFile` is weak fairness of the steps
of an append, for the same reason and with the same kind of timeout (5 s).
`Fairness` of `Daemon` is weak fairness of a daemon's steps and of an operator's
command once begun; the read timeout of a connection is a step of the daemon, and
always possible while it waits for a silent client. No client is assumed to ask,
to close or to go on. The other specifications state no fairness: their
properties are about what is never done.

## 5. The proofs

`tlapm` checks every proof, for every protocol, set of processes, set of command
lines, set of faults and bound, from the assumptions the modules declare, each of
which TLC evaluates in the runs. Those of `Rules` and `Engine`: the initial state is
a state and a recorded `to` may name any of them, the transitions are a sequence of
transitions, the model's own names are distinct, `RendersOn` is a function to
sequences of views, a gate's command line is a command line, and the processes are
finitely many. Nothing is assumed of the types a caller records. Those of `LedgerFile`, `Enforcement` and `Daemon` say that the value
that stands for no process, no actor, no state or no pid is none of them; those of
`Lifecycle`, that in addition its bounds are numbers; those of `Registry`, that a
command line has a command of its own, a name and a path, that an init or a reset is
about the default ledger's path, and that a registry is neither no file nor a torn one. Those of `Gates` and
`Journey`: the bounds are numbers, and a protocol has the shape its parser gives it
(`WellShaped`). `Walk` assumes nothing.

Two modules have a premise on the behaviour, because without it the code does
not have the property (section 6). They are stated with the premise as a
formula that every state must satisfy, and beside each stands a theorem in which the
premise is itself proved, from a condition on the constants alone. So what is said
is not only that the property holds of one directory, or of one operator, but what
exactly has to be kept apart for it to hold of more.

### The engine

- `TypeCorrect`, `OneWriter` (`Engine_proofs`): the invariant is `Ordered`, of
  three parts. `Typed`: `TypeOK`, and each process in a phase of the command it
  runs, without which the next phase is not defined. `Prepared`: in `decide` a
  process holds the entries of a transition. `Locked`: a process is in a phase of
  the critical section exactly when it holds the lock, and the two kinds of lock
  exclude each other. `Prepared` needs `Typed`, for its steps read the flows.
- `FilesSealed`, `SealsKept`, `ViewsKept` (`Engine_proofs`): the seals are
  not inductive alone: that the file a writer saves is sealed depends on the
  manifest in its memory. `Sealing` adds what a lock holder has there: the
  manifest on disk, but for the ledger it has appended to and the views of the
  current pass; and that nothing was written from a longer ledger than there is.
  Regress is then excluded step by step: what is saved is what was loaded, or the
  ledger's present length.
- `VerdictsTrue`, `ChildrenFree` (`Engine_proofs`): a reader's lock keeps
  every writer out, so nothing it hashes changes under it (`Verifying`).
- `ProtocolLawful` (`Engine_proofs`): every ledger of the abstract protocol is
  lawful. The heart is `LawfulAppend`: appending an entry keeps the ledger lawful
  if a first entry of a group leaves from the ledger's state on its evidence, and
  a later one follows the one before it.
- `EngineImplementsProtocol`, `LedgersLawful` (`Engine_proofs`): the
  refinement, and the ledger's invariant for the engine. Neither follows from the
  ledger alone; `Owing` says what each process has yet to append. Before the lock,
  the entries of a transition whose evidence is in the ledger: gates passed on the
  beginning of the ledger the command had read, and a ledger that grows keeps its
  evidence (`EvidenceStays`; a ceiling it need not keep, which is why `Budget` is
  no part of it). In the critical section, the rest of the group whose last entry
  is the ledger's last, which no other process can come between (`Locked`). So
  every append is `Allowed`: one of the three of `Protocol`, and by
  `AllowedLawful` one that keeps the ledger lawful. An event may be of any type, and
  only the groups of transitions (`Taken`) are held to their evidence: what a
  `state_transition` written by hand changes is the state the next one leaves from,
  and the lock's second look at the state (`Decide`) covers it as any other.

### The file and the directory

- `FileWhole`, `MemoryNeverWrong`, `PromisesKept`, `DamageNotSpread`,
  `FileImplementsLog` (`LedgerFile_proofs`): one invariant, `Lawful`, for any number of
  processes, any hash and any length. That the file is whole between appends is
  not inductive, for it says nothing of a file that is being written. `LockKept`: a
  process is between its lock and its unlock exactly when it holds the `flock`.
  `BuiltOnFile`: from its re-read to its newline what it builds on is the file as it
  is, which parsed. `CutLast`: a torn object is the last, since no append begins on
  a file that does not parse. `ChainKept` then follows entry by entry, whether or
  not lines have their ends, and `LinesKept` says that without damage the one line
  without its end is that of the append at work. The refinement maps every step to a
  successor of the chain or to a stutter; a kill after the JSON and before the
  newline is the former's end, a kill within the JSON no step at all.
- `OneLock`, `DirectoryWhole`, `RollbackOwn`, `LedgersUsable`, `NoRunLost`,
  `DirectoryImplementsRuns`, `OneDirectory` (`Lifecycle_proofs`): the invariant is
  `Orderly`. `LockKept`: a process past its lock holds the `flock` on the inode it
  opened. `Working` says what each phase may count on of the directory (a run that
  is being created is in no archive and was reported by nobody; a rollback has that
  run or none before it), `Sealed` that what nobody is working on is sealed in full
  or not there, `Numbered` that runs are new when made. The premise is `OneInside`:
  no two commands are past their lock at once. The code has no more than a lock per
  inode, and a failed init unlinks the directory, so that a directory made twice has
  two. `OneLock` proves the premise while the directory is made once
  (`MaxDirs = 1`): this is every data directory that no rollback has removed. That
  no run is lost, and with it the refinement of `Runs`, needs `Apart` as well, two
  resets in different seconds; `Stamped` then says that no archive of a later second
  is there to be replaced. `OneDirectory` has all of this with no premise but the
  two on the constants.

### The daemon and the registry

- `ServerFound`, `StoppedForGood`, `OneOperator` (`Daemon_proofs`): no lock guards the
  pid file and the socket, only the order of the steps of start, cleanup and stop.
  `Settled` is what each phase may count on: a daemon that starts is one an operator
  waits for (`StartOwned`); what a daemon has made and not removed is its own
  (`FilesOwned`); a start that has judged the coast clear meets no daemon that serves,
  and one that is judging has read the pid of the one that does (`StartAlone`); a
  stop is about the daemon that serves until there is none (`StopKnows`). The
  premise is `OneCommand`, that no two operators are busy at once, for any number
  of operators, daemons and clients; with one operator it holds by itself.
- `BumpsCounted`, `BucketsKept`, `ConflictsReal`, `SecretsGuarded`
  (`Enforcement_proofs`): for any actors, states, policy and bounds. The stored blob
  having the right counter and buckets (`StoredSound`) is not inductive: a
  conditional write stores what its actor computed long before. `HeldSound` says
  what a version is worth: the blob read with it, but for the overlaid state, has
  the counter and the buckets of the stored blob the version names; `Asked`, that
  the request is still one its actor could make of what it holds. A store that is
  not refused then starts from what is stored now. The policy needs `Cleared`
  alone: a vault read past its check is one that was allowed.
- `NamesUnique`, `ReportsKept`, `NamedWritten` (`Registry_proofs`): no premise at all,
  for any number of processes and any overlap. The invariant is `Kept`. `Sound` holds
  not only of the file but of every copy a command has in memory and is about to
  write: its names are unique, unless a write ended in the rest of another (`mixed`),
  its paths those of ledgers that are there, its entries written before by a command
  that completed. `Safe` is what was reported and nothing may have taken. `Held`: the
  file has all of it whenever nobody is writing. That is not inductive without
  `Knows`, which says that every copy has all of it too, and that a start that found
  no registry, and may remove the one there is when it fails, began when nothing was
  safe; what others report beside it is `exposed`. `Opened` says whose writes still
  reach the file and whose go to one that was removed. `RetainedFacts` is what the
  proof knows of `retain`.

### The protocols

- `NoSilentDetour` (`Walk_proofs`): for any set of protocols and runs of any length,
  a run that gets to a boundary's far side without crossing it does so over a
  route L3 finds. The invariant `Trailed` says that a boundary in `bare` is one
  whose source is the present state or from which that state is reachable over
  untagged transitions; `reachable_from` is a least closed set, so one more edge
  stays in it. `RoutesAreReal` is the converse: what L3 reports is a path of
  untagged transitions, shown by the set of the states such a path leads to, which
  is closed. `PastLiesBehind`: the states of a run's past are among those L2
  counts as able to precede the present one.

`Journey_proofs` proves each of the eight properties of `decisions`, for every set of
protocols, of worlds, of values and of requests, and for ledgers of any length.

- `RunsAreWalks`: the invariant is `RunInv`: the protocol is one that `validate`
  accepts and the ledger is a list (`Sound`); every move says where it went
  (`SayWhere`), so that the two readings of the state agree (`ReadingsAgree`); the
  present state has been visited; and every entry was written by somebody who can, in
  a state that has been visited (`Traced`). `Steps` turns each of the six commands
  into one of two things, entries that take no transition or one transition taken, and
  everything below is proved of these two. All but `Sound` is weaker where moves may be
  recorded by hand (`MovedByHand`): of such a protocol only that a transition leaves
  from the state the ledger gives.
- `BoundariesHold`: the walk's theorem `NoSilentDetour`, by way of `RunsAreWalks`, in
  every protocol whose moves are transitions. The two INSTANCEs of `Walk` are shown to
  be the same.
- `StampsAreCounted` reads the stamp off `Traced`; `RulesAreHeard` is a property of
  every state, from what `validate_deep` refuses of a hook and a monitor.
- `FindingsHold`, in the closed world: `RequiredPasses`, by induction along a chain, says that a tree that
  passes makes each leaf on it pass that no branch and no negation stands over;
  `LeafNeedsEvent`, that such a leaf found the event lint names; `RequiredIsThere`,
  that the event is in the ledger; `Traced` and `PastLiesBehind`, that it was recorded by
  one of its producers in a state that lies behind the present one. L1 and L2 would
  have had to find no such producer.
- `DeadEventsAreInert`: two checks that differ in entries of an event nothing reads
  evaluate every leaf alike (`SameLeaf`), hence every tree (`SameTree`), draw the same
  parameters and take the same candidate. The windows are where it is delicate: what
  opens them is an event too.
- `SiblingsDoNotInterfere`: an entry of another agent is neither counted nor the end
  of a window keyed on one's own (`OthersDoNotCount`). A `state_transition` is
  excepted, whoever records it: it changes the state, which a rule may look at.
- `EvidenceIsSpentOnce` is the deepest of them. Its invariant is `Sound`, `Plain` and
  `OnceInv`. `Plain`: no entry holds a value that reads as an unresolved
  placeholder. Without it two placeholders that nobody could resolve would be equal to
  one another; eleven lemmas follow the values through arguments, sets, last
  entries, commands and emits. Then: the window's keys are fields of the event,
  for `check_since_filter` has accepted them (`WindowsChecked`); what the gate asked
  for and what the emit recorded resolve alike (`ResolvedAlike`), so the emit is a
  baseline of the very window that let it pass; the next time, what is counted has come
  after it (`CountsNewEvidence`), and it is of the same subject.

- `EvalByParts` is about the model itself. `eval` of `gates/types.rs` recurses into a
  composite's gates; `eval` of `Gates` asks for a set of composites that agrees with
  itself. There is exactly one (`SomePassed`, `NoTwoPassed`, from the deepest composites
  up), a tree stands below its root as it would by itself (`NestsBelow`), and so the
  two are the same: a composite passes just when the gates in it, each evaluated by
  itself, make it pass.

Induction. The provers cannot instantiate a theorem that takes an operator, so the
library's induction rules are of no use to them. `SetInduction` says the same of a
set of numbers and is proved from well-foundedness; with it what the recursive
function of `Gates` computes is proved (`DepthsDefined`, `ChainsAreThose`), and so is
everything that goes down a tree or up from its leaves.
### What is model-checked only

Liveness (`EveryCommandEnds`, `EveryAppendReturns`, `EveryClientLetGo`): fairness and
ENABLED are out of this prover's reach. Every other property that a passing run checks
is proved as well, under the premises named here. Conversely, some of what the
theorems cover is in no run: the checkpoint and reseal flows of `Engine` (the steps of
`hook_eval`, which a run has, without the rules), and an event of an engine type other
than `state_transition` there.

## 6. What the checks found

Three places where the documents say more than the code does, each a violation run
and an entry of `findings`.

- `BudgetRespected`: a `max_count` gate is checked before the lock; only the state
  is compared under it. On a self-loop two commands spend the same last unit.
- `RunsKept`, with two resets in one second (`second_reset`): archives are named by
  the second and renamed over what is there, so the second reset replaces the
  archive of the first by the run that had just begun.
- `FindingsAreReal`, with a `not` over an `all_of` of `not`s (`lint_negation`): lint
  counts the negations and forgets what stands between them, so `A or B` is read as
  `A and B`, and an error is reported about a transition that is then taken.

Others met while modelling, which no run is spent on:

- The status cache is written after the lock is dropped (`cli/transition.rs:185`), so
  two transitions may write it in the opposite order of their commits, and it
  stays behind until the next; `cli/commands.rs:537` calls it the current state.
- A pass that fails in its middle leaves the earlier views written and their hashes
  unsaved (`cli/transition.rs:89`), and `manifest verify` reports them as modified;
  `docs/internals.md:171` says it never reads such a render.
- A kill between an entry's JSON and its newline (`ledger/chain.rs:192`) leaves a file
  that still parses; the next append continues the line, and from then on every
  open and append refuses the file (`docs/internals.md:37`: one object per line).
- Two inits may hold "the" lock at once, one of them on an unlinked inode
  (`cli/init.rs:155`); it finds the other's ledger in its way and its rollback
  removes it, although `cli/init.rs:145-147` says nothing that was already there is
  taken back.
- `daemon stop` removes the pid and socket files by path after its wait
  (`cli/daemon_cmd.rs:118`): two operators whose stop and start overlap can take
  away a living daemon's files. One operator cannot.
- A ledger whose `create` is killed between its file and its registration cannot be
  created again at that path (`cli/ledger.rs:151`).
- An active-ledger marker that cannot be resolved is warned of and an event goes to
  the default ledger (`cli/commands.rs:298`), also when that is because another
  command is just rewriting the registry.
- Nothing locks the registry (`ledger/registry.rs:99`): of two commands that have it
  open at once, one may undo the other or leave a name twice. An init that found none
  takes with it what others have registered since, when it fails (`cli/init.rs:154`).
- `sahjhan event` records the engine's own types (`cli/transition.rs:621`), as
  `docs/hardening.md:401-405` warns and `lint/checks.rs:119-120` says. After a
  `state_transition` without a `to` the state machine is in the initial state
  (`state/machine.rs:545`), and the hooks in the last state that was named
  (`hooks/eval.rs:216`).
- `check_vault_policy` lets every request through when the configuration does not
  load; `Enforcement` assumes that it does.
- `not` over a gate that could not be evaluated passes (`gates/types.rs:124`), where
  `docs/gates.md` has an unevaluable gate block the transition.
- `min_count = 2^32` is no requirement to the gate, which casts to 32 bits, and one to
  lint; `field_not_empty` cannot pass in a transition, whose context has no event.
- L2 takes the declared producers for the only ones, while `sahjhan event` records any
  unrestricted event; L5 does not count `snapshot_compare` as a reader of
  `snapshot`; L8, where every declared event is restricted, counts no `agent:cli`
  for engine events although `set complete` leaves it.
- `validate` checks `set_covered`'s set at the top level of a transition's gates only.
- `validate_deep` warns that a transition out of a terminal state "can never fire"
  (`config/mod.rs:824`), but nothing at run time looks at `terminal`.
- An `auto_record` hook's fields are not validated as an event's are.

## 7. What is not modelled

- Text: messages, diagrams, generated hooks, path spelling, TOML parsing and regular
  expressions (a pattern is the set of what it matches). No property here is about
  them.
- L6 (similar names) and the scan of SQL text for stamps; SQL queries themselves (an
  external engine): a batch's query is any number of items, a query gate's an
  answer of the world.
- Cryptography, process tables and sandboxing of the daemon; who may ask it what.
- The legacy binary stubs of `ledger/chain.rs`, checkpoint lookups, the lines an
  import translates, ledger names made from a template.
- Reads without a state change: status, log, gate check, manifest list, ledger list.
- Config seals, and what a changed configuration refuses until a reseal.
- A configuration that changes between two commands: `Journey` loads it once.

## 8. The plan

Done: the commands on one data directory and the abstract protocol (`Rules`,
`Protocol`, `Engine`); the append they rest on (`EventLog`, `LedgerFile`); init and
reset (`Runs`, `Lifecycle`); the daemon's life and its memory (`Daemon`,
`Enforcement`); the registry (`Registry`); gates, hooks, validation and lint against
the runs of small protocols (`Gates`, `Hooks`, `Config`, `Lint`, `Paths`, `Walk`,
`Journey`); the theorems of section 5.

Left, in order:

1. A run of the engine with a reset, in which a command that checked its gates on
   the archived run commits into the new one; config seals and reseal.
2. A second operator in `Daemon` and a second directory in `Lifecycle`: what remains
   true when `OneCommand` or `OneInside` does not hold.
3. Protocols whose negations nest: what lint would have to say of a gate for
   `FindingsHold` to need no `Literally`.
