------------------------------- MODULE Rules -------------------------------
(***************************************************************************)
(* What a protocol.toml declares, and what the engine reads off a ledger:   *)
(* the current state, the candidates of a transition command, the ledger    *)
(* gates, and the entries one transition appends.  A ledger is a sequence   *)
(* of entries; hashes, timestamps and all fields but a state_transition's   *)
(* `to` are left out (the chain of hashes is LedgerFile's).                 *)
(***************************************************************************)
EXTENDS Integers, Sequences, FiniteSets

CONSTANTS
    States,         \* the names under [states.*]
    InitialState,   \* the one marked initial
    Targets,        \* what the `to` field of an entry may name, declared or not
    EventTypes,     \* the types an operation may record or a transition emit
    CommandNames,   \* the names under which transitions are invoked
    Transitions     \* [[transitions]], in the order of the TOML file

EngineTypes == {"genesis", "state_transition", "gate_attestation"}
Types == EngineTypes \cup EventTypes

(* What an operation records.  Nothing keeps it from being of a type of the *)
(* engine's own: `sahjhan event` refuses only the types that are declared   *)
(* restricted, and checks no field of one that is not declared.  to is the  *)
(* state a state_transition names, the initial one when it names none; in   *)
(* an event of another type it is of no consequence.                        *)
Event == [type : EventTypes, to : Targets]

(* A has_event gate accepts min or more events of a type and, with a        *)
(* max_count, fewer than max; lacks_event is min 0 and max 1.  max holds at *)
(* most one number: none is declared when it is empty.                      *)
Gate == [event : Types, min : Nat, max : SUBSET Nat]

(* attested is the number of gates that run a command: whether they pass is *)
(* not the ledger's to say, and each that passes leaves one attestation.    *)
Transition == [command : CommandNames, from : States, to : States,
               gates : SUBSET Gate, attested : Nat, emits : Seq(Event)]

ASSUME StatesAssumption == InitialState \in States /\ States \subseteq Targets
ASSUME TransitionsAssumption == /\ Transitions \in Seq(Transition)
                                /\ Len(Transitions) \in Nat

(* trans is the transition whose commit appended the entry, 0 for an entry  *)
(* recorded on its own (the recorder stamped on it tells them apart); part  *)
(* is its place among the entries of that transition.                       *)
Entry == [type : Types, to : Targets, trans : 0 .. Len(Transitions),
          part : Nat]

Genesis == [type |-> "genesis", to |-> InitialState, trans |-> 0, part |-> 0]
Recorded(e) == [type |-> e.type, to |-> e.to, trans |-> 0, part |-> 0]

(* What commit_transition appends for transition i: the state_transition,   *)
(* one gate_attestation per command gate, then the emits in order.          *)
Own(i) == 1 + Transitions[i].attested
GroupSize(i) == Own(i) + Len(Transitions[i].emits)

GroupEntry(i, k) ==
    [type |-> IF k = 1 THEN "state_transition"
              ELSE IF k <= Own(i) THEN "gate_attestation"
              ELSE Transitions[i].emits[k - Own(i)].type,
     to |-> IF k <= Own(i) THEN Transitions[i].to
            ELSE Transitions[i].emits[k - Own(i)].to,
     trans |-> i, part |-> k]
Group(i) == [k \in 1 .. GroupSize(i) |-> GroupEntry(i, k)]

(* Whether an entry is an event somebody asked for: recorded, or emitted.   *)
IsEvent(x) == x.trans = 0 \/ x.part > Own(x.trans)

Prefix(log, n) == SubSeq(log, 1, n)

(* derive_state_from_ledger: what the last state_transition names, whoever  *)
(* recorded it.                                                             *)
Moves(log) == {n \in DOMAIN log : log[n].type = "state_transition"}
LastMove(log) == CHOOSE n \in Moves(log) : \A m \in Moves(log) : m <= n

StateOf(log) ==
    IF Moves(log) = {} THEN InitialState
    ELSE log[LastMove(log)].to

(* The ledger gates, on the entries a command has in memory.                *)
CountOf(log, e) == Cardinality({n \in DOMAIN log : log[n].type = e})

Evidence(i, log) ==
    \A g \in Transitions[i].gates : CountOf(log, g.event) >= g.min
Budget(i, log) ==
    \A g \in Transitions[i].gates : \A m \in g.max : CountOf(log, g.event) < m
Slip_CeilingOnly(i, log) == Budget(i, log)  \* a slip; no action uses it
GatesPass(i, log) == Evidence(i, log) /\ Budget(i, log)

(* The candidates prepare_transition collects for a command.  One is chosen *)
(* when its gates pass and those of every earlier candidate may not have:   *)
(* a command gate can fail whatever the ledger says.                        *)
Candidates(command, log) ==
    {i \in DOMAIN Transitions : /\ Transitions[i].command = command
                                /\ Transitions[i].from = StateOf(log)}
MayFail(i, log) == ~GatesPass(i, log) \/ Transitions[i].attested > 0

Chosen(i, command, log) ==
    /\ i \in Candidates(command, log)
    /\ GatesPass(i, log)
    /\ \A j \in Candidates(command, log) : j < i => MayFail(j, log)

-----------------------------------------------------------------------------
(* The entries that record a transition the engine took: the first of the   *)
(* entries its commit appends.  A state_transition that somebody recorded   *)
(* as an event is none of them.                                             *)
Taken(log) == {n \in DOMAIN log : log[n].part = 1}

(* Every transition was taken from the state the entries before it leave    *)
(* the machine in: what commit_transition calls a `from` that is not false. *)
FromTruthful(log) ==
    \A n \in Taken(log) :
        Transitions[log[n].trans].from = StateOf(Prefix(log, n - 1))

(* The events a transition's gates ask for precede it in the ledger.        *)
EvidencePrecedes(log) ==
    \A n \in Taken(log) : Evidence(log[n].trans, Prefix(log, n - 1))

(* The entries of a transition are contiguous and in order: nothing is      *)
(* appended between two of them.  A failure may cut a group short.          *)
GroupsContiguous(log) ==
    \A n \in DOMAIN log : log[n].part > 1 =>
        /\ n > 1
        /\ log[n - 1].trans = log[n].trans
        /\ log[n - 1].part = log[n].part - 1
=============================================================================
