------------------------------ MODULE Journey -------------------------------
(***************************************************************************)
(* A run of a protocol, one command after the other: the events recorded,   *)
(* the sets completed, the tools hooked and the transitions taken, with the *)
(* gates evaluated in full (Gates), the hooks too (Hooks), for a            *)
(* configuration the program accepts (Config).  How two commands interleave *)
(* is Engine's concern.                                                     *)
(*                                                                          *)
(* `sahjhan event` refuses an event that is declared restricted, and no     *)
(* other: an undeclared one is recorded as it comes, one that the engine    *)
(* writes of itself among them, and a state_transition recorded so is the   *)
(* state from then on.  Strays are those events.                            *)
(*                                                                          *)
(* What lint claims is claimed of a closed world, in which nobody does so:  *)
(* an event with a producer is recorded by its producers, where they say    *)
(* they can; one with none is recorded by anybody, unless it is restricted  *)
(* or lint is told that every event must have one.  Foreseen is that        *)
(* premise; the callers of a protocol with no strays keep to it, those of   *)
(* one with strays keep to nothing but what the commands accept.            *)
(***************************************************************************)
EXTENDS Lint, Config

CONSTANTS
    Protocols,          \* the configurations considered
    Worlds,             \* what the outside may answer a check
    Values,             \* what a field or an argument may be given
    Further(_),         \* the fields callers add to those an event declares
    Strays(_),          \* the undeclared events they record, with their fields
    Requests(_),        \* the tool calls a protocol's hooks are asked about
    MaxEntries          \* bound on the ledger

(* What the parser makes of a configuration: its lists are lists, its       *)
(* counts are numbers, and its gates nest no deeper than the bound.         *)
IsList(s) == s \in Seq(Range(s))
NestsWithin(root) ==
    \A chain \in Chains(root) : Len(chain) > MaxDepth => DOMAIN Last(chain).gates = {}
WellShaped(c) ==
    /\ IsList(c.transitions) /\ IsList(c.hooks)
    /\ \A s \in DOMAIN c.states : IsList(c.states[s].params)
    /\ \A set \in DOMAIN c.sets : IsList(c.sets[set])
    /\ \A i \in DOMAIN c.transitions :
          LET t == c.transitions[i]
          IN  IsList(t.gates) /\ IsList(t.emits)
    /\ \A x \in PlacedGates(c) : NestsWithin(x[2]) /\ Or(x[2], "min_count", 1) \in Int

ASSUME ProtocolsAssumption == \A c \in Protocols : WellShaped(c)

VARIABLES
    config,             \* the protocol loaded, for the whole run
    ledger,             \* the entries, the genesis first
    visited, bare, around,      \* as in Walk
    fired               \* the transitions taken

vars == <<config, ledger, visited, bare, around, fired>>

(* The last move says the state, if it says one.                            *)
Slip_FirstMove(c, log) ==                        \* a slip; no action uses it
    LET moves == events_of_type(log, "state_transition")
    IN  IF moves # {} /\ Has(log[Min(moves)].fields, "to")
        THEN log[Min(moves)].fields["to"] ELSE initial_state(c)
derive_state_from_ledger(c, log) ==
    LET moves == events_of_type(log, "state_transition")
    IN  IF moves # {} /\ Has(log[Max(moves)].fields, "to")
        THEN log[Max(moves)].fields["to"] ELSE initial_state(c)

state == derive_state_from_ledger(config, ledger)

(* The protocols in whose runs something else than a transition may record  *)
(* a move: a caller, or a protocol that takes the engine's event for its    *)
(* own.                                                                     *)
MovedByHand(c) ==
    \/ "state_transition" \in DOMAIN c.events
    \/ AutoRecordedBy(c, "state_transition") # {}
    \/ \E stray \in Strays(c) : stray[1] = "state_transition"

ClosedWorld == Strays(config) = {}
W == INSTANCE Walk

NewEntry(type, fields, by) == [type |-> type, fields |-> fields, by |-> by]

Init ==
    /\ config \in {c \in Protocols : validate(c) = {}}
    /\ ledger = <<NewEntry("genesis", <<>>, Stamp("engine", "init"))>>
    /\ visited = {initial_state(config)}
    /\ bare = {b \in config.boundaries : b.from = initial_state(config)}
    /\ around = {}
    /\ fired = {}

AppendAll(entries) ==
    /\ Len(ledger) + Len(entries) <= MaxEntries
    /\ ledger' = ledger \o entries

------------------------------------------------------------------------------
(* Recording an event.                                                      *)
Required(e) == {f.name : f \in {f \in config.events[e].fields : ~f.optional}}
Allowed(f) ==
    Or(f, "pattern", Values) \cap Or(f, "values", Values)

validate_event_fields(e, fields) ==
    /\ Required(e) \subseteq DOMAIN fields
    /\ \A f \in config.events[e].fields :
          f.name \in DOMAIN fields => fields[f.name] \in Allowed(f)

Foreseen(e) ==
    IF producers_of(config, e) = {}
    THEN ~config.events[e].restricted /\ ~config.lint.require_producers
    ELSE \E p \in DeclaredProducers(config, e) : \A window \in p.windows : state \in window

(* What callers send: a declared event with fields it declares or further   *)
(* ones, or a stray.                                                        *)
Sendable(e) ==
    UNION {[names -> Values] : names \in SUBSET (FieldNames(config, e) \cup Further(config))}
Inputs == (UNION {{e} \X Sendable(e) : e \in DOMAIN config.events}) \cup Strays(config)

RecordedAs(e, fields, by) ==
    /\ ClosedWorld => Foreseen(e)
    /\ AppendAll(<<NewEntry(e, fields, by)>>)
    /\ UNCHANGED <<config, visited, bare, around, fired>>

(* An undeclared event passes, with whatever fields it has.                 *)
cmd_event(e, fields) ==
    /\ Has(config.events, e) =>
          ~config.events[e].restricted /\ validate_event_fields(e, fields)
    /\ RecordedAs(e, fields, Stamp("agent", "cli"))

cmd_authed_event(e, fields) ==
    /\ Has(config.events, e) /\ config.events[e].restricted
    /\ validate_event_fields(e, fields)
    /\ RecordedAs(e, fields, Stamp("authed", "cli"))

(* The daemon records any declared event, under the name of its peer.       *)
handle_record_event(e, fields) ==
    /\ Has(config.events, e) /\ validate_event_fields(e, fields)
    /\ \E by \in DaemonStamps(config) : RecordedAs(e, fields, by)

cmd_set_complete(set, member) ==
    /\ member \in Range(config.sets[set])
    /\ AppendAll(<<NewEntry("set_member_complete", [set |-> set, member |-> member],
                             Stamp("agent", "cli"))>>)
    /\ UNCHANGED <<config, visited, bare, around, fired>>

(* Only what a hook records is left of its evaluation; its fields are not   *)
(* validated.                                                               *)
cmd_hook_eval(request) ==
    LET records == auto_records(config, ledger, request)
    IN  /\ records # <<>>
        /\ AppendAll([i \in DOMAIN records |->
              NewEntry(records[i].event, records[i].fields, Stamp("agent", "hook-eval"))])
        /\ UNCHANGED <<config, visited, bare, around, fired>>

------------------------------------------------------------------------------
(* Taking a transition.                                                     *)

(* The parameters of the state to enter, each drawn from a set.             *)
CompletedIn(set) == completed_members_for_set(ledger, set, "set_member_complete", "member")
(* The members in the order they were first completed in: the last of them. *)
LastCompleted(set) ==
    LET done == {n \in events_of_type(ledger, "set_member_complete") :
                    /\ Has(ledger[n].fields, "set") /\ ledger[n].fields["set"] = set
                    /\ Has(ledger[n].fields, "member")}
        first == {n \in done : \A m \in done :
                    ledger[m].fields["member"] = ledger[n].fields["member"] => n <= m}
    IN  {ledger[n].fields["member"] : n \in {n \in first : \A m \in first : m <= n}}
FirstLeft(set) ==
    LET left == {k \in DOMAIN config.sets[set] : config.sets[set][k] \notin CompletedIn(set)}
    IN  {config.sets[set][k] : k \in {k \in left : \A j \in left : k <= j}}

Drawn(p) ==
    CASE Or(p, "source", "values") = "current" -> FirstLeft(p.set)
      [] Or(p, "source", "values") = "last_completed" -> LastCompleted(p.set)
      [] OTHER -> {Joined}

BoundOnEntry(params, values) ==
    LET drawn == {k \in DOMAIN params : values[k] # {}}
        names == {params[k].name : k \in drawn}
        last(name) == Max({k \in drawn : params[k].name = name})
    IN  [v \in {<<"var", name>> : name \in names} |->
            CHOOSE x \in values[last(v[2])] : TRUE]
build_state_params(s) ==
    LET params == config.states[s].params
    IN  BoundOnEntry(params, [k \in DOMAIN params |-> Drawn(params[k])])

(* The arguments in order: one with a key binds it, one without the next    *)
(* name the transition lists, and is dropped when none is left.  The last   *)
(* to bind a name wins, and any wins over what the state draws.             *)
BoundBy(i, args, k) ==
    LET names == config.transitions[i].args
        unkeyed == {j \in 1..k : args[j][1] = ""}
    IN  IF args[k][1] # "" THEN {args[k][1]}
        ELSE {names[n] : n \in {Cardinality(unkeyed)} \cap DOMAIN names}
BoundArgs(i, args) ==
    LET binding(name) == {k \in DOMAIN args : name \in BoundBy(i, args, k)}
    IN  [v \in {<<"var", name>> : name \in UNION {BoundBy(i, args, k) : k \in DOMAIN args}} |->
            args[Max(binding(v[2]))][2]]
ParamsFor(i, args) == Over(BoundArgs(i, args), build_state_params(config.transitions[i].to))

Context(i, args, world) ==
    [ledger |-> ledger, config |-> config, world |-> world, event_fields |-> <<>>,
     params |-> ParamsFor(i, args)]

Candidates(command) == Group(config, state, command)
Passing(command, args, world) ==
    {i \in Candidates(command) :
        evaluate_gates(config.transitions[i].gates, Context(i, args, world))}
prepare_transition(command, args, world) ==
    LET passing == Passing(command, args, world)
    IN  {i \in passing : \A j \in passing : i <= j}

(* The fields of an emit, or none when it blocks the transition: the last   *)
(* value the ledger holds of each name, the parameters, and what the emit's *)
(* own commands print.                                                      *)
LastFields ==
    LET holding(f) == {n \in DOMAIN ledger : Has(ledger[n].fields, f)}
    IN  [v \in {<<"var", f>> : f \in UNION {DOMAIN ledger[n].fields : n \in DOMAIN ledger}} |->
            ledger[Max(holding(v[2]))].fields[v[2]]]

Prints(emit, world) ==
    LET commands == Or(emit, "commands", <<>>)
        runs(name) == {<<dir, commands[name]>> : dir \in resolve_anchor(Or(emit, "anchor", <<"lit", "project">>))}
    IN  IF \E name \in DOMAIN commands : runs(name) \cap DOMAIN world.outputs = {} THEN {}
        ELSE {[v \in {<<"var", name>> : name \in DOMAIN commands} |->
                 world.outputs[CHOOSE run \in runs(v[2]) : TRUE]]}

resolve_emit(emit, params, world) ==
    {[f \in DOMAIN emit.fields |-> Resolved(emit.fields[f], vs)] : vs \in
        {vs \in {Over(printed, Over(params, LastFields)) : printed \in Prints(emit, world)} :
            \A f \in DOMAIN emit.fields : ~Unresolved(emit.fields[f], vs)}}

(* The entries a transition appends: itself, an attestation for each gate   *)
(* that leaves one, then its emits.                                         *)
Moved(t) ==
    NewEntry("state_transition", [from |-> state, to |-> t.to, command |-> t.command],
             Stamp("engine:transition", t.command))
Attested(t) ==
    LET leaving == InOrder({k \in DOMAIN t.gates : Attests(t.gates[k])})
    IN  [n \in DOMAIN leaving |->
            NewEntry("gate_attestation",
                     [gate_type |-> t.gates[leaving[n]].type, transition_command |-> t.command],
                     Stamp("engine:transition", t.command))]
Emitted(t, params, world) ==
    [k \in DOMAIN t.emits |->
        NewEntry(t.emits[k].event, CHOOSE f \in resolve_emit(t.emits[k], params, world) : TRUE,
                 Stamp("engine:emit", t.command))]

cmd_transition(command, args, world) ==
    \E i \in prepare_transition(command, args, world) :
        LET t == config.transitions[i]
            params == ParamsFor(i, args)
        IN  /\ \A k \in DOMAIN t.emits : resolve_emit(t.emits[k], params, world) # {}
            /\ AppendAll(<<Moved(t)>> \o Attested(t) \o Emitted(t, params, world))
            /\ visited' = visited \cup {t.to}
            /\ bare' = W!BareAfter(t)
            /\ around' = W!AroundAfter(t)
            /\ fired' = fired \cup {i}
            /\ UNCHANGED config

(* What a caller may write after a command: nothing, or one value.          *)
Arguments == {<<>>} \cup {<<<<"", v>>>> : v \in Values}

Next ==
    \/ \E x \in Inputs :
          \/ cmd_event(x[1], x[2])
          \/ cmd_authed_event(x[1], x[2])
          \/ handle_record_event(x[1], x[2])
    \/ \E set \in DOMAIN config.sets : \E member \in Range(config.sets[set]) :
          cmd_set_complete(set, member)
    \/ \E request \in Requests(config) : cmd_hook_eval(request)
    \/ \E command \in Commands(config), args \in Arguments, world \in Worlds :
          cmd_transition(command, args, world)

Spec == Init /\ [][Next]_vars

------------------------------------------------------------------------------
(* Properties.                                                              *)

(* The engine's own events are its own: a protocol neither declares one nor *)
(* has a hook record one.  Nothing checks it.                               *)
OwnVocabulary(c) ==
    /\ DOMAIN c.events \cap ENGINE_EVENTS = {}
    /\ \A h \in DOMAIN c.hooks :
          Has(c.hooks[h], "auto_record") => c.hooks[h].auto_record.event_type \notin ENGINE_EVENTS

(* A gate that needs the events lint says it requires: no negation stands   *)
(* in another, a count is no multiple of 2^32, and a set has a member.      *)
NeedsWhatItNames(c, g) ==
    /\ \A chain \in Chains(g) : \A m, n \in Above(chain, {"not"}) : m = n
    /\ \A h \in Subtree(g) :
          /\ h.type = "ledger_has_event" /\ Or(h, "min_count", 1) >= 1 =>
                Or(h, "min_count", 1) % U32 # 0
          /\ h.type = "set_covered" /\ Has(h, "set") /\ h.set \in DOMAIN c.sets =>
                DOMAIN c.sets[h.set] # {}
Literally(c) ==
    \A i \in DOMAIN c.transitions : \A k \in DOMAIN c.transitions[i].gates :
        NeedsWhatItNames(c, c.transitions[i].gates[k])

(* Nobody writes text that reads as an unresolved placeholder.              *)
EmitTexts(emit) == {v[2] : v \in {v \in Range(emit.fields) : v[1] = "lit"}}
TransitionTexts(t) ==
    {t.from, t.to, t.command} \cup {g.type : g \in Range(t.gates)}
    \cup UNION {EmitTexts(emit) : emit \in Range(t.emits)}
HookTexts(hook) ==
    IF Has(hook, "auto_record")
    THEN {v[2] : v \in Range(hook.auto_record.fields) \ {<<"file">>}} ELSE {}
Texts(c) ==
    Values
    \cup (UNION {Range(stray[2]) : stray \in Strays(c)})
    \cup DOMAIN c.sets \cup (UNION {Range(c.sets[set]) : set \in DOMAIN c.sets})
    \cup (UNION {TransitionTexts(t) : t \in Edges(c)})
    \cup (UNION {HookTexts(c.hooks[h]) : h \in DOMAIN c.hooks})
    \cup (UNION {request.file : request \in Requests(c)})
    \cup (UNION {Range(world.outputs) : world \in Worlds})
PlainText(c) == Literal \notin Texts(c)

(* In the closed world a transition that lint's errors prove can never be   *)
(* taken is never taken: an event an L1 or L2 error says cannot be there is *)
(* not.                                                                     *)
FindingsAreReal == ClosedWorld => fired \cap unsatisfiable(config) = {}

(* Whatever recorded an event the protocol declares, lint counts its stamp  *)
(* among those a predicate on that event may ask for: L8 calls no filter    *)
(* dead that some entry would pass.                                         *)
StampsAreProducible ==
    \A n \in DOMAIN ledger :
        Has(config.events, ledger[n].type) =>
            ledger[n].by \in producible_stamps(config, {ledger[n].type})

(* A run that gets round a boundary does so over a route L3 reports, unless *)
(* a move may be recorded by hand.                                          *)
BoundaryHeld == W!BoundaryHeld

(* What the ledger says of the state is always a walk over the transitions  *)
(* from the initial state, whatever else is recorded in between, unless a   *)
(* move may be recorded by hand.  If it may, a transition is still taken    *)
(* from the state the ledger says, and from no other.                       *)
ImplementsWalk == W!WalkSpec

(* The transitions that spend evidence: gated on an event since the last of *)
(* the kind that the transition itself, and nothing else, emits, once.      *)
(* Each field of that kind that the window is keyed on is emitted as it is  *)
(* asked for, no key is a parameter that the filter does not ask for too,   *)
(* and the emit's own commands shadow none: a parameter the caller leaves   *)
(* out is filled in for the emit from the ledger, and not for the gate.     *)
Spends(i, g, emit) ==
    LET keyed == filter_spec(g, "since_filter")
        asked == filter_spec(g, "filter")
        fields == FieldNames(config, emit.event)
        emits == config.transitions[i].emits
    IN  /\ g.type = "ledger_has_event_since"
        /\ Or(g, "since", <<"last_transition">>) = <<"last_event_of_type", emit.event>>
        /\ EmittedBy(config, emit.event) = {i}
        /\ \A m, n \in DOMAIN emits :
              emits[m].event = emit.event /\ emits[n].event = emit.event => m = n
        /\ \A f \in DOMAIN keyed :
              /\ fields = {} \/ f \in fields => Has(emit.fields, f) /\ emit.fields[f] = keyed[f]
              /\ keyed[f][1] = "lit" \/ keyed[f] \in Range(asked)
        /\ \A v \in Range(keyed) \cup Range(asked) :
              v[1] = "var" => v[2] \notin DOMAIN Or(emit, "commands", <<>>)

SameSubject(g, emit, m, n) ==
    \A f \in DOMAIN filter_spec(g, "filter") \cap DOMAIN emit.fields :
        filter_spec(g, "filter")[f] = emit.fields[f] =>
            Has(ledger[n].fields, f) /\ ledger[n].fields[f] = ledger[m].fields[f]

(* Between two times such a transition is taken for the same subject there  *)
(* is new evidence of that subject: in no protocol the program accepts does *)
(* one piece of evidence pass the gate twice.                               *)
EvidenceSpentOnce ==
    \A i \in fired :
        LET t == config.transitions[i]
        IN  \A k \in DOMAIN t.gates, j \in DOMAIN t.emits :
              Spends(i, t.gates[k], t.emits[j]) =>
                \A m, n \in events_of_type(ledger, t.emits[j].event) :
                    /\ m < n
                    /\ ledger[m] = ledger[n]
                    /\ ledger[n].by = Stamp("engine:emit", t.command)
                    => \E e \in events_of_type(ledger, t.gates[k].event) :
                          m < e /\ e < n /\ SameSubject(t.gates[k], t.emits[j], m, e)

(* A gate that reads only what its own actor recorded.                      *)
Actor == <<"var", "agent_id">>
OfActor(g, key) == LET spec == filter_spec(g, key) IN Has(spec, "agent_id") /\ spec["agent_id"] = Actor
OwnGate(g) ==
    /\ g.type \in {"ledger_has_event", "ledger_lacks_event", "ledger_has_event_since"}
    /\ OfActor(g, "filter")
    /\ Or(g, "since", <<"last_transition">>)[1] = "last_event_of_type" => OfActor(g, "since_filter")

(* What another agent records, unless it is a move, never changes whether   *)
(* such a rule fires for this one.                                          *)
SiblingsApart ==
    [][\A h \in DOMAIN config.hooks, request \in Requests(config), world \in Worlds :
          LET hook == config.hooks[h]
              added == (Len(ledger) + 1)..Len(ledger')
          IN  /\ Has(hook, "gate") /\ OwnGate(hook.gate)
              /\ \A n \in added : /\ ledger'[n].type # "state_transition"
                                   /\ Has(ledger'[n].fields, "agent_id")
                                   /\ ledger'[n].fields["agent_id"] # request.agent_id
              => eval_hook_condition(hook, config, ledger', request, world)
                   = eval_hook_condition(hook, config, ledger, request, world)]_vars

(* A rule or a monitor that fires is heard, the decision is not to allow,   *)
(* unless `sahjhan validate` finds an error in the protocol.                *)
RulesSpeak ==
    \A request \in Requests(config), world \in Worlds :
        /\ \/ Firing(config, ledger, request, world) # {}
           \/ eval_monitors(config, ledger, derive_current_state(config, ledger)) # {}
        /\ evaluate_hooks(config, ledger, request, world) = "allow"
        => validate_deep(config) # {}

(* An event L5 calls dead decides nothing: recording it changes neither the *)
(* candidate any command would take nor whether any gated rule fires.  (The *)
(* entries snapshot_compare reads are no reference to L5, and are excepted.)*)
DeadIsInert ==
    [][{ledger'[n].type : n \in (Len(ledger) + 1)..Len(ledger')}
            \subseteq l5_dead_vocabulary(config) \ {"snapshot"}
        => \A world \in Worlds :
              /\ \A command \in Commands(config), args \in Arguments :
                    prepare_transition(command, args, world)'
                        = prepare_transition(command, args, world)
              /\ \A h \in DOMAIN config.hooks, request \in Requests(config) :
                    Has(config.hooks[h], "gate") =>
                        eval_hook_condition(config.hooks[h], config, ledger', request, world)
                            = eval_hook_condition(config.hooks[h], config, ledger, request, world)]_vars
=============================================================================
