-------------------------------- MODULE Lint --------------------------------
(***************************************************************************)
(* What sahjhan lint says of a protocol, read from its configuration alone  *)
(* (lint/).  The similarity of predicates (L6), wording and the scan of SQL *)
(* text are left out: a predicate carries the event names it quotes and the *)
(* recorded_by comparisons it makes.                                        *)
(*                                                                          *)
(* An optional value is the set that holds it, empty when it is absent: the *)
(* windows of a producer, the states of a hook, the trusted callers.        *)
(***************************************************************************)
EXTENDS Gates, Paths

------------------------------------------------------------------------------
(* Who can record an event: the producers declared, the transitions that    *)
(* emit it, the hooks that auto_record it, and the engine.                  *)
DeclaredProducers(config, e) ==
    IF Has(config.events, e) THEN config.events[e].producers ELSE {}

EmittedBy(config, e) ==
    {i \in DOMAIN config.transitions :
        \E k \in DOMAIN config.transitions[i].emits : config.transitions[i].emits[k].event = e}

AutoRecordedBy(config, e) ==
    {h \in DOMAIN config.hooks :
        Has(config.hooks[h], "auto_record") /\ config.hooks[h].auto_record.event_type = e}

producers_of(config, e) ==
    {[id |-> <<"declared", p.id>>, windows |-> p.windows] : p \in DeclaredProducers(config, e)}
    \cup {[id |-> <<"transition", i>>, windows |-> {{config.transitions[i].from}}]
            : i \in EmittedBy(config, e)}
    \cup {[id |-> <<"hook", h>>, windows |-> config.hooks[h].states]
            : h \in AutoRecordedBy(config, e)}
    \cup {[id |-> <<"engine", e>>, windows |-> {}] : x \in {e} \cap ENGINE_EVENTS}

------------------------------------------------------------------------------
(* The events a gate refers to: whether it can pass only if the event is    *)
(* there, and whether it is one branch among others.                        *)
Ref(e, required, disjunctive) ==
    [event |-> e, required |-> required, disjunctive |-> disjunctive]

(* The references of a leaf: the event, and whether it must exist.          *)
LeafRefs(g, config) ==
    CASE g.type = "ledger_has_event" -> {<<g.event, Or(g, "min_count", 1) >= 1>>}
      [] g.type = "ledger_has_event_since" ->
            {<<g.event, TRUE>>} \cup
            {<<since[2], FALSE>> : since \in
                {s \in {Or(g, "since", <<"last_transition">>)} : s[1] \in {"last_event_of_type", "other"}}}
      [] g.type \in {"ledger_lacks_event", "min_elapsed"} -> {<<g.event, FALSE>>}
      [] g.type = "set_covered" -> {<<Or(g, "event", "set_member_complete"), TRUE>>}
      [] g.type = "no_violations" ->
            {<<"protocol_violation", FALSE>>, <<"violation_resolved", FALSE>>}
      [] g.type = "query" ->
            {<<e, FALSE>> : e \in UNION {sql.mentions \cap DOMAIN config.events
                                           : sql \in resolve_gate_sql(config, g)}}
      [] OTHER -> {}

(* The chains to the leaves.  not turns requirements off below it, and on   *)
(* again below the next one; any_of and k_of_n make everything below them   *)
(* a branch.                                                                *)
Leaves(g) == {c \in Chains(g) : Reached(c) /\ Last(c).type \notin COMPOSITES}
Above(chain, types) == {n \in 1..(Len(chain) - 1) : chain[n].type \in types}
Positive(chain) == Cardinality(Above(chain, {"not"})) % 2 = 0
Disjunctive(chain) == Above(chain, {"any_of", "k_of_n"}) # {}

gate_event_refs(g, config) ==
    UNION {{Ref(l[1], l[2] /\ Positive(c), Disjunctive(c)) : l \in LeafRefs(Last(c), config)}
             : c \in Leaves(g)}

RefsOf(config, i) ==
    UNION {gate_event_refs(config.transitions[i].gates[k], config)
             : k \in DOMAIN config.transitions[i].gates}

------------------------------------------------------------------------------
(* L1: an event a gate requires has a producer.  A reference is at fault    *)
(* fatally, doubtfully, or not at all.                                      *)
Judged(r) == r.required /\ r.event \notin ENGINE_EVENTS

classify(config, r) ==
    IF ~Judged(r) THEN "none"
    ELSE IF ~Has(config.events, r.event)
         THEN IF DOMAIN config.events = {} THEN "none" ELSE "doubtful"
    ELSE IF producers_of(config, r.event) # {} THEN "none"
    ELSE IF config.events[r.event].restricted \/ config.lint.require_producers
         THEN "fatal" ELSE "none"

Unproduced(config, i) ==
    {r \in RefsOf(config, i) : classify(config, r) = "fatal" /\ ~r.disjunctive}

Level(fatal) == IF fatal THEN "error" ELSE "warning"
l1_unsatisfiable_gates(config) ==
    {[check |-> "L1", level |-> Level(classify(config, x[2]) = "fatal" /\ ~x[2].disjunctive),
      at |-> <<"transition", x[1]>>] : x \in
        {x \in UNION {{i} \X RefsOf(config, i) : i \in DOMAIN config.transitions} :
            classify(config, x[2]) # "none"}}
    \cup
    {[check |-> "L1", level |-> Level(classify(config, x[2]) = "fatal" /\ ~x[2].disjunctive),
      at |-> <<"hook", x[1]>>] : x \in
        {x \in UNION {{h} \X gate_event_refs(config.hooks[h].gate, config)
                        : h \in {h \in DOMAIN config.hooks : Has(config.hooks[h], "gate")}} :
            classify(config, x[2]) # "none"}}

------------------------------------------------------------------------------
(* L2: some producer of it can run before the gate is checked, in a state   *)
(* that can precede the transition's or is it.                              *)
Slip_NotWhileThere(config, i) ==                 \* a slip; no action uses it
    ancestors_of(Edges(config), config.transitions[i].from)
reachable_before(config, i) ==
    ancestors_of(Edges(config), config.transitions[i].from)
        \cup {config.transitions[i].from}

Usable(p, states) == \A window \in p.windows : window \cap states # {}

TooLate(config, i) ==
    LET before == reachable_before(config, i)
    IN  {r \in RefsOf(config, i) :
            /\ Judged(r)
            /\ producers_of(config, r.event) # {}
            /\ \A p \in producers_of(config, r.event) : ~Usable(p, before)}

l2_temporally_unsatisfiable(config) ==
    UNION {{[check |-> "L2", level |-> Level(~r.disjunctive), at |-> <<"transition", i>>]
              : r \in TooLate(config, i)} : i \in DOMAIN config.transitions}

(* The transitions L1 and L2 prove can never fire.                          *)
unsatisfiable(config) ==
    {i \in DOMAIN config.transitions :
        Unproduced(config, i) # {} \/ \E r \in TooLate(config, i) : ~r.disjunctive}

------------------------------------------------------------------------------
(* L3: a boundary names two states, some transition carries its tag, and no *)
(* route around it is left.  L4: a state that is not terminal has an exit   *)
(* that can be taken.                                                       *)
l3_boundary_route_around(config) ==
    {b \in config.boundaries :
        \/ ~({b.from, b.to} \subseteq DOMAIN config.states)
        \/ \A e \in Edges(config) : e.boundary # b.name
        \/ RoutedAround(config, b)}

l4_dead_end_states(config) ==
    {s \in DOMAIN config.states :
        ~config.states[s].terminal /\ Outgoing(config, s) \subseteq unsatisfiable(config)}

------------------------------------------------------------------------------
(* L5: an event is produced or read by something.                           *)
Slip_TransitionsOnly(config) ==                  \* a slip; no action uses it
    {r.event : r \in UNION {RefsOf(config, i) : i \in DOMAIN config.transitions}}
ChecksOf(hook) == IF Has(hook, "check") THEN {hook.check} ELSE {}
CheckPredicates(hook) == {check.sql : check \in {check \in ChecksOf(hook) : Has(check, "sql")}}
consumed_events(config) ==
    {r.event : r \in UNION {RefsOf(config, i) : i \in DOMAIN config.transitions}}
    \cup (UNION {
        (IF Has(hook, "gate") THEN {r.event : r \in gate_event_refs(hook.gate, config)} ELSE {})
        \cup (UNION {sql.mentions \cap DOMAIN config.events : sql \in CheckPredicates(hook)})
        \cup (UNION {check.event_types : check \in ChecksOf(hook)})
            : hook \in {config.hooks[h] : h \in DOMAIN config.hooks}})
    \cup (UNION {config.monitors[m].event_types : m \in DOMAIN config.monitors})
    \cup (UNION {r.reads : r \in config.renders})
    \cup (UNION {config.queries[q].mentions \cap DOMAIN config.events : q \in DOMAIN config.queries})

l5_dead_vocabulary(config) ==
    {e \in DOMAIN config.events \ ENGINE_EVENTS :
        producers_of(config, e) = {} /\ e \notin consumed_events(config)}

------------------------------------------------------------------------------
(* L7: an event a gate requires supplies evidence at least as strong as the *)
(* gate's own requirement, or the one it inherits.                          *)
Rank(config, level) ==
    {k \in DOMAIN config.attestation : config.attestation[k] = level}

AskedOf(chain, inherited) ==
    LET asking == {n \in DOMAIN chain : Has(chain[n], "requires_attestation")}
    IN  IF asking = {} THEN inherited ELSE chain[Max(asking)].requires_attestation

collect_attested_refs(g, config, inherited) ==
    UNION {{<<l[1], AskedOf(c, inherited)>> : l \in
               {l \in LeafRefs(Last(c), config) :
                   l[2] /\ l[1] \notin ENGINE_EVENTS /\ Has(config.events, l[1])}}
             : c \in {c \in Leaves(g) : Positive(c)}}

AttestedRefs(config, i) ==
    UNION {collect_attested_refs(config.transitions[i].gates[k], config,
               Or(config.transitions[i], "requires_attestation", ""))
             : k \in DOMAIN config.transitions[i].gates}

Forgeable(config, i) ==
    {x \in AttestedRefs(config, i) :
        \E asked \in Rank(config, x[2]), given \in Rank(config, config.events[x[1]].attestation) :
            given < asked}

l7_forgeable_evidence(config) ==
    {i \in DOMAIN config.transitions : Forgeable(config, i) # {}}

------------------------------------------------------------------------------
(* L8: a predicate filters on a stamp some writer of the events it names    *)
(* can leave.  A stamp is the pair of the write path and what it names.     *)
Stamp(path, name) == <<path, name>>

DaemonStamps(config) ==
    IF config.trusted_callers = {} THEN {Stamp("daemon", "unverified")}
    ELSE {Stamp("hook", path) : path \in UNION config.trusted_callers}

Slip_NoHookEval(config, names) ==                \* a slip; no action uses it
    DaemonStamps(config)
    \cup {Stamp(IF config.events[e].restricted THEN "authed" ELSE "agent", "cli") : e \in names}
    \cup (UNION {{Stamp("engine:emit", config.transitions[i].command) : i \in EmittedBy(config, e)}
                  : e \in names})
WriterStamps(config, names) ==
    Slip_NoHookEval(config, names)
    \cup {Stamp("agent", "hook-eval") : x \in UNION {AutoRecordedBy(config, e) : e \in names}}

producible_stamps(config, events) ==
    LET names == IF events = {} THEN DOMAIN config.events ELSE events \cap DOMAIN config.events
    IN  {Stamp("engine", "init")}
        \cup {Stamp("engine:transition", config.transitions[i].command)
                : i \in DOMAIN config.transitions}
        \cup (IF names = {} THEN {} ELSE WriterStamps(config, names))

InlinePredicates(g) == {h.sql : h \in {h \in Subtree(g) : h.type = "query" /\ Has(h, "sql")}}
all_predicates(config) ==
    (UNION {UNION {InlinePredicates(config.transitions[i].gates[k])
                    : k \in DOMAIN config.transitions[i].gates} : i \in DOMAIN config.transitions})
    \cup (UNION {InlinePredicates(config.hooks[h].gate)
                  : h \in {h \in DOMAIN config.hooks : Has(config.hooks[h], "gate")}})
    \cup (UNION {CheckPredicates(config.hooks[h]) : h \in DOMAIN config.hooks})
    \cup {config.queries[q] : q \in DOMAIN config.queries}

l8_provenance_filters(config) ==
    {sql \in all_predicates(config) :
        \E f \in sql.stamps :
            f[1] # "import" /\ f \notin producible_stamps(config, sql.mentions \cap DOMAIN config.events)}
=============================================================================
