------------------------------- MODULE Config -------------------------------
(***************************************************************************)
(* Which configurations the program accepts (config/mod.rs).  validate runs *)
(* on every command, and so on the two that seal; validate_deep, which adds *)
(* the rest, only on `sahjhan validate`.  A finding is the pair of the rule *)
(* broken and the place it is broken at; its wording is left out, and so is *)
(* what the TOML parser refuses before any rule is read.                    *)
(***************************************************************************)
EXTENDS Hooks

Broken(rule, places) == {<<rule, place>> : place \in places}

(* Every gate of a protocol with the place of the tree it stands in.        *)
InTransition(config, i) ==
    UNION {Subtree(config.transitions[i].gates[k]) : k \in DOMAIN config.transitions[i].gates}
InHook(hook) == IF Has(hook, "gate") THEN Subtree(hook.gate) ELSE {}
PlacedGates(config) ==
    (UNION {{<<<<"transition", i>>, g>> : g \in InTransition(config, i)}
             : i \in DOMAIN config.transitions})
    \cup (UNION {{<<<<"hook", h>>, g>> : g \in InHook(config.hooks[h])} : h \in DOMAIN config.hooks})

FieldNames(config, e) == {f.name : f \in config.events[e].fields}

------------------------------------------------------------------------------
(* Windows: what each gate of a tree may say of since and its filters.      *)

(* Decidable only of an event declared with fields.                         *)
check_filter_field(config, e, field) ==
    Has(config.events, e) /\ config.events[e].fields # {} /\ field \notin FieldNames(config, e)

(* A key names a field of the baseline, a {{event.f}} one of the event      *)
(* counted: an anchor that matches nothing would widen the window.          *)
Slip_ChecksCounted(config, g) ==                 \* a slip; no action uses it
    LET spec == filter_spec(g, "since_filter")
    IN  \E k \in DOMAIN spec : check_filter_field(config, Or(g, "event", ""), k)
check_since_filter(config, g) ==
    LET spec == filter_spec(g, "since_filter")
    IN  \/ DOMAIN Or(g, "since_filter", <<>>) # DOMAIN spec
        \/ \E type \in resolve_gate_since(config, g), k \in DOMAIN spec :
              check_filter_field(config, type, k)
        \/ \E f \in candidate_refs(spec) :
              f = "" \/ check_filter_field(config, Or(g, "event", ""), f)

check_gate_windows(config, g) ==
    \/ /\ g.type = "ledger_has_event_since"
       /\ resolve_gate_since(config, g) = {} \/ check_since_filter(config, g)
    \/ candidate_refs(filter_spec(g, "filter")) # {}

(* An anchor that names no directory, or that nothing reads.                *)
check_gate_anchor(g) ==
    gate_working_dir(g) = {} \/ (Has(g, "anchor") /\ g.type \notin ANCHORED_GATE_TYPES)
check_emit_anchor(emit) ==
    /\ Has(emit, "anchor")
    /\ resolve_anchor(emit.anchor) = {} \/ DOMAIN Or(emit, "commands", <<>>) = {}

------------------------------------------------------------------------------
(* validate: what is refused wherever the configuration is loaded.          *)

Initials(config) == {s \in DOMAIN config.states : config.states[s].initial}

UnknownSets(config) ==
    {i \in DOMAIN config.transitions :
        \E k \in DOMAIN config.transitions[i].gates :
            LET g == config.transitions[i].gates[k]
            IN  g.type = "set_covered" /\ Has(g, "set") /\ g.set \notin DOMAIN config.sets}

(* An emit appends with no proof, so it may not write a restricted event.   *)
EmitRefused(config, emit) ==
    ~Has(config.events, emit.event) \/ config.events[emit.event].restricted
Emitting(config, Test(_)) ==
    {i \in DOMAIN config.transitions :
        \E k \in DOMAIN config.transitions[i].emits : Test(config.transitions[i].emits[k])}

BadParams(config) ==
    {s \in DOMAIN config.states :
        \E k \in DOMAIN config.states[s].params :
            LET p == config.states[s].params[k]
            IN  p.set \notin DOMAIN config.sets
                \/ Or(p, "source", "values") \notin {"values", "current", "last_completed"}}

ENVELOPE_COLUMNS == {"schema", "seq", "prev", "hash", "ts", "type", "engine", "protocol",
                     "recorded_by"}
BadFields(config) ==
    {e \in DOMAIN config.events : \E f \in config.events[e].fields :
        f.type \notin {"string", "number", "boolean"} \/ f.name \in ENVELOPE_COLUMNS}

validate(config) ==
    LET gates == PlacedGates(config)
    IN  Broken("initial", {Cardinality(Initials(config))} \ {1})
        \cup Broken("states", {i \in DOMAIN config.transitions :
                 ~({config.transitions[i].from, config.transitions[i].to} \subseteq DOMAIN config.states)})
        \cup Broken("sets", UnknownSets(config))
        \cup Broken("emits", Emitting(config, LAMBDA emit : EmitRefused(config, emit)))
        \cup Broken("params", BadParams(config))
        \cup Broken("fields", BadFields(config))
        \cup Broken("windows", {x[1] : x \in {y \in gates : check_gate_windows(config, y[2])}})
        \cup Broken("anchors", {x[1] : x \in {y \in gates : check_gate_anchor(y[2])}})
        \cup Broken("emit anchors", Emitting(config, check_emit_anchor))

------------------------------------------------------------------------------
(* validate_deep: the shape of each gate.                                   *)

KnownGates ==
    ("file_exists" :> {"path"}) @@ ("files_exist" :> {"paths"})
    @@ ("command_succeeds" :> {"cmd"}) @@ ("command_output" :> {"cmd", "expect"})
    @@ ("ledger_has_event" :> {"event"}) @@ ("ledger_has_event_since" :> {"event", "since"})
    @@ ("ledger_lacks_event" :> {"event"}) @@ ("set_covered" :> {"set"})
    @@ ("min_elapsed" :> {"event", "seconds"}) @@ ("no_violations" :> {})
    @@ ("field_not_empty" :> {"field"}) @@ ("snapshot_compare" :> {"cmd", "extract", "reference"})

Malformed(config, g) ==
    CASE g.type \in {"any_of", "all_of"} -> g.gates = <<>>
      [] g.type = "not" -> Len(g.gates) # 1
      [] g.type = "k_of_n" -> Or(g, "k", 0) < 1 \/ Or(g, "k", 0) > Len(g.gates)
      [] g.type = "query" ->
            \/ Has(g, "sql") = Has(g, "query")
            \/ Has(g, "query") /\ g.query \notin DOMAIN config.queries
      [] OTHER -> g.type \notin DOMAIN KnownGates \/ ~(KnownGates[g.type] \subseteq DOMAIN g)

(* Only a composite's children are checked in turn.                         *)
validate_gate(config, g) == \E h \in Evaluated(g) : Malformed(config, h)

GateFaults(config) ==
    Broken("gates", {<<"transition", i>> : i \in {i \in DOMAIN config.transitions :
        \E k \in DOMAIN config.transitions[i].gates :
            validate_gate(config, config.transitions[i].gates[k])}})
    \cup Broken("gates", {<<"hook", h>> : h \in {h \in DOMAIN config.hooks :
        Has(config.hooks[h], "gate") /\ validate_gate(config, config.hooks[h].gate)}})
    \cup Broken("queries", {q \in DOMAIN config.queries : Or(config.queries[q], "blank", FALSE)})

------------------------------------------------------------------------------
(* What names something names something that is there.                      *)
Commands(config) == {e.command : e \in {config.transitions[i] : i \in DOMAIN config.transitions}}

(* An alias is a command and its argument; only two commands are looked up. *)
BadAliases(config) ==
    {a \in DOMAIN config.aliases :
        LET target == config.aliases[a]
        IN  \/ Len(target) < 2
            \/ target[1] = "transition" /\ target[2] \notin Commands(config)
            \/ target[1] = "event" /\ target[2] \notin DOMAIN config.events}

BadBatches(config) ==
    {b \in DOMAIN config.batches :
        \/ config.batches[b] = <<>>
        \/ \E step \in Range(config.batches[b]) :
              step.items \notin DOMAIN config.queries \/ step.transition \notin Commands(config)}

BadRenders(config) ==
    {r.target : r \in {r \in config.renders :
        \/ r.template \notin config.templates
        \/ r.trigger = "on_event" /\ ~(r.event_types \subseteq DOMAIN config.events)
        \/ Has(r, "ledger") /\ Has(r, "ledger_template")
        \/ Has(r, "ledger_template") /\ r.ledger_template \notin DOMAIN config.ledgers}}

(* A ledger has a path or a template of one, which names the instance.      *)
BadLedgers(config) ==
    {l \in DOMAIN config.ledgers :
        LET ledger == config.ledgers[l]
        IN  \/ Has(ledger, "path") = Has(ledger, "path_template")
            \/ Has(ledger, "path_template") /\ ~ledger.path_template.has_instance_id}

ReferenceFaults(config) ==
    Broken("aliases", BadAliases(config)) \cup Broken("batches", BadBatches(config))
    \cup Broken("renders", BadRenders(config)) \cup Broken("ledgers", BadLedgers(config))

------------------------------------------------------------------------------
(* Hooks, monitors and guards.                                              *)
Mechanisms(hook) == {"gate", "check", "auto_record"} \cap DOMAIN hook

Slip_AnyAction(config, hook) ==                  \* a slip; no action uses it
    \/ Cardinality(Mechanisms(hook)) # 1
    \/ ~Has(hook, "auto_record") /\ ~Has(hook, "message")
BadHook(config, hook) ==
    \/ Cardinality(Mechanisms(hook)) # 1
    \/ ~Has(hook, "auto_record")
        /\ (Or(hook, "action", "") \notin {"block", "warn"} \/ ~Has(hook, "message"))
    \/ Has(hook, "auto_record")
        /\ (hook.event # "PostToolUse" \/ ~Has(config.events, hook.auto_record.event_type))
    \/ ~((UNION hook.states) \cup Or(hook, "states_not", {}) \subseteq DOMAIN config.states)
    \/ Has(hook, "check")
        /\ hook.check.type \notin {"query", "output_contains_any", "event_count_since_last_transition"}

BadMonitor(config, m) ==
    LET monitor == config.monitors[m]
    IN  \/ \E earlier \in 1..(m - 1) : config.monitors[earlier].name = monitor.name
        \/ monitor.action # "warn"
        \/ ~(UNION monitor.states \subseteq DOMAIN config.states)
        \/ monitor.trigger # "event_count_since_last_transition"

HookFaults(config) ==
    Broken("hooks", {h \in DOMAIN config.hooks : BadHook(config, config.hooks[h])})
    \cup Broken("monitors", {m \in DOMAIN config.monitors : BadMonitor(config, m)})
    \cup Broken("guards", {g.path : g \in {g \in config.write_gated :
             ~(g.writable_in \subseteq DOMAIN config.states)}})

------------------------------------------------------------------------------
(* Evidence, producers, boundaries and the vault.                           *)
BadAttestation(config) ==
    LET levels == config.attestation
    IN  Broken("levels", {k \in DOMAIN levels : \E j \in 1..(k - 1) : levels[j] = levels[k]})
        \cup Broken("event level", {e \in DOMAIN config.events :
                 config.events[e].attestation \notin Range(levels) \cup {""}})
        \cup Broken("transition level", {i \in DOMAIN config.transitions :
                 Or(config.transitions[i], "requires_attestation", "") \notin Range(levels) \cup {""}})

BadProducers(config) ==
    {e \in DOMAIN config.events :
        \/ \E p, q \in config.events[e].producers : p # q /\ p.id = q.id
        \/ \E p \in config.events[e].producers : ~(UNION p.windows \subseteq DOMAIN config.states)}

BadBoundaries(config) ==
    Broken("boundaries", {b.name : b \in {b \in config.boundaries :
        \/ ~({b.from, b.to} \subseteq DOMAIN config.states)
        \/ \E c \in config.boundaries : c # b /\ c.name = b.name}})
    \cup Broken("tags", {i \in DOMAIN config.transitions :
        config.transitions[i].boundary \notin {b.name : b \in config.boundaries} \cup {""}})

BadPolicies(config) ==
    {p.name : p \in {p \in config.vault :
        ~(UNION (p.writable \cup p.readable \cup p.deletable) \subseteq DOMAIN config.states)}}

IntegrityFaults(config) ==
    BadAttestation(config) \cup Broken("producers", BadProducers(config))
    \cup BadBoundaries(config) \cup Broken("vault", BadPolicies(config))

------------------------------------------------------------------------------
(* The whole of it: what is refused, and what is only warned of.            *)
validate_deep(config) ==
    validate(config) \cup GateFaults(config) \cup ReferenceFaults(config)
    \cup HookFaults(config) \cup IntegrityFaults(config)

Unreachable(config) ==
    DOMAIN config.states
        \ (Initials(config) \cup {config.transitions[i].to : i \in DOMAIN config.transitions})

Group(config, s, command) ==
    {i \in DOMAIN config.transitions :
        config.transitions[i].from = s /\ config.transitions[i].command = command}

WithoutFallback(config) ==
    {x \in (DOMAIN config.states) \X Commands(config) :
        LET members == Group(config, x[1], x[2])
        IN  Cardinality(members) > 1 /\ \A i \in members : config.transitions[i].gates # <<>>}

warnings(config) ==
    Broken("terminal", {i \in DOMAIN config.transitions :
        config.transitions[i].from \in DOMAIN config.states
            /\ config.states[config.transitions[i].from].terminal})
    \cup Broken("unreachable", Unreachable(config))
    \cup Broken("no fallback", WithoutFallback(config))
=============================================================================
