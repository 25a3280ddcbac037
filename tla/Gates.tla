------------------------------- MODULE Gates --------------------------------
(***************************************************************************)
(* The gates a transition or a hook is checked against (gates/), as a pure  *)
(* function of the ledger, the configuration, the variables bound for the   *)
(* check and what the outside world answers just then.                      *)
(*                                                                          *)
(* A gate is a record: its type, its gates when it is a composite, and the  *)
(* parameters it was written with, absent ones being absent fields.  A      *)
(* templated value is a pair: <<"lit", v>>, <<"var", name>> for {{name}},   *)
(* <<"sets", s>> for {{sets.s}}, <<"event", f>> for {{event.f}}, or <<"int",*)
(* n>> where the TOML holds no string.  A ledger entry has a type, fields   *)
(* (a function from names to values) and by, the write path that recorded   *)
(* it; its seq is its place less one.                                       *)
(*                                                                          *)
(* ctx.world answers for the outside: paths that exist, commands <<dir,     *)
(* cmd>> that exit 0, what they print and the JSON fields in it, what       *)
(* predicates return, the events old enough; and it orders the events as    *)
(* the process's hash map does.  It may differ at every check.              *)
(***************************************************************************)
EXTENDS Integers, FiniteSetsExt, SequencesExt

CONSTANTS
    U32,                \* how many numbers an unsigned 32-bit integer has
    MaxDepth            \* bound on how deep gates nest

ASSUME BoundsAssumption == U32 \in Nat \ {0} /\ MaxDepth \in Nat

ENGINE_EVENTS == {"genesis", "state_transition", "gate_attestation",
                  "set_member_complete", "_checkpoint", "config_reseal"}

Has(r, k) == k \in DOMAIN r
Or(r, k, default) == IF Has(r, k) THEN r[k] ELSE default

(* What f binds, and what else g does.                                      *)
Over(f, g) == [x \in DOMAIN f \cup DOMAIN g |-> IF x \in DOMAIN f THEN f[x] ELSE g[x]]

(* Some places of a list, in the order of the list.                         *)
InOrder(S) ==
    CHOOSE s \in [1..Cardinality(S) -> S] : \A m, n \in DOMAIN s : m < n => s[m] < s[n]

------------------------------------------------------------------------------
(* Templates and filters.                                                   *)

(* Values bound for {{name}}: the check's own and the sets of the config,   *)
(* comma-joined; the joined text is one value nothing else is equal to.     *)
Joined == "a,b,c"
build_template_vars(ctx) ==
    Over(ctx.params, [r \in {<<"sets", s>> : s \in DOMAIN ctx.config.sets} |-> Joined])

(* resolve_template_plain: an unbound placeholder stays as it is written,   *)
(* which no field of an entry is equal to.                                  *)
Literal == "{{unresolved}}"
Resolved(v, vars) ==
    IF v \in DOMAIN vars THEN vars[v]
    ELSE IF v[1] = "lit" THEN v[2] ELSE Literal
Unresolved(v, vars) == v[1] # "lit" /\ v \notin DOMAIN vars

filter_spec(g, key) ==
    LET table == Or(g, key, <<>>)
    IN  [k \in {k \in DOMAIN table : table[k][1] # "int"} |-> table[k]]

resolve_filter_spec(spec, vars) == [k \in DOMAIN spec |-> Resolved(spec[k], vars)]
gate_filter(g, ctx) ==
    resolve_filter_spec(filter_spec(g, "filter"), build_template_vars(ctx))

entry_matches_filter(entry, filter) ==
    \A k \in DOMAIN filter : Has(entry.fields, k) /\ entry.fields[k] = filter[k]

(* The fields of the candidate a filter is written in terms of, and the     *)
(* bindings a candidate contributes.                                        *)
candidate_refs(spec) ==
    {spec[k][2] : k \in {k \in DOMAIN spec : spec[k][1] = "event"}}
candidate_vars(entry, vars) ==
    Over([r \in {<<"event", f>> : f \in DOMAIN entry.fields} |-> entry.fields[r[2]]], vars)

------------------------------------------------------------------------------
(* Ledger gates.                                                            *)

events_of_type(ledger, type) == {n \in DOMAIN ledger : ledger[n].type = type}

Matching(g, ctx) ==
    LET filter == gate_filter(g, ctx)
    IN  {n \in events_of_type(ctx.ledger, g.event) :
            entry_matches_filter(ctx.ledger[n], filter)}

(* Both bounds are cast to 32 bits as they are read.                        *)
eval_ledger_has_event(g, ctx) ==
    LET matching == Cardinality(Matching(g, ctx))
    IN  /\ matching >= Or(g, "min_count", 1) % U32
        /\ Has(g, "max_count") => matching < g.max_count % U32

eval_ledger_lacks_event(g, ctx) == Matching(g, ctx) = {}

(* The type of the entry a window starts at: a set of one, or empty when    *)
(* since cannot be read.                                                    *)
resolve_since_anchor(config, since) ==
    CASE since = <<"last_transition">> -> {"state_transition"}
      [] since[1] = "last_event_of_type" ->
            {since[2]} \cap (DOMAIN config.events \cup ENGINE_EVENTS)
      [] OTHER -> {}
resolve_gate_since(config, g) ==
    resolve_since_anchor(config, Or(g, "since", <<"last_transition">>))

(* One window for the gate: it starts at the last baseline its filter       *)
(* matches, at the genesis when there is none.                              *)
Slip_AnyBaseline(type, filter, ctx) ==           \* a slip; no action uses it
    events_of_type(ctx.ledger, type)
Baselines(type, filter, ctx) ==
    {n \in events_of_type(ctx.ledger, type) :
        entry_matches_filter(ctx.ledger[n], filter)}
InWindow(c, type, filter, ctx) == \A b \in Baselines(type, filter, ctx) : b < c

(* One window per candidate, keyed on its own fields: it counts until a     *)
(* baseline that shares them lands after it.                                *)
Scopeable(c, fields, ctx) == fields \subseteq DOMAIN ctx.ledger[c].fields

Counted(g, type, ctx) ==
    LET spec == filter_spec(g, "since_filter")
        vars == build_template_vars(ctx)
        fields == candidate_refs(spec)
        anchor(c) == resolve_filter_spec(spec,
            IF fields = {} THEN vars ELSE candidate_vars(ctx.ledger[c], vars))
    IN  {c \in Matching(g, ctx) :
            /\ c > 1 \/ fields # {}
            /\ Scopeable(c, fields, ctx)
            /\ InWindow(c, type, anchor(c), ctx)}

AtLeastOne(n) == IF n < 1 THEN 1 ELSE n

eval_ledger_has_event_since(g, ctx) ==
    \E type \in resolve_gate_since(ctx.config, g) :
        Cardinality(Counted(g, type, ctx)) >= AtLeastOne(Or(g, "min_count", 1))

(* The members an event has recorded, in the set it names.                  *)
completed_members_for_set(ledger, set, type, field) ==
    {ledger[n].fields[field] : n \in
        {n \in events_of_type(ledger, type) :
            /\ Has(ledger[n].fields, "set") /\ ledger[n].fields["set"] = set
            /\ Has(ledger[n].fields, field)}}

eval_set_covered(g, ctx) ==
    /\ Has(g, "set") /\ g.set \in DOMAIN ctx.config.sets
    /\ \A i \in DOMAIN ctx.config.sets[g.set] :
          ctx.config.sets[g.set][i] \in
             completed_members_for_set(ctx.ledger, g.set,
                Or(g, "event", "set_member_complete"), Or(g, "field", "member"))

(* No event yet counts as any time elapsed.                                 *)
eval_min_elapsed(g, ctx) ==
    events_of_type(ctx.ledger, g.event) = {} \/ g.event \in ctx.world.elapsed

eval_no_violations(g, ctx) ==
    Cardinality(events_of_type(ctx.ledger, "protocol_violation"))
        <= Cardinality(events_of_type(ctx.ledger, "violation_resolved"))

(* No caller supplies a triggering event: the fields are always absent.     *)
eval_field_not_empty(g, ctx) ==
    Has(ctx.event_fields, g.field) /\ ctx.event_fields[g.field] # ""

------------------------------------------------------------------------------
(* Gates on files, commands and predicates.                                 *)

eval_files_exist(paths, ctx) ==
    LET vars == build_template_vars(ctx)
    IN  \A p \in paths : ~Unresolved(p, vars) /\ Resolved(p, vars) \in ctx.world.files

(* A bound parameter must match the first pattern found for a field of its  *)
(* name, in the order the process has the events in its hash map; a pattern *)
(* is the set of values it matches.                                         *)
PatternsIn(config, e, name) ==
    {f.pattern : f \in {f \in config.events[e].fields : f.name = name /\ Has(f, "pattern")}}
find_field_pattern(config, world, name) ==
    LET found(e) == Has(config.events, e) /\ PatternsIn(config, e, name) # {}
        having == SelectSeq(world.hashed, found)
    IN  IF having = <<>> THEN {} ELSE PatternsIn(config, Head(having), name)
validate_template_fields(uses, ctx) ==
    \A v \in uses \cap DOMAIN ctx.params :
        \A pattern \in find_field_pattern(ctx.config, ctx.world, v[2]) : ctx.params[v] \in pattern

(* An anchor names the project or the caller; absent is the project.        *)
resolve_anchor(value) ==
    CASE value = <<"lit", "project">> -> {"project"}
      [] value = <<"lit", "caller">> -> {"caller"}
      [] OTHER -> {}
gate_working_dir(g) == resolve_anchor(Or(g, "anchor", <<"lit", "project">>))

(* Where the command runs, if it is run at all.                             *)
Runs(g, ctx) ==
    LET uses == Or(g, "uses", {})
    IN  {<<dir, g.cmd>> : dir \in
            {d \in gate_working_dir(g) :
                /\ validate_template_fields(uses, ctx)
                /\ \A v \in uses : ~Unresolved(v, build_template_vars(ctx))}}

eval_command_succeeds(g, ctx) == \E run \in Runs(g, ctx) : run \in ctx.world.exits0

eval_command_output(g, ctx) ==
    \E run \in Runs(g, ctx) : <<run, Or(g, "expect", "")>> \in ctx.world.prints

(* The value of the last snapshot recorded under a key; none when that      *)
(* entry has no value.                                                      *)
resolve_snapshot_reference(ctx, key) ==
    LET keyed == {n \in events_of_type(ctx.ledger, "snapshot") :
                    Has(ctx.ledger[n].fields, "key") /\ ctx.ledger[n].fields["key"] = key}
        last == {n \in keyed : \A m \in keyed : m <= n}
    IN  {ctx.ledger[n].fields["value"] : n \in
            {n \in last : Has(ctx.ledger[n].fields, "value")}}

References(g, ctx) ==
    IF g.reference[1] = "snapshot" THEN resolve_snapshot_reference(ctx, g.reference[2])
    ELSE {g.reference[2]}

(* The texts that parse as numbers.                                         *)
Numerals == ("0" :> 0) @@ ("1" :> 1) @@ ("2" :> 2) @@ ("3" :> 3)
Compares(op, a, b) ==
    \/ op \in {"gt", "gte"} /\ a > b
    \/ op \in {"lt", "lte"} /\ a < b
    \/ op \in {"gte", "lte", "eq"} /\ a = b

(* The command must exit 0, and print an object with the field extracted;   *)
(* a number is compared with a number, other text only for equality.        *)
eval_snapshot_compare(g, ctx) ==
    LET op == Or(g, "compare", "eq")
    IN  \E run \in Runs(g, ctx), ref \in References(g, ctx) :
           /\ run \in ctx.world.exits0
           /\ \E printed \in ctx.world.json :
                 /\ printed[1] = <<run, g.extract>>
                 /\ IF Has(Numerals, printed[2])
                    THEN Has(Numerals, ref) /\ Compares(op, Numerals[printed[2]], Numerals[ref])
                    ELSE op = "eq" /\ printed[2] = ref

(* A predicate is written inline or names one of the config, not both.      *)
resolve_gate_sql(config, g) ==
    IF Has(g, "sql") /\ Has(g, "query") THEN {}
    ELSE IF Has(g, "sql") THEN {g.sql}
    ELSE {config.queries[q] : q \in {q \in DOMAIN config.queries : Has(g, "query") /\ g.query = q}}

eval_query_gate(g, ctx) ==
    \E sql \in resolve_gate_sql(ctx.config, g) :
        /\ validate_template_fields(sql.uses, ctx)
        /\ \A v \in sql.uses : ~Unresolved(v, build_template_vars(ctx))
        /\ <<sql, Or(g, "expect", "true")>> \in ctx.world.answers

------------------------------------------------------------------------------
(* Composites.  A gate stands in a tree below the gates it is in: a chain  *)
(* that starts at the root.                                                *)
COMPOSITES == {"any_of", "all_of", "not", "k_of_n"}

Below(chain) == {Append(chain, Last(chain).gates[i]) : i \in DOMAIN Last(chain).gates}

Chains(root) ==
    LET upTo[n \in Nat] ==
            IF n = 0 THEN {<<root>>}
            ELSE LET shorter == upTo[n - 1]
                 IN  shorter \cup UNION {Below(chain) : chain \in shorter}
    IN  upTo[MaxDepth]

(* Every gate of the tree, and those an evaluation gets to: nothing but a   *)
(* composite has its gates evaluated.                                       *)
Subtree(root) == UNION {Range(chain) : chain \in Chains(root)}
Reached(chain) == \A n \in 1..(Len(chain) - 1) : chain[n].type \in COMPOSITES
Evaluated(root) == UNION {Range(chain) : chain \in {c \in Chains(root) : Reached(c)}}

(* A composite sees of its gates only which have passed: one that could not *)
(* be evaluated has not.  k is read as an unsigned number: a negative one   *)
(* is out of any count's reach.                                             *)
Combined(g, passing) ==
    CASE g.type = "any_of" -> passing # {}
      [] g.type = "all_of" -> passing = DOMAIN g.gates
      [] g.type = "not" -> Len(g.gates) = 1 /\ passing = {}
      [] g.type = "k_of_n" -> 0 <= Or(g, "k", 0) /\ Or(g, "k", 0) <= Cardinality(passing)

eval_leaf(g, ctx) ==
    CASE g.type = "ledger_has_event" -> eval_ledger_has_event(g, ctx)
      [] g.type = "ledger_has_event_since" -> eval_ledger_has_event_since(g, ctx)
      [] g.type = "ledger_lacks_event" -> eval_ledger_lacks_event(g, ctx)
      [] g.type = "set_covered" -> eval_set_covered(g, ctx)
      [] g.type = "min_elapsed" -> eval_min_elapsed(g, ctx)
      [] g.type = "no_violations" -> eval_no_violations(g, ctx)
      [] g.type = "field_not_empty" -> eval_field_not_empty(g, ctx)
      [] g.type = "file_exists" -> eval_files_exist({g.path}, ctx)
      [] g.type = "files_exist" -> eval_files_exist(g.paths, ctx)
      [] g.type = "command_succeeds" -> eval_command_succeeds(g, ctx)
      [] g.type = "command_output" -> eval_command_output(g, ctx)
      [] g.type = "snapshot_compare" -> eval_snapshot_compare(g, ctx)
      [] g.type = "query" -> eval_query_gate(g, ctx)
      [] OTHER -> FALSE

(* A tree is evaluated from its leaves up: of its composites exactly those  *)
(* pass that their own gates make pass.  There is one such set.             *)
Consistent(inner, passed, leaves) ==
    \A h \in inner :
        h \in passed <=> Combined(h, {i \in DOMAIN h.gates : h.gates[i] \in passed \cup leaves})
eval(g, ctx) ==
    IF g.type \notin COMPOSITES THEN eval_leaf(g, ctx)
    ELSE LET reached == Evaluated(g)
             inner == {h \in reached : h.type \in COMPOSITES}
             leaves == {h \in reached \ inner : eval_leaf(h, ctx)}
         IN  \E passed \in SUBSET inner : g \in passed /\ Consistent(inner, passed, leaves)

evaluate_gates(gates, ctx) == \A i \in DOMAIN gates : eval(gates[i], ctx)

(* The gates that leave an attestation when they pass: a command's own, not *)
(* one under a composite.                                                   *)
ANCHORED_GATE_TYPES == {"command_succeeds", "command_output", "snapshot_compare"}
Attests(g) == g.type \in ANCHORED_GATE_TYPES /\ Or(g, "attest", TRUE)
=============================================================================
