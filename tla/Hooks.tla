-------------------------------- MODULE Hooks -------------------------------
(***************************************************************************)
(* What sahjhan hook eval decides of one tool call (hooks/eval.rs): the     *)
(* managed paths, the write-gated paths, the hook rules and the monitors,   *)
(* read off the ledger at that moment.  Messages are left out.              *)
(*                                                                          *)
(* A request has an event, an agent_id ("" for the main thread), and, each  *)
(* a set of at most one, a tool, a file and the patterns its output holds.  *)
(* A path pattern is the set of the files it matches.                       *)
(***************************************************************************)
EXTENDS Gates

initial_state(config) == CHOOSE s \in DOMAIN config.states : config.states[s].initial

(* The last move that says a state: one that says none is passed over, where *)
(* the state machine takes it for the initial one.                          *)
derive_current_state(config, ledger) ==
    LET moves == {n \in events_of_type(ledger, "state_transition") : Has(ledger[n].fields, "to")}
    IN  IF moves = {} THEN initial_state(config) ELSE ledger[Max(moves)].fields["to"]

------------------------------------------------------------------------------
(* Which rules a request meets.  A request with no file passes every path   *)
(* filter; one with no tool meets no rule that names tools.                 *)
matches_filter(filter, request) ==
    \A file \in request.file :
        /\ Has(filter, "path_matches") => file \in filter.path_matches
        /\ Has(filter, "path_not_matches") => file \notin filter.path_not_matches

hook_matches(hook, request, state) ==
    /\ hook.event = request.event
    /\ Has(hook, "tools") => request.tool \cap hook.tools # {}
    /\ \A states \in hook.states : state \in states
    /\ Has(hook, "states_not") => state \notin hook.states_not
    /\ Has(hook, "filter") => matches_filter(hook.filter, request)

(* The events since the run entered its state, of the given types or all.   *)
count_events_since_last_transition(ledger, types) ==
    Cardinality({n \in DOMAIN ledger :
        /\ \A m \in n..Len(ledger) : ledger[m].type # "state_transition"
        /\ ledger[n].type # "genesis"
        /\ types = {} \/ ledger[n].type \in types})

compare_threshold(count, threshold, compare) ==
    CASE compare = "gt" -> count > threshold
      [] compare = "lte" -> count <= threshold
      [] compare = "lt" -> count < threshold
      [] compare = "eq" -> count = threshold
      [] OTHER -> count >= threshold

(* The actor is the one variable a hook's gate is given: the main thread is *)
(* an actor like any other.                                                 *)
HookContext(config, ledger, request, world) ==
    [ledger |-> ledger, config |-> config, world |-> world, event_fields |-> <<>>,
     params |-> [v \in {<<"var", "agent_id">>} |-> request.agent_id]]

(* A gate rule fires when its gate fails, a check when it holds; a query    *)
(* check never fires.                                                       *)
eval_hook_condition(hook, config, ledger, request, world) ==
    IF Has(hook, "gate") THEN ~eval(hook.gate, HookContext(config, ledger, request, world))
    ELSE /\ Has(hook, "check")
         /\ \/ /\ hook.check.type = "output_contains_any"
               /\ request.output \cap Or(hook.check, "patterns", {}) # {}
            \/ /\ hook.check.type = "event_count_since_last_transition"
               /\ compare_threshold(
                    count_events_since_last_transition(ledger, hook.check.event_types),
                    Or(hook.check, "threshold", 0), Or(hook.check, "compare", "gte"))

------------------------------------------------------------------------------
(* The checks on an edited path: one message for the first managed path it  *)
(* lies in, one for each guard that does not let this state write it.       *)
Edits(request) == request.event = "PreToolUse" /\ request.tool \cap {"Edit", "Write"} # {}

eval_managed_paths(config, request) ==
    {"block" : file \in {f \in request.file : Edits(request) /\ \E managed \in config.managed : f \in managed}}

eval_write_gated(config, state, request) ==
    {"block" : guard \in
        {g \in config.write_gated :
            Edits(request) /\ request.file \cap g.path # {} /\ state \notin g.writable_in}}

eval_monitors(config, ledger, state) ==
    {m \in DOMAIN config.monitors :
        LET monitor == config.monitors[m]
        IN  /\ \A states \in monitor.states : state \in states
            /\ monitor.trigger = "event_count_since_last_transition"
            /\ count_events_since_last_transition(ledger, monitor.event_types)
                 >= monitor.threshold}

------------------------------------------------------------------------------
(* The evaluation: the rules that match, those that record and those that   *)
(* fire, and the most restrictive of what they say.                         *)
MatchingHooks(config, ledger, request) ==
    {h \in DOMAIN config.hooks :
        hook_matches(config.hooks[h], request, derive_current_state(config, ledger))}

AutoFields(auto, request) ==
    [f \in DOMAIN auto.fields |->
        IF auto.fields[f] = <<"file">>
        THEN IF request.file = {} THEN "" ELSE CHOOSE file \in request.file : TRUE
        ELSE auto.fields[f][2]]

auto_records(config, ledger, request) ==
    LET recording == InOrder({h \in MatchingHooks(config, ledger, request) :
                                 Has(config.hooks[h], "auto_record")})
        auto(i) == config.hooks[recording[i]].auto_record
    IN  [i \in DOMAIN recording |->
            [event |-> auto(i).event_type, fields |-> AutoFields(auto(i), request)]]

Firing(config, ledger, request, world) ==
    {h \in MatchingHooks(config, ledger, request) :
        /\ ~Has(config.hooks[h], "auto_record")
        /\ eval_hook_condition(config.hooks[h], config, ledger, request, world)}

evaluate_hooks(config, ledger, request, world) ==
    LET state == derive_current_state(config, ledger)
        actions == {Or(config.hooks[h], "action", "warn") : h \in Firing(config, ledger, request, world)}
                   \cup eval_managed_paths(config, request)
                   \cup eval_write_gated(config, state, request)
    IN  CASE "block" \in actions -> "block"
          [] "warn" \in actions \/ eval_monitors(config, ledger, state) # {} -> "warn"
          [] OTHER -> "allow"
=============================================================================
