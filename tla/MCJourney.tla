----------------------------- MODULE MCJourney ------------------------------
(***************************************************************************)
(* Small protocols for Journey, one for each thing a protocol can say, and  *)
(* two whose callers record what no protocol declares.                      *)
(***************************************************************************)
EXTENDS Journey

MCValues == {"x", "y"}

Nothing == [files |-> {}, exits0 |-> {}, prints |-> {}, json |-> {}, answers |-> {},
            elapsed |-> {}, outputs |-> <<>>, hashed |-> <<"taken", "note">>]
Here(cmd) == <<"project", cmd>>
Asked == [uses |-> {}, mentions |-> {"note"}, stamps |-> {Stamp("agent", "cli")}]
Everything ==
    [files |-> {"plan"}, exits0 |-> {Here("test"), Here("count")},
     prints |-> {<<Here("test"), "ok">>},
     json |-> {<<<<Here("count"), "n">>, "2">>}, answers |-> {<<Asked, "true">>},
     elapsed |-> {"note"}, outputs |-> Here("head") :> "x",
     hashed |-> <<"note", "taken">>]
MCWorlds == {Nothing, Everything}

------------------------------------------------------------------------------
(* Parts.                                                                   *)
State(initial, terminal) == [initial |-> initial, terminal |-> terminal, params |-> <<>>]
Initial == State(TRUE, FALSE)
Inner == State(FALSE, FALSE)
Terminal == State(FALSE, TRUE)

Field(name) == [name |-> name, type |-> "string", optional |-> FALSE]
Event(names) == [restricted |-> FALSE, producers |-> {}, attestation |-> "",
                 fields |-> {Field(name) : name \in names}]
Only(name, value) == [Event({}) EXCEPT !.fields = {Field(name) @@ [values |-> {value}]}]
Sealed(producers) == [Event({}) EXCEPT !.restricted = TRUE, !.producers = producers]
Lead(windows) == {[id |-> "lead", windows |-> windows]}

Leaf(type) == [type |-> type, gates |-> <<>>]
On(type, e) == Leaf(type) @@ [event |-> e]
Composite(type, gates) == [type |-> type, gates |-> gates]
Is(v) == <<"lit", v>>
Var(name) == <<"var", name>>

Rule(event, states) == [event |-> event, states |-> states, action |-> "block", message |-> "m"]

Step(from, to, command, gates) ==
    [from |-> from, to |-> to, command |-> command, args |-> <<>>, gates |-> gates,
     emits |-> <<>>, boundary |-> ""]

Base == [transitions |-> <<>>, states |-> "a" :> Initial, events |-> <<>>, sets |-> <<>>,
         queries |-> <<>>, boundaries |-> {}, hooks |-> <<>>, monitors |-> <<>>,
         renders |-> {}, templates |-> {}, aliases |-> <<>>, batches |-> <<>>,
         ledgers |-> <<>>, managed |-> {}, write_gated |-> {}, vault |-> {},
         attestation |-> <<>>, trusted_callers |-> {},
         lint |-> [require_producers |-> FALSE, disabled_checks |-> {}]]

------------------------------------------------------------------------------
(* A fix for an item needs a review of it since its last fix.  The second   *)
(* keys the window on who reviewed, which a fix does not record.            *)
Fix(key, v) ==
    [Step("a", "a", "fix",
          <<On("ledger_has_event_since", "review")
              @@ [filter |-> "item" :> Var("item"), since |-> <<"last_event_of_type", "fixed">>,
                  since_filter |-> key :> v]>>)
       EXCEPT !.args = <<"item">>,
              !.emits = <<[event |-> "fixed", fields |-> "item" :> Var("item")]>>]
Fixing(t) ==
    [Base EXCEPT !.transitions = <<t>>,
                 !.events = "review" :> Event({"item", "by"})
                            @@ "fixed" :> [Event({"item"}) EXCEPT !.producers = Lead({{"b"}})],
                 !.states = "a" :> Initial @@ "b" :> Inner]
Windowed == Fixing(Fix("item", Var("item")))
Mistaken == Fixing(Fix("by", Is("x")))

(* Events only some may record, and only in some states.                    *)
Signing ==
    [Base EXCEPT
        !.states = "draft" :> Initial @@ "review" :> Inner @@ "done" :> Terminal,
        !.events = "signoff" :> Sealed(Lead({{"review"}})) @@ "ghost" :> Sealed({})
                   @@ "note" :> Event({}) @@ "remark" :> Event({}),
        !.trusted_callers = {{"gate.py"}},
        !.hooks = <<Rule("Stop", {}) @@ [gate |-> On("ledger_lacks_event", "note")]>>,
        !.transitions =
            <<Step("draft", "review", "submit", <<>>),
              Step("review", "done", "finish", <<On("ledger_has_event", "signoff")>>),
              Step("draft", "done", "skip", <<On("ledger_has_event", "signoff")>>),
              Step("review", "draft", "finish", <<On("ledger_has_event", "note")>>),
              Step("review", "done", "never", <<On("ledger_has_event", "ghost")>>),
              Step("review", "draft", "back",
                   <<Composite("any_of", <<On("ledger_has_event", "ghost"),
                                           Composite("not", <<On("ledger_has_event", "note")>>)>>)>>),
              Step("done", "draft", "reopen",
                   <<Composite("k_of_n", <<On("ledger_has_event", "ghost"), On("ledger_has_event", "note"),
                                           On("ledger_lacks_event", "ghost")>>) @@ [k |-> 2]>>)>>]

(* The same with no way back: a state no longer precedes itself.            *)
Straight == [Signing EXCEPT !.transitions = SubSeq(@, 1, 3)]

(* lint reads two negations as none, whatever stands between them.          *)
Negated ==
    [Signing EXCEPT !.transitions =
        <<Step("draft", "done", "either",
               <<Composite("not",
                    <<Composite("all_of", <<Composite("not", <<On("ledger_has_event", "ghost")>>),
                                            Composite("not", <<On("ledger_has_event", "note")>>)>>)>>)>>)>>]

(* A boundary, with a way round it and without.                             *)
Crossing(edges) ==
    [Base EXCEPT
        !.states = "a" :> Initial @@ "b" :> Inner @@ "c" :> Inner @@ "d" :> Inner,
        !.boundaries = {[name |-> "gate", from |-> "a", to |-> "c"]},
        !.transitions = <<Step("a", "b", "on", <<>>),
                          [Step("b", "c", "cross", <<>>) EXCEPT !.boundary = "gate"],
                          Step("c", "a", "again", <<>>)>> \o edges]
Guarded == Crossing(<<>>)
Bypassed == Crossing(<<Step("b", "d", "slip", <<>>), Step("d", "c", "in", <<>>)>>)

(* Rules for two agents: a test of one's own since one's own last commit.   *)
OwnTest ==
    On("ledger_has_event_since", "test")
        @@ [filter |-> "agent_id" :> Var("agent_id"), since |-> <<"last_event_of_type", "commit">>,
            since_filter |-> "agent_id" :> Var("agent_id")]
Hooked ==
    [Base EXCEPT
        !.states = "a" :> Initial @@ "b" :> Inner,
        !.events = "test" :> Event({"agent_id"}) @@ "commit" :> Only("agent_id", "x")
                   @@ "edit" :> Event({}),
        !.managed = {{"ledger.jsonl"}},
        !.write_gated = {[path |-> {"src"}, writable_in |-> {"a"}]},
        !.hooks = <<Rule("PreToolUse", {{"a"}}) @@ [tools |-> {"Edit"}, gate |-> OwnTest,
                                                    filter |-> [path_matches |-> {"src"}]],
                    [event |-> "PostToolUse", states |-> {}, tools |-> {"Edit"},
                     auto_record |-> [event_type |-> "edit", fields |-> "file" :> <<"file">>]],
                    Rule("Stop", {}) @@ [check |-> [type |-> "query", event_types |-> {},
                                                    sql |-> [Asked EXCEPT !.mentions = {"edit"}]]],
                    Rule("Stop", {}) @@ [check |-> [type |-> "output_contains_any",
                                                    patterns |-> {"done"}, event_types |-> {}],
                                         states_not |-> {"b"}],
                    Rule("Stop", {}) @@ [check |-> [type |-> "event_count_since_last_transition",
                                                    threshold |-> 2, compare |-> "gt",
                                                    event_types |-> {"edit"}]]>>,
        !.monitors = <<[name |-> "busy", states |-> {{"a"}}, action |-> "warn", threshold |-> 2,
                        trigger |-> "event_count_since_last_transition", event_types |-> {"edit"}]>>,
        !.transitions = <<Step("a", "b", "go", <<On("ledger_has_event", "edit")>>),
                          Step("b", "a", "back", <<>>)>>]
Misspelt == [Hooked EXCEPT !.hooks = <<[Rule("Stop", {}) EXCEPT !.action = "deny"]
                                         @@ [check |-> [type |-> "event_count_since_last_transition",
                                                        threshold |-> 1, event_types |-> {}]]>>,
                           !.events = "edit" :> Event({}), !.transitions = <<>>,
                           !.monitors = <<>>]

(* Sets, parameters drawn from them, the outside world, several candidates  *)
(* and an emit that runs a command.                                         *)
Covering ==
    [Base EXCEPT
        !.states = "a" :> [Initial EXCEPT !.params =
                             <<[name |-> "item", set |-> "items", source |-> "current"],
                               [name |-> "past", set |-> "items", source |-> "last_completed"],
                               [name |-> "all", set |-> "items"]>>]
                   @@ "b" :> Inner @@ "z" :> Terminal,
        !.sets = "items" :> <<"x", "y">>,
        !.events = "note" :> Event({}) @@ "taken" :> [Event({}) EXCEPT !.fields =
                       {Field("item") @@ [pattern |-> {"x"}], Field("head")}] @@ "remark" :> Event({}),
        !.queries = "noted" :> Asked,
        !.transitions =
            <<Step("a", "z", "next", <<Leaf("set_covered") @@ [set |-> "items"],
                                       Leaf("no_violations")>>),
              [Step("a", "a", "next", <<>>) EXCEPT !.emits =
                  <<[event |-> "taken", fields |-> "item" :> Var("item") @@ "head" :> Var("head"),
                     commands |-> "head" :> "head"]>>],
              Step("a", "b", "check",
                   <<On("ledger_has_event", "taken") @@ [min_count |-> 0, max_count |-> 2],
                     Composite("any_of",
                        <<Leaf("query") @@ [query |-> "noted"], Leaf("field_not_empty") @@ [field |-> "f"],
                          Composite("all_of", <<Leaf("file_exists") @@ [path |-> Is("plan")],
                                                On("min_elapsed", "note") @@ [seconds |-> 1]>>)>>),
                     Leaf("command_succeeds") @@ [cmd |-> "test", uses |-> {Var("item")}],
                     Leaf("command_output") @@ [cmd |-> "test", expect |-> "ok", attest |-> FALSE],
                     Leaf("snapshot_compare") @@ [cmd |-> "count", extract |-> "n", compare |-> "gt",
                                                  reference |-> Is("1")]>>)>>]

(* Callers who record moves and other events of their own making.           *)
Forged ==
    [Base EXCEPT
        !.states = "a" :> Initial @@ "b" :> Inner @@ "c" :> Terminal,
        !.events = "test" :> Event({"agent_id"}),
        !.hooks = <<Rule("PreToolUse", {{"a"}})
                       @@ [gate |-> [OwnTest EXCEPT !.since = <<"last_event_of_type", "gate_attestation">>]],
                    Rule("Stop", {}) @@ [gate |-> On("ledger_has_event_since", "test")]>>,
        !.transitions = <<Step("a", "b", "go", <<On("ledger_has_event", "test")>>),
                          Step("b", "c", "finish", <<On("ledger_lacks_event", "gate_attestation")>>)>>]
(* Here they help an emit to fields the caller of a transition leaves out.  *)
Helped == [Windowed EXCEPT !.events = "review" :> Only("item", "x") @@ "fixed" :> Only("item", "x")]

MCProtocols == {Windowed, Mistaken, Signing, Straight, Guarded, Bypassed, Hooked, Misspelt, Covering,
                Forged, Helped}
NegatedProtocols == {Negated}

MCFurther(c) == IF c = Misspelt THEN {"agent_id"} ELSE {}
MCStrays(c) ==
    CASE c = Forged -> {<<"state_transition", "to" :> "b">>, <<"state_transition", <<>>>>,
                        <<"gate_attestation", "agent_id" :> "x">>}
      [] c = Helped -> {<<"state_transition", "to" :> "b">>, <<"hint", "item" :> "x">>}
      [] OTHER -> {}

(* The premises of the theorems about Journey hold of these protocols.      *)
ASSUME PremisesHold == \A c \in MCProtocols : OwnVocabulary(c) /\ Literally(c) /\ PlainText(c)

Request(event, tool, agent) ==
    [event |-> event, tool |-> tool, file |-> {"src"}, output |-> {"done"}, agent_id |-> agent]
MCRequests(c) ==
    {Request("PreToolUse", {"Edit"}, agent) : agent \in {"", "x", "y"}}
    \cup {Request("PostToolUse", {"Edit"}, ""), Request("Stop", {}, "")}
=============================================================================
