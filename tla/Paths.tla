------------------------------- MODULE Paths --------------------------------
(***************************************************************************)
(* Reachability over the transitions of a protocol, as the lint computes it *)
(* (lint/graph.rs).  A breadth-first search returns the least set that      *)
(* holds the neighbours of its start and is closed under the edges, and so  *)
(* it is defined here: no order of visiting is left in it.                  *)
(***************************************************************************)
EXTENDS Naturals, Sequences

Edges(config) == {config.transitions[i] : i \in DOMAIN config.transitions}

Ends(E) == {e.from : e \in E} \cup {e.to : e \in E}

Closed(E, start, X) ==
    \A e \in E : e.from = start \/ e.from \in X => e.to \in X

(* The states one or more edges away: start itself only by a cycle.         *)
Slip_OneStep(E, start) == {e.to : e \in {d \in E : d.from = start}}
    \* a slip; no action uses it
reachable_from(E, start) ==
    {s \in Ends(E) : \A X \in SUBSET Ends(E) : Closed(E, start, X) => s \in X}

Reversed(E) == {[from |-> e.to, to |-> e.from] : e \in E}
ancestors_of(E, target) == reachable_from(Reversed(E), target)

(* build_filtered: the edges that do not carry a boundary's tag.            *)
Untagged(config, b) == {e \in Edges(config) : e.boundary # b.name}

(* path_between finds a route that never crosses the boundary.              *)
RoutedAround(config, b) == b.to \in reachable_from(Untagged(config, b), b.from)

Outgoing(config, s) ==
    {i \in DOMAIN config.transitions : config.transitions[i].from = s}
=============================================================================
