-------------------------------- MODULE Walk --------------------------------
(***************************************************************************)
(* What a run of a protocol is to the lint: a walk over its transitions     *)
(* from an initial state, gates aside.  Beside the state are kept what the  *)
(* claims are about: the states already visited, and the boundaries walked  *)
(* round.  Journey, which records events and evaluates gates, implements it.*)
(*                                                                          *)
(* In the runs of some protocols a move may be recorded by hand.  Of those  *)
(* no more is said than that a transition is taken from the state the run   *)
(* is in.                                                                   *)
(***************************************************************************)
EXTENDS Paths

CONSTANTS
    Protocols,          \* the configurations considered
    MovedByHand(_)      \* those in whose runs a move may be recorded by hand

VARIABLES
    config,             \* the protocol.toml, transitions.toml, ... loaded
    state,              \* the state the run is in
    visited,            \* the states it has been in
    bare,               \* the boundaries whose source it has passed since it
                        \* last crossed them
    around              \* those whose target it then reached uncrossed

walk == <<config, state, visited, bare, around>>

InitialStates(c) == {s \in DOMAIN c.states : c.states[s].initial}

WalkInit ==
    /\ config \in Protocols
    /\ state \in InitialStates(config)
    /\ visited = {state}
    /\ bare = {b \in config.boundaries : b.from = state}
    /\ around = {}

(* The ghosts after an edge is taken.                                       *)
Uncrossed(e) == {b \in bare : e.boundary # b.name}
BareAfter(e) == Uncrossed(e) \cup {b \in config.boundaries : b.from = e.to}
AroundAfter(e) == around \cup {b \in Uncrossed(e) : b.to = e.to}

Move(e) ==
    /\ state = e.from
    /\ state' = e.to \/ MovedByHand(config)
    /\ visited' = visited \cup {e.to}
    /\ bare' = BareAfter(e)
    /\ around' = AroundAfter(e)
    /\ UNCHANGED config

ByHand ==
    /\ MovedByHand(config)
    /\ UNCHANGED <<config, visited, bare, around>>

WalkNext == ByHand \/ \E e \in Edges(config) : Move(e)

WalkSpec == WalkInit /\ [][WalkNext]_walk

(* L3 reports every boundary some run walks round: a run that reaches the   *)
(* target from the source without crossing a tagged transition does so over *)
(* a route that l3_boundary_route_around finds.  Where no move is recorded  *)
(* by hand, that is, and so is the next.                                    *)
BoundaryHeld == MovedByHand(config) \/ \A b \in around : RoutedAround(config, b)

(* Every state a run has been in is one L2 counts as able to precede the    *)
(* state it is in: ancestors_of(state), or the state itself.                *)
PastIsAncestral ==
    MovedByHand(config) \/ visited \subseteq ancestors_of(Edges(config), state) \cup {state}
=============================================================================
