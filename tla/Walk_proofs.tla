----------------------------- MODULE Walk_proofs -----------------------------
(***************************************************************************)
(* What the lint's reachability is worth to a run.  reachable_from is a     *)
(* least fixed point, so it holds what an edge leads to (Seed, Onward) and  *)
(* is inside every closed set (Least); nothing else is used of it.          *)
(***************************************************************************)
EXTENDS Walk, TLAPS

(* An edge out of the start leads into the set.                             *)
LEMMA Seed ==
    ASSUME NEW E, NEW e \in E
    PROVE  e.to \in reachable_from(E, e.from)
BY DEF reachable_from, Closed, Ends

(* An edge out of a member leads to a member.                               *)
LEMMA Onward ==
    ASSUME NEW E, NEW s, NEW e \in E, e.from \in reachable_from(E, s)
    PROVE  e.to \in reachable_from(E, s)
BY DEF reachable_from, Closed, Ends

(* It is the least such set.                                                *)
LEMMA Least ==
    ASSUME NEW E, NEW s, NEW X \in SUBSET Ends(E), Closed(E, s, X)
    PROVE  reachable_from(E, s) \subseteq X
BY DEF reachable_from

(* What is reached from a member is reached.                                *)
LEMMA Further ==
    ASSUME NEW E, NEW s, NEW t \in reachable_from(E, s)
    PROVE  reachable_from(E, t) \subseteq reachable_from(E, s)
<1> DEFINE Y == reachable_from(E, s)
<1>1. Y \in SUBSET Ends(E)
  BY DEF reachable_from
<1>2. Closed(E, t, Y)
  BY Onward DEF Closed
<1> QED
  BY <1>1, <1>2, Least

(* The source of an edge is an ancestor of its target.                      *)
LEMMA Parent ==
    ASSUME NEW E, NEW e \in E
    PROVE  e.from \in ancestors_of(E, e.to)
<1> DEFINE r == [from |-> e.to, to |-> e.from]
<1>1. r \in Reversed(E)
  BY DEF Reversed
<1>2. r.to \in reachable_from(Reversed(E), r.from)
  BY <1>1, Seed
<1> QED
  BY <1>2 DEF ancestors_of

-----------------------------------------------------------------------------
(* The inductive invariant behind BoundaryHeld: a boundary whose source the *)
(* run has passed uncrossed is at its source, or was left over untagged     *)
(* edges that lead to the state the run is in.  A move recorded by hand     *)
(* leaves no trail.                                                         *)
Trailed ==
    MovedByHand(config) \/
    \A b \in bare :
        \/ state = b.from
        \/ state \in reachable_from(Untagged(config, b), b.from)

(* Taking e without crossing b continues the trail of b.                    *)
LEMMA TrailGoesOn ==
    ASSUME Trailed, ~MovedByHand(config), NEW e \in Edges(config), Move(e), NEW b \in Uncrossed(e)
    PROVE  e.to \in reachable_from(Untagged(config, b), b.from)
<1>1. b \in bare /\ e \in Untagged(config, b) /\ state = e.from
  BY DEF Uncrossed, Untagged, Move
<1>2. CASE state = b.from
  BY <1>1, <1>2, Seed
<1>3. CASE state \in reachable_from(Untagged(config, b), b.from)
  BY <1>1, <1>3, Onward
<1> QED
  BY <1>1, <1>2, <1>3 DEF Trailed

LEMMA InitTrailed == WalkInit => Trailed /\ BoundaryHeld
BY DEF WalkInit, Trailed, BoundaryHeld

LEMMA NextTrailed ==
    ASSUME Trailed, BoundaryHeld, [WalkNext]_walk
    PROVE  Trailed' /\ BoundaryHeld'
<1>1. CASE UNCHANGED walk
  BY <1>1 DEF walk, Trailed, BoundaryHeld, RoutedAround
<1>2. CASE MovedByHand(config) /\ WalkNext
  BY <1>2 DEF WalkNext, ByHand, Move, Trailed, BoundaryHeld
<1>3. CASE ~MovedByHand(config) /\ WalkNext
  <2>1. PICK e \in Edges(config) : Move(e)
    BY <1>3 DEF WalkNext, ByHand
  <2>2. config' = config /\ state' = e.to /\ ~MovedByHand(config')
    BY <1>3, <2>1 DEF Move
  <2>3. Trailed'
    <3> SUFFICES ASSUME NEW b \in bare'
                 PROVE  \/ state' = b.from
                        \/ state' \in reachable_from(Untagged(config', b), b.from)
      BY DEF Trailed
    <3>1. b \in Uncrossed(e) \/ b.from = e.to
      BY <2>1 DEF Move, BareAfter
    <3> QED
      BY <1>3, <2>1, <2>2, <3>1, TrailGoesOn
  <2>4. BoundaryHeld'
    <3> SUFFICES ASSUME NEW b \in around'
                 PROVE  RoutedAround(config', b)
      BY DEF BoundaryHeld
    <3>1. CASE b \in around
      BY <1>3, <2>2, <3>1 DEF BoundaryHeld
    <3>2. CASE b \in Uncrossed(e) /\ b.to = e.to
      BY <1>3, <2>1, <2>2, <3>2, TrailGoesOn DEF RoutedAround
    <3> QED
      BY <2>1, <3>1, <3>2 DEF Move, AroundAfter
  <2> QED
    BY <2>3, <2>4
<1> QED
  BY <1>1, <1>2, <1>3

(* No run gets round a boundary by a route that L3 does not report: of      *)
(* whatever protocol, and however long the run, as long as no move is       *)
(* recorded by hand.                                                        *)
THEOREM NoSilentDetour == WalkSpec => []BoundaryHeld
<1>1. WalkInit => Trailed /\ BoundaryHeld
  BY InitTrailed
<1>2. Trailed /\ BoundaryHeld /\ [WalkNext]_walk => Trailed' /\ BoundaryHeld'
  BY NextTrailed
<1> QED
  BY <1>1, <1>2, PTL DEF WalkSpec

-----------------------------------------------------------------------------
LEMMA InitPast == WalkInit => PastIsAncestral
BY DEF WalkInit, PastIsAncestral

LEMMA NextPast ==
    ASSUME PastIsAncestral, [WalkNext]_walk
    PROVE  PastIsAncestral'
<1>1. CASE UNCHANGED walk
  BY <1>1 DEF walk, PastIsAncestral
<1>2. CASE MovedByHand(config) /\ WalkNext
  BY <1>2 DEF WalkNext, ByHand, Move, PastIsAncestral
<1>3. CASE ~MovedByHand(config) /\ WalkNext
  <2>1. PICK e \in Edges(config) : Move(e)
    BY <1>3 DEF WalkNext, ByHand
  <2>2. /\ config' = config /\ state = e.from /\ state' = e.to
        /\ visited' = visited \cup {e.to}
    BY <1>3, <2>1 DEF Move
  <2>3. state \in ancestors_of(Edges(config), e.to)
    BY <2>2, Parent
  <2>4. ancestors_of(Edges(config), state) \subseteq ancestors_of(Edges(config), e.to)
    BY <2>3, Further DEF ancestors_of
  <2> QED
    BY <1>3, <2>2, <2>3, <2>4 DEF PastIsAncestral
<1> QED
  BY <1>1, <1>2, <1>3

(* Whatever a run did before, it did in an ancestor of the state it is in:  *)
(* what L2 calls unreachable before a gate really is.                       *)
THEOREM PastLiesBehind == WalkSpec => []PastIsAncestral
BY InitPast, NextPast, PTL DEF WalkSpec

-----------------------------------------------------------------------------
(* The converse: a state that reachable_from names has a path to it.        *)
IsPath(p, s, t) ==
    /\ Len(p) > 0
    /\ p[1].from = s /\ p[Len(p)].to = t
    /\ \A n \in 1..(Len(p) - 1) : p[n].to = p[n + 1].from

LEMMA Extended ==
    ASSUME NEW E, NEW s, NEW t, NEW p \in Seq(E), IsPath(p, s, t),
           NEW e \in E, e.from = t
    PROVE  Append(p, e) \in Seq(E) /\ IsPath(Append(p, e), s, e.to)
<1> DEFINE q == Append(p, e)
<1>1. q \in Seq(E) /\ Len(q) = Len(p) + 1 /\ q[Len(q)] = e /\ Len(p) \in Nat
  OBVIOUS
<1>2. \A n \in 1..Len(p) : q[n] = p[n]
  OBVIOUS
<1>3. q[1].from = s
  BY <1>1, <1>2 DEF IsPath
<1>4. ASSUME NEW n \in 1..(Len(q) - 1)
      PROVE  q[n].to = q[n + 1].from
  <2>1. CASE n = Len(p)
    BY <1>1, <1>2, <2>1 DEF IsPath
  <2>2. CASE n \in 1..(Len(p) - 1)
    <3>1. q[n] = p[n] /\ q[n + 1] = p[n + 1]
      BY <1>1, <1>2, <2>2
    <3> QED
      BY <2>2, <3>1 DEF IsPath
  <2> QED
    BY <1>1, <2>1, <2>2
<1> HIDE DEF q
<1> QED
  BY <1>1, <1>3, <1>4 DEF IsPath, q

(* A route that L3 reports is one the protocol has: untagged transitions,   *)
(* each from where the last one led, from the boundary's source to its      *)
(* target.                                                                  *)
THEOREM RoutesAreReal ==
    ASSUME NEW c, NEW b, RoutedAround(c, b)
    PROVE  \E p \in Seq(Untagged(c, b)) : IsPath(p, b.from, b.to)
<1> DEFINE E == Untagged(c, b)
           Joined == {t \in Ends(E) : \E p \in Seq(E) : IsPath(p, b.from, t)}
<1>1. ASSUME NEW e \in E, e.from = b.from
      PROVE  e.to \in Joined
  <2>1. <<e>> \in Seq(E) /\ Len(<<e>>) = 1 /\ <<e>>[1] = e
    OBVIOUS
  <2>2. IsPath(<<e>>, b.from, e.to)
    BY <1>1, <2>1 DEF IsPath
  <2> QED
    BY <2>1, <2>2 DEF Ends
<1>2. ASSUME NEW e \in E, e.from \in Joined
      PROVE  e.to \in Joined
  <2>1. PICK p \in Seq(E) : IsPath(p, b.from, e.from)
    BY <1>2
  <2>2. Append(p, e) \in Seq(E) /\ IsPath(Append(p, e), b.from, e.to)
    BY <2>1, Extended
  <2> QED
    BY <2>2 DEF Ends
<1>3. Closed(E, b.from, Joined)
  BY <1>1, <1>2 DEF Closed
<1>4. reachable_from(E, b.from) \subseteq Joined
  BY <1>3, Least
<1> QED
  BY <1>4 DEF RoutedAround
=============================================================================
