--------------------------- MODULE Journey_proofs ----------------------------
(***************************************************************************)
(* What a run of a protocol keeps, whatever the protocol.                   *)
(***************************************************************************)
EXTENDS Journey, FiniteSetTheorems, WellFoundedInduction, TLAPS

WP == INSTANCE Walk_proofs

(* Induction over the natural numbers, on a set instead of a predicate.     *)
LEMMA SetInduction ==
    ASSUME NEW S, 0 \in S, \A n \in Nat : n \in S => n + 1 \in S
    PROVE  Nat \subseteq S
<1> DEFINE T == Nat \ S
<1> SUFFICES ASSUME T # {} PROVE FALSE
  OBVIOUS
<1>1. PICK x \in T : \A y \in T : ~ (<<y, x>> \in OpToRel(<, Nat))
  BY NatLessThanWellFounded, WFMin
<1>2. x # 0 /\ x - 1 \in Nat /\ x = (x - 1) + 1
  OBVIOUS
<1>3. x - 1 \in T
  BY <1>2
<1>4. <<x - 1, x>> \in OpToRel(<, Nat)
  BY <1>2 DEF OpToRel
<1> QED
  BY <1>1, <1>3, <1>4

(* A set of places of a list has a last one.                                *)
LEMMA LastPlace ==
    ASSUME NEW n \in Nat, NEW S \in SUBSET (1..n), S # {}
    PROVE  Max(S) \in S /\ \A m \in S : m <= Max(S)
<1> DEFINE P == {k \in Nat : \A T \in SUBSET (1..k) : T # {} => \E x \in T : \A y \in T : x >= y}
<1>1. 0 \in P
  <2>1. 1..0 = {}
    OBVIOUS
  <2> QED
    BY <2>1
<1>2. ASSUME NEW k \in Nat, k \in P
      PROVE  k + 1 \in P
  <2> SUFFICES ASSUME NEW T \in SUBSET (1..(k + 1)), T # {}
               PROVE  \E x \in T : \A y \in T : x >= y
    OBVIOUS
  <2>1. CASE k + 1 \in T
    BY <2>1
  <2>2. CASE k + 1 \notin T
    <3>1. T \in SUBSET (1..k)
      BY <2>2
    <3> QED
      BY <1>2, <3>1
  <2> QED
    BY <2>1, <2>2
<1> HIDE DEF P
<1>3. n \in P
  BY <1>1, <1>2, SetInduction
<1>4. \E x \in S : \A y \in S : x >= y
  BY <1>3 DEF P
<1> QED
  BY <1>4 DEF Max

(* Places of a list can be put in order.                                    *)
LEMMA Ordered ==
    ASSUME NEW n \in Nat, NEW S \in SUBSET (1..n)
    PROVE  /\ Cardinality(S) \in Nat
           /\ InOrder(S) \in [1..Cardinality(S) -> S]
<1> DEFINE Increasing(s) == \A a, b \in DOMAIN s : a < b => s[a] < s[b]
           P == {k \in Nat : \A T \in SUBSET (1..k) :
                    IsFiniteSet(T) => \E s \in [1..Cardinality(T) -> T] : Increasing(s)}
<1>1. 0 \in P
  <2> SUFFICES ASSUME NEW T \in SUBSET (1..0)
               PROVE  \E s \in [1..Cardinality(T) -> T] : Increasing(s)
    OBVIOUS
  <2>1. 1..0 = {}
    OBVIOUS
  <2>2. T = {} /\ Cardinality(T) = 0
    BY <2>1, FS_EmptySet
  <2> DEFINE s == [a \in 1..0 |-> 0]
  <2>3. s \in [1..Cardinality(T) -> T] /\ Increasing(s)
    BY <2>1, <2>2
  <2> QED
    BY <2>3
<1>2. ASSUME NEW k \in Nat, k \in P
      PROVE  k + 1 \in P
  <2> SUFFICES ASSUME NEW T \in SUBSET (1..(k + 1)), IsFiniteSet(T)
               PROVE  \E s \in [1..Cardinality(T) -> T] : Increasing(s)
    OBVIOUS
  <2>1. CASE k + 1 \notin T
    <3>1. T \in SUBSET (1..k)
      BY <2>1
    <3> QED
      BY <1>2, <3>1
  <2>2. CASE k + 1 \in T
    <3> DEFINE U == T \ {k + 1}
               c == Cardinality(U)
    <3>1. U \in SUBSET (1..k)
      OBVIOUS
    <3>2. IsFiniteSet(U) /\ c \in Nat /\ Cardinality(T) = c + 1
      <4>1. IsFiniteSet(U) /\ c = Cardinality(T) - 1
        BY <2>2, FS_RemoveElement
      <4>2. c \in Nat /\ Cardinality(T) \in Nat
        BY <4>1, FS_CardinalityType
      <4> QED
        BY <4>1, <4>2
    <3>3. PICK s \in [1..c -> U] : Increasing(s)
      BY <1>2, <3>1, <3>2
    <3> HIDE DEF c
    <3> DEFINE u == [a \in 1..(c + 1) |-> IF a = c + 1 THEN k + 1 ELSE s[a]]
    <3>4. u \in [1..(c + 1) -> T]
      BY <2>2, <3>2, <3>3
    <3>5. ASSUME NEW a \in 1..(c + 1), NEW b \in 1..(c + 1), a < b
          PROVE  u[a] < u[b]
      <4>1. a \in 1..c
        BY <3>2, <3>5
      <4>2. s[a] \in 1..k
        BY <3>1, <3>3, <4>1
      <4>3. CASE b = c + 1
        BY <3>2, <4>1, <4>2, <4>3
      <4>4. CASE b \in 1..c
        BY <3>2, <3>3, <3>5, <4>1, <4>4
      <4> QED
        BY <3>2, <4>3, <4>4
    <3>6. Increasing(u)
      BY <3>5
    <3> QED
      BY <3>2, <3>4, <3>6
  <2> QED
    BY <2>1, <2>2
<1> HIDE DEF P
<1>3. n \in P
  BY <1>1, <1>2, SetInduction
<1>4. IsFiniteSet(S)
  <2>1. IsFiniteSet(1..n)
    BY FS_Interval
  <2> QED
    BY <2>1, FS_Subset
<1>5. \E s \in [1..Cardinality(S) -> S] : Increasing(s)
  BY <1>3, <1>4 DEF P
<1> QED
  BY <1>4, <1>5, FS_CardinalityType DEF InOrder

-----------------------------------------------------------------------------
(* Lists.                                                                   *)
LEMMA ListLen ==
    ASSUME NEW s, IsList(s)
    PROVE  Len(s) \in Nat /\ DOMAIN s = 1..Len(s)
BY DEF IsList

LEMMA ListOf ==
    ASSUME NEW n \in Nat, NEW s, s = [k \in 1..n |-> s[k]]
    PROVE  IsList(s) /\ Len(s) = n
BY DEF IsList, Range

LEMMA SeqIsList == ASSUME NEW R, NEW s \in Seq(R) PROVE IsList(s)
<1>1. Len(s) \in Nat /\ s = [k \in 1..Len(s) |-> s[k]]
  OBVIOUS
<1> QED
  BY <1>1, ListOf

LEMMA Concatenated ==
    ASSUME NEW s, NEW t, IsList(s), IsList(t)
    PROVE  /\ IsList(s \o t)
           /\ Len(s \o t) = Len(s) + Len(t)
           /\ \A n \in 1..Len(s) : (s \o t)[n] = s[n]
           /\ \A n \in 1..Len(t) : (s \o t)[Len(s) + n] = t[n]
<1> DEFINE R == Range(s) \cup Range(t)
<1>1. s \in Seq(R) /\ t \in Seq(R)
  BY DEF IsList, Range
<1> HIDE DEF R
<1>2. s \o t \in Seq(R) /\ Len(s \o t) = Len(s) + Len(t)
  BY <1>1
<1>3. \A n \in 1..Len(s) : (s \o t)[n] = s[n]
  BY <1>1
<1>4. \A n \in 1..Len(t) : (s \o t)[Len(s) + n] = t[n]
  BY <1>1
<1>5. IsList(s \o t)
  BY <1>2, SeqIsList
<1> QED
  BY <1>2, <1>3, <1>4, <1>5

LEMMA Longer ==
    ASSUME NEW s, IsList(s), NEW x
    PROVE  /\ IsList(Append(s, x))
           /\ Len(Append(s, x)) = Len(s) + 1
           /\ \A n \in 1..Len(s) : Append(s, x)[n] = s[n]
           /\ Append(s, x)[Len(s) + 1] = x
<1> DEFINE R == Range(s) \cup {x}
<1>1. s \in Seq(R) /\ x \in R
  BY DEF IsList, Range
<1> HIDE DEF R
<1>2. Append(s, x) \in Seq(R) /\ Len(Append(s, x)) = Len(s) + 1
  BY <1>1
<1>3. \A n \in 1..Len(s) : Append(s, x)[n] = s[n]
  BY <1>1
<1>4. Append(s, x)[Len(s) + 1] = x
  BY <1>1
<1>5. IsList(Append(s, x))
  BY <1>2, SeqIsList
<1> QED
  BY <1>2, <1>3, <1>4, <1>5

-----------------------------------------------------------------------------
(* The chains of a tree start at its root, and each gate of a chain is one  *)
(* of the gates of the one before it.                                       *)
Linked(chain) ==
    \A n \in 1..(Len(chain) - 1) : \E i \in DOMAIN chain[n].gates : chain[n + 1] = chain[n].gates[i]
IsChain(root, chain) == IsList(chain) /\ Len(chain) > 0 /\ chain[1] = root /\ Linked(chain)

LEMMA RootAlone == ASSUME NEW root PROVE IsChain(root, <<root>>)
<1>1. <<root>> \in Seq({root}) /\ Len(<<root>>) = 1 /\ <<root>>[1] = root
  OBVIOUS
<1>2. IsList(<<root>>)
  BY <1>1 DEF IsList, Range
<1> QED
  BY <1>1, <1>2 DEF IsChain, Linked

LEMMA OneDown ==
    ASSUME NEW root, NEW chain, IsChain(root, chain), NEW c \in Below(chain)
    PROVE  IsChain(root, c)
<1>1. PICK i \in DOMAIN Last(chain).gates : c = Append(chain, Last(chain).gates[i])
  BY DEF Below
<1> DEFINE n == Len(chain)
<1>2. n \in Nat /\ n > 0 /\ Last(chain) = chain[n]
  BY ListLen DEF IsChain, Last
<1>3. /\ IsList(c) /\ Len(c) = n + 1
      /\ \A m \in 1..n : c[m] = chain[m]
      /\ c[n + 1] = chain[n].gates[i]
  BY <1>1, <1>2, Longer DEF IsChain
<1> HIDE DEF n
<1>4. ASSUME NEW m \in 1..n
      PROVE  \E j \in DOMAIN c[m].gates : c[m + 1] = c[m].gates[j]
  <2>1. CASE m = n
    BY <1>1, <1>2, <1>3, <2>1
  <2>2. CASE m \in 1..(n - 1)
    <3>1. m \in 1..n /\ m + 1 \in 1..n
      BY <1>2, <2>2
    <3>2. \E j \in DOMAIN chain[m].gates : chain[m + 1] = chain[m].gates[j]
      BY <2>2 DEF IsChain, Linked, n
    <3> QED
      BY <1>3, <3>1, <3>2
  <2> QED
    BY <1>2, <2>1, <2>2
<1>5. c[1] = root
  BY <1>2, <1>3 DEF IsChain
<1>6. Linked(c)
  BY <1>2, <1>3, <1>4 DEF Linked
<1> QED
  BY <1>2, <1>3, <1>5, <1>6 DEF IsChain

(* The function the chains are defined by: it exists, one depth after the   *)
(* other, as two that hold so far agree.                                    *)
Deeper(S) == S \cup UNION {Below(chain) : chain \in S}
SoFar(root, f, n) ==
    /\ f[0] = {<<root>>}
    /\ \A m \in 1..n : f[m] = Deeper(f[m - 1])

LEMMA DepthsExist ==
    ASSUME NEW root, NEW n \in Nat
    PROVE  \E f : SoFar(root, f, n)
<1> DEFINE P == {k \in Nat : \E f : SoFar(root, f, k)}
<1>1. 0 \in P
  <2> DEFINE f == [m \in 0..0 |-> {<<root>>}]
  <2>1. SoFar(root, f, 0)
    BY DEF SoFar
  <2> QED
    BY <2>1
<1>2. ASSUME NEW k \in Nat, k \in P
      PROVE  k + 1 \in P
  <2>1. PICK f : SoFar(root, f, k)
    BY <1>2
  <2> DEFINE g == [m \in 0..(k + 1) |-> IF m = k + 1 THEN Deeper(f[k]) ELSE f[m]]
  <2>2. g[0] = {<<root>>}
    BY <2>1 DEF SoFar
  <2>3. ASSUME NEW m \in 1..(k + 1)
        PROVE  g[m] = Deeper(g[m - 1])
    BY <2>1, <2>3 DEF SoFar
  <2>4. SoFar(root, g, k + 1)
    BY <2>2, <2>3 DEF SoFar
  <2> QED
    BY <2>4
<1> HIDE DEF P
<1>3. n \in P
  BY <1>1, <1>2, SetInduction
<1> QED
  BY <1>3 DEF P

LEMMA DepthsAgree ==
    ASSUME NEW root, NEW n \in Nat, NEW m \in Nat, NEW f, NEW g,
           SoFar(root, f, n), SoFar(root, g, m),
           NEW k \in Nat, k <= n, k <= m
    PROVE  f[k] = g[k]
<1> DEFINE P == {j \in Nat : j <= n /\ j <= m => f[j] = g[j]}
<1>1. 0 \in P
  BY DEF SoFar
<1>2. ASSUME NEW j \in Nat, j \in P
      PROVE  j + 1 \in P
  <2> SUFFICES ASSUME j + 1 <= n, j + 1 <= m
               PROVE  f[j + 1] = g[j + 1]
    OBVIOUS
  <2>1. f[j] = g[j]
    BY <1>2
  <2>2. j + 1 \in 1..n /\ j + 1 \in 1..m /\ (j + 1) - 1 = j
    OBVIOUS
  <2> QED
    BY <2>1, <2>2 DEF SoFar
<1> HIDE DEF P
<1>3. k \in P
  BY <1>1, <1>2, SetInduction
<1> QED
  BY <1>3 DEF P

Depths(root) ==
    CHOOSE f : f = [n \in Nat |-> IF n = 0 THEN {<<root>>} ELSE Deeper(f[n - 1])]

LEMMA DepthsDefined ==
    ASSUME NEW root
    PROVE  /\ Depths(root)[0] = {<<root>>}
           /\ \A n \in Nat : Depths(root)[n + 1] = Deeper(Depths(root)[n])
<1> DEFINE upto(n) == CHOOSE f : SoFar(root, f, n)
           all == [n \in Nat |-> upto(n)[n]]
<1>1. \A n \in Nat : SoFar(root, upto(n), n)
  BY DepthsExist
<1>2. ASSUME NEW n \in Nat
      PROVE  all[n] = IF n = 0 THEN {<<root>>} ELSE Deeper(all[n - 1])
  <2>1. CASE n = 0
    BY <1>1, <2>1 DEF SoFar
  <2>2. CASE n # 0
    <3>1. n - 1 \in Nat /\ n - 1 <= n /\ n \in 1..n
      BY <2>2
    <3>2. SoFar(root, upto(n), n) /\ SoFar(root, upto(n - 1), n - 1)
      BY <1>1, <3>1
    <3> HIDE DEF upto
    <3>3. upto(n)[n - 1] = upto(n - 1)[n - 1]
      BY <3>1, <3>2, DepthsAgree
    <3>4. upto(n)[n] = Deeper(upto(n)[n - 1])
      BY <3>1, <3>2 DEF SoFar
    <3> QED
      BY <2>2, <3>1, <3>3, <3>4
  <2> QED
    BY <2>1, <2>2
<1> HIDE DEF upto
<1>3. all = [n \in Nat |-> IF n = 0 THEN {<<root>>} ELSE Deeper(all[n - 1])]
  BY <1>2
<1> HIDE DEF all
<1> DEFINE upTo == Depths(root)
<1>4. upTo = [n \in Nat |-> IF n = 0 THEN {<<root>>} ELSE Deeper(upTo[n - 1])]
  BY <1>3 DEF Depths
<1> HIDE DEF upTo
<1>5. ASSUME NEW n \in Nat
      PROVE  upTo[n + 1] = Deeper(upTo[n])
  <2>1. n + 1 \in Nat /\ n + 1 # 0 /\ (n + 1) - 1 = n
    OBVIOUS
  <2> QED
    BY <1>4, <2>1
<1> QED
  BY <1>4, <1>5 DEF upTo

LEMMA ChainsOfTree ==
    ASSUME NEW root
    PROVE  /\ <<root>> \in Chains(root)
           /\ \A chain \in Chains(root) : IsChain(root, chain)
<1> DEFINE upTo == Depths(root)
<1>1. Chains(root) = upTo[MaxDepth]
  BY DEF Chains, Deeper, Depths
<1>2. upTo[0] = {<<root>>} /\ \A n \in Nat : upTo[n + 1] = Deeper(upTo[n])
  BY DepthsDefined
<1> HIDE DEF upTo
<1> DEFINE P == {n \in Nat : <<root>> \in upTo[n] /\ \A chain \in upTo[n] : IsChain(root, chain)}
<1>3. 0 \in P
  BY <1>2, RootAlone
<1>4. ASSUME NEW n \in Nat, n \in P
      PROVE  n + 1 \in P
  <2>1. upTo[n + 1] = upTo[n] \cup UNION {Below(chain) : chain \in upTo[n]}
    BY <1>2 DEF Deeper
  <2>2. ASSUME NEW c \in upTo[n + 1]
        PROVE  IsChain(root, c)
    BY <1>4, <2>1, <2>2, OneDown
  <2> QED
    BY <1>4, <2>1, <2>2
<1> HIDE DEF P
<1>5. MaxDepth \in P
  BY <1>3, <1>4, SetInduction, BoundsAssumption
<1> QED
  BY <1>1, <1>5 DEF P

-----------------------------------------------------------------------------
(* What an evaluation tells of the leaves.                                  *)
LEMMA LeafEval ==
    ASSUME NEW g, NEW ctx, g.type \notin COMPOSITES
    PROVE  eval(g, ctx) = eval_leaf(g, ctx)
BY DEF eval

LEMMA LastOfChain ==
    ASSUME NEW root, NEW chain \in Chains(root)
    PROVE  /\ Len(chain) \in Nat /\ Len(chain) > 0 /\ DOMAIN chain = 1..Len(chain)
           /\ Last(chain) = chain[Len(chain)]
           /\ chain[1] = root
           /\ Linked(chain)
           /\ Last(chain) \in Subtree(root)
<1>1. IsChain(root, chain)
  BY ChainsOfTree
<1>2. Len(chain) \in Nat /\ Len(chain) > 0 /\ DOMAIN chain = 1..Len(chain)
  BY <1>1, ListLen DEF IsChain
<1>3. Last(chain) = chain[Len(chain)]
  BY DEF Last
<1>4. Len(chain) \in DOMAIN chain
  BY <1>2
<1>5. Last(chain) \in Range(chain)
  BY <1>3, <1>4 DEF Range
<1>6. Last(chain) \in Subtree(root)
  BY <1>5 DEF Subtree
<1> QED
  BY <1>1, <1>2, <1>3, <1>6 DEF IsChain

(* The chains of a tree are all of its chains that are not too long.        *)
LEMMA Shorter ==
    ASSUME NEW root, NEW c, IsChain(root, c), NEW n \in 1..Len(c),
           NEW f, f = [k \in 1..n |-> c[k]]
    PROVE  /\ IsChain(root, f) /\ Len(f) = n /\ Last(f) = c[n]
           /\ \A k \in 1..n : f[k] = c[k]
<1>1. Len(c) \in Nat /\ n \in Nat /\ n > 0
  <2>1. Len(c) \in Nat
    BY ListLen DEF IsChain
  <2> QED
    BY <2>1
<1>2. \A k \in 1..n : f[k] = c[k]
  OBVIOUS
<1>3. f = [k \in 1..n |-> f[k]]
  BY <1>2
<1>4. IsList(f) /\ Len(f) = n
  BY <1>1, <1>3, ListOf
<1>5. Last(f) = c[n]
  BY <1>1, <1>2, <1>4 DEF Last
<1>6. ASSUME NEW k \in 1..(n - 1)
      PROVE  \E i \in DOMAIN f[k].gates : f[k + 1] = f[k].gates[i]
  <2>1. k \in 1..(Len(c) - 1) /\ k \in 1..n /\ k + 1 \in 1..n
    BY <1>1
  <2>2. \E i \in DOMAIN c[k].gates : c[k + 1] = c[k].gates[i]
    BY <2>1 DEF IsChain, Linked
  <2> QED
    BY <1>2, <2>1, <2>2
<1>7. f[1] = root
  BY <1>1, <1>2 DEF IsChain
<1>8. Linked(f)
  BY <1>4, <1>6 DEF Linked
<1>9. IsChain(root, f)
  BY <1>1, <1>4, <1>7, <1>8 DEF IsChain
<1> QED
  BY <1>2, <1>4, <1>5, <1>9

LEMMA ChainsAreThose ==
    ASSUME NEW root, NEW c
    PROVE  c \in Chains(root) <=> IsChain(root, c) /\ Len(c) <= MaxDepth + 1
<1> DEFINE upTo == Depths(root)
<1>1. Chains(root) = upTo[MaxDepth]
  BY DEF Chains, Deeper, Depths
<1>2. upTo[0] = {<<root>>}
  BY DepthsDefined
<1>3. \A n \in Nat : upTo[n + 1] = upTo[n] \cup UNION {Below(chain) : chain \in upTo[n]}
  BY DepthsDefined DEF Deeper
<1> HIDE DEF upTo
<1> DEFINE P == {n \in Nat : \A d : d \in upTo[n] <=> IsChain(root, d) /\ Len(d) <= n + 1}
<1>4. 0 \in P
  <2>1. <<root>> \in Seq({root}) /\ Len(<<root>>) = 1
    OBVIOUS
  <2>2. IsChain(root, <<root>>)
    BY RootAlone
  <2>3. ASSUME NEW d, IsChain(root, d), Len(d) <= 1
        PROVE  d = <<root>>
    <3>1. IsList(d) /\ Len(d) > 0 /\ d[1] = root
      BY <2>3 DEF IsChain
    <3>2. Len(d) \in Nat
      BY <3>1, ListLen
    <3>3. Len(d) = 1
      <4>1. PICK len : len = Len(d)
        OBVIOUS
      <4>2. len \in Nat /\ len > 0 /\ len <= 1
        BY <2>3, <3>1, <3>2, <4>1
      <4> QED
        BY <4>1, <4>2
    <3>4. d \in Seq(Range(d))
      BY <3>1 DEF IsList
    <3>5. d = [k \in 1..1 |-> d[k]]
      BY <3>3, <3>4
    <3>6. <<root>> = [k \in 1..1 |-> root]
      OBVIOUS
    <3> QED
      BY <3>1, <3>5, <3>6
  <2>4. ASSUME NEW d
        PROVE  d \in upTo[0] <=> IsChain(root, d) /\ Len(d) <= 0 + 1
    <3>1. d \in upTo[0] <=> d = <<root>>
      BY <1>2
    <3>2. 0 + 1 = 1
      OBVIOUS
    <3>3. d = <<root>> => IsChain(root, d) /\ Len(d) <= 1
      BY <2>1, <2>2
    <3> QED
      BY <2>3, <3>1, <3>2, <3>3
  <2> QED
    BY <2>4
<1>5. ASSUME NEW n \in Nat, n \in P
      PROVE  n + 1 \in P
  <2>1. ASSUME NEW d \in upTo[n + 1]
        PROVE  IsChain(root, d) /\ Len(d) <= n + 2
    <3>1. CASE d \in upTo[n]
      <4>1. IsChain(root, d) /\ Len(d) <= n + 1
        BY <1>5, <3>1
      <4>2. Len(d) \in Nat
        BY <4>1, ListLen DEF IsChain
      <4> QED
        BY <4>1, <4>2
    <3>2. CASE d \notin upTo[n]
      <4>1. PICK chain \in upTo[n] : d \in Below(chain)
        BY <1>3, <2>1, <3>2
      <4>2. IsChain(root, chain) /\ Len(chain) <= n + 1
        BY <1>5, <4>1
      <4>3. Len(chain) \in Nat /\ IsList(chain)
        BY <4>2, ListLen DEF IsChain
      <4>4. Len(d) = Len(chain) + 1
        BY <4>1, <4>3, Longer DEF Below
      <4> QED
        BY <4>1, <4>2, <4>3, <4>4, OneDown
    <3> QED
      BY <3>1, <3>2
  <2>2. ASSUME NEW d, IsChain(root, d), Len(d) <= n + 2
        PROVE  d \in upTo[n + 1]
    <3> DEFINE len == Len(d)
    <3>1. len \in Nat /\ len > 0 /\ IsList(d)
      BY <2>2, ListLen DEF IsChain
    <3>2. CASE len <= n + 1
      BY <1>3, <1>5, <2>2, <3>2
    <3>3. CASE len = n + 2
      <4> DEFINE f == [k \in 1..(n + 1) |-> d[k]]
      <4>1. n + 1 \in 1..len /\ n + 1 \in 1..(len - 1)
        BY <3>3
      <4>2. /\ IsChain(root, f) /\ Len(f) = n + 1 /\ Last(f) = d[n + 1]
            /\ \A k \in 1..(n + 1) : f[k] = d[k]
        BY <2>2, <4>1, Shorter
      <4>3. f \in upTo[n]
        BY <1>5, <4>2
      <4>4. PICK i \in DOMAIN d[n + 1].gates : d[(n + 1) + 1] = d[n + 1].gates[i]
        BY <2>2, <4>1 DEF IsChain, Linked
      <4> HIDE DEF f
      <4> DEFINE x == Last(f).gates[i]
                 e == Append(f, x)
      <4>5. IsList(f)
        BY <4>2 DEF IsChain
      <4>6. IsList(e) /\ Len(e) = (n + 1) + 1 /\ e[(n + 1) + 1] = x
            /\ \A k \in 1..(n + 1) : e[k] = f[k]
        BY <4>2, <4>5, Longer
      <4>7. e \in Below(f)
        BY <4>2, <4>4 DEF Below
      <4>8. x = d[(n + 1) + 1]
        BY <4>2, <4>4
      <4> HIDE DEF e, x
      <4>9. \A k \in 1..len : e[k] = d[k]
        BY <3>3, <4>2, <4>6, <4>8
      <4>10. e = [k \in 1..len |-> e[k]] /\ d = [k \in 1..len |-> d[k]]
        <5>1. e \in Seq(Range(e)) /\ d \in Seq(Range(d)) /\ Len(e) = len
          BY <3>1, <3>3, <4>6 DEF IsList
        <5> QED
          BY <5>1
      <4>11. e = d
        BY <4>9, <4>10
      <4> QED
        BY <1>3, <4>3, <4>7, <4>11
    <3> QED
      BY <2>2, <3>1, <3>2, <3>3
  <2>3. (n + 1) + 1 = n + 2
    OBVIOUS
  <2> QED
    BY <2>1, <2>2, <2>3
<1> HIDE DEF P
<1>6. MaxDepth \in P
  BY <1>4, <1>5, SetInduction, BoundsAssumption
<1> QED
  BY <1>1, <1>6 DEF P

(* The gates an evaluation gets to, by how many more can stand below them.  *)
Near(g, n) ==
    {Last(c) : c \in {c \in Chains(g) : Reached(c) /\ Len(c) + n > MaxDepth}}

LEMMA NearBelow ==
    ASSUME NEW g, NestsWithin(g), NEW n \in Nat, NEW h \in Near(g, n),
           h.type \in COMPOSITES, NEW i \in DOMAIN h.gates
    PROVE  n > 0 /\ h.gates[i] \in Near(g, n - 1)
<1>1. PICK c \in Chains(g) : Reached(c) /\ Len(c) + n > MaxDepth /\ Last(c) = h
  BY DEF Near
<1>2. PICK len : len = Len(c)
  OBVIOUS
<1>3. len \in Nat /\ len > 0 /\ c[len] = h /\ MaxDepth \in Nat
  BY <1>1, <1>2, LastOfChain, BoundsAssumption
<1>4. len <= MaxDepth
  BY <1>1, <1>2, <1>3 DEF NestsWithin
<1> DEFINE x == h.gates[i]
           d == Append(c, x)
<1>5. IsChain(g, c)
  BY ChainsAreThose
<1>6. /\ IsList(d) /\ Len(d) = len + 1 /\ d[len + 1] = x
      /\ \A k \in 1..len : d[k] = c[k]
  BY <1>2, <1>5, Longer DEF IsChain
<1>7. d \in Below(c)
  BY <1>1 DEF Below
<1>8. IsChain(g, d)
  BY <1>5, <1>7, OneDown
<1> HIDE DEF d
<1>9. d \in Chains(g)
  BY <1>3, <1>4, <1>6, <1>8, ChainsAreThose
<1>10. Last(d) = x
  BY <1>6 DEF Last
<1>11. Reached(d)
  <2> SUFFICES ASSUME NEW k \in 1..len PROVE d[k].type \in COMPOSITES
    BY <1>3, <1>6 DEF Reached
  <2>1. CASE k = len
    BY <1>3, <1>6, <2>1
  <2>2. CASE k \in 1..(len - 1)
    BY <1>1, <1>2, <1>6, <2>2 DEF Reached
  <2> QED
    BY <1>3, <2>1, <2>2
<1>12. n > 0 /\ Len(d) + (n - 1) > MaxDepth
  BY <1>1, <1>2, <1>3, <1>4, <1>6
<1> QED
  BY <1>9, <1>10, <1>11, <1>12 DEF Near

LEMMA NearIsReached ==
    ASSUME NEW g
    PROVE  /\ Evaluated(g) = Near(g, MaxDepth)
           /\ \A n \in Nat : Near(g, n) \subseteq Near(g, n + 1) /\ Near(g, n) \subseteq Evaluated(g)
           /\ g \in Evaluated(g)
<1>1. ASSUME NEW n \in Nat, NEW h \in Near(g, n)
      PROVE  h \in Near(g, n + 1) /\ h \in Evaluated(g)
  <2>1. PICK c \in Chains(g) : Reached(c) /\ Len(c) + n > MaxDepth /\ Last(c) = h
    BY <1>1 DEF Near
  <2>2. Len(c) \in Nat /\ Len(c) \in DOMAIN c /\ Last(c) = c[Len(c)] /\ MaxDepth \in Nat
    BY LastOfChain, BoundsAssumption
  <2>3. h \in Range(c)
    BY <2>1, <2>2 DEF Range
  <2>4. Len(c) + (n + 1) > MaxDepth
    BY <2>1, <2>2
  <2> QED
    BY <2>1, <2>3, <2>4 DEF Near, Evaluated
<1>2. ASSUME NEW h \in Evaluated(g)
      PROVE  h \in Near(g, MaxDepth)
  <2>1. PICK c \in Chains(g) : Reached(c) /\ h \in Range(c)
    BY <1>2 DEF Evaluated
  <2>2. PICK n \in DOMAIN c : c[n] = h
    BY <2>1 DEF Range
  <2>3. IsChain(g, c) /\ Len(c) <= MaxDepth + 1
    BY ChainsAreThose
  <2>4. PICK len : len = Len(c)
    OBVIOUS
  <2>5. len \in Nat /\ n \in 1..len /\ MaxDepth \in Nat
    BY <2>4, LastOfChain, BoundsAssumption
  <2> DEFINE f == [k \in 1..n |-> c[k]]
  <2>6. /\ IsChain(g, f) /\ Len(f) = n /\ Last(f) = h
        /\ \A k \in 1..n : f[k] = c[k]
    BY <2>2, <2>3, <2>4, <2>5, Shorter
  <2> HIDE DEF f
  <2>7. f \in Chains(g)
    BY <2>3, <2>4, <2>5, <2>6, ChainsAreThose
  <2>8. Reached(f)
    BY <2>1, <2>4, <2>5, <2>6 DEF Reached
  <2>9. Len(f) + MaxDepth > MaxDepth
    BY <2>5, <2>6
  <2> QED
    BY <2>6, <2>7, <2>8, <2>9 DEF Near
<1>3. g \in Evaluated(g)
  <2>1. <<g>> \in Chains(g) /\ <<g>> \in Seq({g}) /\ Len(<<g>>) = 1 /\ <<g>>[1] = g
    BY ChainsOfTree
  <2>2. Reached(<<g>>) /\ g \in Range(<<g>>)
    BY <2>1 DEF Reached, Range
  <2> QED
    BY <2>1, <2>2 DEF Evaluated
<1>4. MaxDepth \in Nat
  BY BoundsAssumption
<1> QED
  BY <1>1, <1>2, <1>3, <1>4

-----------------------------------------------------------------------------
(* There is one set of composites that pass: it is decided from the deepest *)
(* of them up.                                                              *)
Inner(g) == {h \in Evaluated(g) : h.type \in COMPOSITES}

LEMMA NoTwoPassed ==
    ASSUME NEW g, NestsWithin(g), NEW leaves,
           NEW P \in SUBSET Inner(g), Consistent(Inner(g), P, leaves),
           NEW Q \in SUBSET Inner(g), Consistent(Inner(g), Q, leaves)
    PROVE  P = Q
<1> DEFINE Alike == {n \in Nat : \A h \in Near(g, n) \cap Inner(g) : h \in P <=> h \in Q}
           by(h, R) == {i \in DOMAIN h.gates : h.gates[i] \in R \cup leaves}
<1>1. ASSUME NEW h \in Inner(g), by(h, P) = by(h, Q)
      PROVE  h \in P <=> h \in Q
  <2>1. h \in P <=> Combined(h, by(h, P))
    BY DEF Consistent
  <2>2. h \in Q <=> Combined(h, by(h, Q))
    BY DEF Consistent
  <2> HIDE DEF by
  <2> QED
    BY <1>1, <2>1, <2>2
<1>2. 0 \in Alike
  <2> SUFFICES ASSUME NEW h \in Near(g, 0) \cap Inner(g)
               PROVE  by(h, P) = by(h, Q)
    BY <1>1
  <2>1. \A i \in DOMAIN h.gates : FALSE
    BY NearBelow DEF Inner
  <2> QED
    BY <2>1
<1>3. ASSUME NEW n \in Nat, n \in Alike
      PROVE  n + 1 \in Alike
  <2> SUFFICES ASSUME NEW h \in Near(g, n + 1) \cap Inner(g)
               PROVE  by(h, P) = by(h, Q)
    BY <1>1
  <2>1. ASSUME NEW i \in DOMAIN h.gates
        PROVE  h.gates[i] \in P <=> h.gates[i] \in Q
    <3>1. h.gates[i] \in Near(g, (n + 1) - 1) /\ (n + 1) - 1 = n
      BY NearBelow DEF Inner
    <3> QED
      BY <1>3, <3>1
  <2> QED
    BY <2>1
<1> HIDE DEF Alike
<1>4. MaxDepth \in Alike
  BY <1>2, <1>3, SetInduction, BoundsAssumption
<1>5. \A h \in Inner(g) : h \in P <=> h \in Q
  BY <1>4, NearIsReached DEF Alike, Inner
<1> QED
  BY <1>5

LEMMA SomePassed ==
    ASSUME NEW g, NestsWithin(g), NEW leaves
    PROVE  \E P \in SUBSET Inner(g) : Consistent(Inner(g), P, leaves)
<1> DEFINE Known(n) == Near(g, n) \cap Inner(g)
           by(h, R) == {i \in DOMAIN h.gates : h.gates[i] \in R \cup leaves}
           Settles(n, P) == \A h \in Known(n) : h \in P <=> Combined(h, by(h, P))
           S == {n \in Nat : \E P \in SUBSET Inner(g) : Settles(n, P)}
<1>1. 0 \in S
  <2> DEFINE P == {h \in Known(0) : Combined(h, by(h, {}))}
  <2>1. ASSUME NEW h \in Known(0)
        PROVE  by(h, P) = by(h, {})
    <3>1. \A i \in DOMAIN h.gates : FALSE
      BY NearBelow DEF Inner
    <3> QED
      BY <3>1
  <2>2. P \in SUBSET Inner(g)
    OBVIOUS
  <2> HIDE DEF by
  <2>3. \A h \in Known(0) : h \in P <=> Combined(h, by(h, P))
    BY <2>1
  <2> QED
    BY <2>2, <2>3
<1>2. ASSUME NEW n \in Nat, n \in S
      PROVE  n + 1 \in S
  <2>1. PICK P \in SUBSET Inner(g) : Settles(n, P)
    BY <1>2
  <2> DEFINE Q == {h \in Known(n + 1) : Combined(h, by(h, P))}
  <2>2. Known(n) \subseteq Known(n + 1)
    BY NearIsReached
  <2>3. ASSUME NEW h \in Known(n)
        PROVE  h \in P <=> h \in Q
    <3>1. h \in P <=> Combined(h, by(h, P))
      BY <2>1, <2>3
    <3> HIDE DEF by
    <3> QED
      BY <2>2, <2>3, <3>1
  <2>4. Q \in SUBSET Inner(g)
    OBVIOUS
  <2> HIDE DEF Q
  <2>5. ASSUME NEW h \in Known(n + 1)
        PROVE  by(h, P) = by(h, Q)
    <3>1. ASSUME NEW i \in DOMAIN h.gates
          PROVE  h.gates[i] \in P <=> h.gates[i] \in Q
      <4>1. h.gates[i] \in Near(g, (n + 1) - 1) /\ (n + 1) - 1 = n
        BY NearBelow DEF Inner
      <4> QED
        BY <2>3, <2>4, <4>1
    <3> QED
      BY <3>1
  <2>6. Settles(n + 1, Q)
    <3> HIDE DEF by, Known
    <3> QED
      BY <2>5 DEF Q
  <2> HIDE DEF Settles
  <2> QED
    BY <2>4, <2>6
<1> HIDE DEF S
<1>3. MaxDepth \in S
  BY <1>1, <1>2, SetInduction, BoundsAssumption
<1>4. PICK P \in SUBSET Inner(g) : Settles(MaxDepth, P)
  BY <1>3 DEF S
<1>5. Known(MaxDepth) = Inner(g)
  BY NearIsReached DEF Inner
<1>6. \A h \in Inner(g) : h \in P <=> Combined(h, by(h, P))
  <2> HIDE DEF by, Known
  <2> QED
    BY <1>4, <1>5
<1> QED
  BY <1>4, <1>6 DEF Consistent

-----------------------------------------------------------------------------
(* A tree stands below its root as it would by itself.                      *)
LEMMA Prefixed ==
    ASSUME NEW g, NEW i \in DOMAIN g.gates, NEW c, IsChain(g.gates[i], c)
    PROVE  /\ IsChain(g, <<g>> \o c) /\ Len(<<g>> \o c) = Len(c) + 1 /\ (<<g>> \o c)[1] = g
           /\ \A k \in 1..Len(c) : (<<g>> \o c)[k + 1] = c[k]
<1> DEFINE d == <<g>> \o c
<1>1. PICK len : len = Len(c)
  OBVIOUS
<1>2. len \in Nat /\ len > 0 /\ IsList(c) /\ c[1] = g.gates[i]
  BY <1>1, ListLen DEF IsChain
<1>3. <<g>> \in Seq({g}) /\ Len(<<g>>) = 1 /\ <<g>>[1] = g
  OBVIOUS
<1>4. IsList(<<g>>)
  BY <1>3, SeqIsList
<1>5. IsList(d) /\ Len(d) = 1 + len /\ d[1] = g /\ \A k \in 1..len : d[1 + k] = c[k]
  <2>1. 1 \in 1..1
    OBVIOUS
  <2> QED
    BY <1>1, <1>2, <1>3, <1>4, <2>1, Concatenated
<1> HIDE DEF d
<1>6. \A k \in 1..len : d[k + 1] = c[k]
  BY <1>2, <1>5
<1>7. ASSUME NEW m \in 1..len
      PROVE  \E j \in DOMAIN d[m].gates : d[m + 1] = d[m].gates[j]
  <2>1. CASE m = 1
    <3>1. 1 \in 1..len /\ 1 + 1 = 2
      BY <1>2
    <3>2. d[2] = c[1]
      BY <1>6, <3>1
    <3> QED
      BY <1>2, <1>5, <2>1, <3>1, <3>2
  <2>2. CASE m # 1
    <3>1. m - 1 \in 1..(len - 1) /\ m - 1 \in 1..len /\ (m - 1) + 1 = m
      BY <1>2, <2>2
    <3>2. d[m] = c[m - 1] /\ d[m + 1] = c[m]
      BY <1>6, <3>1
    <3>3. \E j \in DOMAIN c[m - 1].gates : c[(m - 1) + 1] = c[m - 1].gates[j]
      BY <1>1, <3>1 DEF IsChain, Linked
    <3> QED
      BY <3>1, <3>2, <3>3
  <2> QED
    BY <2>1, <2>2
<1>8. Linked(d)
  BY <1>2, <1>5, <1>7 DEF Linked
<1>9. IsChain(g, d)
  BY <1>2, <1>5, <1>8 DEF IsChain
<1> QED
  BY <1>1, <1>2, <1>5, <1>6, <1>9 DEF d

LEMMA NestsBelow ==
    ASSUME NEW g, NestsWithin(g), g.type \in COMPOSITES, NEW i \in DOMAIN g.gates
    PROVE  /\ NestsWithin(g.gates[i])
           /\ Evaluated(g.gates[i]) \subseteq Evaluated(g)
<1> DEFINE h == g.gates[i]
<1>1. ASSUME NEW c \in Chains(h)
      PROVE  Len(c) <= MaxDepth
  <2>1. PICK len : len = Len(c)
    OBVIOUS
  <2>2. IsChain(h, c) /\ len \in Nat /\ len > 0 /\ len <= MaxDepth + 1 /\ MaxDepth \in Nat
    BY <2>1, LastOfChain, ChainsAreThose, BoundsAssumption
  <2> SUFFICES ASSUME len = MaxDepth + 1 PROVE FALSE
    BY <2>1, <2>2
  <2> DEFINE d == <<g>> \o c
             f == [k \in 1..len |-> d[k]]
  <2>3. IsChain(g, d) /\ Len(d) = len + 1
    <3>1. IsChain(g.gates[i], c)
      BY <2>2
    <3> HIDE DEF h
    <3> QED
      BY <2>1, <3>1, Prefixed
  <2> HIDE DEF d
  <2>4. len \in 1..Len(d) /\ len \in 1..(Len(d) - 1)
    BY <2>2, <2>3
  <2>5. IsChain(g, f) /\ Len(f) = len /\ Last(f) = d[len]
    BY <2>3, <2>4, Shorter
  <2> HIDE DEF f
  <2>6. f \in Chains(g)
    BY <2>2, <2>5, ChainsAreThose
  <2>7. DOMAIN d[len].gates = {}
    BY <2>2, <2>5, <2>6 DEF NestsWithin
  <2>8. \E j \in DOMAIN d[len].gates : d[len + 1] = d[len].gates[j]
    BY <2>3, <2>4 DEF IsChain, Linked
  <2> QED
    BY <2>7, <2>8
<1>2. NestsWithin(h)
  <2> SUFFICES ASSUME NEW c \in Chains(h), Len(c) > MaxDepth PROVE FALSE
    BY DEF NestsWithin
  <2>1. Len(c) \in Nat /\ MaxDepth \in Nat /\ Len(c) <= MaxDepth
    BY <1>1, LastOfChain, BoundsAssumption
  <2> QED
    BY <2>1
<1>3. ASSUME NEW x \in Evaluated(h)
      PROVE  x \in Evaluated(g)
  <2>1. PICK c \in Chains(h) : Reached(c) /\ Last(c) = x
    BY NearIsReached DEF Near
  <2>2. PICK len : len = Len(c)
    OBVIOUS
  <2>3. IsChain(h, c) /\ len \in Nat /\ len > 0 /\ len <= MaxDepth /\ MaxDepth \in Nat /\ c[len] = x
    BY <1>1, <2>1, <2>2, LastOfChain, ChainsAreThose, BoundsAssumption
  <2> DEFINE d == <<g>> \o c
  <2>4. /\ IsChain(g, d) /\ Len(d) = len + 1 /\ d[1] = g
        /\ \A k \in 1..len : d[k + 1] = c[k]
    <3>1. IsChain(g.gates[i], c)
      BY <2>3
    <3> HIDE DEF h
    <3> QED
      BY <2>2, <3>1, Prefixed
  <2> HIDE DEF d
  <2>5. d \in Chains(g)
    BY <2>3, <2>4, ChainsAreThose
  <2>6. Reached(d)
    <3> SUFFICES ASSUME NEW k \in 1..len PROVE d[k].type \in COMPOSITES
      BY <2>3, <2>4 DEF Reached
    <3>1. CASE k = 1
      BY <2>4, <3>1
    <3>2. CASE k # 1
      <4>1. k - 1 \in 1..len /\ k - 1 \in 1..(len - 1) /\ (k - 1) + 1 = k
        BY <2>3, <3>2
      <4> QED
        BY <2>1, <2>2, <2>4, <4>1 DEF Reached
    <3> QED
      BY <3>1, <3>2
  <2>7. x \in Range(d)
    <3>1. len \in 1..len /\ len + 1 \in DOMAIN d
      BY <2>3, <2>4, <2>5, LastOfChain
    <3>2. d[len + 1] = x
      BY <2>3, <2>4, <3>1
    <3> QED
      BY <3>1, <3>2 DEF Range
  <2> QED
    BY <2>5, <2>6, <2>7 DEF Evaluated
<1> QED
  BY <1>2, <1>3

LEMMA ReachedBelow ==
    ASSUME NEW g, NestsWithin(g), NEW h \in Inner(g), NEW i \in DOMAIN h.gates
    PROVE  h.gates[i] \in Evaluated(g)
<1>1. h \in Near(g, MaxDepth) /\ h.type \in COMPOSITES /\ MaxDepth \in Nat
  BY NearIsReached, BoundsAssumption DEF Inner
<1>2. MaxDepth > 0 /\ h.gates[i] \in Near(g, MaxDepth - 1)
  BY <1>1, NearBelow
<1>3. MaxDepth - 1 \in Nat
  BY <1>1, <1>2
<1> QED
  BY <1>2, <1>3, NearIsReached

LeavesPassed(g, ctx) == {h \in Evaluated(g) \ Inner(g) : eval_leaf(h, ctx)}

LEMMA EvalOfPassed ==
    ASSUME NEW g, NEW ctx, NestsWithin(g), g.type \in COMPOSITES,
           NEW P \in SUBSET Inner(g), Consistent(Inner(g), P, LeavesPassed(g, ctx))
    PROVE  eval(g, ctx) <=> g \in P
<1>1. eval(g, ctx) <=> \E Q \in SUBSET Inner(g) :
                           g \in Q /\ Consistent(Inner(g), Q, LeavesPassed(g, ctx))
  BY DEF eval, Inner, LeavesPassed
<1>2. \A Q \in SUBSET Inner(g) : Consistent(Inner(g), Q, LeavesPassed(g, ctx)) => Q = P
  BY NoTwoPassed
<1> QED
  BY <1>1, <1>2

(* The evaluation is the recursion that eval is written as: a composite is  *)
(* decided by which of its own gates pass, each evaluated by itself, and a  *)
(* leaf by itself.                                                          *)
THEOREM EvalByParts ==
    ASSUME NEW g, NEW ctx, NestsWithin(g)
    PROVE  /\ g.type \notin COMPOSITES => eval(g, ctx) = eval_leaf(g, ctx)
           /\ g.type \in COMPOSITES =>
                (eval(g, ctx) <=> Combined(g, {i \in DOMAIN g.gates : eval(g.gates[i], ctx)}))
<1> SUFFICES ASSUME g.type \in COMPOSITES
             PROVE  eval(g, ctx) <=> Combined(g, {i \in DOMAIN g.gates : eval(g.gates[i], ctx)})
  BY LeafEval
<1> DEFINE leaves == LeavesPassed(g, ctx)
<1>1. PICK P \in SUBSET Inner(g) : Consistent(Inner(g), P, leaves)
  BY SomePassed
<1>2. g \in Inner(g)
  BY NearIsReached DEF Inner
<1>3. eval(g, ctx) <=> g \in P
  BY <1>1, EvalOfPassed
<1>4. ASSUME NEW i \in DOMAIN g.gates
      PROVE  eval(g.gates[i], ctx) <=> g.gates[i] \in P \cup leaves
  <2> DEFINE h == g.gates[i]
  <2>1. h \in Evaluated(g)
    BY <1>2, ReachedBelow
  <2>2. NestsWithin(h) /\ Evaluated(h) \subseteq Evaluated(g)
    BY NestsBelow
  <2> HIDE DEF h
  <2>3. CASE h.type \notin COMPOSITES
    <3>1. eval(h, ctx) = eval_leaf(h, ctx)
      BY <2>3, LeafEval
    <3>2. h \notin Inner(g)
      BY <2>3 DEF Inner
    <3>3. h \in leaves <=> eval_leaf(h, ctx)
      BY <2>1, <3>2 DEF LeavesPassed
    <3> QED
      BY <3>1, <3>2, <3>3 DEF h
  <2>4. CASE h.type \in COMPOSITES
    <3> DEFINE Q == P \cap Inner(h)
               own == LeavesPassed(h, ctx)
    <3>1. Inner(h) \subseteq Inner(g) /\ h \in Inner(h) /\ h \notin leaves
      BY <2>1, <2>2, <2>4, NearIsReached DEF Inner, LeavesPassed
    <3>2. ASSUME NEW x \in Evaluated(h)
          PROVE  x \in P \cup leaves <=> x \in Q \cup own
      <4>1. x \in Inner(h) <=> x \in Inner(g)
        BY <2>2 DEF Inner
      <4>2. x \in own <=> x \in leaves
        BY <2>2, <4>1 DEF LeavesPassed
      <4>3. x \in P <=> x \in Q
        BY <4>1
      <4> QED
        BY <4>2, <4>3
    <3>3. ASSUME NEW k \in Inner(h)
          PROVE  k \in Q <=> Combined(k, {j \in DOMAIN k.gates : k.gates[j] \in Q \cup own})
      <4>1. \A j \in DOMAIN k.gates : k.gates[j] \in Evaluated(h)
        BY <2>2, ReachedBelow
      <4>2. {j \in DOMAIN k.gates : k.gates[j] \in P \cup leaves}
              = {j \in DOMAIN k.gates : k.gates[j] \in Q \cup own}
        BY <3>2, <4>1
      <4>3. k \in P <=> Combined(k, {j \in DOMAIN k.gates : k.gates[j] \in P \cup leaves})
        BY <1>1, <3>1 DEF Consistent
      <4>4. k \in Q <=> k \in P
        OBVIOUS
      <4> QED
        BY <4>2, <4>3, <4>4
    <3>4. Consistent(Inner(h), Q, own)
      BY <3>3 DEF Consistent
    <3>5. eval(h, ctx) <=> h \in Q
      BY <2>2, <2>4, <3>4, EvalOfPassed
    <3> QED
      BY <3>1, <3>5 DEF h
  <2> QED
    BY <2>3, <2>4
<1>5. {i \in DOMAIN g.gates : eval(g.gates[i], ctx)}
        = {i \in DOMAIN g.gates : g.gates[i] \in P \cup leaves}
  BY <1>4
<1>6. g \in P <=> Combined(g, {i \in DOMAIN g.gates : g.gates[i] \in P \cup leaves})
  BY <1>1, <1>2 DEF Consistent
<1> QED
  BY <1>3, <1>5, <1>6

-----------------------------------------------------------------------------
(* What a tree that passes tells of its leaves.                             *)
LEMMA LeafOfLeaf ==
    ASSUME NEW g, g.type \notin COMPOSITES, NEW c \in Leaves(g)
    PROVE  Last(c) = g
<1>1. c \in Chains(g) /\ Reached(c)
  BY DEF Leaves
<1> DEFINE len == Len(c)
<1>2. len \in Nat /\ len > 0 /\ Last(c) = c[len] /\ c[1] = g
  BY <1>1, LastOfChain
<1>3. \A n \in 1..(len - 1) : c[n].type \in COMPOSITES
  BY <1>1 DEF Reached
<1> HIDE DEF len
<1>4. len = 1
  <2> SUFFICES ASSUME len # 1 PROVE FALSE
    OBVIOUS
  <2>1. 1 \in 1..(len - 1)
    BY <1>2
  <2> QED
    BY <1>2, <1>3, <2>1
<1> QED
  BY <1>2, <1>4

(* A leaf that lint counts as required, on no branch, has passed when the   *)
(* tree has: from the root down every gate above it is an all_of.           *)
LEMMA RequiredPasses ==
    ASSUME NEW g, NEW ctx, eval(g, ctx), NEW c \in Leaves(g),
           Positive(c), ~Disjunctive(c),
           \A m, n \in Above(c, {"not"}) : m = n
    PROVE  eval_leaf(Last(c), ctx)
<1>1. c \in Chains(g) /\ Reached(c) /\ Last(c).type \notin COMPOSITES
  BY DEF Leaves
<1> DEFINE len == Len(c)
<1>2. /\ len \in Nat /\ len > 0 /\ DOMAIN c = 1..len
      /\ Last(c) = c[len] /\ c[1] = g
      /\ \A n \in 1..(len - 1) : \E i \in DOMAIN c[n].gates : c[n + 1] = c[n].gates[i]
  <2>1. /\ len \in Nat /\ len > 0 /\ DOMAIN c = 1..len
        /\ Last(c) = c[len] /\ c[1] = g /\ Linked(c)
    BY <1>1, LastOfChain, ZenonT(30)
  <2> QED
    BY <2>1, Zenon DEF Linked
<1>3. CASE g.type \notin COMPOSITES
  BY <1>3, LeafEval, LeafOfLeaf
<1>4. CASE g.type \in COMPOSITES
  <2> DEFINE reached == Evaluated(g)
             inner == {h \in reached : h.type \in COMPOSITES}
             leaves == {h \in reached \ inner : eval_leaf(h, ctx)}
  <2>1. PICK passed \in SUBSET inner : g \in passed /\ Consistent(inner, passed, leaves)
    BY <1>4 DEF eval
  <2>2. ASSUME NEW n \in 1..(len - 1)
        PROVE  c[n].type = "all_of"
    <3>1. c[n].type \in COMPOSITES
      BY <1>1, <2>2 DEF Reached
    <3>2. c[n].type \notin {"any_of", "k_of_n"}
      BY <2>2 DEF Disjunctive, Above
    <3>3. c[n].type # "not"
      <4> SUFFICES ASSUME c[n].type = "not" PROVE FALSE
        OBVIOUS
      <4>1. Above(c, {"not"}) = {n}
        BY <2>2 DEF Above
      <4>2. Cardinality({n}) = 1 /\ 1 % 2 # 0
        BY FS_Singleton
      <4> QED
        BY <4>1, <4>2 DEF Positive
    <3> QED
      BY <3>1, <3>2, <3>3 DEF COMPOSITES
  <2> DEFINE P == {n \in Nat : n + 1 \in 1..len => c[n + 1] \in passed \cup leaves}
  <2>3. 0 \in P
    BY <1>2, <2>1
  <2>4. ASSUME NEW n \in Nat, n \in P
        PROVE  n + 1 \in P
    <3> SUFFICES ASSUME n + 2 \in 1..len
                 PROVE  c[n + 2] \in passed \cup leaves
      BY <1>2
    <3> DEFINE h == c[n + 1]
    <3>1. n + 1 \in 1..(len - 1) /\ n + 1 \in 1..len
      BY <1>2
    <3>2. h.type = "all_of" /\ h \in passed \cup leaves
      BY <2>2, <2>4, <3>1
    <3>3. h \in passed /\ h \in inner
      BY <2>1, <3>2 DEF COMPOSITES
    <3>4. {i \in DOMAIN h.gates : h.gates[i] \in passed \cup leaves} = DOMAIN h.gates
      BY <2>1, <3>2, <3>3 DEF Consistent, Combined
    <3>5. PICK i \in DOMAIN h.gates : c[n + 2] = h.gates[i]
      BY <1>2, <3>1
    <3> QED
      BY <3>4, <3>5
  <2> HIDE DEF P
  <2>5. len - 1 \in P
    BY <1>2, <2>3, <2>4, SetInduction
  <2>6. c[len] \in passed \cup leaves
    BY <1>2, <2>5 DEF P
  <2> QED
    BY <1>1, <1>2, <2>1, <2>6
<1> QED
  BY <1>3, <1>4

-----------------------------------------------------------------------------
(* What a step appends.                                                     *)
Kept == \A n \in DOMAIN ledger : ledger'[n] = ledger[n]
Grows == IsList(ledger') /\ Len(ledger) <= Len(ledger') /\ Kept
New == (Len(ledger) + 1)..Len(ledger')

LEMMA Appending ==
    ASSUME IsList(ledger), NEW entries, IsList(entries), AppendAll(entries)
    PROVE  /\ Grows
           /\ Len(ledger') = Len(ledger) + Len(entries)
           /\ \A n \in New :
                 /\ n - Len(ledger) \in 1..Len(entries)
                 /\ ledger'[n] = entries[n - Len(ledger)]
<1> DEFINE L == Len(ledger)
           K == Len(entries)
<1>1. ledger' = ledger \o entries
  BY DEF AppendAll
<1>2. L \in Nat /\ K \in Nat /\ DOMAIN ledger = 1..L
  BY ListLen
<1>3. /\ IsList(ledger') /\ Len(ledger') = L + K
      /\ \A n \in 1..L : ledger'[n] = ledger[n]
      /\ \A n \in 1..K : ledger'[L + n] = entries[n]
  BY <1>1, Concatenated
<1>4. ASSUME NEW n \in New
      PROVE  n - L \in 1..K /\ ledger'[n] = entries[n - L]
  <2> HIDE DEF L, K
  <2>1. n \in (L + 1)..(L + K)
    BY <1>3 DEF New, L
  <2>2. n - L \in 1..K /\ L + (n - L) = n
    BY <1>2, <2>1
  <2> QED
    BY <1>3, <2>2
<1> HIDE DEF L, K
<1>5. L <= L + K
  BY <1>2
<1> QED
  BY <1>2, <1>3, <1>4, <1>5 DEF Grows, Kept, L, K

(* The state is what the last move says, and nothing else says it.          *)
LEMMA QuietState ==
    ASSUME IsList(ledger), Grows, config' = config,
           \A n \in New : ledger'[n].type # "state_transition"
    PROVE  state' = state
<1> DEFINE old == events_of_type(ledger, "state_transition")
           new == events_of_type(ledger', "state_transition")
<1>1. Len(ledger) \in Nat /\ DOMAIN ledger = 1..Len(ledger)
  BY ListLen
<1>2. Len(ledger') \in Nat /\ DOMAIN ledger' = 1..Len(ledger') /\ Len(ledger) <= Len(ledger')
  BY ListLen DEF Grows
<1>3. \A n \in DOMAIN ledger' : n \in DOMAIN ledger \/ n \in New
  BY <1>1, <1>2 DEF New
<1>4. DOMAIN ledger \subseteq DOMAIN ledger'
  BY <1>1, <1>2
<1>5. new = old
  BY <1>3, <1>4 DEF events_of_type, Grows, Kept
<1>6. old # {} => Max(old) \in old
  <2>1. old \in SUBSET (1..Len(ledger))
    BY <1>1 DEF events_of_type
  <2> QED
    BY <1>1, <2>1, LastPlace
<1>7. old # {} => ledger'[Max(old)] = ledger[Max(old)]
  BY <1>6 DEF events_of_type, Grows, Kept
<1>8. initial_state(config') = initial_state(config)
  OBVIOUS
<1> QED
  BY <1>5, <1>7, <1>8 DEF state, derive_state_from_ledger

LEMMA MovedState ==
    ASSUME IsList(ledger), Grows, NEW t, Len(ledger) + 1 \in New,
           ledger'[Len(ledger) + 1] = Moved(t),
           \A n \in New : n # Len(ledger) + 1 => ledger'[n].type # "state_transition"
    PROVE  state' = t.to
<1> DEFINE new == events_of_type(ledger', "state_transition")
           at == Len(ledger) + 1
<1>1. Len(ledger) \in Nat
  BY ListLen
<1>2. Len(ledger') \in Nat /\ DOMAIN ledger' = 1..Len(ledger')
  BY ListLen DEF Grows
<1>3. at \in 1..Len(ledger')
  BY <1>1, <1>2 DEF New
<1>4. /\ Moved(t).type = "state_transition"
      /\ DOMAIN Moved(t).fields = {"from", "to", "command"}
      /\ Moved(t).fields["to"] = t.to
  BY DEF Moved, NewEntry
<1>5. at \in new
  BY <1>2, <1>3, <1>4 DEF events_of_type, Has
<1>6. \A n \in new : n <= at
  <2> SUFFICES ASSUME NEW n \in new, n > at PROVE FALSE
    BY <1>1, <1>2 DEF events_of_type
  <2>1. n \in New
    BY <1>1, <1>2 DEF events_of_type, New
  <2> QED
    BY <1>1, <2>1 DEF events_of_type
<1>7. Max(new) \in new /\ \A n \in new : n <= Max(new)
  <2>1. new \in SUBSET (1..Len(ledger'))
    BY <1>2 DEF events_of_type
  <2> QED
    BY <1>2, <1>5, <2>1, LastPlace
<1>8. Max(new) = at
  <2>1. Max(new) \in Nat /\ at \in Nat
    BY <1>1, <1>2, <1>7 DEF events_of_type
  <2>2. Max(new) <= at /\ at <= Max(new)
    BY <1>5, <1>6, <1>7
  <2> HIDE DEF new, at
  <2> QED
    BY <2>1, <2>2
<1>9. /\ new # {} /\ Has(ledger'[Max(new)].fields, "to")
      /\ ledger'[Max(new)].fields["to"] = t.to
  BY <1>4, <1>5, <1>8 DEF Has
<1> QED
  BY <1>9 DEF state, derive_state_from_ledger

-----------------------------------------------------------------------------
(* What a transition appends: itself, then attestations, then its emits.    *)
Sound == config \in Protocols /\ validate(config) = {} /\ IsList(ledger)

Takes(i, args, world) ==
    LET t == config.transitions[i]
        params == ParamsFor(i, args)
    IN  /\ i \in DOMAIN config.transitions /\ t.from = state
        /\ evaluate_gates(t.gates, Context(i, args, world))
        /\ \A k \in DOMAIN t.emits : resolve_emit(t.emits[k], params, world) # {}
        /\ AppendAll(<<Moved(t)>> \o Attested(t) \o Emitted(t, params, world))
        /\ visited' = visited \cup {t.to}
        /\ bare' = W!BareAfter(t)
        /\ around' = W!AroundAfter(t)
        /\ fired' = fired \cup {i}
        /\ UNCHANGED config

LEMMA Taking ==
    ASSUME NEW command, NEW args, NEW world, cmd_transition(command, args, world)
    PROVE  \E i \in prepare_transition(command, args, world) : Takes(i, args, world)
BY DEF cmd_transition, Takes, prepare_transition, Passing, Candidates, Group

AttestsOne(t, fields) ==
    \E g \in Range(t.gates) : fields = [gate_type |-> g.type, transition_command |-> t.command]

LEMMA Attesting ==
    ASSUME NEW t, IsList(t.gates)
    PROVE  /\ IsList(Attested(t))
           /\ \A n \in 1..Len(Attested(t)) :
                 /\ Attested(t)[n].type = "gate_attestation"
                 /\ Attested(t)[n].by = Stamp("engine:transition", t.command)
                 /\ AttestsOne(t, Attested(t)[n].fields)
<1> DEFINE S == {k \in DOMAIN t.gates : Attests(t.gates[k])}
           left == Attested(t)
<1>1. S \in SUBSET (1..Len(t.gates)) /\ Len(t.gates) \in Nat
  BY ListLen
<1>2. Cardinality(S) \in Nat /\ InOrder(S) \in [1..Cardinality(S) -> S]
  BY <1>1, Ordered
<1>3. left = [n \in 1..Cardinality(S) |->
            NewEntry("gate_attestation",
                     [gate_type |-> t.gates[InOrder(S)[n]].type, transition_command |-> t.command],
                     Stamp("engine:transition", t.command))]
  BY <1>2 DEF Attested
<1> HIDE DEF left, S
<1>4. IsList(left) /\ Len(left) = Cardinality(S)
  <2>1. left = [n \in 1..Cardinality(S) |-> left[n]]
    BY <1>3
  <2> QED
    BY <1>2, <2>1, ListOf
<1>5. ASSUME NEW n \in 1..Len(left)
      PROVE  /\ left[n].type = "gate_attestation"
             /\ left[n].by = Stamp("engine:transition", t.command)
             /\ AttestsOne(t, left[n].fields)
  <2>1. t.gates[InOrder(S)[n]] \in Range(t.gates)
    BY <1>2, <1>4 DEF Range, S
  <2> QED
    BY <1>3, <1>4, <2>1 DEF NewEntry, AttestsOne
<1> QED
  BY <1>4, <1>5 DEF left

LEMMA Emitting1 ==
    ASSUME NEW t, NEW params, NEW world, IsList(t.emits)
    PROVE  IsList(Emitted(t, params, world)) /\ Len(Emitted(t, params, world)) = Len(t.emits)
<1> DEFINE out == Emitted(t, params, world)
<1>1. Len(t.emits) \in Nat /\ DOMAIN t.emits = 1..Len(t.emits)
  BY ListLen
<1>2. out = [k \in 1..Len(t.emits) |-> out[k]]
  BY <1>1 DEF Emitted
<1> HIDE DEF out
<1> QED
  BY <1>1, <1>2, ListOf DEF out

EmitPlace(t, k) == Len(ledger) + 1 + Len(Attested(t)) + k

(* Three lists in a row.                                                    *)
LEMMA InARow ==
    ASSUME NEW one, NEW att, NEW out, IsList(one), IsList(att), IsList(out), Len(one) > 0
    PROVE  /\ IsList(one \o att \o out)
           /\ Len(one \o att \o out) = (Len(one) + Len(att)) + Len(out)
           /\ (one \o att \o out)[1] = one[1]
           /\ \A n \in 1..Len(att) : (one \o att \o out)[Len(one) + n] = att[n]
           /\ \A n \in 1..Len(out) : (one \o att \o out)[(Len(one) + Len(att)) + n] = out[n]
<1>1. PICK two : two = one \o att
  OBVIOUS
<1>2. /\ IsList(two) /\ Len(two) = Len(one) + Len(att)
      /\ \A n \in 1..Len(one) : two[n] = one[n]
      /\ \A n \in 1..Len(att) : two[Len(one) + n] = att[n]
  BY <1>1, Concatenated
<1>3. IsList(two)
  BY <1>2
<1>4. PICK all : all = two \o out
  OBVIOUS
<1>5. /\ IsList(all) /\ Len(all) = Len(two) + Len(out)
      /\ \A n \in 1..Len(two) : all[n] = two[n]
      /\ \A n \in 1..Len(out) : all[Len(two) + n] = out[n]
  BY <1>3, <1>4, Concatenated
<1>6. PICK A, B : A = Len(att) /\ B = Len(one)
  OBVIOUS
<1>7. A \in Nat /\ B \in Nat /\ B > 0
  BY <1>6, ListLen
<1>8. 1 \in 1..B /\ 1 \in 1..(B + A) /\ \A n \in 1..A : B + n \in 1..(B + A)
  BY <1>7
<1>9. all[1] = one[1] /\ \A n \in 1..Len(att) : all[Len(one) + n] = att[n]
  BY <1>2, <1>5, <1>6, <1>8
<1> QED
  BY <1>1, <1>2, <1>4, <1>5, <1>9

LEMMA ThirdPart ==
    ASSUME NEW A \in Nat, NEW K \in Nat, NEW p \in 1..((1 + A) + K), p # 1
    PROVE  \/ p - 1 \in 1..A /\ p = 1 + (p - 1)
           \/ p - (1 + A) \in 1..K /\ p = (1 + A) + (p - (1 + A))
OBVIOUS

LEMMA TakenAppends ==
    ASSUME Sound, NEW i, NEW args, NEW world, Takes(i, args, world)
    PROVE  LET t == config.transitions[i]
           IN  /\ Grows
               /\ Len(ledger) + 1 \in New
               /\ ledger'[Len(ledger) + 1] = Moved(t)
               /\ \A n \in New \ {Len(ledger) + 1} :
                     \/ /\ ledger'[n].type = "gate_attestation"
                        /\ ledger'[n].by = Stamp("engine:transition", t.command)
                        /\ AttestsOne(t, ledger'[n].fields)
                     \/ \E k \in DOMAIN t.emits :
                           /\ n = EmitPlace(t, k)
                           /\ ledger'[n] = Emitted(t, ParamsFor(i, args), world)[k]
<1> DEFINE t == config.transitions[i]
           params == ParamsFor(i, args)
           all == <<Moved(t)>> \o Attested(t) \o Emitted(t, params, world)
<1>1. i \in DOMAIN config.transitions /\ AppendAll(all)
  BY DEF Takes
<1>2. IsList(t.gates) /\ IsList(t.emits)
  BY <1>1, ProtocolsAssumption DEF Sound, WellShaped
<1>3. PICK one, att, out :
          one = <<Moved(t)>> /\ att = Attested(t) /\ out = Emitted(t, params, world)
  OBVIOUS
<1>4. IsList(one) /\ Len(one) = 1 /\ one[1] = Moved(t)
  <2>1. one \in Seq({Moved(t)}) /\ Len(one) = 1 /\ one[1] = Moved(t)
    BY <1>3
  <2> QED
    BY <2>1, SeqIsList
<1>15. IsList(one)
  BY <1>4
<1>5. IsList(att) /\ IsList(out)
  BY <1>2, <1>3, Attesting, Emitting1
<1>6. PICK L, A, K : L = Len(ledger) /\ A = Len(att) /\ K = Len(out)
  OBVIOUS
<1>7. L \in Nat /\ A \in Nat /\ K \in Nat
  BY <1>5, <1>6, ListLen DEF Sound
<1>8. DOMAIN t.emits = 1..K
  BY <1>2, <1>3, <1>6, Emitting1, ListLen
<1>9. /\ IsList(all) /\ Len(all) = (1 + A) + K
      /\ all[1] = Moved(t)
      /\ \A n \in 1..A : all[1 + n] = att[n]
      /\ \A n \in 1..K : all[(1 + A) + n] = out[n]
  <2>3. /\ IsList(one \o att \o out)
        /\ Len(one \o att \o out) = (Len(one) + Len(att)) + Len(out)
        /\ (one \o att \o out)[1] = one[1]
        /\ \A n \in 1..Len(att) : (one \o att \o out)[Len(one) + n] = att[n]
        /\ \A n \in 1..Len(out) : (one \o att \o out)[(Len(one) + Len(att)) + n] = out[n]
    <3>1. Len(one) > 0
      BY <1>4
    <3> QED
      BY <1>15, <1>5, <3>1, InARow
  <2>4. all = one \o att \o out
    BY <1>3
  <2> HIDE DEF all
  <2> QED
    BY <1>4, <1>6, <2>3, <2>4
<1> HIDE DEF all
<1>10. /\ Grows
       /\ Len(ledger') = L + ((1 + A) + K)
       /\ \A n \in New : n - L \in 1..((1 + A) + K) /\ ledger'[n] = all[n - L]
  BY <1>1, <1>6, <1>9, Appending DEF Sound
<1>11. New = (L + 1)..(L + ((1 + A) + K))
  BY <1>6, <1>10 DEF New
<1>12. L + 1 \in New /\ ledger'[L + 1] = Moved(t)
  <2>1. L + 1 \in New /\ (L + 1) - L = 1
    BY <1>7, <1>11
  <2> QED
    BY <1>9, <1>10, <2>1
<1>13. ASSUME NEW n \in New, n # L + 1
       PROVE  \/ \E m \in 1..A : ledger'[n] = att[m]
              \/ \E k \in 1..K : n = L + 1 + A + k /\ ledger'[n] = out[k]
  <2>1. PICK p : p = n - L
    OBVIOUS
  <2>2. p \in 1..((1 + A) + K) /\ ledger'[n] = all[p]
    BY <1>10, <2>1
  <2>3. p # 1 /\ n = L + p
    BY <1>7, <1>11, <1>13, <2>1
  <2>4. \/ p - 1 \in 1..A /\ p = 1 + (p - 1)
        \/ p - (1 + A) \in 1..K /\ p = (1 + A) + (p - (1 + A))
    BY <1>7, <2>2, <2>3, ThirdPart
  <2>5. CASE p - 1 \in 1..A /\ p = 1 + (p - 1)
    BY <1>9, <2>2, <2>5
  <2>6. CASE p - (1 + A) \in 1..K /\ p = (1 + A) + (p - (1 + A))
    <3>1. n = L + 1 + A + (p - (1 + A))
      BY <1>7, <2>2, <2>3
    <3> QED
      BY <1>9, <2>2, <2>6, <3>1
  <2> QED
    BY <2>4, <2>5, <2>6
<1>14. ASSUME NEW n \in New, n # L + 1
       PROVE  \/ /\ ledger'[n].type = "gate_attestation"
                 /\ ledger'[n].by = Stamp("engine:transition", t.command)
                 /\ AttestsOne(t, ledger'[n].fields)
              \/ \E k \in DOMAIN t.emits : n = EmitPlace(t, k) /\ ledger'[n] = out[k]
  <2>1. \A m \in 1..A : /\ att[m].type = "gate_attestation"
                        /\ att[m].by = Stamp("engine:transition", t.command)
                        /\ AttestsOne(t, att[m].fields)
    BY <1>2, <1>3, <1>6, Attesting
  <2>2. CASE \E m \in 1..A : ledger'[n] = att[m]
    BY <2>1, <2>2
  <2>3. CASE \E k \in 1..K : n = L + 1 + A + k /\ ledger'[n] = out[k]
    <3>1. PICK k \in 1..K : n = L + 1 + A + k /\ ledger'[n] = out[k]
      BY <2>3
    <3>2. n = EmitPlace(t, k)
      BY <1>3, <1>6, <3>1 DEF EmitPlace
    <3> QED
      BY <1>8, <3>1, <3>2
  <2> QED
    BY <1>13, <1>14, <2>2, <2>3
<1> QED
  BY <1>3, <1>6, <1>10, <1>12, <1>14

-----------------------------------------------------------------------------
(* Where an entry comes from, in the state it is recorded in.               *)
ForeseenAt(e, s) ==
    IF producers_of(config, e) = {}
    THEN ~config.events[e].restricted /\ ~config.lint.require_producers
    ELSE \E p \in DeclaredProducers(config, e) : \A window \in p.windows : s \in window

ByCommand(x, s) ==
    /\ Has(config.events, x.type)
    /\ ClosedWorld => ForeseenAt(x.type, s)
    /\ \/ x.by \in DaemonStamps(config)
       \/ x.by = Stamp(IF config.events[x.type].restricted THEN "authed" ELSE "agent", "cli")
ByStranger(x) == ~ClosedWorld /\ ~Has(config.events, x.type) /\ x.by = Stamp("agent", "cli")
ByHook(x, s) ==
    /\ x.by = Stamp("agent", "hook-eval")
    /\ \E h \in AutoRecordedBy(config, x.type) :
          MovedByHand(config) \/ \A states \in config.hooks[h].states : s \in states
ByEmit(x, s) ==
    /\ Has(config.events, x.type)
    /\ \E i \in EmittedBy(config, x.type) :
          s = config.transitions[i].from /\ x.by = Stamp("engine:emit", config.transitions[i].command)
ByEngine(x) ==
    /\ x.type \in {"genesis", "set_member_complete", "state_transition", "gate_attestation"}
    /\ x.by[1] # "engine:emit"

Origin(x, s) == ByCommand(x, s) \/ ByStranger(x) \/ ByHook(x, s) \/ ByEmit(x, s) \/ ByEngine(x)

(* The two readings of the state agree where every move says where it went. *)
Agreed == MovedByHand(config) \/ derive_current_state(config, ledger) = state

(* A step that takes no transition: it records no move, unless moves are    *)
(* recorded by hand.                                                        *)
Quietly ==
    /\ Grows
    /\ UNCHANGED <<config, visited, bare, around, fired>>
    /\ \A n \in New : /\ Agreed => Origin(ledger'[n], state)
                      /\ ledger'[n].type # "state_transition" \/ MovedByHand(config)
                      /\ ledger'[n].by[1] # "engine:emit"

LEMMA AppendsOne ==
    ASSUME IsList(ledger), NEW x, AppendAll(<<x>>)
    PROVE  Grows /\ \A n \in New : ledger'[n] = x
<1>1. <<x>> \in Seq({x}) /\ Len(<<x>>) = 1 /\ <<x>>[1] = x
  OBVIOUS
<1>2. IsList(<<x>>)
  BY <1>1, SeqIsList
<1>3. /\ Grows
      /\ \A n \in New : n - Len(ledger) \in 1..Len(<<x>>) /\ ledger'[n] = <<x>>[n - Len(ledger)]
  BY <1>2, Appending
<1>4. ASSUME NEW n \in New PROVE ledger'[n] = x
  <2>1. n - Len(ledger) \in 1..1
    BY <1>1, <1>3
  <2>2. n - Len(ledger) = 1
    BY <2>1
  <2> QED
    BY <1>1, <1>3, <2>2
<1> QED
  BY <1>3, <1>4

(* The commands that record an event, and how they stamp it.                *)
Records(e, fields) ==
    cmd_event(e, fields) \/ cmd_authed_event(e, fields) \/ handle_record_event(e, fields)

LEMMA RecordsAs ==
    ASSUME NEW e, NEW fields, Records(e, fields)
    PROVE  \E by : /\ RecordedAs(e, fields, by) /\ by[1] # "engine:emit"
                   /\ IF Has(config.events, e)
                      THEN \/ by \in DaemonStamps(config)
                           \/ by = Stamp(IF config.events[e].restricted THEN "authed" ELSE "agent", "cli")
                      ELSE by = Stamp("agent", "cli")
<1>1. CASE cmd_event(e, fields)
  <2>1. RecordedAs(e, fields, Stamp("agent", "cli")) /\ Stamp("agent", "cli")[1] # "engine:emit"
    BY <1>1 DEF cmd_event, Stamp
  <2>2. Has(config.events, e) => ~config.events[e].restricted
    BY <1>1 DEF cmd_event
  <2> QED
    BY <2>1, <2>2
<1>2. CASE cmd_authed_event(e, fields)
  <2>1. RecordedAs(e, fields, Stamp("authed", "cli")) /\ Stamp("authed", "cli")[1] # "engine:emit"
    BY <1>2 DEF cmd_authed_event, Stamp
  <2> QED
    BY <1>2, <2>1 DEF cmd_authed_event
<1>3. CASE handle_record_event(e, fields)
  <2>1. PICK by \in DaemonStamps(config) : RecordedAs(e, fields, by)
    BY <1>3 DEF handle_record_event
  <2>2. by[1] # "engine:emit"
    BY DEF DaemonStamps, Stamp
  <2> QED
    BY <1>3, <2>1, <2>2 DEF handle_record_event
<1> QED
  BY <1>1, <1>2, <1>3 DEF Records

(* A declared event is one the engine may leave alone; a stray is what it   *)
(* is.                                                                      *)
LEMMA HandMoves ==
    ASSUME NEW x \in Inputs, x[1] = "state_transition"
    PROVE  MovedByHand(config)
<1>1. CASE x \in Strays(config)
  BY <1>1 DEF MovedByHand
<1>2. CASE x \in UNION {{e} \X Sendable(e) : e \in DOMAIN config.events}
  BY <1>2 DEF MovedByHand
<1> QED
  BY <1>1, <1>2 DEF Inputs

LEMMA RecordsOne ==
    ASSUME Sound, NEW in \in Inputs, Records(in[1], in[2])
    PROVE  Quietly
<1> DEFINE e == in[1]
           fields == in[2]
<1>1. PICK by : /\ RecordedAs(e, fields, by) /\ by[1] # "engine:emit"
                /\ IF Has(config.events, e)
                   THEN \/ by \in DaemonStamps(config)
                        \/ by = Stamp(IF config.events[e].restricted THEN "authed" ELSE "agent", "cli")
                   ELSE by = Stamp("agent", "cli")
  BY RecordsAs
<1>2. e = "state_transition" => MovedByHand(config)
  BY HandMoves
<1>10. ClosedWorld => Has(config.events, e)
  BY DEF ClosedWorld, Inputs, Has
<1> HIDE DEF e, fields
<1> DEFINE x == NewEntry(e, fields, by)
<1>3. x.type = e /\ x.by = by
  BY DEF NewEntry
<1>5. /\ UNCHANGED <<config, visited, bare, around, fired>> /\ AppendAll(<<x>>)
      /\ ClosedWorld => Foreseen(e)
  BY <1>1 DEF RecordedAs
<1> HIDE DEF x
<1>4. Grows /\ \A n \in New : ledger'[n] = x
  BY <1>5, AppendsOne DEF Sound
<1>6. ClosedWorld => ForeseenAt(e, state)
  BY <1>5 DEF Foreseen, ForeseenAt
<1>9. Origin(x, state)
  <2>1. CASE Has(config.events, e)
    BY <1>1, <1>3, <1>6, <2>1 DEF Origin, ByCommand
  <2>2. CASE ~Has(config.events, e)
    BY <1>1, <1>3, <1>10, <2>2 DEF Origin, ByStranger
  <2> QED
    BY <2>1, <2>2
<1> QED
  BY <1>1, <1>2, <1>3, <1>4, <1>5, <1>9 DEF Quietly

LEMMA CompletesOne ==
    ASSUME Sound, NEW set, NEW member, cmd_set_complete(set, member)
    PROVE  Quietly
<1> DEFINE x == NewEntry("set_member_complete", [set |-> set, member |-> member], Stamp("agent", "cli"))
<1>1. AppendAll(<<x>>) /\ UNCHANGED <<config, visited, bare, around, fired>>
  BY DEF cmd_set_complete
<1>2. x.type = "set_member_complete" /\ x.by[1] = "agent"
  BY DEF NewEntry, Stamp
<1> HIDE DEF x
<1>3. Grows /\ \A n \in New : ledger'[n] = x
  BY <1>1, AppendsOne DEF Sound
<1>4. Origin(x, state)
  BY <1>2 DEF Origin, ByEngine
<1> QED
  BY <1>1, <1>2, <1>3, <1>4 DEF Quietly

(* A hook records in a state that each of its lists of states names.        *)
LEMMA HooksRecord ==
    ASSUME Sound, NEW request, cmd_hook_eval(request)
    PROVE  Quietly
<1> DEFINE S == {h \in MatchingHooks(config, ledger, request) : Has(config.hooks[h], "auto_record")}
           records == auto_records(config, ledger, request)
           entries == [i \in DOMAIN records |->
              NewEntry(records[i].event, records[i].fields, Stamp("agent", "hook-eval"))]
<1>1. AppendAll(entries) /\ UNCHANGED <<config, visited, bare, around, fired>>
  BY DEF cmd_hook_eval
<1>2. Cardinality(S) \in Nat /\ InOrder(S) \in [1..Cardinality(S) -> S]
  <2>1. IsList(config.hooks)
    BY ProtocolsAssumption DEF Sound, WellShaped
  <2>2. Len(config.hooks) \in Nat /\ S \in SUBSET (1..Len(config.hooks))
    BY <2>1, ListLen DEF MatchingHooks
  <2> QED
    BY <2>2, Ordered
<1>3. /\ DOMAIN records = 1..Cardinality(S)
      /\ \A i \in 1..Cardinality(S) :
            records[i].event = config.hooks[InOrder(S)[i]].auto_record.event_type
  BY <1>2 DEF auto_records
<1> HIDE DEF records
<1>4. /\ entries = [i \in 1..Cardinality(S) |-> entries[i]]
      /\ \A i \in 1..Cardinality(S) :
            /\ entries[i].type = records[i].event
            /\ entries[i].by = Stamp("agent", "hook-eval")
  BY <1>3 DEF NewEntry
<1> HIDE DEF entries
<1>5. IsList(entries) /\ Len(entries) = Cardinality(S)
  BY <1>2, <1>4, ListOf
<1>6. /\ Grows
      /\ \A n \in New : n - Len(ledger) \in 1..Len(entries) /\ ledger'[n] = entries[n - Len(ledger)]
  BY <1>1, <1>5, Appending DEF Sound
<1>7. ASSUME NEW i \in 1..Cardinality(S)
      PROVE  /\ Agreed => Origin(entries[i], state)
             /\ entries[i].type # "state_transition" \/ MovedByHand(config)
             /\ entries[i].by[1] # "engine:emit"
  <2> DEFINE h == InOrder(S)[i]
  <2>1. h \in S
    BY <1>2
  <2> HIDE DEF h
  <2>2. entries[i].type = config.hooks[h].auto_record.event_type
    BY <1>3, <1>4 DEF h
  <2>3. /\ h \in DOMAIN config.hooks /\ Has(config.hooks[h], "auto_record")
        /\ hook_matches(config.hooks[h], request, derive_current_state(config, ledger))
    BY <2>1 DEF MatchingHooks
  <2>4. Agreed => MovedByHand(config) \/ \A states \in config.hooks[h].states : state \in states
    BY <2>3 DEF hook_matches, Agreed
  <2>5. h \in AutoRecordedBy(config, entries[i].type)
    BY <2>2, <2>3 DEF AutoRecordedBy
  <2>6. entries[i].type # "state_transition" \/ MovedByHand(config)
    BY <2>5 DEF MovedByHand
  <2>7. entries[i].by = Stamp("agent", "hook-eval") /\ entries[i].by[1] = "agent"
    BY <1>4 DEF Stamp
  <2>8. Agreed => ByHook(entries[i], state)
    BY <2>4, <2>5, <2>7 DEF ByHook
  <2> QED
    BY <2>6, <2>7, <2>8 DEF Origin
<1> QED
  BY <1>1, <1>5, <1>6, <1>7 DEF Quietly

LEMMA EmitsAreDeclared ==
    ASSUME NEW c, validate(c) = {}, NEW i \in DOMAIN c.transitions, NEW k \in DOMAIN c.transitions[i].emits
    PROVE  c.transitions[i].emits[k].event \in DOMAIN c.events
<1>1. Broken("emits", Emitting(c, LAMBDA emit : EmitRefused(c, emit))) = {}
  BY DEF validate
<1>2. Emitting(c, LAMBDA emit : EmitRefused(c, emit)) = {}
  BY <1>1 DEF Broken
<1> QED
  BY <1>2 DEF Emitting, EmitRefused, Has

(* A transition is a move of the walk, and says so once.                    *)
LEMMA TransitionMoves ==
    ASSUME Sound, NEW i, NEW args, NEW world, Takes(i, args, world)
    PROVE  LET t == config.transitions[i]
           IN  /\ Grows
               /\ W!Move(t) /\ t \in W!Edges(config)
               /\ \A n \in New :
                     /\ Origin(ledger'[n], state)
                     /\ ledger'[n].type = "state_transition" =>
                           MovedByHand(config) \/ ledger'[n] = Moved(t)
<1> DEFINE t == config.transitions[i]
           params == ParamsFor(i, args)
           first == Len(ledger) + 1
<1>1. /\ Grows /\ first \in New /\ ledger'[first] = Moved(t)
      /\ \A n \in New \ {first} :
            \/ /\ ledger'[n].type = "gate_attestation"
               /\ ledger'[n].by = Stamp("engine:transition", t.command)
            \/ \E k \in DOMAIN t.emits :
                  n = EmitPlace(t, k) /\ ledger'[n] = Emitted(t, params, world)[k]
  BY TakenAppends
<1>2. i \in DOMAIN config.transitions /\ t.from = state
  BY DEF Takes
<1>3. ASSUME NEW n \in New, n # first
      PROVE  /\ ledger'[n].type # "state_transition" \/ MovedByHand(config)
             /\ Origin(ledger'[n], state)
  <2>1. CASE /\ ledger'[n].type = "gate_attestation"
             /\ ledger'[n].by = Stamp("engine:transition", t.command)
    BY <2>1 DEF Origin, ByEngine, Stamp
  <2>2. CASE \E k \in DOMAIN t.emits : ledger'[n] = Emitted(t, params, world)[k]
    <3>1. PICK k \in DOMAIN t.emits : ledger'[n] = Emitted(t, params, world)[k]
      BY <2>2
    <3>2. ledger'[n].type = t.emits[k].event /\ ledger'[n].by = Stamp("engine:emit", t.command)
      BY <3>1 DEF Emitted, NewEntry
    <3>3. t.emits[k].event \in DOMAIN config.events
      BY <1>2, EmitsAreDeclared DEF Sound
    <3>4. t.emits[k].event # "state_transition" \/ MovedByHand(config)
      BY <3>3 DEF MovedByHand
    <3>5. i \in EmittedBy(config, t.emits[k].event)
      BY <1>2 DEF EmittedBy
    <3> QED
      BY <1>2, <3>2, <3>3, <3>4, <3>5 DEF Origin, ByEmit, Has
  <2> QED
    BY <1>1, <1>3, <2>1, <2>2
<1>4. Moved(t).type = "state_transition" /\ Moved(t).by[1] = "engine:transition"
  BY DEF Moved, NewEntry, Stamp
<1>5. Origin(Moved(t), state)
  BY <1>4 DEF Origin, ByEngine
<1>6. state' = t.to \/ MovedByHand(config)
  BY <1>1, <1>3, MovedState DEF Sound
<1>7. W!Move(t) /\ t \in W!Edges(config)
  BY <1>2, <1>6 DEF Takes, W!Move, W!Edges
<1> QED
  BY <1>1, <1>3, <1>5, <1>7

LEMMA Steps ==
    ASSUME Sound, Next
    PROVE  \/ Quietly
           \/ \E command, i, args, world :
                 i \in prepare_transition(command, args, world) /\ Takes(i, args, world)
<1>1. CASE \E in \in Inputs : Records(in[1], in[2])
  BY <1>1, RecordsOne
<1>2. CASE \E set \in DOMAIN config.sets : \E member \in Range(config.sets[set]) : cmd_set_complete(set, member)
  BY <1>2, CompletesOne
<1>3. CASE \E request \in Requests(config) : cmd_hook_eval(request)
  BY <1>3, HooksRecord
<1>4. CASE \E command \in Commands(config), args \in Arguments, world \in Worlds :
               cmd_transition(command, args, world)
  BY <1>4, Taking
<1> QED
  BY <1>1, <1>2, <1>3, <1>4 DEF Next, Records

-----------------------------------------------------------------------------
(* The invariant: each entry was recorded in a state that its writer could  *)
(* record it in, and every move says where it went.  Where no move is       *)
(* recorded by hand, the run has been in those states.                      *)
Been(s) == MovedByHand(config) \/ s \in visited
Traced == \A n \in DOMAIN ledger : \E s : Been(s) /\ Origin(ledger[n], s)
SayWhere ==
    \/ MovedByHand(config)
    \/ \A n \in events_of_type(ledger, "state_transition") : Has(ledger[n].fields, "to")
RunInv == Sound /\ Been(state) /\ SayWhere /\ Traced

LEMMA ReadingsAgree ==
    ASSUME Sound, SayWhere
    PROVE  Agreed
<1> SUFFICES ASSUME ~MovedByHand(config)
             PROVE  derive_current_state(config, ledger) = state
  BY DEF Agreed
<1> DEFINE moves == events_of_type(ledger, "state_transition")
           saying == {n \in moves : Has(ledger[n].fields, "to")}
<1>1. saying = moves
  BY DEF SayWhere
<1>2. ASSUME moves # {} PROVE Max(moves) \in moves
  <2>1. Len(ledger) \in Nat /\ moves \in SUBSET (1..Len(ledger))
    BY ListLen DEF Sound, events_of_type
  <2> HIDE DEF moves
  <2> QED
    BY <1>2, <2>1, LastPlace
<1>3. moves # {} => Has(ledger[Max(moves)].fields, "to")
  BY <1>1, <1>2
<1> QED
  BY <1>1, <1>3 DEF state, derive_state_from_ledger, derive_current_state

LEMMA InitRun == Init => RunInv /\ W!WalkInit
<1> SUFFICES ASSUME Init PROVE RunInv /\ W!WalkInit
  OBVIOUS
<1> DEFINE x == NewEntry("genesis", <<>>, Stamp("engine", "init"))
<1>1. ledger = <<x>> /\ config \in Protocols /\ validate(config) = {}
  BY DEF Init
<1>2. x.type = "genesis" /\ x.by[1] = "engine"
  BY DEF NewEntry, Stamp
<1> HIDE DEF x
<1>3. <<x>> \in Seq({x}) /\ DOMAIN <<x>> = 1..1 /\ <<x>>[1] = x
  OBVIOUS
<1>4. Sound
  BY <1>1, <1>3, SeqIsList DEF Sound
<1>5. events_of_type(ledger, "state_transition") = {}
  BY <1>1, <1>2, <1>3 DEF events_of_type
<1>6. state = initial_state(config)
  BY <1>5 DEF state, derive_state_from_ledger
<1>7. initial_state(config) \in W!InitialStates(config)
  <2>1. Broken("initial", {Cardinality(Initials(config))} \ {1}) = {}
    BY <1>1 DEF validate
  <2>2. Cardinality(Initials(config)) = 1
    BY <2>1 DEF Broken
  <2>3. Initials(config) # {}
    BY <2>2, FS_EmptySet
  <2> QED
    BY <2>3 DEF Initials, initial_state, W!InitialStates
<1>8. state \in visited /\ Been(state)
  BY <1>6 DEF Been, Init
<1>9. Traced
  BY <1>1, <1>2, <1>3, <1>8 DEF Traced, Origin, ByEngine
<1>10. SayWhere
  BY <1>5 DEF SayWhere
<1> QED
  BY <1>4, <1>6, <1>7, <1>8, <1>9, <1>10 DEF RunInv, Init, W!WalkInit

LEMMA SoundKept ==
    ASSUME Sound, Grows, config' = config
    PROVE  Sound'
BY DEF Sound, Grows

LEMMA TracedKept ==
    ASSUME Sound, Traced, Grows, config' = config, visited \subseteq visited', Been(state),
           \A n \in New : Origin(ledger'[n], state)
    PROVE  Traced'
<1>1. Len(ledger) \in Nat /\ DOMAIN ledger = 1..Len(ledger)
  BY ListLen DEF Sound
<1>2. Len(ledger') \in Nat /\ DOMAIN ledger' = 1..Len(ledger')
  BY ListLen DEF Grows
<1>3. \A x, s : Origin(x, s)' = Origin(x, s)
  BY DEF Origin, ByCommand, ByStranger, ByHook, ByEmit, ByEngine, ForeseenAt, ClosedWorld
<1>4. \A s : Been(s) => Been(s)'
  BY DEF Been
<1>5. ASSUME NEW n \in DOMAIN ledger'
      PROVE  \E s : Been(s) /\ Origin(ledger'[n], s)
  <2>1. CASE n \in DOMAIN ledger
    BY <2>1 DEF Traced, Grows, Kept
  <2>2. CASE n \notin DOMAIN ledger
    <3>1. n \in New
      BY <1>1, <1>2, <2>2 DEF New
    <3> QED
      BY <3>1
  <2> QED
    BY <2>1, <2>2
<1> QED
  BY <1>4, <1>5
     DEF Traced, Origin, ByCommand, ByStranger, ByHook, ByEmit, ByEngine, ForeseenAt, ClosedWorld

LEMMA SayWhereKept ==
    ASSUME Sound, SayWhere, Grows, config' = config,
           \A n \in New : ledger'[n].type = "state_transition" =>
               MovedByHand(config) \/ Has(ledger'[n].fields, "to")
    PROVE  SayWhere'
<1>1. Len(ledger) \in Nat /\ DOMAIN ledger = 1..Len(ledger)
  BY ListLen DEF Sound
<1>2. Len(ledger') \in Nat /\ DOMAIN ledger' = 1..Len(ledger')
  BY ListLen DEF Grows
<1>3. \A n \in DOMAIN ledger' : n \in DOMAIN ledger \/ n \in New
  BY <1>1, <1>2 DEF New
<1> QED
  BY <1>3 DEF SayWhere, events_of_type, Grows, Kept

LEMMA NextRun ==
    ASSUME RunInv, [Next]_vars
    PROVE  RunInv' /\ [W!WalkNext]_W!walk
<1>0. Agreed
  BY ReadingsAgree DEF RunInv
<1>1. CASE UNCHANGED vars
  <2>1. UNCHANGED <<config, ledger, visited, bare, around>>
    BY <1>1 DEF vars
  <2>2. Len(ledger) \in Nat
    BY ListLen DEF RunInv, Sound
  <2>3. Grows /\ New = {}
    BY <2>1, <2>2 DEF Grows, Kept, New, RunInv, Sound
  <2>4. state' = state
    BY <2>1, <2>3, QuietState DEF RunInv, Sound
  <2>5. Sound' /\ Traced' /\ SayWhere'
    BY <2>1, <2>3, SoundKept, TracedKept, SayWhereKept DEF RunInv
  <2> QED
    BY <2>1, <2>4, <2>5 DEF RunInv, Been, W!walk
<1>2. CASE Quietly
  <2>1. Grows /\ UNCHANGED <<config, visited, bare, around, fired>>
    BY <1>2 DEF Quietly
  <2>2. /\ \A n \in New : Origin(ledger'[n], state)
        /\ \A n \in New : ledger'[n].type # "state_transition" \/ MovedByHand(config)
    BY <1>0, <1>2 DEF Quietly
  <2>3. Sound' /\ Traced' /\ SayWhere'
    BY <2>1, <2>2, SoundKept, TracedKept, SayWhereKept DEF RunInv
  <2>4. CASE MovedByHand(config)
    BY <2>1, <2>3, <2>4 DEF RunInv, Been, W!WalkNext, W!ByHand
  <2>5. CASE ~MovedByHand(config)
    <3>1. state' = state
      BY <2>1, <2>2, <2>5, QuietState DEF RunInv, Sound
    <3> QED
      BY <2>1, <2>3, <3>1 DEF RunInv, Been, W!walk
  <2> QED
    BY <2>4, <2>5
<1>3. CASE \E command, i, args, world :
              i \in prepare_transition(command, args, world) /\ Takes(i, args, world)
  <2>1. PICK i, args, world : Takes(i, args, world)
    BY <1>3
  <2> DEFINE t == config.transitions[i]
  <2>2. /\ Grows /\ W!Move(t) /\ t \in W!Edges(config)
        /\ \A n \in New : /\ Origin(ledger'[n], state)
                          /\ ledger'[n].type = "state_transition" =>
                                MovedByHand(config) \/ ledger'[n] = Moved(t)
    BY <2>1, TransitionMoves DEF RunInv
  <2>3. /\ config' = config /\ visited' = visited \cup {t.to}
        /\ state' = t.to \/ MovedByHand(config)
    BY <2>2 DEF W!Move
  <2>4. "to" \in DOMAIN Moved(t).fields
    BY DEF Moved, NewEntry
  <2>5. Sound' /\ Traced' /\ SayWhere'
    BY <2>2, <2>3, <2>4, SoundKept, TracedKept, SayWhereKept DEF RunInv, Has
  <2>6. Been(state)'
    BY <2>3 DEF Been
  <2> QED
    BY <2>2, <2>5, <2>6 DEF RunInv, W!WalkNext
<1> QED
  BY <1>1, <1>2, <1>3, Steps DEF RunInv

(* What the ledger says of the state is a walk over the transitions, from   *)
(* the initial state, whatever is recorded between two moves and by whom,   *)
(* of every protocol in whose runs only a transition records a move.  Of    *)
(* the others, that a transition is taken from the state the ledger says.   *)
THEOREM RunsAreWalks == Spec => ImplementsWalk
<1>1. Init => RunInv /\ W!WalkInit
  BY InitRun
<1>2. RunInv /\ [Next]_vars => RunInv' /\ [W!WalkNext]_W!walk
  BY NextRun
<1> QED
  BY <1>1, <1>2, PTL DEF Spec, ImplementsWalk, W!WalkSpec

LEMMA RunsKeep == Spec => []RunInv
<1>1. Init => RunInv
  BY InitRun
<1>2. RunInv /\ [Next]_vars => RunInv'
  BY NextRun
<1> QED
  BY <1>1, <1>2, PTL DEF Spec

LEMMA SameWalk == W!WalkSpec => WP!WalkSpec
<1>1. W!WalkInit => WP!WalkInit
  BY DEF W!WalkInit, WP!WalkInit, W!InitialStates, WP!InitialStates
<1>2. [W!WalkNext]_W!walk => [WP!WalkNext]_WP!walk
  BY DEF W!WalkNext, WP!WalkNext, W!ByHand, WP!ByHand, W!Move, WP!Move, W!walk, WP!walk, W!BareAfter, WP!BareAfter,
         W!AroundAfter, WP!AroundAfter, W!Uncrossed, WP!Uncrossed, W!Edges, WP!Edges
<1> QED
  BY <1>1, <1>2, PTL DEF W!WalkSpec, WP!WalkSpec

(* A run that gets round a boundary does so over a route that L3 reports,   *)
(* in every protocol in whose runs only a transition records a move: of the *)
(* walk it is proved in Walk_proofs, and a run is one.                      *)
THEOREM BoundariesHold == Spec => []BoundaryHeld
<1>1. WP!BoundaryHeld => BoundaryHeld
  BY DEF BoundaryHeld, W!BoundaryHeld, WP!BoundaryHeld, W!RoutedAround, WP!RoutedAround,
         W!reachable_from, WP!reachable_from, W!Untagged, WP!Untagged, W!Closed, WP!Closed,
         W!Ends, WP!Ends, W!Edges, WP!Edges
<1>2. WP!WalkSpec => []WP!BoundaryHeld
  BY WP!NoSilentDetour, PTL
<1> QED
  BY <1>1, <1>2, RunsAreWalks, SameWalk, PTL DEF ImplementsWalk

(* L8 counts the stamp of every entry of a declared event among those its   *)
(* writers can leave: the daemon's peers, the command line, the hooks and   *)
(* the transitions that emit it.                                            *)
THEOREM StampsAreCounted ==
    ASSUME \A c \in Protocols : OwnVocabulary(c)
    PROVE  Spec => []StampsAreProducible
<1>1. ASSUME RunInv, OwnVocabulary(config)
      PROVE  StampsAreProducible
  <2> SUFFICES ASSUME NEW n \in DOMAIN ledger, Has(config.events, ledger[n].type)
               PROVE  ledger[n].by \in producible_stamps(config, {ledger[n].type})
    BY DEF StampsAreProducible
  <2> DEFINE e == ledger[n].type
             by == ledger[n].by
  <2>1. e \in DOMAIN config.events
    BY DEF Has
  <2>2. PICK s : Origin(ledger[n], s)
    BY <1>1 DEF RunInv, Traced
  <2>3. by \in WriterStamps(config, {e})
    <3>1. CASE ByCommand(ledger[n], s)
      BY <3>1 DEF ByCommand, WriterStamps, Slip_NoHookEval
    <3>2. CASE ByHook(ledger[n], s)
      BY <3>2 DEF ByHook, WriterStamps
    <3>3. CASE ByEmit(ledger[n], s)
      BY <3>3 DEF ByEmit, WriterStamps, Slip_NoHookEval
    <3>5. CASE ByStranger(ledger[n])
      BY <3>5 DEF ByStranger
    <3>4. CASE ByEngine(ledger[n])
      BY <1>1, <2>1, <3>4 DEF ByEngine, OwnVocabulary, ENGINE_EVENTS
    <3> QED
      BY <2>2, <3>1, <3>2, <3>3, <3>4, <3>5 DEF Origin
  <2> HIDE DEF e, by
  <2>4. {e} # {} /\ {e} \cap DOMAIN config.events = {e}
    BY <2>1
  <2>5. by \in producible_stamps(config, {e})
    BY <2>3, <2>4 DEF producible_stamps
  <2> QED
    BY <2>5 DEF e, by
<1>2. RunInv => StampsAreProducible
  BY <1>1 DEF RunInv, Sound
<1> QED
  BY <1>2, RunsKeep, PTL

(* A rule that fires makes the decision block or warn, and so does a        *)
(* monitor, where `sahjhan validate` finds no error.                        *)
THEOREM RulesAreHeard == Spec => []RulesSpeak
<1>1. RulesSpeak
  <2> SUFFICES ASSUME NEW request \in Requests(config), NEW world \in Worlds,
                      \/ Firing(config, ledger, request, world) # {}
                      \/ eval_monitors(config, ledger, derive_current_state(config, ledger)) # {},
                      evaluate_hooks(config, ledger, request, world) = "allow",
                      validate_deep(config) = {}
               PROVE  FALSE
    BY DEF RulesSpeak
  <2>1. eval_monitors(config, ledger, derive_current_state(config, ledger)) = {}
    BY DEF evaluate_hooks
  <2>2. PICK h \in Firing(config, ledger, request, world) : TRUE
    BY <2>1
  <2> DEFINE hook == config.hooks[h]
  <2>3. h \in DOMAIN config.hooks /\ ~Has(hook, "auto_record")
    BY DEF Firing, MatchingHooks
  <2>4. Broken("hooks", {x \in DOMAIN config.hooks : BadHook(config, config.hooks[x])}) = {}
    BY DEF validate_deep, HookFaults
  <2>5. ~BadHook(config, hook)
    BY <2>3, <2>4 DEF Broken
  <2>6. Has(hook, "action") /\ hook.action \in {"block", "warn"}
    BY <2>3, <2>5 DEF BadHook, Or
  <2>7. Or(hook, "action", "warn") \in {"block", "warn"}
    BY <2>6 DEF Or
  <2> QED
    BY <2>2, <2>7 DEF evaluate_hooks
<1> QED
  BY <1>1, PTL

-----------------------------------------------------------------------------
(* A leaf that has passed found the event lint says it requires.            *)
LEMMA CountOfNone == ASSUME NEW S, Cardinality(S) # 0 PROVE S # {}
BY FS_EmptySet

LEMMA LeafNeedsEvent ==
    ASSUME NEW g, NEW ctx, eval_leaf(g, ctx), NEW l \in LeafRefs(g, ctx.config), l[2],
           Or(g, "min_count", 1) \in Int,
           g.type = "ledger_has_event" /\ Or(g, "min_count", 1) >= 1 =>
              Or(g, "min_count", 1) % U32 # 0,
           g.type = "set_covered" /\ Has(g, "set") /\ g.set \in DOMAIN ctx.config.sets =>
              DOMAIN ctx.config.sets[g.set] # {}
    PROVE  events_of_type(ctx.ledger, l[1]) # {}
<1> DEFINE min == Or(g, "min_count", 1)
<1>1. CASE g.type = "ledger_has_event"
  <2>1. l = <<g.event, min >= 1>>
    BY <1>1 DEF LeafRefs
  <2>2. l[1] = g.event /\ min >= 1
    BY <2>1
  <2>3. Cardinality(Matching(g, ctx)) >= min % U32
    BY <1>1 DEF eval_leaf, eval_ledger_has_event
  <2>4. min % U32 \in Nat /\ min % U32 # 0
    BY <1>1, <2>2, BoundsAssumption
  <2>5. Cardinality(Matching(g, ctx)) # 0
    BY <2>3, <2>4
  <2>6. Matching(g, ctx) # {}
    BY <2>5, CountOfNone
  <2> QED
    BY <2>2, <2>6 DEF Matching
<1>2. CASE g.type = "ledger_has_event_since"
  <2>1. l[1] = g.event
    <3>1. l \in {<<g.event, TRUE>>} \cup
                 {<<since[2], FALSE>> : since \in
                   {s \in {Or(g, "since", <<"last_transition">>)} :
                      s[1] \in {"last_event_of_type", "other"}}}
      BY <1>2 DEF LeafRefs
    <3>2. CASE l = <<g.event, TRUE>>
      BY <3>2
    <3>3. CASE \E since : l = <<since[2], FALSE>>
      BY <3>3
    <3> QED
      BY <3>1, <3>2, <3>3
  <2>2. PICK type : Cardinality(Counted(g, type, ctx)) >= AtLeastOne(min)
    BY <1>2 DEF eval_leaf, eval_ledger_has_event_since
  <2>3. AtLeastOne(min) \in Int /\ AtLeastOne(min) >= 1
    BY DEF AtLeastOne
  <2>4. Cardinality(Counted(g, type, ctx)) # 0
    BY <2>2, <2>3
  <2>5. Counted(g, type, ctx) # {}
    BY <2>4, CountOfNone
  <2>6. Counted(g, type, ctx) \subseteq Matching(g, ctx)
    BY DEF Counted
  <2>7. Matching(g, ctx) \subseteq events_of_type(ctx.ledger, g.event)
    BY DEF Matching
  <2> QED
    BY <2>1, <2>5, <2>6, <2>7
<1>3. CASE g.type = "set_covered"
  <2>1. l[1] = Or(g, "event", "set_member_complete")
    BY <1>3 DEF LeafRefs
  <2>2. eval_set_covered(g, ctx)
    BY <1>3 DEF eval_leaf
  <2>3. PICK i \in DOMAIN ctx.config.sets[g.set] : TRUE
    BY <1>3, <2>2 DEF eval_set_covered
  <2>4. completed_members_for_set(ctx.ledger, g.set, l[1], Or(g, "field", "member")) # {}
    BY <2>1, <2>2, <2>3 DEF eval_set_covered
  <2> QED
    BY <2>4 DEF completed_members_for_set
<1>4. CASE g.type \in {"ledger_lacks_event", "min_elapsed", "no_violations", "query"}
  <2>1. CASE g.type \in {"ledger_lacks_event", "min_elapsed"}
    <3>1. l = <<g.event, FALSE>>
      BY <2>1 DEF LeafRefs
    <3> QED
      BY <3>1
  <2>2. CASE g.type = "no_violations"
    <3>1. \E e : l = <<e, FALSE>>
      BY <2>2 DEF LeafRefs
    <3>2. PICK e : l = <<e, FALSE>>
      BY <3>1
    <3> QED
      BY <3>2
  <2>3. CASE g.type = "query"
    <3>1. l \in {<<e, FALSE>> : e \in UNION {sql.mentions \cap DOMAIN ctx.config.events
                                             : sql \in resolve_gate_sql(ctx.config, g)}}
      BY <2>3 DEF LeafRefs
    <3>2. PICK e : l = <<e, FALSE>>
      BY <3>1
    <3> QED
      BY <3>2
  <2> QED
    BY <1>4, <2>1, <2>2, <2>3
<1>5. CASE g.type \notin {"ledger_has_event", "ledger_has_event_since", "set_covered",
                          "ledger_lacks_event", "min_elapsed", "no_violations", "query"}
  BY <1>5 DEF LeafRefs
<1> QED
  BY <1>1, <1>2, <1>3, <1>4, <1>5

(* A gate of a transition's trees is among the gates of the protocol.       *)
LEMMA Placed ==
    ASSUME NEW c, NEW i \in DOMAIN c.transitions, NEW k \in DOMAIN c.transitions[i].gates,
           NEW g \in Subtree(c.transitions[i].gates[k])
    PROVE  <<<<"transition", i>>, g>> \in PlacedGates(c)
<1>1. g \in InTransition(c, i)
  BY DEF InTransition
<1> DEFINE placed(j) == {<<<<"transition", j>>, h>> : h \in InTransition(c, j)}
<1>2. <<<<"transition", i>>, g>> \in placed(i)
  BY <1>1
<1>3. placed(i) \subseteq PlacedGates(c)
  <2> SUFFICES ASSUME NEW x \in placed(i) PROVE x \in PlacedGates(c)
    OBVIOUS
  <2>1. x \in UNION {placed(j) : j \in DOMAIN c.transitions}
    BY Zenon
  <2> QED
    BY <2>1, Zenon DEF PlacedGates
<1> QED
  BY <1>2, <1>3

(* What a transition's gates require, on no branch, was there to take it.   *)
LEMMA RequiredIsThere ==
    ASSUME Sound, Literally(config), NEW i, NEW args, NEW world, Takes(i, args, world),
           NEW r \in RefsOf(config, i), r.required, ~r.disjunctive
    PROVE  \E n \in DOMAIN ledger : ledger[n].type = r.event
<1> DEFINE t == config.transitions[i]
           ctx == Context(i, args, world)
<1>1. i \in DOMAIN config.transitions /\ evaluate_gates(t.gates, ctx)
  BY DEF Takes
<1>2. ctx.ledger = ledger /\ ctx.config = config
  BY DEF Context
<1> HIDE DEF ctx
<1>3. PICK k \in DOMAIN t.gates : r \in gate_event_refs(t.gates[k], config)
  BY DEF RefsOf
<1> DEFINE g == t.gates[k]
<1>4. PICK c \in Leaves(g) : \E l \in LeafRefs(Last(c), config) :
          r = Ref(l[1], l[2] /\ Positive(c), Disjunctive(c))
  BY <1>3 DEF gate_event_refs
<1>5. PICK l \in LeafRefs(Last(c), config) : r = Ref(l[1], l[2] /\ Positive(c), Disjunctive(c))
  BY <1>4
<1>6. /\ r.event = l[1]
      /\ r.required = (l[2] /\ Positive(c))
      /\ r.disjunctive = Disjunctive(c)
  BY <1>5 DEF Ref
<1>7. l[2] /\ Positive(c) /\ ~Disjunctive(c)
  BY <1>6
<1>8. NeedsWhatItNames(config, g)
  BY <1>1, <1>3 DEF Literally
<1>9. c \in Chains(g)
  BY DEF Leaves
<1>10. Last(c) \in Subtree(g)
  BY <1>9, LastOfChain
<1>11. eval(g, ctx)
  BY <1>1, <1>3 DEF evaluate_gates
<1>12. eval_leaf(Last(c), ctx)
  <2>1. \A m, n \in Above(c, {"not"}) : m = n
    BY <1>8, <1>9 DEF NeedsWhatItNames
  <2> QED
    BY <1>7, <1>11, <2>1, RequiredPasses
<1>13. Or(Last(c), "min_count", 1) \in Int
  <2>1. <<<<"transition", i>>, Last(c)>> \in PlacedGates(config)
    BY <1>1, <1>3, <1>10, Placed
  <2> DEFINE x == <<<<"transition", i>>, Last(c)>>
  <2>2. Or(x[2], "min_count", 1) \in Int
    <3> HIDE DEF x
    <3>1. x \in PlacedGates(config)
      BY <2>1 DEF x
    <3> QED
      BY <3>1, ProtocolsAssumption DEF Sound, WellShaped
  <2> QED
    BY <2>2
<1>14. events_of_type(ledger, l[1]) # {}
  BY <1>2, <1>7, <1>8, <1>10, <1>12, <1>13, LeafNeedsEvent DEF NeedsWhatItNames
<1> QED
  BY <1>6, <1>14 DEF events_of_type

(* In a closed world, whose protocol leaves the engine its own events, no   *)
(* move is recorded by hand.                                                *)
LEMMA OnlyMoves ==
    ASSUME OwnVocabulary(config), ClosedWorld
    PROVE  ~MovedByHand(config)
<1>1. "state_transition" \in ENGINE_EVENTS
  BY DEF ENGINE_EVENTS
<1>2. AutoRecordedBy(config, "state_transition") = {}
  BY <1>1 DEF OwnVocabulary, AutoRecordedBy
<1> QED
  BY <1>1, <1>2 DEF MovedByHand, OwnVocabulary, ClosedWorld

(* There an entry of an event the engine does not own was left by one of    *)
(* the event's producers, in a state it has been in, or by anybody where    *)
(* lint takes anybody for one.                                              *)
LEMMA ProducedHere ==
    ASSUME ClosedWorld, ~MovedByHand(config),
           NEW x, NEW s, Origin(x, s), x.type \notin ENGINE_EVENTS
    PROVE  \/ \E p \in producers_of(config, x.type) : \A window \in p.windows : s \in window
           \/ /\ producers_of(config, x.type) = {}
              /\ ~config.events[x.type].restricted /\ ~config.lint.require_producers
<1>1. CASE ByCommand(x, s)
  <2>1. CASE producers_of(config, x.type) = {}
    BY <1>1, <2>1 DEF ByCommand, ForeseenAt
  <2>2. CASE producers_of(config, x.type) # {}
    <3>1. PICK p \in DeclaredProducers(config, x.type) : \A window \in p.windows : s \in window
      BY <1>1, <2>2 DEF ByCommand, ForeseenAt
    <3> DEFINE q == [id |-> <<"declared", p.id>>, windows |-> p.windows]
    <3>2. q \in producers_of(config, x.type)
      BY <3>1 DEF producers_of
    <3> QED
      BY <3>1, <3>2
  <2> QED
    BY <2>1, <2>2
<1>2. CASE ByHook(x, s)
  <2>1. PICK h \in AutoRecordedBy(config, x.type) : \A states \in config.hooks[h].states : s \in states
    BY <1>2 DEF ByHook
  <2> DEFINE q == [id |-> <<"hook", h>>, windows |-> config.hooks[h].states]
  <2>2. q \in producers_of(config, x.type)
    BY <2>1 DEF producers_of
  <2> QED
    BY <2>1, <2>2
<1>3. CASE ByEmit(x, s)
  <2>1. PICK i \in EmittedBy(config, x.type) : s = config.transitions[i].from
    BY <1>3 DEF ByEmit
  <2> DEFINE q == [id |-> <<"transition", i>>, windows |-> {{config.transitions[i].from}}]
  <2>2. q \in producers_of(config, x.type)
    BY <2>1 DEF producers_of
  <2> QED
    BY <2>1, <2>2
<1>4. CASE ByEngine(x)
  BY <1>4 DEF ByEngine, ENGINE_EVENTS
<1>5. CASE ByStranger(x)
  BY <1>5 DEF ByStranger
<1> QED
  BY <1>1, <1>2, <1>3, <1>4, <1>5 DEF Origin

LEMMA TakenIsSatisfiable ==
    ASSUME RunInv, WP!PastIsAncestral, Literally(config), ClosedWorld, ~MovedByHand(config),
           NEW i, NEW args, NEW world, Takes(i, args, world)
    PROVE  i \notin unsatisfiable(config)
<1>1. i \in DOMAIN config.transitions /\ config.transitions[i].from = state
  BY DEF Takes
<1>2. ASSUME NEW r \in RefsOf(config, i), Judged(r), ~r.disjunctive
      PROVE  \E n \in DOMAIN ledger, s \in visited : ledger[n].type = r.event /\ Origin(ledger[n], s)
  <2>1. PICK n \in DOMAIN ledger : ledger[n].type = r.event
    BY <1>2, RequiredIsThere DEF RunInv, Judged
  <2> QED
    BY <2>1 DEF RunInv, Traced, Been
<1>3. ASSUME NEW r \in Unproduced(config, i) PROVE FALSE
  <2>1. /\ r \in RefsOf(config, i) /\ classify(config, r) = "fatal" /\ ~r.disjunctive
    BY <1>3 DEF Unproduced
  <2>2. /\ Judged(r) /\ producers_of(config, r.event) = {}
        /\ config.events[r.event].restricted \/ config.lint.require_producers
    BY <2>1 DEF classify
  <2>3. PICK n \in DOMAIN ledger, s \in visited : ledger[n].type = r.event /\ Origin(ledger[n], s)
    BY <1>2, <2>1, <2>2
  <2> QED
    BY <2>2, <2>3, ProducedHere DEF Judged
<1>4. ASSUME NEW r \in TooLate(config, i), ~r.disjunctive PROVE FALSE
  <2>1. /\ r \in RefsOf(config, i) /\ Judged(r) /\ producers_of(config, r.event) # {}
        /\ \A p \in producers_of(config, r.event) : ~Usable(p, reachable_before(config, i))
    BY <1>4 DEF TooLate
  <2>2. PICK n \in DOMAIN ledger, s \in visited : ledger[n].type = r.event /\ Origin(ledger[n], s)
    BY <1>2, <1>4, <2>1
  <2>3. PICK p \in producers_of(config, r.event) : \A window \in p.windows : s \in window
    BY <2>1, <2>2, ProducedHere DEF Judged
  <2>4. s \in reachable_before(config, i)
    <3>1. s \in WP!ancestors_of(WP!Edges(config), state) \cup {state}
      BY <2>2 DEF WP!PastIsAncestral
    <3>2. WP!ancestors_of(WP!Edges(config), state) = ancestors_of(Edges(config), state)
      BY DEF WP!ancestors_of, ancestors_of, WP!Edges, Edges, WP!Reversed, Reversed,
             WP!reachable_from, reachable_from, WP!Closed, Closed, WP!Ends, Ends
    <3> QED
      BY <1>1, <3>1, <3>2 DEF reachable_before
  <2>5. Usable(p, reachable_before(config, i))
    BY <2>3, <2>4 DEF Usable
  <2> QED
    BY <2>1, <2>5
<1> QED
  BY <1>3, <1>4 DEF unsatisfiable

(* In the closed world a transition that an error of L1 or L2 proves can    *)
(* never be taken is never taken: whatever the protocol, as long as it      *)
(* leaves the engine its own events and what lint counts as required is     *)
(* required (Literally).                                                    *)
THEOREM FindingsHold ==
    ASSUME \A c \in Protocols : OwnVocabulary(c),
           \A c \in Protocols : Literally(c)
    PROVE  Spec => []FindingsAreReal
<1>1. Init => FindingsAreReal
  BY DEF Init, FindingsAreReal
<1>2. ASSUME RunInv, WP!PastIsAncestral, FindingsAreReal, [Next]_vars
      PROVE  FindingsAreReal'
  <2>1. CASE UNCHANGED vars
    BY <1>2, <2>1 DEF vars, FindingsAreReal, ClosedWorld
  <2>2. CASE Quietly
    BY <1>2, <2>2 DEF Quietly, FindingsAreReal, ClosedWorld
  <2>3. CASE \E command, i, args, world :
                i \in prepare_transition(command, args, world) /\ Takes(i, args, world)
    <3>1. PICK i, args, world : Takes(i, args, world)
      BY <2>3
    <3>2. ClosedWorld => i \notin unsatisfiable(config)
      <4> SUFFICES ASSUME ClosedWorld PROVE i \notin unsatisfiable(config)
        OBVIOUS
      <4>1. OwnVocabulary(config) /\ Literally(config)
        BY <1>2 DEF RunInv, Sound
      <4>2. ~MovedByHand(config)
        BY <4>1, OnlyMoves
      <4> QED
        BY <1>2, <3>1, <4>1, <4>2, TakenIsSatisfiable
    <3>3. fired' = fired \cup {i} /\ config' = config
      BY <3>1 DEF Takes
    <3> QED
      BY <1>2, <3>2, <3>3 DEF FindingsAreReal, ClosedWorld
  <2> QED
    BY <1>2, <2>1, <2>2, <2>3, Steps DEF RunInv, Sound
<1>3. WP!WalkSpec => []WP!PastIsAncestral
  BY WP!PastLiesBehind, PTL
<1>4. Spec => []RunInv /\ W!WalkSpec
  BY RunsKeep, RunsAreWalks, PTL DEF ImplementsWalk
<1> QED
  BY <1>1, <1>2, <1>3, <1>4, SameWalk, PTL DEF Spec

-----------------------------------------------------------------------------
(* What an evaluation reads.  M is L with entries of other types than those *)
(* of T after it.                                                           *)
SameBut(L, M, T) ==
    /\ IsList(L) /\ IsList(M) /\ Len(L) <= Len(M)
    /\ \A n \in DOMAIN L : M[n] = L[n]
    /\ \A n \in (Len(L) + 1)..Len(M) : M[n].type \notin T

LEMMA SameEvents ==
    ASSUME NEW L, NEW M, NEW T, SameBut(L, M, T), NEW type \in T
    PROVE  /\ events_of_type(M, type) = events_of_type(L, type)
           /\ \A n \in events_of_type(L, type) : M[n] = L[n]
<1>1. Len(L) \in Nat /\ DOMAIN L = 1..Len(L) /\ Len(M) \in Nat /\ DOMAIN M = 1..Len(M)
  BY ListLen DEF SameBut
<1>2. \A n \in DOMAIN M : n \in DOMAIN L \/ n \in (Len(L) + 1)..Len(M)
  BY <1>1
<1>3. DOMAIN L \subseteq DOMAIN M
  BY <1>1 DEF SameBut
<1> QED
  BY <1>2, <1>3 DEF SameBut, events_of_type

(* Two checks that differ in the ledger only.                               *)
SameCheck(ctx, new) ==
    /\ new.config = ctx.config /\ new.world = ctx.world
    /\ new.event_fields = ctx.event_fields /\ new.params = ctx.params

(* The window of a candidate: it starts at the last baseline its anchor     *)
(* matches.                                                                 *)
Anchor(g, c, ctx) ==
    LET spec == filter_spec(g, "since_filter")
        bound == build_template_vars(ctx)
    IN  resolve_filter_spec(spec,
            IF candidate_refs(spec) = {} THEN bound ELSE candidate_vars(ctx.ledger[c], bound))

LEMMA CountedByAnchor ==
    ASSUME NEW g, NEW type, NEW ctx
    PROVE  Counted(g, type, ctx) =
             {c \in Matching(g, ctx) :
                 /\ c > 1 \/ candidate_refs(filter_spec(g, "since_filter")) # {}
                 /\ Scopeable(c, candidate_refs(filter_spec(g, "since_filter")), ctx)
                 /\ InWindow(c, type, Anchor(g, c, ctx), ctx)}
BY DEF Counted, Anchor

LEMMA SameCounted ==
    ASSUME NEW g, NEW ctx, NEW new, NEW type, SameCheck(ctx, new),
           Matching(g, new) = Matching(g, ctx),
           \A n \in Matching(g, ctx) :
              /\ new.ledger[n] = ctx.ledger[n]
              /\ Baselines(type, Anchor(g, n, ctx), new) = Baselines(type, Anchor(g, n, ctx), ctx)
    PROVE  Counted(g, type, new) = Counted(g, type, ctx)
<1> DEFINE fields == candidate_refs(filter_spec(g, "since_filter"))
<1>1. build_template_vars(new) = build_template_vars(ctx)
  BY DEF SameCheck, build_template_vars
<1>2. ASSUME NEW c \in Matching(g, ctx)
      PROVE  /\ Scopeable(c, fields, new) = Scopeable(c, fields, ctx)
             /\ InWindow(c, type, Anchor(g, c, new), new) = InWindow(c, type, Anchor(g, c, ctx), ctx)
  <2>1. new.ledger[c] = ctx.ledger[c]
    OBVIOUS
  <2>2. Anchor(g, c, new) = Anchor(g, c, ctx)
    BY <1>1, <2>1 DEF Anchor
  <2> HIDE DEF fields
  <2> QED
    BY <2>1, <2>2 DEF Scopeable, InWindow
<1> HIDE DEF fields
<1> QED
  BY <1>2, CountedByAnchor DEF fields

LEMMA SameWindow ==
    ASSUME NEW g, NEW ctx, NEW new, NEW T, SameCheck(ctx, new),
           SameBut(ctx.ledger, new.ledger, T), g.event \in T, NEW type \in T
    PROVE  Counted(g, type, new) = Counted(g, type, ctx)
<1>1. gate_filter(g, new) = gate_filter(g, ctx)
  BY DEF SameCheck, build_template_vars, gate_filter
<1>2. /\ events_of_type(new.ledger, g.event) = events_of_type(ctx.ledger, g.event)
      /\ \A n \in events_of_type(ctx.ledger, g.event) : new.ledger[n] = ctx.ledger[n]
  BY SameEvents
<1>3. /\ events_of_type(new.ledger, type) = events_of_type(ctx.ledger, type)
      /\ \A n \in events_of_type(ctx.ledger, type) : new.ledger[n] = ctx.ledger[n]
  BY SameEvents
<1>4. Matching(g, new) = Matching(g, ctx)
  BY <1>1, <1>2 DEF Matching
<1>5. \A a : Baselines(type, a, new) = Baselines(type, a, ctx)
  BY <1>3 DEF Baselines
<1>6. \A n \in Matching(g, ctx) : new.ledger[n] = ctx.ledger[n]
  BY <1>2 DEF Matching
<1> QED
  BY <1>4, <1>5, <1>6, SameCounted

LEMMA SameLeaf ==
    ASSUME NEW g, NEW ctx, NEW new, NEW T, SameCheck(ctx, new),
           SameBut(ctx.ledger, new.ledger, T),
           ENGINE_EVENTS \cup {"snapshot"} \subseteq T,
           \A l \in LeafRefs(g, ctx.config) : l[1] \in T
    PROVE  eval_leaf(g, new) <=> eval_leaf(g, ctx)
<1>1. build_template_vars(new) = build_template_vars(ctx) /\ gate_filter(g, new) = gate_filter(g, ctx)
  BY DEF SameCheck, build_template_vars, gate_filter
<1>2. ASSUME g.event \in T PROVE Matching(g, new) = Matching(g, ctx)
  BY <1>1, <1>2, SameEvents DEF Matching
<1>3. CASE g.type = "ledger_has_event"
  <2>1. <<g.event, Or(g, "min_count", 1) >= 1>> \in LeafRefs(g, ctx.config)
    BY <1>3 DEF LeafRefs
  <2>2. g.event \in T
    BY <2>1
  <2> QED
    BY <1>2, <1>3, <2>2 DEF eval_leaf, eval_ledger_has_event
<1>4. CASE g.type = "ledger_has_event_since"
  <2> DEFINE since == Or(g, "since", <<"last_transition">>)
  <2>1. LeafRefs(g, ctx.config) =
            {<<g.event, TRUE>>} \cup
            {<<x[2], FALSE>> : x \in {s \in {since} : s[1] \in {"last_event_of_type", "other"}}}
    BY <1>4 DEF LeafRefs
  <2>2. g.event \in T
    <3>1. <<g.event, TRUE>> \in LeafRefs(g, ctx.config)
      BY <2>1
    <3> QED
      BY <3>1
  <2>3. since[1] = "last_event_of_type" => since[2] \in T
    <3> SUFFICES ASSUME since[1] = "last_event_of_type" PROVE since[2] \in T
      OBVIOUS
    <3>1. <<since[2], FALSE>> \in LeafRefs(g, ctx.config)
      BY <2>1
    <3> QED
      BY <3>1
  <2> HIDE DEF since
  <2>4. resolve_gate_since(ctx.config, g) \subseteq T
    BY <2>3 DEF resolve_gate_since, resolve_since_anchor, since, ENGINE_EVENTS
  <2>5. resolve_gate_since(new.config, g) = resolve_gate_since(ctx.config, g)
    BY DEF SameCheck
  <2>6. \A type \in T : Counted(g, type, new) = Counted(g, type, ctx)
    BY <2>2, SameWindow
  <2> QED
    BY <1>4, <2>4, <2>5, <2>6 DEF eval_leaf, eval_ledger_has_event_since
<1>5. CASE g.type \in {"ledger_lacks_event", "min_elapsed"}
  <2>1. <<g.event, FALSE>> \in LeafRefs(g, ctx.config)
    BY <1>5 DEF LeafRefs
  <2>2. g.event \in T
    BY <2>1
  <2>3. events_of_type(new.ledger, g.event) = events_of_type(ctx.ledger, g.event)
    BY <2>2, SameEvents
  <2> QED
    BY <1>2, <1>5, <2>2, <2>3
       DEF eval_leaf, eval_ledger_lacks_event, eval_min_elapsed, SameCheck
<1>6. CASE g.type = "set_covered"
  <2> DEFINE e == Or(g, "event", "set_member_complete")
             f == Or(g, "field", "member")
  <2>1. <<e, TRUE>> \in LeafRefs(g, ctx.config)
    BY <1>6 DEF LeafRefs
  <2>2. e \in T
    BY <2>1
  <2> HIDE DEF e, f
  <2>3. completed_members_for_set(new.ledger, g.set, e, f)
            = completed_members_for_set(ctx.ledger, g.set, e, f)
    BY <2>2, SameEvents DEF completed_members_for_set
  <2> QED
    BY <1>6, <2>3 DEF eval_leaf, eval_set_covered, SameCheck, e, f
<1>7. CASE g.type = "no_violations"
  <2>1. /\ <<"protocol_violation", FALSE>> \in LeafRefs(g, ctx.config)
        /\ <<"violation_resolved", FALSE>> \in LeafRefs(g, ctx.config)
    BY <1>7 DEF LeafRefs
  <2>2. "protocol_violation" \in T /\ "violation_resolved" \in T
    BY <2>1
  <2> QED
    BY <1>7, <2>2, SameEvents DEF eval_leaf, eval_no_violations
<1>8. CASE g.type \in {"field_not_empty", "file_exists", "files_exist"}
  BY <1>1, <1>8 DEF eval_leaf, eval_field_not_empty, eval_files_exist, SameCheck
<1>9. Runs(g, new) = Runs(g, ctx)
  BY <1>1 DEF Runs, validate_template_fields, SameCheck
<1>10. CASE g.type \in {"command_succeeds", "command_output"}
  BY <1>9, <1>10 DEF eval_leaf, eval_command_succeeds, eval_command_output, SameCheck
<1>11. CASE g.type = "snapshot_compare"
  <2>1. /\ events_of_type(new.ledger, "snapshot") = events_of_type(ctx.ledger, "snapshot")
        /\ \A n \in events_of_type(ctx.ledger, "snapshot") : new.ledger[n] = ctx.ledger[n]
    BY SameEvents
  <2>2. ASSUME NEW key
        PROVE  resolve_snapshot_reference(new, key) = resolve_snapshot_reference(ctx, key)
    BY <2>1 DEF resolve_snapshot_reference
  <2>3. References(g, new) = References(g, ctx)
    BY <2>2 DEF References
  <2> QED
    BY <1>9, <1>11, <2>3 DEF eval_leaf, eval_snapshot_compare, SameCheck
<1>12. CASE g.type = "query"
  BY <1>1, <1>12 DEF eval_leaf, eval_query_gate, validate_template_fields, SameCheck
<1>13. CASE g.type \notin {"ledger_has_event", "ledger_has_event_since", "ledger_lacks_event",
                           "min_elapsed", "set_covered", "no_violations", "field_not_empty",
                           "file_exists", "files_exist", "command_succeeds", "command_output",
                           "snapshot_compare", "query"}
  BY <1>13 DEF eval_leaf
<1> QED
  BY <1>3, <1>4, <1>5, <1>6, <1>7, <1>8, <1>10, <1>11, <1>12, <1>13

(* A gate an evaluation gets to that is no composite ends a chain of lint's *)
(* leaves.                                                                  *)
LEMMA EvaluatedLeaf ==
    ASSUME NEW g, NEW h \in Evaluated(g), h.type \notin COMPOSITES
    PROVE  \E c \in Leaves(g) : Last(c) = h
<1>1. PICK c \in Chains(g) : Reached(c) /\ h \in Range(c)
  BY DEF Evaluated
<1>2. PICK n \in DOMAIN c : c[n] = h
  BY <1>1 DEF Range
<1>3. PICK len : len = Len(c)
  OBVIOUS
<1>4. len \in Nat /\ len > 0 /\ DOMAIN c = 1..len /\ Last(c) = c[len]
  BY <1>3, LastOfChain
<1>5. \A m \in 1..(len - 1) : c[m].type \in COMPOSITES
  BY <1>1, <1>3 DEF Reached
<1>6. n = len
  <2> SUFFICES ASSUME n # len PROVE FALSE
    OBVIOUS
  <2>1. n \in 1..(len - 1)
    BY <1>2, <1>4
  <2> QED
    BY <1>2, <1>5, <2>1
<1> QED
  BY <1>1, <1>2, <1>4, <1>6 DEF Leaves

LEMMA SameTree ==
    ASSUME NEW g, NEW ctx, NEW new, NEW T, SameCheck(ctx, new),
           SameBut(ctx.ledger, new.ledger, T),
           ENGINE_EVENTS \cup {"snapshot"} \subseteq T,
           \A c \in Leaves(g) : \A l \in LeafRefs(Last(c), ctx.config) : l[1] \in T
    PROVE  eval(g, new) <=> eval(g, ctx)
<1>1. ASSUME NEW c \in Leaves(g)
      PROVE  eval_leaf(Last(c), new) <=> eval_leaf(Last(c), ctx)
  BY SameLeaf
<1>2. CASE g.type \notin COMPOSITES
  <2>1. <<g>> \in Chains(g) /\ <<g>> \in Seq({g}) /\ Len(<<g>>) = 1 /\ <<g>>[1] = g
    BY ChainsOfTree
  <2>2. Last(<<g>>) = g
    BY <2>1 DEF Last
  <2>3. Reached(<<g>>)
    BY <2>1 DEF Reached
  <2>4. <<g>> \in Leaves(g)
    BY <1>2, <2>1, <2>2, <2>3 DEF Leaves
  <2> QED
    BY <1>1, <1>2, <2>2, <2>4, LeafEval
<1>3. CASE g.type \in COMPOSITES
  <2> DEFINE reached == Evaluated(g)
             inner == {h \in reached : h.type \in COMPOSITES}
  <2>1. ASSUME NEW h \in reached \ inner
        PROVE  eval_leaf(h, new) <=> eval_leaf(h, ctx)
    <3>1. PICK c \in Leaves(g) : Last(c) = h
      BY EvaluatedLeaf
    <3> QED
      BY <1>1, <3>1
  <2>2. {h \in reached \ inner : eval_leaf(h, new)} = {h \in reached \ inner : eval_leaf(h, ctx)}
    BY <2>1
  <2> QED
    BY <1>3, <2>2 DEF eval
<1> QED
  BY <1>2, <1>3

-----------------------------------------------------------------------------
(* A step adds to the ledger and keeps the protocol.                        *)
LEMMA StepsGrow ==
    ASSUME Sound, [Next]_vars
    PROVE  Grows /\ config' = config
<1>1. CASE UNCHANGED vars
  BY <1>1 DEF vars, Grows, Kept, Sound
<1>2. CASE Quietly
  BY <1>2 DEF Quietly
<1>3. CASE \E command, i, args, world :
              i \in prepare_transition(command, args, world) /\ Takes(i, args, world)
  BY <1>3, TransitionMoves DEF Takes
<1> QED
  BY <1>1, <1>2, <1>3, Steps

LEMMA AddsOthers ==
    ASSUME Sound, Grows, NEW T, \A n \in New : ledger'[n].type \notin T
    PROVE  SameBut(ledger, ledger', T)
BY DEF SameBut, Sound, Grows, Kept, New

(* What a transition's parameters are drawn from.                           *)
LEMMA SameParams ==
    ASSUME config' = config, NEW T, SameBut(ledger, ledger', T), "set_member_complete" \in T,
           NEW i, NEW args
    PROVE  ParamsFor(i, args)' = ParamsFor(i, args)
<1>1. /\ events_of_type(ledger', "set_member_complete") = events_of_type(ledger, "set_member_complete")
      /\ \A n \in events_of_type(ledger, "set_member_complete") : ledger'[n] = ledger[n]
  BY SameEvents
<1>2. ASSUME NEW set PROVE CompletedIn(set)' = CompletedIn(set)
  BY <1>1 DEF CompletedIn, completed_members_for_set
<1>3. ASSUME NEW set PROVE FirstLeft(set)' = FirstLeft(set)
  BY <1>2 DEF FirstLeft
<1>4. ASSUME NEW set PROVE LastCompleted(set)' = LastCompleted(set)
  BY <1>1 DEF LastCompleted
<1>5. ASSUME NEW p PROVE Drawn(p)' = Drawn(p)
  BY <1>3, <1>4 DEF Drawn
<1>6. ASSUME NEW s PROVE build_state_params(s)' = build_state_params(s)
  <2> DEFINE params == config.states[s].params
             old == [k \in DOMAIN params |-> Drawn(params[k])]
             new == [k \in DOMAIN params |-> Drawn(params[k])']
  <2>1. new = old
    BY <1>5
  <2>2. build_state_params(s) = BoundOnEntry(params, old)
    BY DEF build_state_params
  <2>3. build_state_params(s)' = BoundOnEntry(params, new)
    BY DEF build_state_params
  <2> HIDE DEF old, new
  <2> QED
    BY <2>1, <2>2, <2>3
<1>7. BoundArgs(i, args)' = BoundArgs(i, args)
  BY DEF BoundArgs, BoundBy
<1> QED
  BY <1>6, <1>7 DEF ParamsFor

(* Recording an event that L5 calls dead changes neither the candidate any  *)
(* command would take nor whether a gated rule fires.                       *)
THEOREM DeadEventsAreInert == Spec => DeadIsInert
<1> DEFINE dead == l5_dead_vocabulary(config) \ {"snapshot"}
           Added == {ledger'[n].type : n \in (Len(ledger) + 1)..Len(ledger')}
           Inert == Added \subseteq dead
        => \A world \in Worlds :
              /\ \A command \in Commands(config), args \in Arguments :
                    prepare_transition(command, args, world)'
                        = prepare_transition(command, args, world)
              /\ \A h \in DOMAIN config.hooks, request \in Requests(config) :
                    Has(config.hooks[h], "gate") =>
                        eval_hook_condition(config.hooks[h], config, ledger', request, world)
                            = eval_hook_condition(config.hooks[h], config, ledger, request, world)
<1>1. ASSUME RunInv, [Next]_vars
      PROVE  Inert
  <2> SUFFICES ASSUME Added \subseteq dead, NEW world \in Worlds
               PROVE  /\ \A command \in Commands(config), args \in Arguments :
                            prepare_transition(command, args, world)'
                                = prepare_transition(command, args, world)
                      /\ \A h \in DOMAIN config.hooks, request \in Requests(config) :
                            Has(config.hooks[h], "gate") =>
                              (eval_hook_condition(config.hooks[h], config, ledger', request, world)
                                <=> eval_hook_condition(config.hooks[h], config, ledger, request, world))
    BY DEF eval_hook_condition
  <2>1. Sound /\ Grows /\ config' = config
    BY <1>1, StepsGrow DEF RunInv, Sound
  <2>2. PICK T : T = consumed_events(config) \cup ENGINE_EVENTS \cup {"snapshot"}
    OBVIOUS
  <2>3. \A n \in New : ledger'[n].type \notin T
    BY <2>2 DEF New, l5_dead_vocabulary
  <2>4. SameBut(ledger, ledger', T)
    BY <2>1, <2>3, AddsOthers
  <2>5. ENGINE_EVENTS \cup {"snapshot"} \subseteq T
    BY <2>2
  <2>6. state' = state
    BY <2>1, <2>3, <2>5, QuietState DEF Sound, ENGINE_EVENTS
  <2>7. ASSUME NEW command \in Commands(config), NEW args \in Arguments
        PROVE  prepare_transition(command, args, world)' = prepare_transition(command, args, world)
    <3>1. ASSUME NEW i \in DOMAIN config.transitions
          PROVE  evaluate_gates(config.transitions[i].gates, Context(i, args, world)')
                   <=> evaluate_gates(config.transitions[i].gates, Context(i, args, world))
      <4> DEFINE ctx == Context(i, args, world)
                 new == Context(i, args, world)'
                 gates == config.transitions[i].gates
      <4>1. "set_member_complete" \in T
        BY <2>5 DEF ENGINE_EVENTS
      <4>2. ParamsFor(i, args)' = ParamsFor(i, args)
        BY <2>1, <2>4, <4>1, SameParams
      <4>3. ctx.ledger = ledger /\ new.ledger = ledger' /\ ctx.config = config /\ SameCheck(ctx, new)
        BY <2>1, <4>2 DEF Context, SameCheck
      <4> HIDE DEF ctx, new
      <4>4. ASSUME NEW k \in DOMAIN gates, NEW c \in Leaves(gates[k]), NEW l \in LeafRefs(Last(c), config)
            PROVE  l[1] \in T
        <5> DEFINE r == Ref(l[1], l[2] /\ Positive(c), Disjunctive(c))
        <5>1. r.event = l[1]
          BY DEF Ref
        <5>2. r \in gate_event_refs(gates[k], config)
          BY DEF gate_event_refs
        <5> HIDE DEF r
        <5>3. r \in RefsOf(config, i)
          BY <5>2 DEF RefsOf
        <5>4. r \in UNION {RefsOf(config, j) : j \in DOMAIN config.transitions}
          BY <5>3
        <5> QED
          BY <2>2, <5>1, <5>4 DEF consumed_events
      <4>5. ASSUME NEW k \in DOMAIN gates
            PROVE  eval(gates[k], new) <=> eval(gates[k], ctx)
        BY <2>4, <2>5, <4>3, <4>4, SameTree
      <4> QED
        BY <4>5 DEF evaluate_gates, ctx, new
    <3>2. Candidates(command)' = Candidates(command)
      BY <2>1, <2>6 DEF Candidates, Group
    <3>3. Candidates(command) \subseteq DOMAIN config.transitions
      BY DEF Candidates, Group
    <3>4. Passing(command, args, world)' = Passing(command, args, world)
      BY <2>1, <3>1, <3>2, <3>3 DEF Passing
    <3> QED
      BY <3>4 DEF prepare_transition
  <2>8. ASSUME NEW h \in DOMAIN config.hooks, NEW request \in Requests(config),
               Has(config.hooks[h], "gate")
        PROVE  eval_hook_condition(config.hooks[h], config, ledger', request, world)
                 <=> eval_hook_condition(config.hooks[h], config, ledger, request, world)
    <3> DEFINE g == config.hooks[h].gate
               ctx == HookContext(config, ledger, request, world)
               new == HookContext(config, ledger', request, world)
    <3>1. ctx.ledger = ledger /\ new.ledger = ledger' /\ ctx.config = config /\ SameCheck(ctx, new)
      BY DEF HookContext, SameCheck
    <3> HIDE DEF ctx, new
    <3>2. ASSUME NEW c \in Leaves(g), NEW l \in LeafRefs(Last(c), config)
          PROVE  l[1] \in T
      <4> DEFINE r == Ref(l[1], l[2] /\ Positive(c), Disjunctive(c))
      <4>1. r.event = l[1]
        BY DEF Ref
      <4>2. r \in gate_event_refs(g, config)
        BY DEF gate_event_refs
      <4> HIDE DEF r
      <4> DEFINE read(hook) ==
                     (IF Has(hook, "gate") THEN {x.event : x \in gate_event_refs(hook.gate, config)} ELSE {})
                     \cup (UNION {sql.mentions \cap DOMAIN config.events : sql \in CheckPredicates(hook)})
                     \cup (UNION {check.event_types : check \in ChecksOf(hook)})
      <4>3. r.event \in read(config.hooks[h])
        BY <2>8, <4>2
      <4>4. r.event \in UNION {read(hook) : hook \in {config.hooks[x] : x \in DOMAIN config.hooks}}
        <5> HIDE DEF read
        <5> QED
          BY <4>3
      <4>5. UNION {read(hook) : hook \in {config.hooks[x] : x \in DOMAIN config.hooks}}
                \subseteq consumed_events(config)
        BY Zenon DEF consumed_events
      <4> HIDE DEF read
      <4> QED
        BY <2>2, <4>1, <4>4, <4>5
    <3>3. eval(g, new) <=> eval(g, ctx)
      BY <2>4, <2>5, <3>1, <3>2, SameTree
    <3> QED
      BY <2>8, <3>3 DEF eval_hook_condition, ctx, new
  <2> QED
    BY <2>7, <2>8
<1>2. RunInv /\ [Next]_vars => [Inert]_vars
  BY <1>1
<1> QED
  BY <1>2, RunsKeep, PTL DEF Spec, DeadIsInert

-----------------------------------------------------------------------------
(* What another agent records is in no window and matches no filter that is *)
(* keyed on this one.                                                       *)
LEMMA OthersDoNotCount ==
    ASSUME NEW g, OwnGate(g), NEW ctx, NEW new, NEW me, SameCheck(ctx, new),
           ctx.params = [v \in {<<"var", "agent_id">>} |-> me],
           IsList(ctx.ledger), IsList(new.ledger), Len(ctx.ledger) <= Len(new.ledger),
           \A n \in DOMAIN ctx.ledger : new.ledger[n] = ctx.ledger[n],
           \A n \in (Len(ctx.ledger) + 1)..Len(new.ledger) :
              /\ Has(new.ledger[n].fields, "agent_id")
              /\ new.ledger[n].fields["agent_id"] # me
              /\ new.ledger[n].type # "state_transition"
    PROVE  eval(g, new) <=> eval(g, ctx)
<1> DEFINE bound == build_template_vars(ctx)
<1>1. Actor \in DOMAIN bound /\ bound[Actor] = me
  BY DEF build_template_vars, Over, Actor
<1>2. build_template_vars(new) = bound
  BY DEF SameCheck, build_template_vars
<1> HIDE DEF bound
<1>3. /\ DOMAIN ctx.ledger \subseteq DOMAIN new.ledger
      /\ \A n \in DOMAIN new.ledger :
            n \in DOMAIN ctx.ledger \/ n \in (Len(ctx.ledger) + 1)..Len(new.ledger)
  <2>1. /\ Len(ctx.ledger) \in Nat /\ DOMAIN ctx.ledger = 1..Len(ctx.ledger)
        /\ Len(new.ledger) \in Nat /\ DOMAIN new.ledger = 1..Len(new.ledger)
    BY ListLen
  <2> QED
    BY <2>1
<1>4. ASSUME NEW a, "agent_id" \in DOMAIN a, a["agent_id"] = me, NEW type
      PROVE  {n \in events_of_type(new.ledger, type) : entry_matches_filter(new.ledger[n], a)}
               = {n \in events_of_type(ctx.ledger, type) : entry_matches_filter(ctx.ledger[n], a)}
  BY <1>3, <1>4 DEF events_of_type, entry_matches_filter
<1>5. Matching(g, new) = Matching(g, ctx)
  <2> DEFINE spec == filter_spec(g, "filter")
  <2>1. "agent_id" \in DOMAIN spec /\ spec["agent_id"] = Actor
    BY DEF OwnGate, OfActor, Has
  <2>2. gate_filter(g, ctx) = resolve_filter_spec(spec, bound) /\ gate_filter(g, new) = gate_filter(g, ctx)
    BY <1>2 DEF gate_filter, bound
  <2> HIDE DEF spec
  <2>3. "agent_id" \in DOMAIN gate_filter(g, ctx) /\ gate_filter(g, ctx)["agent_id"] = me
    BY <1>1, <2>1, <2>2 DEF resolve_filter_spec, Resolved
  <2> QED
    BY <1>4, <2>2, <2>3 DEF Matching
<1>6. g.type \notin COMPOSITES
  BY DEF OwnGate, COMPOSITES
<1>7. CASE g.type \in {"ledger_has_event", "ledger_lacks_event"}
  <2>1. eval_leaf(g, new) <=> eval_leaf(g, ctx)
    BY <1>5, <1>7 DEF eval_leaf, eval_ledger_has_event, eval_ledger_lacks_event
  <2> QED
    BY <1>6, <2>1, LeafEval
<1>8. CASE g.type = "ledger_has_event_since"
  <2> DEFINE since == Or(g, "since", <<"last_transition">>)
             spec == filter_spec(g, "since_filter")
  <2>1. ASSUME NEW type \in resolve_gate_since(ctx.config, g), NEW c \in Matching(g, ctx)
        PROVE  Baselines(type, Anchor(g, c, ctx), new) = Baselines(type, Anchor(g, c, ctx), ctx)
    <3>1. CASE type = "state_transition"
      <4>1. \A n \in events_of_type(new.ledger, type) : n \in DOMAIN ctx.ledger
        BY <1>3, <3>1 DEF events_of_type
      <4> QED
        BY <1>3, <4>1 DEF Baselines, events_of_type
    <3>2. CASE since[1] = "last_event_of_type"
      <4>1. "agent_id" \in DOMAIN spec /\ spec["agent_id"] = Actor
        BY <3>2 DEF OwnGate, OfActor, Has
      <4> HIDE DEF spec
      <4>2. /\ Actor \in DOMAIN candidate_vars(ctx.ledger[c], bound)
            /\ candidate_vars(ctx.ledger[c], bound)[Actor] = me
        <5>1. Actor \notin {<<"event", f>> : f \in DOMAIN ctx.ledger[c].fields}
          BY DEF Actor
        <5> QED
          BY <1>1, <5>1 DEF candidate_vars, Over
      <4>3. /\ "agent_id" \in DOMAIN Anchor(g, c, ctx)
            /\ Anchor(g, c, ctx)["agent_id"] = me
        <5>1. CASE candidate_refs(spec) = {}
          <6>1. Anchor(g, c, ctx) = resolve_filter_spec(spec, bound)
            BY <5>1 DEF Anchor, spec, bound
          <6> QED
            BY <1>1, <4>1, <6>1 DEF resolve_filter_spec, Resolved
        <5>2. CASE candidate_refs(spec) # {}
          <6>1. Anchor(g, c, ctx) = resolve_filter_spec(spec, candidate_vars(ctx.ledger[c], bound))
            BY <5>2 DEF Anchor, spec, bound
          <6> QED
            BY <4>1, <4>2, <6>1 DEF resolve_filter_spec, Resolved
        <5> QED
          BY <5>1, <5>2
      <4> QED
        BY <1>4, <4>3 DEF Baselines
    <3> QED
      BY <3>1, <3>2 DEF resolve_gate_since, resolve_since_anchor
  <2>2. \A n \in Matching(g, ctx) : new.ledger[n] = ctx.ledger[n]
    BY DEF Matching, events_of_type
  <2>3. \A type \in resolve_gate_since(ctx.config, g) : Counted(g, type, new) = Counted(g, type, ctx)
    BY <1>5, <2>1, <2>2, SameCounted
  <2>4. eval_leaf(g, new) <=> eval_leaf(g, ctx)
    BY <1>8, <2>3 DEF eval_leaf, eval_ledger_has_event_since, SameCheck
  <2> QED
    BY <1>6, <2>4, LeafEval
<1> QED
  BY <1>7, <1>8 DEF OwnGate

(* What another agent records, unless it is a move, never changes whether a *)
(* rule fires that is gated on what this one recorded.                      *)
THEOREM SiblingsDoNotInterfere == Spec => SiblingsApart
<1> DEFINE Apart ==
        \A h \in DOMAIN config.hooks, request \in Requests(config), world \in Worlds :
          LET hook == config.hooks[h]
              added == (Len(ledger) + 1)..Len(ledger')
          IN  /\ Has(hook, "gate") /\ OwnGate(hook.gate)
              /\ \A n \in added : /\ ledger'[n].type # "state_transition"
                                   /\ Has(ledger'[n].fields, "agent_id")
                                   /\ ledger'[n].fields["agent_id"] # request.agent_id
              => eval_hook_condition(hook, config, ledger', request, world)
                   = eval_hook_condition(hook, config, ledger, request, world)
<1>1. ASSUME RunInv, [Next]_vars
      PROVE  Apart
  <2> SUFFICES ASSUME NEW h \in DOMAIN config.hooks, NEW request \in Requests(config),
                      NEW world \in Worlds,
                      Has(config.hooks[h], "gate"), OwnGate(config.hooks[h].gate),
                      \A n \in New : /\ ledger'[n].type # "state_transition"
                                     /\ Has(ledger'[n].fields, "agent_id")
                                     /\ ledger'[n].fields["agent_id"] # request.agent_id
               PROVE  eval_hook_condition(config.hooks[h], config, ledger', request, world)
                        <=> eval_hook_condition(config.hooks[h], config, ledger, request, world)
    BY DEF New, eval_hook_condition
  <2> DEFINE g == config.hooks[h].gate
             ctx == HookContext(config, ledger, request, world)
             new == HookContext(config, ledger', request, world)
  <2>1. Sound /\ Grows
    BY <1>1, StepsGrow DEF RunInv
  <2>3. /\ ctx.ledger = ledger /\ new.ledger = ledger' /\ SameCheck(ctx, new)
        /\ ctx.params = [v \in {<<"var", "agent_id">>} |-> request.agent_id]
    BY DEF HookContext, SameCheck
  <2> HIDE DEF ctx, new
  <2>4. /\ IsList(ctx.ledger) /\ IsList(new.ledger) /\ Len(ctx.ledger) <= Len(new.ledger)
        /\ \A n \in DOMAIN ctx.ledger : new.ledger[n] = ctx.ledger[n]
    BY <2>1, <2>3 DEF Grows, Kept, Sound
  <2>5. \A n \in (Len(ctx.ledger) + 1)..Len(new.ledger) :
              /\ Has(new.ledger[n].fields, "agent_id")
              /\ new.ledger[n].fields["agent_id"] # request.agent_id
              /\ new.ledger[n].type # "state_transition"
    BY <2>3 DEF New
  <2>6. eval(g, new) <=> eval(g, ctx)
    BY <2>3, <2>4, <2>5, OthersDoNotCount
  <2> QED
    BY <2>6 DEF eval_hook_condition, ctx, new
<1>2. RunInv /\ [Next]_vars => [Apart]_vars
  BY <1>1
<1> QED
  BY <1>2, RunsKeep, PTL DEF Spec, SiblingsApart

-----------------------------------------------------------------------------
(* No entry holds text that reads as an unresolved placeholder, where       *)
(* nobody writes any: what the engine writes of itself, a transition draws  *)
(* its parameters from and an emit resolves is text somebody wrote.         *)
LEMMA TextsOf ==
    ASSUME NEW c
    PROVE  /\ Values \subseteq Texts(c) /\ DOMAIN c.sets \subseteq Texts(c)
           /\ \A stray \in Strays(c) : Range(stray[2]) \subseteq Texts(c)
           /\ \A set \in DOMAIN c.sets : Range(c.sets[set]) \subseteq Texts(c)
           /\ \A i \in DOMAIN c.transitions : TransitionTexts(c.transitions[i]) \subseteq Texts(c)
           /\ \A h \in DOMAIN c.hooks : HookTexts(c.hooks[h]) \subseteq Texts(c)
           /\ \A request \in Requests(c) : request.file \subseteq Texts(c)
           /\ \A world \in Worlds : Range(world.outputs) \subseteq Texts(c)
<1> DEFINE members == UNION {Range(c.sets[set]) : set \in DOMAIN c.sets}
           strays == UNION {Range(stray[2]) : stray \in Strays(c)}
           steps == UNION {TransitionTexts(t) : t \in Edges(c)}
           hooks == UNION {HookTexts(c.hooks[h]) : h \in DOMAIN c.hooks}
           files == UNION {request.file : request \in Requests(c)}
           printed == UNION {Range(world.outputs) : world \in Worlds}
<1>1. Texts(c) = Values \cup strays \cup DOMAIN c.sets \cup members \cup steps \cup hooks \cup files \cup printed
  BY DEF Texts
<1>2. \A set \in DOMAIN c.sets : Range(c.sets[set]) \subseteq members
  OBVIOUS
<1>3. \A i \in DOMAIN c.transitions : TransitionTexts(c.transitions[i]) \subseteq steps
  BY DEF Edges
<1>4. \A h \in DOMAIN c.hooks : HookTexts(c.hooks[h]) \subseteq hooks
  OBVIOUS
<1>5. \A request \in Requests(c) : request.file \subseteq files
  OBVIOUS
<1>6. \A world \in Worlds : Range(world.outputs) \subseteq printed
  OBVIOUS
<1>7. \A stray \in Strays(c) : Range(stray[2]) \subseteq strays
  OBVIOUS
<1> HIDE DEF members, strays, steps, hooks, files, printed
<1> QED
  BY <1>1, <1>2, <1>3, <1>4, <1>5, <1>6, <1>7

PlainFields(fields) == \A f \in DOMAIN fields : fields[f] # Literal
PlainEntry(x) == PlainFields(x.fields)
Plain == \A n \in DOMAIN ledger : PlainEntry(ledger[n])

LEMMA AddsPlain ==
    ASSUME Sound, Plain, Grows, \A n \in New : PlainEntry(ledger'[n])
    PROVE  Plain'
<1>1. Len(ledger) \in Nat /\ DOMAIN ledger = 1..Len(ledger)
  BY ListLen DEF Sound
<1>2. Len(ledger') \in Nat /\ DOMAIN ledger' = 1..Len(ledger')
  BY ListLen DEF Grows
<1>3. \A n \in DOMAIN ledger' : n \in DOMAIN ledger \/ n \in New
  BY <1>1, <1>2 DEF New
<1>4. \A n \in DOMAIN ledger' : PlainEntry(ledger'[n])
  BY <1>3 DEF Plain, Grows, Kept
<1> QED
  BY <1>4 DEF Plain, PlainEntry, PlainFields

LEMMA PlainRecord ==
    ASSUME Sound, PlainText(config), Plain, NEW in \in Inputs, Records(in[1], in[2])
    PROVE  Plain'
<1> DEFINE e == in[1]
           fields == in[2]
<1>1. PICK by : RecordedAs(e, fields, by)
  BY RecordsAs
<1>2. PlainFields(fields)
  <2>1. CASE in \in Strays(config)
    <3>1. Range(fields) \subseteq Texts(config)
      BY <2>1, TextsOf
    <3> QED
      BY <3>1 DEF PlainFields, PlainText, Range
  <2>2. CASE in \in UNION {{x} \X Sendable(x) : x \in DOMAIN config.events}
    <3>1. fields \in Sendable(e)
      BY <2>2
    <3> HIDE DEF e, fields
    <3>2. PICK names : fields \in [names -> Values]
      BY <3>1 DEF Sendable
    <3>3. Literal \notin Values
      BY TextsOf DEF PlainText
    <3> QED
      BY <3>2, <3>3 DEF PlainFields
  <2> QED
    BY <2>1, <2>2 DEF Inputs
<1> HIDE DEF e, fields
<1> DEFINE x == NewEntry(e, fields, by)
<1>3. PlainEntry(x)
  BY <1>2 DEF PlainEntry, NewEntry
<1>4. AppendAll(<<x>>)
  BY <1>1 DEF RecordedAs
<1> HIDE DEF x
<1>5. Grows /\ \A n \in New : ledger'[n] = x
  BY <1>4, AppendsOne DEF Sound
<1> QED
  BY <1>3, <1>5, AddsPlain

LEMMA PlainMember ==
    ASSUME Sound, PlainText(config), Plain,
           NEW set \in DOMAIN config.sets, NEW member \in Range(config.sets[set]),
           cmd_set_complete(set, member)
    PROVE  Plain'
<1> DEFINE x == NewEntry("set_member_complete", [set |-> set, member |-> member], Stamp("agent", "cli"))
<1>1. set \in Texts(config) /\ member \in Texts(config)
  BY DEF Texts
<1>2. set # Literal /\ member # Literal
  BY <1>1 DEF PlainText
<1>3. PlainEntry(x)
  BY <1>2 DEF PlainEntry, PlainFields, NewEntry, Has
<1>4. AppendAll(<<x>>)
  BY DEF cmd_set_complete
<1> HIDE DEF x
<1>5. Grows /\ \A n \in New : ledger'[n] = x
  BY <1>4, AppendsOne DEF Sound
<1> QED
  BY <1>3, <1>5, AddsPlain

LEMMA PlainHook ==
    ASSUME Sound, PlainText(config), Plain,
           NEW request \in Requests(config), cmd_hook_eval(request)
    PROVE  Plain'
<1> DEFINE S == {h \in MatchingHooks(config, ledger, request) : Has(config.hooks[h], "auto_record")}
           records == auto_records(config, ledger, request)
           entries == [i \in DOMAIN records |->
              NewEntry(records[i].event, records[i].fields, Stamp("agent", "hook-eval"))]
<1>1. AppendAll(entries)
  BY DEF cmd_hook_eval
<1>2. Cardinality(S) \in Nat /\ InOrder(S) \in [1..Cardinality(S) -> S]
  <2>1. IsList(config.hooks)
    BY ProtocolsAssumption DEF Sound, WellShaped
  <2>2. Len(config.hooks) \in Nat /\ S \in SUBSET (1..Len(config.hooks))
    BY <2>1, ListLen DEF MatchingHooks
  <2> QED
    BY <2>2, Ordered
<1>3. /\ DOMAIN records = 1..Cardinality(S)
      /\ \A i \in 1..Cardinality(S) :
            LET auto == config.hooks[InOrder(S)[i]].auto_record
            IN  records[i].event = auto.event_type /\ records[i].fields = AutoFields(auto, request)
  BY <1>2 DEF auto_records
<1> HIDE DEF records
<1>4. /\ entries = [i \in 1..Cardinality(S) |-> entries[i]]
      /\ \A i \in 1..Cardinality(S) :
            entries[i].type = records[i].event /\ entries[i].fields = records[i].fields
  BY <1>3 DEF NewEntry
<1> HIDE DEF entries
<1>5. IsList(entries) /\ Len(entries) = Cardinality(S)
  BY <1>2, <1>4, ListOf
<1>6. /\ Grows
      /\ \A n \in New : n - Len(ledger) \in 1..Len(entries) /\ ledger'[n] = entries[n - Len(ledger)]
  BY <1>1, <1>5, Appending DEF Sound
<1>7. ASSUME NEW i \in 1..Cardinality(S)
      PROVE  PlainEntry(entries[i])
  <2> DEFINE h == InOrder(S)[i]
             auto == config.hooks[h].auto_record
  <2>1. h \in S
    BY <1>2
  <2>2. entries[i].type = auto.event_type /\ entries[i].fields = AutoFields(auto, request)
    BY <1>3, <1>4
  <2> HIDE DEF h
  <2>3. h \in DOMAIN config.hooks /\ Has(config.hooks[h], "auto_record")
    BY <2>1 DEF MatchingHooks
  <2>5. ASSUME NEW f \in DOMAIN auto.fields
        PROVE  AutoFields(auto, request)[f] # Literal
    <3>1. CASE auto.fields[f] = <<"file">>
      <4>1. request.file \subseteq Texts(config)
        BY TextsOf
      <4>2. "" # Literal
        BY DEF Literal
      <4> QED
        BY <3>1, <4>1, <4>2 DEF AutoFields, PlainText
    <3>2. CASE auto.fields[f] # <<"file">>
      <4>1. auto.fields[f] \in Range(auto.fields) \ {<<"file">>}
        BY <3>2 DEF Range
      <4>2. auto.fields[f][2] \in HookTexts(config.hooks[h])
        BY <2>3, <4>1 DEF HookTexts
      <4>3. HookTexts(config.hooks[h]) \subseteq Texts(config)
        BY <2>3, TextsOf
      <4>4. AutoFields(auto, request)[f] = auto.fields[f][2]
        BY <3>2 DEF AutoFields
      <4> QED
        BY <4>2, <4>3, <4>4 DEF PlainText
    <3> QED
      BY <3>1, <3>2
  <2>6. DOMAIN AutoFields(auto, request) = DOMAIN auto.fields
    BY DEF AutoFields
  <2> QED
    BY <2>2, <2>5, <2>6 DEF PlainEntry, PlainFields
<1> QED
  BY <1>5, <1>6, <1>7, AddsPlain

(* A value drawn for a parameter is a member of a set, one recorded as      *)
(* complete, or the whole set joined.                                       *)
LEMMA PlainDrawn ==
    ASSUME Sound, PlainText(config), Plain, NEW p, p.set \in DOMAIN config.sets,
           NEW x \in Drawn(p)
    PROVE  x # Literal
<1> DEFINE source == Or(p, "source", "values")
<1>1. CASE source = "current"
  <2>1. x \in FirstLeft(p.set)
    BY <1>1 DEF Drawn
  <2>2. x \in Range(config.sets[p.set])
    BY <2>1 DEF FirstLeft, Range
  <2> QED
    BY <2>2, TextsOf DEF PlainText
<1>2. CASE source = "last_completed"
  <2>1. x \in LastCompleted(p.set)
    BY <1>2 DEF Drawn
  <2>2. PICK n \in DOMAIN ledger : /\ Has(ledger[n].fields, "member")
                                  /\ x = ledger[n].fields["member"]
    BY <2>1 DEF LastCompleted, events_of_type
  <2>3. PlainEntry(ledger[n])
    BY <2>2 DEF Plain
  <2> QED
    BY <2>2, <2>3 DEF PlainEntry, PlainFields, Has
<1>3. CASE source \notin {"current", "last_completed"}
  <2>1. x = Joined
    BY <1>3 DEF Drawn
  <2> QED
    BY <2>1 DEF Joined, Literal
<1> QED
  BY <1>1, <1>2, <1>3

(* The parameters of a transition: what they are called, and that they are  *)
(* text somebody wrote.                                                     *)
IsVar(v) == v[1] = "var"
PlainVars(bound) == \A v \in DOMAIN bound : IsVar(v) /\ bound[v] # Literal

LEMMA PlainOver ==
    ASSUME NEW f, NEW g, PlainVars(f), PlainVars(g)
    PROVE  PlainVars(Over(f, g))
BY DEF PlainVars, Over

LEMMA PlainArgs ==
    ASSUME PlainText(config), NEW i, NEW args \in Arguments
    PROVE  PlainVars(BoundArgs(i, args))
<1> DEFINE names == UNION {BoundBy(i, args, k) : k \in DOMAIN args}
           binding(name) == {k \in DOMAIN args : name \in BoundBy(i, args, k)}
<1> SUFFICES ASSUME NEW v \in DOMAIN BoundArgs(i, args)
             PROVE  IsVar(v) /\ BoundArgs(i, args)[v] # Literal
  BY DEF PlainVars
<1>1. v \in {<<"var", name>> : name \in names} /\ BoundArgs(i, args)[v] = args[Max(binding(v[2]))][2]
  BY DEF BoundArgs
<1>2. PICK name \in names : v = <<"var", name>>
  BY <1>1
<1>3. IsVar(v) /\ v[2] = name
  BY <1>2 DEF IsVar
<1>4. PICK k \in DOMAIN args : k \in binding(name)
  BY <1>2
<1>5. PICK x \in Values : args = <<<<"", x>>>>
  <2>1. args # <<>>
    BY <1>4
  <2>2. args \in {<<<<"", x>>>> : x \in Values}
    BY <2>1, Zenon DEF Arguments
  <2> QED
    BY <2>2, Zenon
<1>6. DOMAIN args = 1..1 /\ \A m \in 1..1 : args[m] = <<"", x>>
  <2>1. PICK one : one = <<"", x>>
    OBVIOUS
  <2>2. args = <<one>>
    BY <1>5, <2>1, Zenon
  <2>3. DOMAIN <<one>> = 1..1 /\ \A m \in 1..1 : <<one>>[m] = one
    OBVIOUS
  <2> QED
    BY <2>1, <2>2, <2>3, Zenon
<1>7. Max(binding(name)) \in binding(name)
  <2> HIDE DEF binding
  <2>1. binding(name) # {}
    BY <1>4
  <2>2. binding(name) \in SUBSET (1..1)
    BY <1>6 DEF binding
  <2> QED
    BY <2>1, <2>2, LastPlace
<1>8. args[Max(binding(name))] = <<"", x>>
  BY <1>6, <1>7
<1>9. args[Max(binding(name))][2] = x
  <2>1. <<"", x>>[2] = x
    OBVIOUS
  <2> QED
    BY <1>8, <2>1, Zenon
<1>10. x # Literal
  BY TextsOf DEF PlainText
<1> HIDE DEF binding
<1> QED
  BY <1>1, <1>3, <1>9, <1>10

LEMMA PlainEntered ==
    ASSUME Sound, PlainText(config), Plain, NEW s \in DOMAIN config.states
    PROVE  PlainVars(build_state_params(s))
<1> DEFINE params == config.states[s].params
           drawn == {k \in DOMAIN params : Drawn(params[k]) # {}}
           names == {params[k].name : k \in drawn}
           named(name) == {k \in drawn : params[k].name = name}
<1>1. IsList(params)
  BY ProtocolsAssumption DEF Sound, WellShaped
<1>2. Len(params) \in Nat /\ DOMAIN params = 1..Len(params)
  BY <1>1, ListLen
<1>3. \A name \in names : Max(named(name)) \in named(name)
  <2> SUFFICES ASSUME NEW name \in names PROVE Max(named(name)) \in named(name)
    OBVIOUS
  <2>1. named(name) # {} /\ named(name) \in SUBSET (1..Len(params))
    BY <1>2
  <2> HIDE DEF named
  <2> QED
    BY <1>2, <2>1, LastPlace
<1>4. \A k \in DOMAIN params : params[k].set \in DOMAIN config.sets
  <2>1. Broken("params", BadParams(config)) = {}
    BY DEF Sound, validate
  <2>2. s \notin BadParams(config)
    BY <2>1 DEF Broken
  <2> QED
    BY <2>2 DEF BadParams
<1> SUFFICES ASSUME NEW v \in DOMAIN build_state_params(s)
             PROVE  IsVar(v) /\ build_state_params(s)[v] # Literal
  BY DEF PlainVars
<1> DEFINE values == [k \in DOMAIN params |-> Drawn(params[k])]
           chosen(name) == CHOOSE x \in values[Max({k \in {k \in DOMAIN params : values[k] # {}} :
                                                    params[k].name = name})] : TRUE
<1>5. {k \in DOMAIN params : values[k] # {}} = drawn
  <2>1. \A k \in DOMAIN params : values[k] = Drawn(params[k])
    OBVIOUS
  <2> HIDE DEF values, params
  <2> QED
    BY <2>1, Zenon
<1>6. /\ DOMAIN build_state_params(s) = {<<"var", name>> : name \in names}
      /\ build_state_params(s)[v] = chosen(v[2])
  BY <1>5, Zenon DEF build_state_params, BoundOnEntry
<1>7. PICK name \in names : v = <<"var", name>>
  BY <1>6, Zenon
<1>8. IsVar(v) /\ v[2] = name
  <2>1. <<"var", name>>[1] = "var" /\ <<"var", name>>[2] = name
    OBVIOUS
  <2> QED
    BY <1>7, <2>1, Zenon DEF IsVar
<1>9. chosen(name) = CHOOSE x \in values[Max(named(name))] : TRUE
  BY <1>5, Zenon
<1>10. Max(named(name)) \in DOMAIN params /\ Drawn(params[Max(named(name))]) # {}
  BY <1>3
<1> HIDE DEF named, chosen
<1>11. chosen(name) \in Drawn(params[Max(named(name))])
  BY <1>9, <1>10
<1> HIDE DEF values
<1> QED
  BY <1>4, <1>6, <1>8, <1>10, <1>11, PlainDrawn

LEMMA PlainLast ==
    ASSUME Sound, Plain
    PROVE  PlainVars(LastFields)
<1> DEFINE holding(f) == {n \in DOMAIN ledger : Has(ledger[n].fields, f)}
           names == UNION {DOMAIN ledger[n].fields : n \in DOMAIN ledger}
<1> SUFFICES ASSUME NEW v \in DOMAIN LastFields PROVE IsVar(v) /\ LastFields[v] # Literal
  BY DEF PlainVars
<1>1. /\ v \in {<<"var", f>> : f \in names}
      /\ LastFields[v] = ledger[Max(holding(v[2]))].fields[v[2]]
  BY DEF LastFields
<1>2. PICK f \in names : v = <<"var", f>>
  BY <1>1
<1>3. IsVar(v) /\ v[2] = f
  BY <1>2 DEF IsVar
<1>4. Len(ledger) \in Nat /\ DOMAIN ledger = 1..Len(ledger)
  BY ListLen DEF Sound
<1>5. holding(f) # {} /\ holding(f) \in SUBSET (1..Len(ledger))
  BY <1>2, <1>4 DEF Has
<1>6. Max(holding(f)) \in holding(f)
  <2> HIDE DEF holding
  <2> QED
    BY <1>4, <1>5, LastPlace
<1> QED
  BY <1>1, <1>3, <1>6 DEF Plain, PlainEntry, PlainFields, Has

(* What an emit records: each field resolved in what the ledger last held,  *)
(* the parameters, and what its own commands print, none left unresolved.   *)
Bindings(emit, params, world) ==
    {Over(printed, Over(params, LastFields)) : printed \in Prints(emit, world)}
EmitsIn(emit, fields, vs) ==
    /\ DOMAIN fields = DOMAIN emit.fields
    /\ \A f \in DOMAIN emit.fields :
          /\ ~Unresolved(emit.fields[f], vs)
          /\ fields[f] = Resolved(emit.fields[f], vs)

LEMMA EmitResolves ==
    ASSUME NEW t, NEW params, NEW world, NEW k \in DOMAIN t.emits,
           resolve_emit(t.emits[k], params, world) # {}
    PROVE  LET x == Emitted(t, params, world)[k]
           IN  /\ x.type = t.emits[k].event
               /\ x.by = Stamp("engine:emit", t.command)
               /\ \E vs \in Bindings(t.emits[k], params, world) : EmitsIn(t.emits[k], x.fields, vs)
<1> DEFINE emit == t.emits[k]
           x == Emitted(t, params, world)[k]
<1>1. x = NewEntry(emit.event, CHOOSE f \in resolve_emit(emit, params, world) : TRUE,
                   Stamp("engine:emit", t.command))
  BY DEF Emitted
<1>2. /\ x.type = emit.event /\ x.by = Stamp("engine:emit", t.command)
      /\ x.fields = CHOOSE f \in resolve_emit(emit, params, world) : TRUE
  BY <1>1 DEF NewEntry
<1> HIDE DEF x, emit
<1>3. x.fields \in resolve_emit(emit, params, world)
  BY <1>2 DEF emit
<1>4. PICK vs \in Bindings(emit, params, world) :
          /\ \A f \in DOMAIN emit.fields : ~Unresolved(emit.fields[f], vs)
          /\ x.fields = [f \in DOMAIN emit.fields |-> Resolved(emit.fields[f], vs)]
  BY <1>3 DEF resolve_emit, Bindings
<1>5. EmitsIn(emit, x.fields, vs)
  BY <1>4 DEF EmitsIn
<1> QED
  BY <1>2, <1>4, <1>5 DEF x, emit

LEMMA PlainPrints ==
    ASSUME PlainText(config), NEW emit, NEW world \in Worlds, NEW printed \in Prints(emit, world)
    PROVE  /\ PlainVars(printed)
           /\ DOMAIN printed = {<<"var", name>> : name \in DOMAIN Or(emit, "commands", <<>>)}
<1> DEFINE commands == Or(emit, "commands", <<>>)
           runs(name) == {<<dir, commands[name]>> : dir \in resolve_anchor(Or(emit, "anchor", <<"lit", "project">>))}
<1>1. /\ ~(\E name \in DOMAIN commands : runs(name) \cap DOMAIN world.outputs = {})
      /\ printed \in {[v \in {<<"var", name>> : name \in DOMAIN commands} |->
                          world.outputs[CHOOSE run \in runs(v[2]) : TRUE]]}
  BY DEF Prints
<1>2. /\ DOMAIN printed = {<<"var", name>> : name \in DOMAIN commands}
      /\ \A v \in DOMAIN printed : printed[v] = world.outputs[CHOOSE run \in runs(v[2]) : TRUE]
  BY <1>1
<1>3. ASSUME NEW v \in DOMAIN printed
      PROVE  IsVar(v) /\ printed[v] # Literal
  <2>1. PICK name \in DOMAIN commands : v = <<"var", name>>
    BY <1>2
  <2>2. IsVar(v) /\ v[2] = name
    BY <2>1 DEF IsVar
  <2>3. PICK run \in runs(name) : run \in DOMAIN world.outputs
    BY <1>1
  <2>4. \A other \in runs(name) : other = run
    <3>1. \A a, b \in resolve_anchor(Or(emit, "anchor", <<"lit", "project">>)) : a = b
      BY DEF resolve_anchor
    <3> QED
      BY <3>1
  <2>5. printed[v] = world.outputs[run]
    <3> HIDE DEF runs
    <3> QED
      BY <1>2, <2>2, <2>3, <2>4
  <2>6. world.outputs[run] \in Texts(config)
    BY <2>3, TextsOf DEF Range
  <2> QED
    BY <2>2, <2>5, <2>6 DEF PlainText
<1> QED
  BY <1>2, <1>3 DEF PlainVars

LEMMA PlainEmit ==
    ASSUME Sound, PlainText(config), Plain,
           NEW t \in Edges(config), NEW k \in DOMAIN t.emits,
           NEW params, PlainVars(params), NEW world \in Worlds,
           resolve_emit(t.emits[k], params, world) # {}
    PROVE  PlainFields(Emitted(t, params, world)[k].fields)
<1> DEFINE emit == t.emits[k]
           x == Emitted(t, params, world)[k]
<1>1. PICK vs \in Bindings(emit, params, world) : EmitsIn(emit, x.fields, vs)
  BY EmitResolves
<1>2. PICK printed \in Prints(emit, world) : vs = Over(printed, Over(params, LastFields))
  BY <1>1 DEF Bindings
<1>3. PlainVars(vs)
  BY <1>2, PlainPrints, PlainLast, PlainOver
<1>4. EmitTexts(emit) \subseteq Texts(config)
  <2>1. PICK i \in DOMAIN config.transitions : t = config.transitions[i]
    BY DEF Edges
  <2>2. TransitionTexts(t) \subseteq Texts(config)
    BY <2>1, TextsOf
  <2>3. emit \in Range(t.emits)
    BY DEF Range
  <2> HIDE DEF emit
  <2>4. EmitTexts(emit) \subseteq TransitionTexts(t)
    BY <2>3 DEF TransitionTexts
  <2> QED
    BY <2>2, <2>4
<1> HIDE DEF x, emit
<1>5. ASSUME NEW f \in DOMAIN emit.fields
      PROVE  Resolved(emit.fields[f], vs) # Literal
  <2>1. CASE emit.fields[f] \in DOMAIN vs
    BY <1>3, <2>1 DEF PlainVars, Resolved
  <2>2. CASE emit.fields[f] \notin DOMAIN vs
    <3>1. emit.fields[f][1] = "lit"
      BY <1>1, <2>2 DEF EmitsIn, Unresolved
    <3>2. emit.fields[f][2] \in EmitTexts(emit)
      BY <3>1 DEF EmitTexts, Range
    <3>3. Resolved(emit.fields[f], vs) = emit.fields[f][2]
      BY <2>2, <3>1 DEF Resolved
    <3> QED
      BY <1>4, <3>2, <3>3 DEF PlainText
  <2> QED
    BY <2>1, <2>2
<1> QED
  BY <1>1, <1>5 DEF PlainFields, EmitsIn, x

LEMMA PlainParams ==
    ASSUME Sound, PlainText(config), Plain, NEW i \in DOMAIN config.transitions, NEW args \in Arguments
    PROVE  PlainVars(ParamsFor(i, args))
<1>1. Broken("states", {j \in DOMAIN config.transitions :
          ~({config.transitions[j].from, config.transitions[j].to} \subseteq DOMAIN config.states)}) = {}
  BY DEF Sound, validate
<1>2. config.transitions[i].to \in DOMAIN config.states
  BY <1>1 DEF Broken
<1> QED
  BY <1>2, PlainArgs, PlainEntered, PlainOver DEF ParamsFor

LEMMA PlainTransition ==
    ASSUME Sound, PlainText(config), Plain,
           NEW i, NEW args \in Arguments, NEW world \in Worlds, Takes(i, args, world)
    PROVE  Plain'
<1> DEFINE t == config.transitions[i]
           params == ParamsFor(i, args)
           first == Len(ledger) + 1
<1>1. /\ Grows /\ first \in New /\ ledger'[first] = Moved(t)
      /\ \A n \in New \ {first} :
            \/ ledger'[n].type = "gate_attestation" /\ AttestsOne(t, ledger'[n].fields)
            \/ \E k \in DOMAIN t.emits : ledger'[n] = Emitted(t, params, world)[k]
  BY TakenAppends
<1>2. /\ i \in DOMAIN config.transitions /\ t.from = state
      /\ \A k \in DOMAIN t.emits : resolve_emit(t.emits[k], params, world) # {}
  BY DEF Takes
<1>3. t \in Edges(config) /\ TransitionTexts(t) \subseteq Texts(config)
  BY <1>2, TextsOf DEF Edges
<1>4. PlainEntry(Moved(t))
  <2>1. {t.from, t.to, t.command} \subseteq Texts(config)
    BY <1>3 DEF TransitionTexts
  <2>2. state # Literal /\ t.to # Literal /\ t.command # Literal
    BY <1>2, <2>1 DEF PlainText
  <2> QED
    BY <2>2 DEF PlainEntry, PlainFields, Moved, NewEntry
<1>5. ASSUME NEW fields, AttestsOne(t, fields)
      PROVE  PlainFields(fields)
  <2>1. PICK g \in Range(t.gates) : fields = [gate_type |-> g.type, transition_command |-> t.command]
    BY <1>5 DEF AttestsOne
  <2>2. g.type \in Texts(config) /\ t.command \in Texts(config)
    BY <1>3 DEF TransitionTexts
  <2> QED
    BY <2>1, <2>2 DEF PlainFields, PlainText
<1>6. PlainVars(params)
  BY <1>2, PlainParams
<1>7. ASSUME NEW k \in DOMAIN t.emits
      PROVE  PlainEntry(Emitted(t, params, world)[k])
  <2>1. PlainFields(Emitted(t, params, world)[k].fields)
    BY <1>2, <1>3, <1>6, PlainEmit
  <2> QED
    BY <2>1 DEF PlainEntry
<1>8. \A n \in New : PlainEntry(ledger'[n])
  <2> HIDE DEF t, params, first
  <2> QED
    BY <1>1, <1>4, <1>5, <1>7 DEF PlainEntry
<1> QED
  BY <1>1, <1>8, AddsPlain

LEMMA PlainKept ==
    ASSUME Sound, PlainText(config), Plain, [Next]_vars
    PROVE  Plain'
<1>1. CASE UNCHANGED vars
  BY <1>1 DEF vars, Plain, PlainEntry, PlainFields
<1>2. CASE \E in \in Inputs : Records(in[1], in[2])
  BY <1>2, PlainRecord
<1>3. CASE \E set \in DOMAIN config.sets : \E member \in Range(config.sets[set]) : cmd_set_complete(set, member)
  BY <1>3, PlainMember
<1>4. CASE \E request \in Requests(config) : cmd_hook_eval(request)
  BY <1>4, PlainHook
<1>5. CASE \E command \in Commands(config), args \in Arguments, world \in Worlds :
               cmd_transition(command, args, world)
  <2>1. PICK command \in Commands(config), args \in Arguments, world \in Worlds :
            cmd_transition(command, args, world)
    BY <1>5
  <2>2. PICK i : Takes(i, args, world)
    BY <2>1, Taking
  <2> QED
    BY <2>2, PlainTransition
<1> QED
  BY <1>1, <1>2, <1>3, <1>4, <1>5 DEF Next, Records

LEMMA PlainAtFirst == Init => Plain
<1> SUFFICES ASSUME Init PROVE Plain
  OBVIOUS
<1> DEFINE x == NewEntry("genesis", <<>>, Stamp("engine", "init"))
<1>1. ledger = <<x>>
  BY DEF Init
<1>2. x.type = "genesis" /\ DOMAIN x.fields = {}
  BY DEF NewEntry
<1> HIDE DEF x
<1>3. DOMAIN <<x>> = 1..1 /\ \A n \in 1..1 : <<x>>[n] = x
  OBVIOUS
<1> QED
  BY <1>1, <1>2, <1>3 DEF Plain, PlainEntry, PlainFields

-----------------------------------------------------------------------------
(* A gate that spends evidence.  What an emit resolves, the gate's check    *)
(* resolves to the same, if the check could resolve it at all: a name that  *)
(* is no parameter is bound for the emit by the ledger, and not for the     *)
(* check.                                                                   *)
Extends(bound, params) ==
    /\ \A v \in DOMAIN params : v \in DOMAIN bound /\ bound[v] = params[v]
    /\ \A v \in DOMAIN bound : v \in DOMAIN params \/ v[1] \in {"sets", "event"}

LEMMA CheckExtends ==
    ASSUME NEW ctx
    PROVE  Extends(build_template_vars(ctx), ctx.params)
BY DEF Extends, build_template_vars, Over

LEMMA CandidateExtends ==
    ASSUME NEW params, NEW bound, Extends(bound, params), \A v \in DOMAIN params : IsVar(v), NEW entry
    PROVE  Extends(candidate_vars(entry, bound), params)
<1> DEFINE own == [r \in {<<"event", f>> : f \in DOMAIN entry.fields} |-> entry.fields[r[2]]]
<1>1. \A v \in DOMAIN own : v[1] = "event"
  OBVIOUS
<1>2. candidate_vars(entry, bound) = Over(own, bound)
  BY DEF candidate_vars
<1> HIDE DEF own
<1>3. \A v \in DOMAIN params : v \notin DOMAIN own
  BY <1>1 DEF IsVar
<1> QED
  BY <1>1, <1>2, <1>3 DEF Extends, Over

LEMMA ResolvedAlike ==
    ASSUME NEW params, \A v \in DOMAIN params : IsVar(v),
           NEW printed, \A v \in DOMAIN printed : IsVar(v),
           NEW last, \A v \in DOMAIN last : IsVar(v),
           NEW check, Extends(check, params), NEW other, Extends(other, params),
           NEW v, v \notin DOMAIN printed,
           ~Unresolved(v, Over(printed, Over(params, last))),
           v[1] = "lit" \/ Resolved(v, check) # Literal
    PROVE  Resolved(v, Over(printed, Over(params, last))) = Resolved(v, other)
<1> DEFINE vs == Over(printed, Over(params, last))
<1>1. /\ DOMAIN vs = DOMAIN printed \cup DOMAIN params \cup DOMAIN last
      /\ v \in DOMAIN params => vs[v] = params[v]
  BY DEF Over
<1>2. \A x \in DOMAIN vs : IsVar(x)
  BY <1>1
<1>3. CASE v[1] = "lit"
  <2>1. v \notin DOMAIN vs /\ v \notin DOMAIN other
    BY <1>2, <1>3 DEF IsVar, Extends
  <2> QED
    BY <1>3, <2>1 DEF Resolved
<1>4. CASE v[1] # "lit"
  <2>1. v \in DOMAIN vs /\ IsVar(v)
    BY <1>2, <1>4 DEF Unresolved
  <2>2. v \in DOMAIN check
    BY <1>4 DEF Resolved
  <2>3. v \in DOMAIN params
    BY <2>1, <2>2 DEF IsVar, Extends
  <2> QED
    BY <1>1, <2>1, <2>3 DEF Resolved, Extends
<1> QED
  BY <1>3, <1>4

LEMMA RootInTree == ASSUME NEW g PROVE g \in Subtree(g)
<1>1. <<g>> \in Chains(g) /\ Len(<<g>>) = 1 /\ <<g>>[1] = g
  BY ChainsOfTree
<1>2. Last(<<g>>) \in Subtree(g) /\ Last(<<g>>) = <<g>>[Len(<<g>>)]
  BY <1>1, LastOfChain
<1> QED
  BY <1>1, <1>2

LEMMA WindowsChecked ==
    ASSUME NEW c, validate(c) = {}, NEW x \in PlacedGates(c)
    PROVE  ~check_gate_windows(c, x[2])
<1>1. Broken("windows", {y[1] : y \in {z \in PlacedGates(c) : check_gate_windows(c, z[2])}}) = {}
  BY DEF validate
<1> QED
  BY <1>1 DEF Broken

(* The candidates such a gate counts, when it has passed.                   *)
LEMMA GateCounts ==
    ASSUME Sound, NEW i, NEW args, NEW world, Takes(i, args, world),
           NEW k \in DOMAIN config.transitions[i].gates,
           NEW e, config.transitions[i].gates[k].type = "ledger_has_event_since",
           Or(config.transitions[i].gates[k], "since", <<"last_transition">>)
             = <<"last_event_of_type", e>>
    PROVE  LET g == config.transitions[i].gates[k]
           IN  /\ \E c \in Counted(g, e, Context(i, args, world)) : TRUE
               /\ ~check_since_filter(config, g)
               /\ e \in resolve_gate_since(config, g)
<1> DEFINE t == config.transitions[i]
           g == t.gates[k]
           ctx == Context(i, args, world)
           x == <<<<"transition", i>>, g>>
<1>1. i \in DOMAIN config.transitions /\ evaluate_gates(t.gates, ctx)
  BY DEF Takes
<1>2. x \in PlacedGates(config)
  BY <1>1, Placed, RootInTree
<1>3. x[2] = g
  OBVIOUS
<1> HIDE DEF x
<1>4. Or(g, "min_count", 1) \in Int /\ ~check_gate_windows(config, g)
  BY <1>2, <1>3, WindowsChecked, ProtocolsAssumption DEF Sound, WellShaped
<1>5. ~check_since_filter(config, g)
  BY <1>4 DEF check_gate_windows
<1>6. ctx.config = config
  BY DEF Context
<1> HIDE DEF ctx
<1>7. eval_ledger_has_event_since(g, ctx)
  <2>1. eval(g, ctx)
    BY <1>1 DEF evaluate_gates
  <2>2. eval_leaf(g, ctx)
    BY <2>1, LeafEval DEF COMPOSITES
  <2> QED
    BY <2>2 DEF eval_leaf
<1>8. PICK type \in resolve_gate_since(config, g) :
          Cardinality(Counted(g, type, ctx)) >= AtLeastOne(Or(g, "min_count", 1))
  BY <1>6, <1>7 DEF eval_ledger_has_event_since
<1>9. type = e
  <2>1. resolve_since_anchor(config, <<"last_event_of_type", e>>) \subseteq {e}
    <3> DEFINE since == <<"last_event_of_type", e>>
    <3>1. since # <<"last_transition">> /\ since[1] = "last_event_of_type" /\ since[2] = e
      OBVIOUS
    <3> HIDE DEF since
    <3> QED
      BY <3>1 DEF resolve_since_anchor, since
  <2> QED
    BY <1>8, <2>1 DEF resolve_gate_since
<1>10. Cardinality(Counted(g, e, ctx)) # 0
  <2>1. AtLeastOne(Or(g, "min_count", 1)) \in Int /\ AtLeastOne(Or(g, "min_count", 1)) >= 1
    BY <1>4 DEF AtLeastOne
  <2> QED
    BY <1>8, <1>9, <2>1
<1>11. Counted(g, e, ctx) # {}
  BY <1>10, CountOfNone
<1> QED
  BY <1>5, <1>8, <1>9, <1>11 DEF ctx

(* When such a gate passes for a transition that then emits what an earlier *)
(* entry already is, what it has counted came after that entry, and is of   *)
(* the same subject.                                                        *)
LEMMA CountsNewEvidence ==
    ASSUME Sound, PlainText(config), Plain,
           NEW i, NEW args \in Arguments, NEW world \in Worlds, Takes(i, args, world),
           NEW k \in DOMAIN config.transitions[i].gates, NEW j \in DOMAIN config.transitions[i].emits,
           Spends(i, config.transitions[i].gates[k], config.transitions[i].emits[j]),
           NEW m \in DOMAIN ledger,
           ledger[m] = Emitted(config.transitions[i], ParamsFor(i, args), world)[j]
    PROVE  \E c \in events_of_type(ledger, config.transitions[i].gates[k].event) :
              /\ m < c
              /\ SameSubject(config.transitions[i].gates[k], config.transitions[i].emits[j], m, c)
<1> DEFINE t == config.transitions[i]
           g == t.gates[k]
           emit == t.emits[j]
           params == ParamsFor(i, args)
           ctx == Context(i, args, world)
           keyed == filter_spec(g, "since_filter")
           asked == filter_spec(g, "filter")
           bound == build_template_vars(ctx)
           commands == Or(emit, "commands", <<>>)
<1>1. /\ i \in DOMAIN config.transitions
      /\ resolve_emit(emit, params, world) # {}
  BY DEF Takes
<1>2. /\ ctx.ledger = ledger /\ ctx.config = config /\ ctx.params = params
  BY DEF Context
<1>3. /\ g.type = "ledger_has_event_since"
      /\ Or(g, "since", <<"last_transition">>) = <<"last_event_of_type", emit.event>>
      /\ \A f \in DOMAIN keyed :
            /\ FieldNames(config, emit.event) = {} \/ f \in FieldNames(config, emit.event)
                 => Has(emit.fields, f) /\ emit.fields[f] = keyed[f]
            /\ keyed[f][1] = "lit" \/ keyed[f] \in Range(asked)
      /\ \A v \in Range(keyed) \cup Range(asked) : v[1] = "var" => v[2] \notin DOMAIN commands
  BY Zenon DEF Spends
<1>4. PlainVars(params)
  BY <1>1, PlainParams
<1>5. /\ ledger[m].type = emit.event
      /\ \E vs \in Bindings(emit, params, world) : EmitsIn(emit, ledger[m].fields, vs)
  <2> DEFINE x == Emitted(t, params, world)[j]
  <2>1. /\ x.type = t.emits[j].event
        /\ \E vs \in Bindings(t.emits[j], params, world) : EmitsIn(t.emits[j], x.fields, vs)
    <3>1. j \in DOMAIN t.emits /\ resolve_emit(t.emits[j], params, world) # {}
      BY <1>1
    <3> HIDE DEF t, params
    <3> QED
      BY <3>1, EmitResolves, ZenonT(60)
  <2>2. ledger[m] = x
    OBVIOUS
  <2> QED
    BY <2>1, <2>2, Zenon
<1>6. PICK c \in Counted(g, emit.event, ctx) : TRUE
  BY <1>3, GateCounts
<1>7. ~check_since_filter(config, g) /\ emit.event \in resolve_gate_since(config, g)
  BY <1>3, GateCounts
<1>8. Has(config.events, emit.event)
  BY <1>1, EmitsAreDeclared DEF Sound, Has
<1>9. Extends(bound, params) /\ \A v \in DOMAIN params : IsVar(v)
  BY <1>2, <1>4, CheckExtends DEF PlainVars
<1> HIDE DEF params, ctx, commands, keyed, asked, bound, g, emit
<1>10. /\ c \in Matching(g, ctx)
       /\ InWindow(c, emit.event, Anchor(g, c, ctx), ctx)
  BY <1>6, CountedByAnchor DEF keyed
<1>11. /\ c \in events_of_type(ledger, g.event)
       /\ \A f \in DOMAIN asked : Has(ledger[c].fields, f) /\ ledger[c].fields[f] = Resolved(asked[f], bound)
  BY <1>2, <1>10 DEF Matching, gate_filter, entry_matches_filter, resolve_filter_spec, asked, bound
<1>12. c \in DOMAIN ledger /\ PlainFields(ledger[c].fields)
  BY <1>11 DEF events_of_type, Plain, PlainEntry
<1>13. PICK vs \in Bindings(emit, params, world) : EmitsIn(emit, ledger[m].fields, vs)
  BY <1>5
<1>14. PICK printed \in Prints(emit, world) : vs = Over(printed, Over(params, LastFields))
  BY <1>13 DEF Bindings
<1>15. /\ \A v \in DOMAIN printed : IsVar(v) /\ v[2] \in DOMAIN commands
       /\ \A v \in DOMAIN LastFields : IsVar(v)
  <2>1. PlainVars(printed) /\ DOMAIN printed = {<<"var", name>> : name \in DOMAIN commands}
    BY PlainPrints DEF commands
  <2>2. \A v \in DOMAIN printed : v[2] \in DOMAIN commands
    BY <2>1
  <2> QED
    BY <2>1, <2>2, PlainLast DEF PlainVars
(* A field the emit records as it is asked for, in any check of the gate.   *)
<1>16. ASSUME NEW v \in Range(keyed) \cup Range(asked), v[1] = "lit" \/ v \in Range(asked),
              ~Unresolved(v, vs), NEW other, Extends(other, params)
       PROVE  Resolved(v, vs) = Resolved(v, other)
  <2>1. v \notin DOMAIN printed
    BY <1>3, <1>15, <1>16 DEF IsVar
  <2>2. v[1] = "lit" \/ Resolved(v, bound) # Literal
    <3>1. CASE v \in Range(asked)
      <4>1. PICK f \in DOMAIN asked : v = asked[f]
        BY <3>1 DEF Range
      <4> QED
        BY <1>11, <1>12, <4>1 DEF PlainFields, Has
    <3> QED
      BY <1>16, <3>1
  <2> QED
    BY <1>9, <1>14, <1>15, <1>16, <2>1, <2>2, ResolvedAlike
<1>17. SameSubject(g, emit, m, c)
  <2> SUFFICES ASSUME NEW f \in DOMAIN asked \cap DOMAIN emit.fields, asked[f] = emit.fields[f]
               PROVE  Has(ledger[c].fields, f) /\ ledger[c].fields[f] = ledger[m].fields[f]
    BY DEF SameSubject, asked
  <2>1. ledger[m].fields[f] = Resolved(asked[f], vs) /\ ~Unresolved(asked[f], vs)
    BY <1>13 DEF EmitsIn
  <2>2. asked[f] \in Range(asked)
    BY DEF Range
  <2>3. Resolved(asked[f], vs) = Resolved(asked[f], bound)
    BY <1>9, <1>16, <2>1, <2>2
  <2> QED
    BY <1>11, <2>1, <2>3
<1>18. m \in Baselines(emit.event, Anchor(g, c, ctx), ctx)
  <2>1. PICK other : /\ Extends(other, params)
                     /\ Anchor(g, c, ctx) = resolve_filter_spec(keyed, other)
    <3>1. Extends(candidate_vars(ctx.ledger[c], bound), params)
      BY <1>9, CandidateExtends
    <3> QED
      BY <1>9, <3>1 DEF Anchor, keyed, bound
  <2>2. ASSUME NEW f \in DOMAIN keyed
        PROVE  Has(ledger[m].fields, f) /\ ledger[m].fields[f] = Resolved(keyed[f], other)
    <3>1. ~check_filter_field(config, emit.event, f)
      BY <1>7 DEF check_since_filter, keyed
    <3>2. FieldNames(config, emit.event) = {} \/ f \in FieldNames(config, emit.event)
      BY <1>8, <3>1 DEF check_filter_field, FieldNames
    <3>3. Has(emit.fields, f) /\ emit.fields[f] = keyed[f]
      BY <1>3, <3>2
    <3>4. /\ Has(ledger[m].fields, f)
          /\ ledger[m].fields[f] = Resolved(keyed[f], vs) /\ ~Unresolved(keyed[f], vs)
      BY <1>13, <3>3 DEF EmitsIn, Has
    <3>5. keyed[f] \in Range(keyed) /\ (keyed[f][1] = "lit" \/ keyed[f] \in Range(asked))
      BY <1>3 DEF Range
    <3>6. Resolved(keyed[f], vs) = Resolved(keyed[f], other)
      BY <1>16, <2>1, <3>4, <3>5
    <3> QED
      BY <3>4, <3>6
  <2>3. entry_matches_filter(ledger[m], Anchor(g, c, ctx))
    BY <2>1, <2>2 DEF entry_matches_filter, resolve_filter_spec
  <2> QED
    BY <1>2, <1>5, <2>3 DEF Baselines, events_of_type
<1>19. m < c
  BY <1>10, <1>18 DEF InWindow
<1> QED
  BY <1>11, <1>17, <1>19 DEF g, emit

(* The invariant, of every transition that could be taken.                  *)
SpentOnce(i) ==
    LET t == config.transitions[i]
    IN  \A k \in DOMAIN t.gates, j \in DOMAIN t.emits :
          Spends(i, t.gates[k], t.emits[j]) =>
            \A m, n \in events_of_type(ledger, t.emits[j].event) :
                /\ m < n
                /\ ledger[m] = ledger[n]
                /\ ledger[n].by = Stamp("engine:emit", t.command)
                => \E e \in events_of_type(ledger, t.gates[k].event) :
                      m < e /\ e < n /\ SameSubject(t.gates[k], t.emits[j], m, e)
OnceInv ==
    /\ fired \subseteq DOMAIN config.transitions
    /\ \A i \in DOMAIN config.transitions : SpentOnce(i)

(* An emit that only one transition makes, and makes once, is at its place. *)
LEMMA EmittedAtItsPlace ==
    ASSUME Sound, NEW i, NEW args, NEW world, Takes(i, args, world),
           NEW n \in New, ledger'[n].by[1] = "engine:emit",
           NEW r, NEW j \in DOMAIN config.transitions[r].emits,
           ledger'[n].type = config.transitions[r].emits[j].event,
           EmittedBy(config, ledger'[n].type) = {r},
           \A k, l \in DOMAIN config.transitions[r].emits :
              /\ config.transitions[r].emits[k].event = ledger'[n].type
              /\ config.transitions[r].emits[l].event = ledger'[n].type
              => k = l
    PROVE  /\ i = r
           /\ n = EmitPlace(config.transitions[r], j)
           /\ ledger'[n] = Emitted(config.transitions[r], ParamsFor(r, args), world)[j]
<1> DEFINE t == config.transitions[i]
           params == ParamsFor(i, args)
           first == Len(ledger) + 1
<1>1. /\ ledger'[first] = Moved(t)
      /\ \A x \in New \ {first} :
            \/ ledger'[x].by = Stamp("engine:transition", t.command)
            \/ \E k \in DOMAIN t.emits :
                  x = EmitPlace(t, k) /\ ledger'[x] = Emitted(t, params, world)[k]
  BY TakenAppends
<1>2. Moved(t).by[1] = "engine:transition" /\ Stamp("engine:transition", t.command)[1] = "engine:transition"
  BY DEF Moved, NewEntry, Stamp
<1>3. n \in New \ {first} /\ ledger'[n].by # Stamp("engine:transition", t.command)
  BY <1>1, <1>2
<1>4. PICK k \in DOMAIN t.emits :
          n = EmitPlace(t, k) /\ ledger'[n] = Emitted(t, params, world)[k]
  BY <1>1, <1>3
<1>5. ledger'[n].type = t.emits[k].event
  <2> HIDE DEF t, params, first
  <2>1. Emitted(t, params, world)[k].type = t.emits[k].event
    BY DEF Emitted, NewEntry
  <2> QED
    BY <1>4, <2>1
<1>6. i \in EmittedBy(config, ledger'[n].type)
  BY <1>5 DEF EmittedBy, Takes
<1>7. i = r
  BY <1>6
<1>8. k = j
  BY <1>4, <1>5, <1>7
<1> QED
  BY <1>4, <1>7, <1>8

LEMMA OnceKept ==
    ASSUME Sound, PlainText(config), Plain, OnceInv, [Next]_vars
    PROVE  OnceInv'
<1>1. Grows /\ config' = config
  BY StepsGrow
<1>2. fired' \subseteq DOMAIN config'.transitions
  <2>1. CASE UNCHANGED vars
    BY <2>1 DEF OnceInv, vars
  <2>2. CASE Quietly
    BY <2>2 DEF OnceInv, Quietly
  <2>3. CASE \E command, i, args, world :
                i \in prepare_transition(command, args, world) /\ Takes(i, args, world)
    BY <2>3 DEF OnceInv, Takes
  <2> QED
    BY <2>1, <2>2, <2>3, Steps
<1>3. Len(ledger) \in Nat /\ DOMAIN ledger = 1..Len(ledger)
  BY ListLen DEF Sound
<1>4. Len(ledger') \in Nat /\ DOMAIN ledger' = 1..Len(ledger')
  BY <1>1, ListLen DEF Grows
<1>5. \A n \in DOMAIN ledger' \ DOMAIN ledger : n \in New
  BY <1>3, <1>4 DEF New
<1>6. DOMAIN ledger \subseteq DOMAIN ledger' /\ \A n \in DOMAIN ledger : ledger'[n] = ledger[n]
  BY <1>1, <1>3, <1>4 DEF Grows, Kept
<1>7. ASSUME NEW r \in DOMAIN config.transitions,
             NEW k \in DOMAIN config.transitions[r].gates,
             NEW j \in DOMAIN config.transitions[r].emits,
             Spends(r, config.transitions[r].gates[k], config.transitions[r].emits[j]),
             NEW m \in events_of_type(ledger', config.transitions[r].emits[j].event),
             NEW n \in events_of_type(ledger', config.transitions[r].emits[j].event),
             m < n, ledger'[m] = ledger'[n],
             ledger'[n].by = Stamp("engine:emit", config.transitions[r].command)
      PROVE  \E e \in events_of_type(ledger', config.transitions[r].gates[k].event) :
                /\ m < e /\ e < n
                /\ SameSubject(config.transitions[r].gates[k], config.transitions[r].emits[j], m, e)'
  <2> DEFINE t == config.transitions[r]
             g == t.gates[k]
             emit == t.emits[j]
  <2>1. m \in DOMAIN ledger' /\ n \in DOMAIN ledger' /\ ledger'[n].type = emit.event /\ ledger'[m].type = emit.event
    BY DEF events_of_type
  <2>2. ASSUME m \in DOMAIN ledger,
               NEW e \in events_of_type(ledger, g.event), SameSubject(g, emit, m, e)
        PROVE  e \in events_of_type(ledger', g.event) /\ SameSubject(g, emit, m, e)'
    <3>1. e \in DOMAIN ledger /\ ledger'[e] = ledger[e] /\ ledger'[m] = ledger[m]
      BY <1>6, <2>2 DEF events_of_type
    <3> QED
      BY <1>1, <1>6, <2>2, <3>1 DEF SameSubject, events_of_type
  <2>3. CASE n \in DOMAIN ledger
    <3>1. m \in DOMAIN ledger
      BY <1>3, <1>4, <1>7, <2>1, <2>3
    <3>2. /\ m \in events_of_type(ledger, emit.event) /\ n \in events_of_type(ledger, emit.event)
          /\ ledger[m] = ledger[n] /\ ledger[n].by = Stamp("engine:emit", t.command)
      BY <1>6, <1>7, <2>1, <2>3, <3>1 DEF events_of_type
    <3>3. SpentOnce(r)
      BY DEF OnceInv
    <3>4. PICK e \in events_of_type(ledger, g.event) : m < e /\ e < n /\ SameSubject(g, emit, m, e)
      BY <1>7, <3>2, <3>3 DEF SpentOnce
    <3> QED
      BY <2>2, <3>1, <3>4
  <2>4. CASE n \notin DOMAIN ledger
    <3>1. n \in New
      BY <1>5, <2>1, <2>4
    <3>2. ledger'[n].by[1] = "engine:emit"
      BY <1>7 DEF Stamp
    <3>3. PICK command \in Commands(config), args \in Arguments, world \in Worlds :
              cmd_transition(command, args, world)
      <4>1. CASE UNCHANGED vars
        BY <2>1, <2>4, <4>1 DEF vars
      <4>2. CASE Quietly
        BY <3>1, <3>2, <4>2 DEF Quietly
      <4>3. CASE \E in \in Inputs : Records(in[1], in[2])
        BY <4>2, <4>3, RecordsOne
      <4>4. CASE \E set \in DOMAIN config.sets : \E member \in Range(config.sets[set]) : cmd_set_complete(set, member)
        BY <4>2, <4>4, CompletesOne
      <4>5. CASE \E request \in Requests(config) : cmd_hook_eval(request)
        BY <4>2, <4>5, HooksRecord
      <4> QED
        BY <4>1, <4>3, <4>4, <4>5 DEF Next, Records
    <3>4. PICK i : Takes(i, args, world)
      BY <3>3, Taking, ZenonT(30)
    <3>5. /\ EmittedBy(config, emit.event) = {r}
          /\ \A x, y \in DOMAIN t.emits :
                t.emits[x].event = emit.event /\ t.emits[y].event = emit.event => x = y
      BY <1>7 DEF Spends
    <3>6. /\ i = r /\ n = EmitPlace(t, j)
          /\ ledger'[n] = Emitted(t, ParamsFor(r, args), world)[j]
      BY <2>1, <3>1, <3>2, <3>4, <3>5, EmittedAtItsPlace
    <3>7. m \in DOMAIN ledger
      <4> SUFFICES ASSUME m \notin DOMAIN ledger PROVE FALSE
        OBVIOUS
      <4>1. m \in New
        BY <1>5, <2>1
      <4>2. ledger'[m].by[1] = "engine:emit"
        BY <1>7, <3>2
      <4>3. m = EmitPlace(t, j)
        BY <2>1, <3>4, <3>5, <4>1, <4>2, EmittedAtItsPlace
      <4> QED
        BY <1>4, <1>7, <2>1, <3>6, <4>3
    <3>8. ledger[m] = Emitted(t, ParamsFor(r, args), world)[j]
      BY <1>6, <1>7, <3>6, <3>7
    <3>9. PICK e \in events_of_type(ledger, g.event) : m < e /\ SameSubject(g, emit, m, e)
      BY <1>7, <3>4, <3>6, <3>7, <3>8, CountsNewEvidence
    <3>10. e < n
      BY <1>3, <3>1 DEF events_of_type, New
    <3> QED
      BY <2>2, <3>7, <3>9, <3>10
  <2> QED
    BY <2>3, <2>4
<1>8. \A r \in DOMAIN config'.transitions : SpentOnce(r)'
  <2>1. \A r, g, emit : Spends(r, g, emit)' = Spends(r, g, emit)
    BY <1>1 DEF Spends
  <2> QED
    BY <1>1, <1>7, <2>1 DEF SpentOnce
<1> QED
  BY <1>2, <1>8 DEF OnceInv

LEMMA OnceAtFirst == Init => OnceInv
<1> SUFFICES ASSUME Init PROVE OnceInv
  OBVIOUS
<1> DEFINE x == NewEntry("genesis", <<>>, Stamp("engine", "init"))
<1>1. ledger = <<x>> /\ fired = {}
  BY DEF Init
<1> HIDE DEF x
<1>2. \A m, n \in DOMAIN ledger : ~(m < n)
  <2>1. DOMAIN <<x>> = 1..1
    OBVIOUS
  <2> QED
    BY <1>1, <2>1
<1> QED
  BY <1>1, <1>2 DEF OnceInv, SpentOnce, events_of_type

(* One piece of evidence never passes such a gate twice: the first time, the *)
(* emit records what the window is keyed on, as the accepted configuration  *)
(* names it, and from then on what the window counts has come after.        *)
THEOREM EvidenceIsSpentOnce ==
    ASSUME \A c \in Protocols : PlainText(c)
    PROVE  Spec => []EvidenceSpentOnce
<1> DEFINE Inv == Sound /\ Plain /\ OnceInv
<1>1. Init => Inv
  BY InitRun, PlainAtFirst, OnceAtFirst DEF RunInv
<1>2. Inv /\ [Next]_vars => Inv'
  <2> SUFFICES ASSUME Inv, [Next]_vars PROVE Inv'
    OBVIOUS
  <2>1. PlainText(config)
    BY DEF Sound
  <2>2. Plain' /\ OnceInv'
    BY <2>1, PlainKept, OnceKept
  <2>3. Sound'
    BY <2>1, StepsGrow, SoundKept
  <2> QED
    BY <2>2, <2>3
<1>3. Inv => EvidenceSpentOnce
  BY DEF OnceInv, SpentOnce, EvidenceSpentOnce
<1> HIDE DEF Inv
<1> QED
  BY <1>1, <1>2, <1>3, PTL DEF Spec
=============================================================================
