------------------------- MODULE Enforcement_proofs --------------------------
(***************************************************************************)
(* That a hook which reads, reckons and writes back on the version it read  *)
(* loses nothing, however many hooks do so at once.  The invariant says of  *)
(* a version that it names the stored blob it was read with; a conditional  *)
(* store that is not refused therefore starts from what is stored now.      *)
(***************************************************************************)
EXTENDS Enforcement, Sequences, TLAPS

Bucket == {Scalar(n) : n \in Values} \cup {Null}

(* A blob in which the counter is n and each actor's bucket is as m has it. *)
Sound(blob, n, m) ==
    /\ {"count", "stall"} \subseteq DOMAIN blob
    /\ blob["count"] = Scalar(n)
    /\ IsObject(blob["stall"])
    /\ \A a \in Actors :
           /\ a \in DOMAIN blob["stall"].of <=> m[a] # Null
           /\ m[a] # Null => blob["stall"].of[a] = m[a]

StoredSound == stored # None => Sound(stored, bumps, mine)

(* What an actor holds is what was stored when its version was taken, but   *)
(* for the state that the daemon overlays.                                  *)
HeldSound ==
    \A a \in Actors : Holds(a) =>
        /\ held[a].stored # None
        /\ held[a].version = version_of(held[a].stored)
        /\ {"count", "stall"} \subseteq DOMAIN held[a].blob
        /\ held[a].blob["count"] = held[a].stored["count"]
        /\ held[a].blob["stall"] = held[a].stored["stall"]

(* A request is one its actor could make of what it holds still.            *)
Asked == \A a \in Actors : req[a] \in Requests(a) \cup {NoReq}

Shapes ==
    /\ bumps \in Nat
    /\ mine \in [Actors -> Bucket]
    /\ req = [a \in Actors |-> req[a]]
    /\ held = [a \in Actors |-> held[a]]

IInv == Shapes /\ StoredSound /\ HeldSound /\ Asked

-----------------------------------------------------------------------------
(* Versions and blobs.                                                      *)

LEMMA Kinds ==
    /\ Null # None /\ \A f : Object(f) # Null
    /\ \A x : Scalar(x) # Null
    /\ \A x, y : Scalar(x) = Scalar(y) => x = y
    /\ \A f : IsObject(Object(f)) /\ Object(f).of = f
BY DEF Null, None, Object, Scalar, IsObject

LEMMA Versions ==
    /\ \A x : version_of(x) # NoVersion
    /\ \A x, y : version_of(x) = version_of(y) => x = y
<1>1. \A x : Len(version_of(x)) = 2 /\ Len(NoVersion) = 0
  BY DEF version_of, NoVersion
<1>2. \A x : version_of(x)[2] = x
  BY DEF version_of
<1> QED
  BY <1>1, <1>2

(* The stamp changes neither the counter nor the buckets.                   *)
LEMMA StampKeeps ==
    ASSUME NEW blob, NEW n, NEW m, Sound(blob, n, m)
    PROVE  Sound(Stamped(blob), n, m)
<1>1. /\ DOMAIN blob \subseteq DOMAIN Stamped(blob)
      /\ \A k \in DOMAIN blob : k # "last_refresh" => Stamped(blob)[k] = blob[k]
  BY DEF Stamped, Extend, Field
<1> QED
  BY <1>1 DEF Sound

LEMMA FreshSound == Sound(Fresh, 0, [a \in Actors |-> Null])
<1>1. /\ DOMAIN Fresh = {"count", "stall", "state"}
      /\ Fresh["count"] = Scalar(0) /\ Fresh["stall"] = Object(Empty)
  BY DEF Fresh
<1>2. DOMAIN Empty = {}
  BY DEF Empty
<1> QED
  BY <1>1, <1>2, Kinds DEF Sound

(* A counter that is replaced leaves the buckets.                           *)
LEMMA CountReplaced ==
    ASSUME NEW blob, NEW n, NEW m, NEW i, Sound(blob, n, m)
    PROVE  Sound(Extend(blob, Field("count", Scalar(i))), i, m)
<1> DEFINE new == Extend(blob, Field("count", Scalar(i)))
<1>1. /\ DOMAIN blob \subseteq DOMAIN new
      /\ new["count"] = Scalar(i)
      /\ new["stall"] = blob["stall"]
  BY DEF Extend, Field, Sound
<1> QED
  BY <1>1 DEF Sound

(* An actor's own merge changes its own bucket and nothing else.            *)
LEMMA MergeSound ==
    ASSUME NEW blob, NEW n, NEW m \in [Actors -> Bucket], NEW a \in Actors,
           NEW v \in Bucket, Sound(blob, n, m)
    PROVE  Sound(merge_patch(blob, Field("stall", Object(Field(a, v)))), n,
                 [m EXCEPT ![a] = v])
<1> DEFINE patch == Field("stall", Object(Field(a, v)))
           old == blob["stall"].of
           inner == MergeFlat(old, Field(a, v))
           flat == [k \in DOMAIN patch |->
                      IF ~IsObject(patch[k]) THEN patch[k]
                      ELSE Object(MergeFlat(IF k \in DOMAIN blob /\ IsObject(blob[k])
                                            THEN blob[k].of ELSE Empty, patch[k].of))]
           new == MergeFlat(blob, flat)
<1>1. new = merge_patch(blob, patch)
  BY DEF merge_patch
<1>2. DOMAIN patch = {"stall"} /\ patch["stall"] = Object(Field(a, v))
  BY DEF Field
<1>3. DOMAIN flat = {"stall"} /\ flat["stall"] = Object(inner)
  <2>1. DOMAIN flat = {"stall"}
    BY <1>2
  <2>2. IsObject(patch["stall"]) /\ patch["stall"].of = Field(a, v)
    BY <1>2, Kinds
  <2>3. "stall" \in DOMAIN blob /\ IsObject(blob["stall"])
    BY DEF Sound
  <2> QED
    BY <2>1, <2>2, <2>3
<1> HIDE DEF patch, flat, inner
<1>4. /\ {"count", "stall"} \subseteq DOMAIN new
      /\ new["count"] = blob["count"] /\ new["stall"] = Object(inner)
  <2>1. \A k \in {"count", "stall"} :
            k \in {x \in DOMAIN blob \cup DOMAIN flat : x \in DOMAIN flat => flat[x] # Null}
    BY <1>3, Kinds DEF Sound
  <2> QED
    BY <2>1, <1>3 DEF MergeFlat
<1>5. /\ DOMAIN Field(a, v) = {a} /\ Field(a, v)[a] = v
  BY DEF Field
<1>6. \A b \in Actors :
          /\ b \in DOMAIN inner <=> IF b = a THEN v # Null ELSE b \in DOMAIN old
          /\ b \in DOMAIN inner => inner[b] = IF b = a THEN v ELSE old[b]
  BY <1>5 DEF inner, MergeFlat
<1>7. \A b \in Actors : [m EXCEPT ![a] = v][b] = IF b = a THEN v ELSE m[b]
  OBVIOUS
<1>8. IsObject(new["stall"]) /\ new["stall"].of = inner
  BY <1>4, Kinds
<1> HIDE DEF new
<1>9. \A b \in Actors :
          /\ b \in DOMAIN inner <=> [m EXCEPT ![a] = v][b] # Null
          /\ [m EXCEPT ![a] = v][b] # Null => inner[b] = [m EXCEPT ![a] = v][b]
  BY <1>6, <1>7 DEF Sound
<1> QED
  BY <1>1, <1>4, <1>8, <1>9 DEF Sound, patch

-----------------------------------------------------------------------------
(* Requests.                                                                *)

LEMMA RequestCases ==
    ASSUME NEW a \in Actors, NEW r \in Requests(a) \cup {NoReq}
    PROVE  /\ r.op = "write" => r = ToSet \/ (Holds(a) /\ r = ToWrite(a))
           /\ r.op = "update" => Holds(a) /\ r = ToUpdate(a)
           /\ r.op = "merge" => \E v \in Bucket : r = ToMerge(a, v)
<1>1. CASE r \in {ToMerge(a, v) : v \in {Scalar(n) : n \in Values} \cup {Null}}
  <2>1. PICK v \in Bucket : r = ToMerge(a, v)
    BY <1>1 DEF Bucket
  <2> QED
    BY <2>1 DEF ToMerge
<1>2. CASE Holds(a) /\ r \in {ToWrite(a), ToUpdate(a)}
  BY <1>2 DEF ToWrite, ToUpdate
<1>3. CASE r \in {ToSet, [op |-> "read"], NoReq, [op |-> "vault_store"],
                  [op |-> "vault_read"], [op |-> "vault_delete"]}
  BY <1>3 DEF ToSet, NoReq
<1>4. r \in {ToMerge(a, v) : v \in {Scalar(n) : n \in Values} \cup {Null}}
      \/ (Holds(a) /\ r \in {ToWrite(a), ToUpdate(a)})
      \/ r \in {ToSet, [op |-> "read"], NoReq, [op |-> "vault_store"],
                [op |-> "vault_read"], [op |-> "vault_delete"]}
  BY DEF Requests
<1> QED
  BY <1>1, <1>2, <1>3, <1>4

(* A request changes with what its actor holds, and nothing else.           *)
LEMMA RequestsSame ==
    ASSUME NEW a \in Actors, held[a] = held'[a]
    PROVE  Requests(a) = Requests(a)'
BY DEF Requests, ToWrite, ToUpdate, ToMerge, ToSet, Holds, Bumped

(* A store on a version that is not refused starts from the blob the actor  *)
(* read.                                                                    *)
LEMMA CurrentIsHeld ==
    ASSUME HeldSound, NEW a \in Actors, Holds(a),
           ~version_refusal(held[a].version, stored)
    PROVE  stored # None /\ held[a].stored = stored
BY Versions DEF HeldSound, version_refusal

(* What a response leaves of the requests and of what is held.              *)
LEMMA Responded ==
    ASSUME Shapes, HeldSound, Asked, NEW a \in Actors, NEW kind, NEW keeps,
           Respond(a, kind, keeps),
           keeps \in {NothingHeld, held[a]}
    PROVE  /\ req' = [b \in Actors |-> req'[b]] /\ held' = [b \in Actors |-> held'[b]]
           /\ HeldSound' /\ Asked'
<1>1. /\ req' = [req EXCEPT ![a] = NoReq] /\ held' = [held EXCEPT ![a] = keeps]
  BY DEF Respond
<1>2. /\ \A b \in Actors : req'[b] = IF b = a THEN NoReq ELSE req[b]
      /\ \A b \in Actors : held'[b] = IF b = a THEN keeps ELSE held[b]
      /\ req' = [b \in Actors |-> req'[b]] /\ held' = [b \in Actors |-> held'[b]]
  BY <1>1 DEF Shapes
<1>3. HeldSound'
  BY <1>2 DEF HeldSound, Holds, NothingHeld
<1>4. ASSUME NEW b \in Actors, b # a
      PROVE  req'[b] \in Requests(b)' \cup {NoReq}
  <2>1. held[b] = held'[b] /\ req'[b] = req[b]
    BY <1>2, <1>4
  <2> QED
    BY <2>1, RequestsSame DEF Asked
<1> QED
  BY <1>2, <1>3, <1>4 DEF Asked

-----------------------------------------------------------------------------
(* Each operation keeps the invariant.                                      *)

LEMMA InitIInv == Init => IInv
<1> SUFFICES ASSUME Init PROVE IInv
  OBVIOUS
<1>1. Shapes
  BY DEF Init, Shapes, Bucket
<1>2. StoredSound
  BY DEF Init, StoredSound
<1>3. HeldSound /\ Asked
  BY DEF Init, HeldSound, Holds, NothingHeld, Asked
<1> QED
  BY <1>1, <1>2, <1>3 DEF IInv

LEMMA AskKeeps ==
    ASSUME IInv, NEW a \in Actors, Ask(a)
    PROVE  IInv'
<1>1. PICK r \in Requests(a) : req' = [req EXCEPT ![a] = r]
  BY DEF Ask
<1>2. UNCHANGED <<stored, held, bumps, mine>>
  BY DEF Ask, ghosts
<1>3. \A b \in Actors : req'[b] = IF b = a THEN r ELSE req[b]
  BY <1>1 DEF IInv, Shapes
<1>4. Shapes'
  BY <1>1, <1>2, <1>3 DEF IInv, Shapes
<1>5. StoredSound' /\ HeldSound'
  BY <1>2 DEF IInv, StoredSound, HeldSound, Holds
<1>6. \A b \in Actors : Requests(b) = Requests(b)'
  BY <1>2, RequestsSame
<1>7. Asked'
  BY <1>3, <1>6 DEF IInv, Asked
<1> QED
  BY <1>4, <1>5, <1>7 DEF IInv

(* The state that is overlaid is neither the counter nor a bucket.          *)
LEMMA ReadKeeps ==
    ASSUME IInv, NEW a \in Actors, EnforcementRead(a)
    PROVE  IInv'
<1>1. UNCHANGED <<stored, bumps, mine>>
  BY DEF EnforcementRead, ghosts
<1> DEFINE got == [kind |-> "blob", blob |-> overlay_ledger_state(stored),
                   version |-> ReadVersion(stored), stored |-> stored]
<1>2. CASE stored = None
  <2>1. Respond(a, "not_found", NothingHeld)
    BY <1>2 DEF EnforcementRead
  <2> QED
    BY <1>1, <2>1, Responded DEF IInv, Shapes, StoredSound
<1>3. CASE stored # None
  <2>1. Respond(a, "data", got)
    BY <1>3 DEF EnforcementRead
  <2>2. /\ {"count", "stall"} \subseteq DOMAIN overlay_ledger_state(stored)
        /\ overlay_ledger_state(stored)["count"] = stored["count"]
        /\ overlay_ledger_state(stored)["stall"] = stored["stall"]
    BY <1>3 DEF overlay_ledger_state, Extend, Field, IInv, StoredSound, Sound
  <2>3. /\ req' = [req EXCEPT ![a] = NoReq] /\ held' = [held EXCEPT ![a] = got]
    BY <2>1 DEF Respond
  <2>4. /\ \A b \in Actors : req'[b] = IF b = a THEN NoReq ELSE req[b]
        /\ \A b \in Actors : held'[b] = IF b = a THEN got ELSE held[b]
        /\ Shapes'
    BY <1>1, <2>3 DEF IInv, Shapes
  <2>5. HeldSound'
    <3>1. /\ got.stored # None /\ got.version = version_of(got.stored)
          /\ {"count", "stall"} \subseteq DOMAIN got.blob
          /\ got.blob["count"] = got.stored["count"]
          /\ got.blob["stall"] = got.stored["stall"]
      BY <1>3, <2>2 DEF ReadVersion
    <3> HIDE DEF got
    <3> QED
      BY <2>4, <3>1 DEF IInv, HeldSound, Holds
  <2>6. ASSUME NEW b \in Actors, b # a
        PROVE  req'[b] \in Requests(b)' \cup {NoReq}
    <3>1. held[b] = held'[b] /\ req'[b] = req[b]
      BY <2>4, <2>6
    <3> QED
      BY <3>1, RequestsSame DEF IInv, Asked
  <2> QED
    BY <1>1, <2>4, <2>5, <2>6 DEF IInv, Asked, StoredSound
<1> QED
  BY <1>2, <1>3

(* A refused request leaves what is stored.                                 *)
LEMMA RefusalKeeps ==
    ASSUME IInv, NEW a \in Actors, NEW kind, Respond(a, kind, held[a]),
           UNCHANGED <<stored, bumps, mine>>
    PROVE  IInv'
BY Responded DEF IInv, Shapes, StoredSound

(* A store: what is put there accounts for the bumps and the buckets as     *)
(* they are after it.                                                       *)
LEMMA StoreKeeps ==
    ASSUME IInv, NEW a \in Actors, NEW r, NEW blob, Store(a, r, blob),
           Sound(blob, bumps', mine'),
           bumps' \in Nat, mine' \in [Actors -> Bucket]
    PROVE  IInv'
<1>1. stored' = Stamped(blob) /\ Respond(a, "ok", NothingHeld)
  BY DEF Store
<1>2. Sound(stored', bumps', mine')
  BY <1>1, StampKeeps
<1> QED
  BY <1>1, <1>2, Responded DEF IInv, Shapes, StoredSound

LEMMA SetKeeps ==
    ASSUME IInv, NEW a \in Actors, Store(a, ToSet, ToSet.data)
    PROVE  IInv'
<1>1. bumps' = 0 /\ mine' = [b \in Actors |-> Null]
  BY DEF Store, Ghosts
<1>2. ToSet.data = Fresh
  BY DEF ToSet
<1> QED
  BY <1>1, <1>2, FreshSound, StoreKeeps DEF Bucket

(* A bump: of the blob that was read or of the field alone, on a version    *)
(* that is not refused.                                                     *)
LEMMA BumpKeeps ==
    ASSUME IInv, NEW a \in Actors, NEW r, NEW blob, Store(a, r, blob),
           Holds(a), ~version_refusal(held[a].version, stored),
           \/ r = ToWrite(a) /\ blob = Extend(held[a].blob, Field("count", Bumped(a)))
           \/ r = ToUpdate(a) /\ blob = Extend(stored, Field("count", Bumped(a)))
    PROVE  IInv'
<1>1. stored # None /\ held[a].stored = stored
  BY CurrentIsHeld DEF IInv
<1>2. Sound(stored, bumps, mine) /\ Sound(held[a].blob, bumps, mine)
  BY <1>1 DEF IInv, StoredSound, HeldSound, Sound
<1>3. Bumped(a) = Scalar(bumps + 1)
  BY <1>2 DEF Bumped, Sound, Scalar
<1>4. Sound(blob, bumps + 1, mine)
  BY <1>2, <1>3, CountReplaced
<1>5. r # ToSet /\ r.bump /\ r.op # "merge"
  BY DEF ToSet, ToWrite, ToUpdate
<1>6. bumps' = bumps + 1 /\ mine' = mine
  BY <1>5 DEF Store, Ghosts
<1> QED
  BY <1>4, <1>6, StoreKeeps DEF IInv, Shapes

LEMMA OwnMergeKeeps ==
    ASSUME IInv, NEW a \in Actors, NEW v \in Bucket, stored # None,
           Store(a, ToMerge(a, v), merge_patch(stored, ToMerge(a, v).data))
    PROVE  IInv'
<1> DEFINE r == ToMerge(a, v)
<1>1. /\ r.op = "merge" /\ r.bump = FALSE /\ r # ToSet
      /\ r.data = Field("stall", Object(Field(a, v)))
  BY DEF ToMerge, ToSet
<1>2. r.data["stall"].of[a] = v
  BY <1>1, Kinds DEF Field
<1> HIDE DEF r
<1>3. bumps' = bumps /\ mine' = [mine EXCEPT ![a] = v]
  BY <1>1, <1>2 DEF Store, Ghosts, r
<1>4. Sound(merge_patch(stored, r.data), bumps, [mine EXCEPT ![a] = v])
  BY <1>1, MergeSound DEF IInv, StoredSound, Shapes
<1>5. [mine EXCEPT ![a] = v] \in [Actors -> Bucket]
  BY DEF IInv, Shapes
<1> QED
  BY <1>3, <1>4, <1>5, StoreKeeps DEF IInv, Shapes, r

LEMMA WriteKeeps ==
    ASSUME IInv, NEW a \in Actors, handle_enforcement_write(a)
    PROVE  IInv'
<1> DEFINE r == req[a]
<1>1. r.op = "write" /\ r \in Requests(a) \cup {NoReq}
  BY DEF handle_enforcement_write, Asks, IInv, Asked
<1>2. CASE Respond(a, "version_conflict", held[a]) /\ UNCHANGED <<stored, stores, ghosts>>
  BY <1>2, RefusalKeeps DEF ghosts
<1>3. CASE ~version_refusal(r.expect, stored) /\ Store(a, r, r.data)
  <2>1. CASE r = ToSet
    BY <1>3, <2>1, SetKeeps
  <2>2. CASE Holds(a) /\ r = ToWrite(a)
    <3>1. /\ r.expect = held[a].version
          /\ r.data = Extend(held[a].blob, Field("count", Bumped(a)))
      BY <2>2 DEF ToWrite
    <3> QED
      BY <1>3, <2>2, <3>1, BumpKeeps
  <2> QED
    BY <1>1, <2>1, <2>2, RequestCases
<1> QED
  BY <1>2, <1>3 DEF handle_enforcement_write

LEMMA PatchKeeps ==
    ASSUME IInv, NEW a \in Actors, handle_enforcement_patch(a)
    PROVE  IInv'
<1> DEFINE r == req[a]
<1>1. r.op \in {"update", "merge"} /\ r \in Requests(a) \cup {NoReq}
  BY DEF handle_enforcement_patch, Asks, IInv, Asked
<1>2. CASE /\ UNCHANGED <<stored, stores, ghosts>>
           /\ Respond(a, "not_found", held[a]) \/ Respond(a, "version_conflict", held[a])
  BY <1>2, RefusalKeeps DEF ghosts
<1>3. CASE /\ stored # None /\ ~version_refusal(r.expect, stored)
           /\ Store(a, r, Patched(r.op, stored, r.data))
  <2>1. CASE r.op = "update"
    <3>1. Holds(a) /\ r = ToUpdate(a)
      BY <1>1, <2>1, RequestCases
    <3>2. r.expect = held[a].version /\ r.data = Field("count", Bumped(a))
      BY <3>1 DEF ToUpdate
    <3>3. Patched(r.op, stored, r.data) = Extend(stored, Field("count", Bumped(a)))
      BY <2>1, <3>2 DEF Patched
    <3> QED
      BY <1>3, <3>1, <3>2, <3>3, BumpKeeps
  <2>2. CASE r.op = "merge"
    <3>1. PICK v \in Bucket : r = ToMerge(a, v)
      BY <1>1, <2>2, RequestCases
    <3>2. Patched(r.op, stored, r.data) = merge_patch(stored, r.data)
      BY <2>2 DEF Patched
    <3> QED
      BY <1>3, <3>1, <3>2, OwnMergeKeeps
  <2> QED
    BY <1>1, <2>1, <2>2
<1> QED
  BY <1>2, <1>3 DEF handle_enforcement_patch

LEMMA VaultKeeps ==
    ASSUME IInv, NEW a \in Actors, CheckVault(a) \/ UseVault(a)
    PROVE  IInv'
<1>1. UNCHANGED <<stored, bumps, mine>>
  BY DEF CheckVault, UseVault, ghosts
<1>2. CASE \E kind : Respond(a, kind, held[a])
  BY <1>1, <1>2, RefusalKeeps
<1>3. CASE UNCHANGED <<req, held>>
  <2>1. \A b \in Actors : Requests(b) = Requests(b)'
    BY <1>3, RequestsSame
  <2> QED
    BY <1>1, <1>3, <2>1 DEF IInv, Shapes, StoredSound, HeldSound, Holds, Asked
<1> QED
  BY <1>2, <1>3 DEF CheckVault, UseVault

LEMMA BesideKeeps ==
    ASSUME IInv, LedgerMoves \/ Restart
    PROVE  IInv'
<1>1. held' = held
  BY DEF LedgerMoves, Restart
<1>2. \A b \in Actors : Requests(b) = Requests(b)'
  BY <1>1, RequestsSame
<1>3. HeldSound'
  BY <1>1 DEF IInv, HeldSound, Holds
<1>4. CASE LedgerMoves
  <2>1. UNCHANGED <<stored, req, bumps, mine>>
    BY <1>4 DEF LedgerMoves, ghosts
  <2> QED
    BY <1>1, <1>2, <1>3, <2>1 DEF IInv, Shapes, StoredSound, Asked
<1>5. CASE Restart
  <2>1. StoredSound' /\ Shapes'
    BY <1>1, <1>5 DEF Restart, IInv, Shapes, StoredSound, Bucket
  <2>2. Asked'
    BY <1>5 DEF Restart, Asked
  <2> QED
    BY <1>3, <2>1, <2>2 DEF IInv
<1> QED
  BY <1>4, <1>5

LEMMA NextIInv ==
    ASSUME IInv, [Next]_vars
    PROVE  IInv'
<1>1. CASE UNCHANGED vars
  <2>1. UNCHANGED <<stored, req, held, bumps, mine>>
    BY <1>1 DEF vars
  <2>2. \A b \in Actors : Requests(b) = Requests(b)'
    BY <2>1, RequestsSame
  <2> QED
    BY <2>1, <2>2 DEF IInv, Shapes, StoredSound, HeldSound, Holds, Asked
<1>2. CASE Next
  BY <1>2, AskKeeps, ReadKeeps, WriteKeeps, PatchKeeps, VaultKeeps, BesideKeeps DEF Next
<1> QED
  BY <1>1, <1>2

LEMMA AlwaysIInv == Spec => []IInv
BY InitIInv, NextIInv, PTL DEF Spec

(* No bump is lost, however many actors read, reckon and write back, by     *)
(* whole blobs or by patches, and whatever restarts between.                *)
THEOREM BumpsCounted == Spec => []NoLostBump
<1>1. IInv => NoLostBump
  BY DEF IInv, StoredSound, Sound, NoLostBump
<1> QED
  BY <1>1, AlwaysIInv, PTL

(* Nor is a bucket lost to another actor's merge, write or bump.            *)
THEOREM BucketsKept == Spec => []OwnBucketKept
<1>1. IInv => OwnBucketKept
  BY DEF IInv, StoredSound, Sound, OwnBucketKept
<1> QED
  BY <1>1, AlwaysIInv, PTL

-----------------------------------------------------------------------------
(* Conflicts.                                                               *)

(* A version that is refused while its blob is there is another blob's.     *)
LEMMA RefusedIsOlder ==
    ASSUME IInv, NEW a \in Actors, req[a].op \in {"write", "update", "merge"},
           version_refusal(req[a].expect, stored)
    PROVE  stored # held[a].stored
<1>1. req[a] \in Requests(a) \cup {NoReq} /\ req[a].expect # NoVersion
  BY DEF IInv, Asked, version_refusal
<1>2. Holds(a) /\ req[a].expect = held[a].version
  <2>1. CASE req[a] = ToSet
    BY <1>1, <2>1 DEF ToSet
  <2>2. CASE Holds(a) /\ req[a] \in {ToWrite(a), ToUpdate(a)}
    BY <2>2 DEF ToWrite, ToUpdate
  <2>3. CASE \E v \in Bucket : req[a] = ToMerge(a, v)
    BY <1>1, <2>3 DEF ToMerge
  <2> QED
    BY <1>1, <2>1, <2>2, <2>3, RequestCases
<1> QED
  BY <1>2 DEF IInv, HeldSound, version_refusal

LEMMA StepConflict ==
    ASSUME IInv, [Next]_vars
    PROVE  [answer'.kind = "version_conflict" => stored # held[answer'.to].stored]_vars
<1> SUFFICES ASSUME Next, answer'.kind = "version_conflict"
             PROVE  stored # held[answer'.to].stored
  OBVIOUS
<1>1. ~LedgerMoves /\ ~Restart
  BY DEF LedgerMoves, Restart, Silence
<1>2. PICK a \in Actors :
          \/ Ask(a) \/ EnforcementRead(a)
          \/ handle_enforcement_write(a) \/ handle_enforcement_patch(a)
          \/ CheckVault(a) \/ UseVault(a)
  BY <1>1 DEF Next
<1>3. ~Ask(a) /\ ~EnforcementRead(a) /\ ~CheckVault(a) /\ ~UseVault(a)
  BY DEF Ask, EnforcementRead, CheckVault, UseVault, Respond, Silence
<1>4. CASE handle_enforcement_write(a)
  <2>1. version_refusal(req[a].expect, stored) /\ Respond(a, "version_conflict", held[a])
    BY <1>4 DEF handle_enforcement_write, Store, Respond
  <2>2. answer'.to = a /\ req[a].op = "write"
    BY <1>4, <2>1 DEF handle_enforcement_write, Asks, Respond
  <2> QED
    BY <2>1, <2>2, RefusedIsOlder
<1>5. CASE handle_enforcement_patch(a)
  <2>1. version_refusal(req[a].expect, stored) /\ Respond(a, "version_conflict", held[a])
    BY <1>5 DEF handle_enforcement_patch, Store, Respond
  <2>2. answer'.to = a /\ req[a].op \in {"update", "merge"}
    BY <1>5, <2>1 DEF handle_enforcement_patch, Asks, Respond
  <2> QED
    BY <2>1, <2>2, RefusedIsOlder
<1> QED
  BY <1>2, <1>3, <1>4, <1>5

(* An actor is told of a conflict only when its blob has been replaced.     *)
THEOREM ConflictsReal == Spec => ConflictIsReal
<1>1. IInv /\ [Next]_vars =>
          [answer'.kind = "version_conflict" => stored # held[answer'.to].stored]_vars
  BY StepConflict
<1> QED
  BY <1>1, AlwaysIInv, PTL DEF Spec, ConflictIsReal

-----------------------------------------------------------------------------
(* The policy: what the daemon checked for a request under way still tells  *)
(* that it was allowed, wherever the ledger has gone.                       *)
VaultOps == {"vault_store", "vault_read", "vault_delete"}
Cleared ==
    /\ req = [a \in Actors |-> req[a]]
    /\ allowed = [a \in Actors |-> allowed[a]]
    /\ \A a \in Actors :
           /\ busy = a => req[a].op \in VaultOps
           /\ req[a].op = "vault_read" /\ (Permitted \/ busy = a) => allowed[a]

LEMMA InitCleared == Init => Cleared
BY ActorsAssumption DEF Init, Cleared, NoReq

(* A response clears its request, and no other.                             *)
LEMMA RespondClears ==
    ASSUME Cleared, NEW a \in Actors, NEW kind, NEW keeps, Respond(a, kind, keeps),
           state' = state, busy' = busy \/ busy' = NoActor, busy # a \/ busy' # a
    PROVE  Cleared'
<1>1. /\ req' = [req EXCEPT ![a] = NoReq] /\ allowed' = [allowed EXCEPT ![a] = FALSE]
  BY DEF Respond
<1>2. /\ \A b \in Actors : b # a => req'[b] = req[b] /\ allowed'[b] = allowed[b]
      /\ req'[a] = NoReq
      /\ req' = [b \in Actors |-> req'[b]]
      /\ allowed' = [b \in Actors |-> allowed'[b]]
  BY <1>1 DEF Cleared
<1>3. busy' # a
  BY ActorsAssumption
<1>4. NoReq.op # "vault_read"
  BY DEF NoReq
<1> QED
  BY <1>2, <1>3, <1>4, ActorsAssumption DEF Cleared, Permitted

LEMMA NextCleared ==
    ASSUME Cleared, [Next]_vars
    PROVE  Cleared'
<1>1. CASE UNCHANGED vars
  BY <1>1 DEF vars, Cleared, Permitted
<1>2. ASSUME NEW a \in Actors, Ask(a)
      PROVE  Cleared'
  <2>1. PICK r \in Requests(a) : req' = [req EXCEPT ![a] = r]
    BY <1>2 DEF Ask
  <2>2. /\ req[a] = NoReq /\ UNCHANGED <<state, busy>>
        /\ allowed' = [allowed EXCEPT ![a] = Permitted /\ req'[a].op = "vault_read"]
    BY <1>2 DEF Ask
  <2>3. busy # a
    BY <2>2 DEF Cleared, NoReq, VaultOps
  <2>4. /\ \A b \in Actors : b # a => req'[b] = req[b] /\ allowed'[b] = allowed[b]
        /\ req' = [b \in Actors |-> req'[b]]
        /\ allowed' = [b \in Actors |-> allowed'[b]]
        /\ allowed'[a] <=> Permitted /\ req'[a].op = "vault_read"
    BY <2>1, <2>2 DEF Cleared
  <2> QED
    BY <2>2, <2>3, <2>4 DEF Cleared, Permitted
<1>3. ASSUME NEW a \in Actors,
             EnforcementRead(a) \/ handle_enforcement_write(a) \/ handle_enforcement_patch(a)
      PROVE  Cleared'
  <2>1. \E kind, keeps : Respond(a, kind, keeps)
    BY <1>3 DEF EnforcementRead, handle_enforcement_write, handle_enforcement_patch, Store
  <2>2. busy = NoActor /\ UNCHANGED <<state, busy>>
    BY <1>3 DEF EnforcementRead, handle_enforcement_write, handle_enforcement_patch, Asks
  <2> QED
    BY <2>1, <2>2, RespondClears, ActorsAssumption
<1>4. ASSUME NEW a \in Actors, CheckVault(a)
      PROVE  Cleared'
  <2>1. req[a].op \in VaultOps /\ busy = NoActor /\ UNCHANGED state
    BY <1>4 DEF CheckVault, Asks, VaultOps
  <2>2. CASE Respond(a, "state_forbidden", held[a]) /\ UNCHANGED busy
    BY <2>1, <2>2, RespondClears, ActorsAssumption
  <2>3. CASE ~check_vault_policy(req[a].op) /\ busy' = a /\ UNCHANGED <<req, allowed>>
    <3>1. req[a].op = "vault_read" => Permitted
      BY <2>3 DEF check_vault_policy, Permitted
    <3> QED
      BY <2>1, <2>3, <3>1 DEF Cleared, Permitted
  <2> QED
    BY <1>4, <2>2, <2>3 DEF CheckVault
<1>5. ASSUME NEW a \in Actors, UseVault(a)
      PROVE  Cleared'
  <2>1. \E kind : Respond(a, kind, held[a])
    BY <1>5 DEF UseVault
  <2>2. busy' = NoActor /\ UNCHANGED state
    BY <1>5 DEF UseVault
  <2> QED
    BY <2>1, <2>2, RespondClears, ActorsAssumption
<1>6. CASE LedgerMoves
  <2>1. /\ UNCHANGED <<req, busy>>
        /\ allowed' = [a \in Actors |->
               allowed[a] \/ (req[a].op = "vault_read" /\ Permitted')]
    BY <1>6 DEF LedgerMoves
  <2>2. \A a \in Actors :
            allowed'[a] <=> allowed[a] \/ (req[a].op = "vault_read" /\ Permitted')
    BY <2>1
  <2>3. allowed' = [a \in Actors |-> allowed'[a]]
    BY <2>1
  <2> QED
    BY <2>1, <2>2, <2>3 DEF Cleared
<1>7. CASE Restart
  <2>1. /\ busy' = NoActor
        /\ req' = [a \in Actors |-> NoReq] /\ allowed' = [a \in Actors |-> FALSE]
    BY <1>7 DEF Restart
  <2>2. NoReq.op # "vault_read"
    BY DEF NoReq
  <2> QED
    BY <2>1, <2>2, ActorsAssumption DEF Cleared
<1> QED
  BY <1>1, <1>2, <1>3, <1>4, <1>5, <1>6, <1>7 DEF Next

LEMMA StepPolicy ==
    ASSUME Cleared, [Next]_vars
    PROVE  [answer'.kind = "secret" => allowed[answer'.to]]_vars
<1> SUFFICES ASSUME Next, answer'.kind = "secret"
             PROVE  allowed[answer'.to]
  OBVIOUS
<1>1. PICK a \in Actors : UseVault(a)
  BY DEF Next, LedgerMoves, Restart, Ask, EnforcementRead, handle_enforcement_write,
         handle_enforcement_patch, CheckVault, Store, Respond, Silence
<1>2. /\ busy = a /\ req[a].op = "vault_read" /\ answer'.to = a
  BY <1>1 DEF UseVault, Respond
<1> QED
  BY <1>2 DEF Cleared

(* The secret leaves the daemon only for a request during which the policy  *)
(* allowed it, wherever the ledger moved between the check and the read.    *)
THEOREM SecretsGuarded == Spec => SecretByPolicy
<1>1. Spec => []Cleared
  BY InitCleared, NextCleared, PTL DEF Spec
<1>2. Cleared /\ [Next]_vars => [answer'.kind = "secret" => allowed[answer'.to]]_vars
  BY StepPolicy
<1> QED
  BY <1>1, <1>2, PTL DEF Spec, SecretByPolicy
=============================================================================
