---------------------------- MODULE Enforcement -----------------------------
(***************************************************************************)
(* daemon/mod.rs: the requests the daemon answers from its memory, one at a *)
(* time: the enforcement blob with its conditional writes and patches, and  *)
(* the vault with its policy by state.  Hooks use the blob as hardening.md  *)
(* has it: a counter they share is bumped on the version that was read, and *)
(* a bucket of one's own is merged whatever is there.  The commands that    *)
(* move the ledger run beside the daemon, which reads it anew each time.    *)
(***************************************************************************)
EXTENDS Integers

CONSTANTS
    Actors,          \* the hooks that speak to the daemon
    NoActor,
    States,          \* protocol states
    Unknown,         \* no state: the ledger cannot be resolved or does not verify
    Policed,         \* the states a read of the policed key is allowed in
    MaxStores, MaxValue     \* bounds: stores of the blob, and an actor's own value

ASSUME ActorsAssumption == NoActor \notin Actors
ASSUME PolicyAssumption == Policed \subseteq States /\ Unknown \notin States
ASSUME BoundsAssumption == MaxStores \in Nat /\ MaxValue \in Nat

VARIABLES
    stored,      \* the vault's "_enforcement"
    secret,      \* the policed key is in the vault
    state,       \* derive_ledger_state: the state the ledger is in, if it can be had
    stores,      \* the stores so far: what last_refresh tells apart
    req,         \* each actor's request
    answer,      \* the response the daemon gives in this step, and to whom
    held,        \* what each actor read, with its version
    busy,        \* whose vault request is past its check
    bumps,       \* the bumps done since the counter was set to 0
    mine,        \* what each actor last put in its own bucket
    allowed      \* the policy allowed each actor's vault_read at some time since it was made

vars == <<stored, secret, state, stores, req, answer, held, busy,
          bumps, mine, allowed>>
ghosts == <<bumps, mine>>

(***************************************************************************)
(* JSON: a field holds a scalar, null, or an object of scalars, one for     *)
(* each actor.                                                              *)
(***************************************************************************)

None == [kind |-> "none"]
Null == [kind |-> "null"]
Scalar(x) == [kind |-> "scalar", of |-> x]
Object(f) == [kind |-> "object", of |-> f]
Empty == [x \in {} |-> Null]
Field(name, value) == [x \in {name} |-> value]
IsObject(v) == v.kind = "object"

\* Map::extend: a key of the patch replaces what is under it.
Extend(obj, patch) ==
    [k \in DOMAIN obj \cup DOMAIN patch |->
        IF k \in DOMAIN patch THEN patch[k] ELSE obj[k]]

\* merge_patch, where the patch has no object left to recurse into.
MergeFlat(obj, patch) ==
    [k \in {x \in DOMAIN obj \cup DOMAIN patch : x \in DOMAIN patch => patch[x] # Null} |->
        IF k \in DOMAIN patch THEN patch[k] ELSE obj[k]]

\* RFC 7386: null removes a key, an object merges into the object there or
\* into an empty one, anything else replaces.
merge_patch(obj, patch) ==
    MergeFlat(obj, [k \in DOMAIN patch |->
        IF ~IsObject(patch[k]) THEN patch[k]
        ELSE Object(MergeFlat(IF k \in DOMAIN obj /\ IsObject(obj[k]) THEN obj[k].of ELSE Empty,
                              patch[k].of))])

\* The hash of the stored bytes; two blobs have two hashes.
version_of(blob) == <<"sha256", blob>>

(***************************************************************************)
(* What the actors ask.                                                     *)
(***************************************************************************)

NoReq == [op |-> "none"]
Silence == [to |-> NoActor, kind |-> "none"]
NothingHeld == [kind |-> "none"]
NoVersion == <<>>

\* The blob a run starts with.
Fresh == [k \in {"count", "stall", "state"} |->
    IF k = "count" THEN Scalar(0) ELSE IF k = "stall" THEN Object(Empty) ELSE Scalar("none")]

Values == 0..MaxValue
Holds(a) == held[a].kind = "blob"
Bumped(a) == Scalar(held[a].blob["count"].of + 1)

\* enforcement_write of the first blob, unconditional.
ToSet == [op |-> "write", data |-> Fresh, expect |-> NoVersion, bump |-> FALSE]
\* A bump, by writing back the blob that was read or by a patch of the field.
ToWrite(a) ==
    [op |-> "write", data |-> Extend(held[a].blob, Field("count", Bumped(a))),
     expect |-> held[a].version, bump |-> TRUE]
ToUpdate(a) ==
    [op |-> "update", data |-> Field("count", Bumped(a)),
     expect |-> held[a].version, bump |-> TRUE]
\* One's own bucket: set it, or delete it.
ToMerge(a, v) ==
    [op |-> "merge", data |-> Field("stall", Object(Field(a, v))),
     expect |-> NoVersion, bump |-> FALSE]

Requests(a) ==
    {ToSet, [op |-> "read"]}
    \cup (IF Holds(a) THEN {ToWrite(a), ToUpdate(a)} ELSE {})
    \cup {ToMerge(a, v) : v \in {Scalar(n) : n \in Values} \cup {Null}}
    \cup {[op |-> "vault_store"], [op |-> "vault_read"], [op |-> "vault_delete"]}

Permitted == state \in Policed

Init ==
    /\ stored = None /\ secret = FALSE
    /\ state \in States
    /\ stores = 0
    /\ req = [a \in Actors |-> NoReq]
    /\ answer = Silence
    /\ held = [a \in Actors |-> NothingHeld]
    /\ busy = NoActor
    /\ bumps = 0
    /\ mine = [a \in Actors |-> Null]
    /\ allowed = [a \in Actors |-> FALSE]

Ask(a) ==
    /\ req[a] = NoReq
    /\ \E r \in Requests(a) : req' = [req EXCEPT ![a] = r]
    /\ answer' = Silence
    /\ allowed' = [allowed EXCEPT ![a] = Permitted /\ req'[a].op = "vault_read"]
    /\ UNCHANGED <<stored, secret, state, stores, held, busy, ghosts>>

(***************************************************************************)
(* What the daemon answers.  The accept loop serves one request at a time,  *)
(* and nothing else touches the vault.                                      *)
(***************************************************************************)

Asks(a, op) == busy = NoActor /\ req[a].op = op

\* The response, and what the actor keeps of it.
Respond(a, kind, keeps) ==
    /\ req' = [req EXCEPT ![a] = NoReq]
    /\ answer' = [to |-> a, kind |-> kind]
    /\ held' = [held EXCEPT ![a] = keeps]
    /\ allowed' = [allowed EXCEPT ![a] = FALSE]

\* A defect: the token is of the blob as it is served.
Slip_ServedVersion(blob) ==
    version_of(IF state # Unknown THEN Extend(blob, Field("state", Scalar(state))) ELSE blob)

\* version_of, of the bytes as stored and before the overlay.
ReadVersion(blob) == version_of(blob)

\* overlay_ledger_state: the ledger's state over the stored one, if it can be had.
overlay_ledger_state(blob) ==
    IF state # Unknown THEN Extend(blob, Field("state", Scalar(state))) ELSE blob

EnforcementRead(a) ==
    /\ Asks(a, "read")
    /\ IF stored = None
       THEN Respond(a, "not_found", NothingHeld)
       ELSE Respond(a, "data", [kind |-> "blob", blob |-> overlay_ledger_state(stored),
                                version |-> ReadVersion(stored), stored |-> stored])
    /\ UNCHANGED <<stored, secret, state, stores, busy, ghosts>>

\* A defect: the version is looked at only if there is a blob.
Slip_NoCompare(expect, current) == current = None /\ expect # NoVersion

\* A token for a blob that is gone is refused like one for an older blob.
version_refusal(expect, current) ==
    expect # NoVersion /\ (current = None \/ expect # version_of(current))

\* The blob with a new last_refresh.
Stamped(blob) == Extend(blob, Field("last_refresh", Scalar(stores)))

Ghosts(a, r) ==
    /\ bumps' = IF r = ToSet THEN 0 ELSE IF r.bump THEN bumps + 1 ELSE bumps
    /\ mine' = IF r = ToSet THEN [b \in Actors |-> Null]
               ELSE IF r.op = "merge" THEN [mine EXCEPT ![a] = r.data["stall"].of[a]]
               ELSE mine

Store(a, r, blob) ==
    /\ stored' = Stamped(blob)
    /\ stores' = stores + 1
    /\ Ghosts(a, r)
    /\ Respond(a, "ok", NothingHeld)

handle_enforcement_write(a) ==
    LET r == req[a] IN
    /\ Asks(a, "write")
    /\ \/ /\ version_refusal(r.expect, stored)
          /\ Respond(a, "version_conflict", held[a])
          /\ UNCHANGED <<stored, stores, ghosts>>
       \/ /\ ~version_refusal(r.expect, stored)
          /\ stores < MaxStores
          /\ Store(a, r, r.data)
    /\ UNCHANGED <<secret, state, busy>>

\* A defect: every patch replaces what is under its keys.
Slip_TopLevel(op, obj, patch) == Extend(obj, patch)

\* PatchMode
Patched(op, obj, patch) ==
    IF op = "update" THEN Extend(obj, patch) ELSE merge_patch(obj, patch)

handle_enforcement_patch(a) ==
    LET r == req[a] IN
    /\ Asks(a, "update") \/ Asks(a, "merge")
    /\ \/ /\ stored = None
          /\ Respond(a, "not_found", held[a])
          /\ UNCHANGED <<stored, stores, ghosts>>
       \/ /\ stored # None /\ version_refusal(r.expect, stored)
          /\ Respond(a, "version_conflict", held[a])
          /\ UNCHANGED <<stored, stores, ghosts>>
       \/ /\ stored # None /\ ~version_refusal(r.expect, stored)
          /\ stores < MaxStores
          /\ Store(a, r, Patched(r.op, stored, r.data))
    /\ UNCHANGED <<secret, state, busy>>

\* A defect: a state that cannot be derived lets the request through.
Slip_FailOpen(op) == op = "vault_read" /\ state \in States \ Policed

\* check_vault_policy of a key whose reads alone have a list of states; a
\* state that cannot be derived forbids.  The configuration loads: one that
\* does not lets every request through, and is left out here.
check_vault_policy(op) == op = "vault_read" /\ state \notin Policed

\* The policy is checked on the ledger before the vault is locked.
CheckVault(a) ==
    /\ \E op \in {"vault_store", "vault_read", "vault_delete"} : Asks(a, op)
    /\ \/ /\ check_vault_policy(req[a].op)
          /\ Respond(a, "state_forbidden", held[a])
          /\ UNCHANGED busy
       \/ /\ ~check_vault_policy(req[a].op)
          /\ busy' = a
          /\ answer' = Silence
          /\ UNCHANGED <<req, held, allowed>>
    /\ UNCHANGED <<stored, secret, state, stores, ghosts>>

UseVault(a) ==
    /\ busy = a /\ busy' = NoActor
    /\ \/ req[a].op = "vault_store" /\ secret' = TRUE /\ Respond(a, "ok", held[a])
       \/ req[a].op = "vault_delete" /\ secret' = FALSE /\ Respond(a, "ok", held[a])
       \/ /\ req[a].op = "vault_read" /\ UNCHANGED secret
          /\ Respond(a, IF secret THEN "secret" ELSE "not_found", held[a])
    /\ UNCHANGED <<stored, state, stores, ghosts>>

(***************************************************************************)
(* Beside the daemon.                                                       *)
(***************************************************************************)

\* A command moves the state, damages it or repairs it.
LedgerMoves ==
    /\ state' \in States \cup {Unknown}
    /\ answer' = Silence
    /\ allowed' = [a \in Actors |->
           allowed[a] \/ (req[a].op = "vault_read" /\ Permitted')]
    /\ UNCHANGED <<stored, secret, stores, req, held, busy, ghosts>>

\* The daemon is killed and started again: what it held is gone, and whoever
\* waited for a response has none.
Restart ==
    /\ stored' = None /\ secret' = FALSE /\ busy' = NoActor
    /\ req' = [a \in Actors |-> NoReq]
    /\ answer' = Silence
    /\ bumps' = 0 /\ mine' = [a \in Actors |-> Null]
    /\ allowed' = [a \in Actors |-> FALSE]
    /\ UNCHANGED <<state, stores, held>>

Next ==
    \/ \E a \in Actors :
        \/ Ask(a) \/ EnforcementRead(a)
        \/ handle_enforcement_write(a) \/ handle_enforcement_patch(a)
        \/ CheckVault(a) \/ UseVault(a)
    \/ LedgerMoves \/ Restart

Spec == Init /\ [][Next]_vars

(***************************************************************************)
(* Properties.                                                              *)
(***************************************************************************)

\* No bump is lost: the counter is the number of bumps that succeeded since it
\* was set, whichever actors read before and wrote after, across restarts.
NoLostBump == stored # None => stored["count"] = Scalar(bumps)

\* What an actor merged into its own bucket stays until it changes it, whatever
\* the others merge, write back or bump in the meantime.
OwnBucketKept ==
    stored # None =>
        /\ IsObject(stored["stall"])
        /\ \A a \in Actors :
               /\ a \in DOMAIN stored["stall"].of <=> mine[a] # Null
               /\ mine[a] # Null => stored["stall"].of[a] = mine[a]

\* A conflict is real: the blob is no longer the one the actor read.  A ledger
\* that moves changes what reads serve and not what versions compare.
ConflictIsReal ==
    [][answer'.kind = "version_conflict" => stored # held[answer'.to].stored]_vars

\* The secret is handed out only to a request during which the policy allowed
\* it, even if the ledger moves, or cannot be read, between check and use.
SecretByPolicy ==
    [][answer'.kind = "secret" => allowed[answer'.to]]_vars
=============================================================================
