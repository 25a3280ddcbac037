------------------------------ MODULE EventLog ------------------------------
(***************************************************************************)
(* The ledger as its readers are promised it: a chain of entries that only  *)
(* grows, each numbered after the last and carrying the hash of the last.   *)
(***************************************************************************)
EXTENDS Integers, Sequences

CONSTANTS
    Bodies,            \* what an append asks to be recorded
    Hash(_, _, _),     \* the hash of an entry's seq, prev and body
    Nonce              \* what genesis has for the hash of a predecessor

VARIABLE log

Make(seq, prev, body) ==
    [seq |-> seq, prev |-> prev, body |-> body, hash |-> Hash(seq, prev, body)]

GenesisEntry == Make(0, Nonce, "genesis")

Successor(entries, body) ==
    LET last == entries[Len(entries)] IN Make(last.seq + 1, last.hash, body)

Init == log = <<GenesisEntry>>
Grow(body) == log' = Append(log, Successor(log, body))
Next == \E body \in Bodies : Grow(body)
Spec == Init /\ [][Next]_log

(* Ledger::verify: numbered from 0 without a gap, each the hash of the one  *)
(* before it.                                                               *)
Chained(entries) ==
    /\ \A n \in DOMAIN entries : entries[n].seq = n - 1
    /\ \A n \in DOMAIN entries :
          n > 1 => entries[n].prev = entries[n - 1].hash
=============================================================================
