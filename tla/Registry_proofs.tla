--------------------------- MODULE Registry_proofs ---------------------------
(***************************************************************************)
(* What the registry keeps without a lock and without a rename, whichever   *)
(* commands overlap, fail half way, are killed or are taken back: what is   *)
(* read was written by commands that each made it of a registry they had    *)
(* read, so that names lead where some complete write said; and an entry is *)
(* lost only to a command that overlapped its registration, or a failure.   *)
(***************************************************************************)
EXTENDS Registry, FiniteSetTheorems, TLAPS

EntryType == [name : Words, path : Words]
JobType == [cmd : Commands \cup {"none"}, name : Words, path : Words, activate : BOOLEAN]
Phases ==
    {"idle", "check", "make", "archive", "unmark", "load", "truncate", "write",
     "track", "unmake", "unregister", "mark", "named", "choose", "named?",
     "marked?", "first?", "open"}

-----------------------------------------------------------------------------
(* The inductive invariant.                                                 *)

TypeOK ==
    /\ file \in {Absent, Torn} \cup Seq(EntryType)
    /\ marker \in Words
    /\ unlinked \subseteq Procs
    /\ pc \in [Procs -> Phases]
    /\ job \in [Procs -> JobType]
    /\ mem \in [Procs -> Seq(EntryType)]
    /\ to \in [Procs -> Words]
    /\ existed \in [Procs -> BOOLEAN]

Paths == ledgers \cup {Default}

(* A registry each of whose names is there once, with the path of a ledger, *)
(* and was written by a command that completed its write.                   *)
Sound(entries) ==
    /\ ~mixed => \A m, n \in DOMAIN entries : entries[m].name = entries[n].name => m = n
    /\ \A n \in DOMAIN entries : entries[n].path \in Paths /\ entries[n] \in known

(* What was reported, and nothing may have taken.                           *)
Safe == acked \ exposed

Knows(p) ==
    /\ pc[p] \in {"check", "track", "unmake", "unregister"} => Does(p, Starts)
    /\ pc[p] = "make" => Does(p, Registers)
    /\ pc[p] \in {"archive", "unmark"} => Does(p, {"reset", "deactivate"})
    /\ pc[p] = "load" => Does(p, Registers \cup {"remove", "activate"})
    /\ pc[p] \in {"truncate", "write"} =>
          /\ Does(p, Registers \cup {"remove"})
          /\ Sound(mem[p])
          /\ Safe \subseteq Names(mem[p])
          /\ Does(p, Registers) => job[p].name \notin Names(mem[p])
    /\ pc[p] \in {"load", "truncate", "write"} /\ Does(p, Registers) => to[p] \in Paths
    /\ pc[p] \in {"choose", "named?", "marked?", "first?"} => Does(p, {"event", "checkpoint"})
    /\ pc[p] = "first?" => job[p].name = NoName
    /\ pc[p] = "open" /\ Targeted(p) => Entry(job[p].name, to[p]) \in known
    /\ Does(p, Starts) => to[p] = Default
    /\ ~existed[p] => Does(p, Starts) /\ Safe = {}
    /\ pc[p] = "idle" => existed[p]
    /\ pc[p] = "unregister" => ~existed[p]

(* Who writes to a registry that was removed, or to the one there is.       *)
Opened ==
    /\ \A q \in unlinked : pc[q] = "write"
    /\ \A q \in Procs : pc[q] = "write" /\ q \notin unlinked => file # Absent

(* The registry holds what is safe, unless it is being written.             *)
Held ==
    (\A q \in Procs : pc[q] = "write" => q \in unlinked) => Safe \subseteq Names(Entries)

Kept ==
    /\ TypeOK
    /\ Sound(Entries)
    /\ \A p \in Procs : Knows(p)
    /\ Opened
    /\ Held

-----------------------------------------------------------------------------
(* The operators.                                                           *)

LEMMA WordFacts == NoName \in Words /\ Default \in Words /\ NoJob \in JobType
  BY DEF Words, NoJob, JobType

LEMMA EntryFacts ==
    ASSUME NEW n \in Words, NEW w \in Words
    PROVE  Entry(n, w) \in EntryType /\ Entry(n, w).name = n /\ Entry(n, w).path = w
  BY DEF Entry, EntryType

(* A removal takes the entries of one name, and only those.                 *)
LEMMA RetainedFacts ==
    ASSUME NEW entries \in Seq(EntryType), NEW name, NEW rest \in Retained(entries, name)
    PROVE  /\ rest \in Seq(EntryType)
           /\ Names(rest) = Names(entries) \ {name}
           /\ Sound(entries) => Sound(rest)
<1> DEFINE kept == {n \in DOMAIN entries : entries[n].name # name}
<1>1. PICK f \in [1 .. Cardinality(kept) -> kept] :
         /\ rest = [m \in DOMAIN f |-> entries[f[m]]]
         /\ ToSet(f) = kept
         /\ \A m, n \in DOMAIN f : m < n => f[m] < f[n]
  BY DEF Retained
<1>2. Cardinality(kept) \in Nat
  <2>1. IsFiniteSet(1 .. Len(entries))
    BY FS_Interval
  <2>2. kept \subseteq 1 .. Len(entries)
    OBVIOUS
  <2> QED
    BY <2>1, <2>2, FS_Subset, FS_CardinalityType
<1>3. /\ DOMAIN rest = DOMAIN f /\ DOMAIN f = 1 .. Cardinality(kept)
      /\ \A m \in DOMAIN f : f[m] \in DOMAIN entries /\ rest[m] = entries[f[m]]
                            /\ rest[m].name # name
  BY <1>1
<1>4. rest \in Seq(EntryType)
  BY <1>1, <1>2, <1>3
<1>5. Names(rest) = Names(entries) \ {name}
  <2>1. \A n \in kept : \E m \in DOMAIN f : f[m] = n
    BY <1>1 DEF ToSet
  <2>2. \A n \in DOMAIN entries : entries[n].name # name => n \in kept
    OBVIOUS
  <2> HIDE DEF kept
  <2> QED
    BY <1>3, <2>1, <2>2 DEF Names
<1>6. ASSUME Sound(entries) PROVE Sound(rest)
  <2>1. \A m, n \in DOMAIN f : f[m] = f[n] => m = n
    <3> TAKE m \in DOMAIN f, n \in DOMAIN f
    <3>1. m \in Int /\ n \in Int /\ f[m] \in Int /\ f[n] \in Int
      BY <1>2, <1>3
    <3> QED
      BY <1>1, <3>1
  <2> HIDE DEF kept
  <2> QED
    BY <1>3, <1>6, <2>1 DEF Sound
<1> QED
  BY <1>4, <1>5, <1>6

LEMMA AppendFacts ==
    ASSUME NEW entries \in Seq(EntryType), NEW e \in EntryType
    PROVE  /\ Append(entries, e) \in Seq(EntryType)
           /\ Len(Append(entries, e)) = Len(entries) + 1
           /\ DOMAIN Append(entries, e) = 1 .. (Len(entries) + 1)
           /\ \A n \in DOMAIN entries : Append(entries, e)[n] = entries[n]
           /\ Append(entries, e)[Len(entries) + 1] = e
           /\ Names(Append(entries, e)) = Names(entries) \cup {e.name}
<1>1. /\ Append(entries, e) \in Seq(EntryType)
      /\ Len(Append(entries, e)) = Len(entries) + 1
      /\ DOMAIN Append(entries, e) = 1 .. (Len(entries) + 1)
      /\ \A n \in DOMAIN entries : Append(entries, e)[n] = entries[n]
      /\ Append(entries, e)[Len(entries) + 1] = e
      /\ DOMAIN entries = 1 .. Len(entries) /\ Len(entries) \in Nat
  OBVIOUS
<1>2. 1 .. (Len(entries) + 1) = (1 .. Len(entries)) \cup {Len(entries) + 1}
  BY <1>1
<1> QED
  BY <1>1, <1>2 DEF Names

(* What a command that is about to write makes of the registry it read.     *)
LEMMA ChangedFacts ==
    ASSUME TypeOK, NEW p \in Procs, Knows(p), pc[p] = "write",
           NEW entries \in Changed(p, mem[p])
    PROVE  /\ entries \in Seq(EntryType)
           /\ ~mixed => \A m, n \in DOMAIN entries : entries[m].name = entries[n].name => m = n
           /\ \A n \in DOMAIN entries : entries[n].path \in Paths
           /\ \A n \in DOMAIN entries : n < Len(entries) => entries[n] \in known
           /\ ~Does(p, Registers) => Names(entries) = Names(mem[p]) \ {job[p].name}
           /\ Does(p, Registers) => Names(entries) = Names(mem[p]) \cup {job[p].name}
<1>1. mem[p] \in Seq(EntryType) /\ job[p].name \in Words /\ to[p] \in Words /\ Sound(mem[p])
  BY DEF TypeOK, JobType, Knows
<1>2. CASE ~Does(p, Registers)
  <2>1. entries \in Retained(mem[p], job[p].name)
    BY <1>2 DEF Changed
  <2> QED
    BY <1>1, <1>2, <2>1, RetainedFacts DEF Sound
<1>3. CASE Does(p, Registers)
  <2> DEFINE s == mem[p]
             e == Entry(job[p].name, to[p])
  <2>1. entries = Append(s, e)
    BY <1>3 DEF Changed
  <2>2. /\ e \in EntryType /\ e.name = job[p].name /\ e.path \in Paths
        /\ e.name \notin Names(s)
    BY <1>1, <1>3, EntryFacts DEF Knows
  <2> HIDE DEF s, e
  <2>3. s \in Seq(EntryType) /\ Sound(s) /\ Len(s) \in Nat /\ DOMAIN s = 1 .. Len(s)
    BY <1>1 DEF s
  <2>4. \A n \in DOMAIN entries : n \in DOMAIN s \/ n = Len(s) + 1
    BY <2>1, <2>2, <2>3, AppendFacts
  <2>5. /\ entries \in Seq(EntryType) /\ Len(entries) = Len(s) + 1
        /\ \A n \in DOMAIN s : entries[n] = s[n]
        /\ entries[Len(s) + 1] = e
        /\ Names(entries) = Names(s) \cup {e.name}
    BY <2>1, <2>2, <2>3, AppendFacts
  <2>6. \A n \in DOMAIN s : s[n].name # e.name
    BY <2>2 DEF Names
  <2>7. ~mixed => \A m, n \in DOMAIN entries : entries[m].name = entries[n].name => m = n
    BY <2>3, <2>4, <2>5, <2>6 DEF Sound
  <2>8. \A n \in DOMAIN entries : entries[n].path \in Paths
    BY <2>2, <2>3, <2>4, <2>5 DEF Sound
  <2>9. \A n \in DOMAIN entries : n < Len(entries) => entries[n] \in known
    BY <2>3, <2>4, <2>5 DEF Sound
  <2> QED
    BY <1>3, <2>2, <2>5, <2>7, <2>8, <2>9 DEF s
<1> QED
  BY <1>2, <1>3

LEMMA FileFacts ==
    /\ Absent # Torn /\ \A s \in Seq(EntryType) : s # Absent /\ s # Torn
    /\ <<>> \in Seq(EntryType) /\ <<>> # Absent /\ <<>> # Torn
<1>1. Absent # Torn /\ \A s \in Seq(EntryType) : s # Absent /\ s # Torn
  BY FileAssumption DEF EntryType
<1>2. <<>> \in Seq(EntryType)
  OBVIOUS
<1> QED
  BY <1>1, <1>2

(* The registry a reader finds.                                             *)
LEMMA EntriesFacts ==
    ASSUME TypeOK
    PROVE  Entries \in Seq(EntryType)
  BY DEF TypeOK, Entries

LEMMA PathFound ==
    ASSUME TypeOK, Sound(Entries), NEW name, NEW path \in PathsOf(Entries, name)
    PROVE  Entry(name, path) \in known /\ path \in Words
<1>1. PICK n \in DOMAIN Entries : Entries[n].name = name /\ path = Entries[n].path
  BY DEF PathsOf
<1>2. Entries[n] \in EntryType /\ Entries[n] \in known
  BY <1>1, EntriesFacts DEF Sound
<1>3. Entries[n] = Entry(name, path)
  BY <1>1, <1>2 DEF EntryType, Entry
<1> QED
  BY <1>1, <1>2, <1>3 DEF EntryType

LEMMA Concatenated ==
    ASSUME NEW s \in Seq(EntryType), NEW t \in Seq(EntryType)
    PROVE  /\ s \o t \in Seq(EntryType) /\ DOMAIN (s \o t) = 1 .. (Len(s) + Len(t))
           /\ \A n \in 1 .. Len(s) : (s \o t)[n] = s[n]
           /\ \A n \in 1 .. Len(t) : (s \o t)[Len(s) + n] = t[n]
<1>1. Len(s) \in Nat /\ Len(t) \in Nat
  OBVIOUS
<1>2. s \o t \in Seq(EntryType) /\ Len(s \o t) = Len(s) + Len(t)
  OBVIOUS
<1>3. \A n \in 1 .. Len(s) : (s \o t)[n] = s[n]
  BY <1>1
<1>4. \A n \in 1 .. Len(t) : (s \o t)[Len(s) + n] = t[n]
  BY <1>1
<1> QED
  BY <1>1, <1>2, <1>3, <1>4

(* What a write leaves of entries and of what it met.                       *)
LEMMA Joining ==
    ASSUME NEW s \in Seq(EntryType), NEW t \in Seq(EntryType), NEW n \in 2 .. Len(t),
           NEW both, both = s \o SubSeq(t, n, Len(t))
    PROVE  /\ both \in Seq(EntryType)
           /\ \A k \in DOMAIN both :
                 \/ k \in DOMAIN s /\ both[k] = s[k]
                 \/ \E l \in DOMAIN t : both[k] = t[l]
           /\ \A k \in DOMAIN s : k \in DOMAIN both /\ both[k] = s[k]
<1> DEFINE rest == SubSeq(t, n, Len(t))
<1>1. /\ rest \in Seq(EntryType) /\ Len(rest) \in Nat
      /\ \A k \in 1 .. Len(rest) : \E l \in DOMAIN t : rest[k] = t[l]
  <2>1. /\ rest \in Seq(EntryType) /\ Len(rest) = Len(t) - n + 1
        /\ \A k \in 1 .. Len(rest) : rest[k] = t[n + k - 1] /\ n + k - 1 \in DOMAIN t
    OBVIOUS
  <2>2. Len(rest) \in Nat
    BY <2>1
  <2>3. ASSUME NEW k \in 1 .. Len(rest) PROVE \E l \in DOMAIN t : rest[k] = t[l]
    <3>1. rest[k] = t[n + k - 1] /\ n + k - 1 \in DOMAIN t
      BY <2>1
    <3> HIDE DEF rest
    <3> QED
      BY <3>1
  <2> QED
    BY <2>1, <2>2, <2>3
<1>2. DOMAIN s = 1 .. Len(s) /\ Len(s) \in Nat
  OBVIOUS
<1>3. both = s \o rest
  OBVIOUS
<1> HIDE DEF rest
<1>4. /\ both \in Seq(EntryType) /\ DOMAIN both = 1 .. (Len(s) + Len(rest))
      /\ \A k \in 1 .. Len(s) : both[k] = s[k]
      /\ \A k \in 1 .. Len(rest) : both[Len(s) + k] = rest[k]
  BY <1>1, <1>3, Concatenated
<1>5. ASSUME NEW k \in DOMAIN both
      PROVE  \/ k \in DOMAIN s /\ both[k] = s[k]
             \/ \E l \in DOMAIN t : both[k] = t[l]
  <2>1. k \in 1 .. Len(s) \/ \E i \in 1 .. Len(rest) : k = Len(s) + i
    <3>1. k \in 1 .. (Len(s) + Len(rest))
      BY <1>4
    <3>2. k <= Len(s) \/ (k - Len(s) \in 1 .. Len(rest) /\ k = Len(s) + (k - Len(s)))
      BY <1>1, <1>2, <3>1
    <3> QED
      BY <1>2, <3>1, <3>2
  <2> QED
    BY <1>1, <1>2, <1>4, <2>1
<1>6. \A k \in DOMAIN s : k \in DOMAIN both /\ both[k] = s[k]
  BY <1>1, <1>2, <1>4
<1> QED
  BY <1>4, <1>5, <1>6

(* A write leaves entries of its own, and after them perhaps some that were *)
(* there; or no registry.                                                   *)
LEMMA FillFacts ==
    ASSUME TypeOK, Sound(Entries), NEW entries \in Seq(EntryType), Fills(entries),
           known \subseteq known', Paths' = Paths,
           ~mixed => \A m, n \in DOMAIN entries : entries[m].name = entries[n].name => m = n,
           \A n \in DOMAIN entries : entries[n].path \in Paths /\ entries[n] \in known'
    PROVE  /\ file' \in {Torn} \cup Seq(EntryType)
           /\ Sound(Entries)'
           /\ mixed => mixed'
           /\ file' # Torn => Names(entries) \subseteq Names(Entries')
<1>1. \A s \in Seq(EntryType) : s # Absent /\ s # Torn
  BY FileFacts
<1>2. CASE file' = Torn /\ UNCHANGED mixed
  BY <1>2 DEF Sound, Entries
<1>3. CASE file' = entries /\ UNCHANGED mixed
  <2>1. Entries' = entries
    BY <1>1, <1>3 DEF Entries
  <2> QED
    BY <1>3, <2>1 DEF Sound
<1>4. ASSUME NEW rest \in Rests, file' = entries \o rest, mixed' = TRUE
      PROVE  /\ file' \in Seq(EntryType) /\ Sound(Entries)'
             /\ Names(entries) \subseteq Names(Entries')
  <2>1. file \in Seq(EntryType) /\ Entries = file
    BY <1>4 DEF Rests, TypeOK, Entries
  <2>2. PICK n \in 2 .. Len(file) : rest = SubSeq(file, n, Len(file))
    BY <1>4 DEF Rests
  <2>3. /\ file' \in Seq(EntryType)
        /\ \A k \in DOMAIN file' :
              \/ k \in DOMAIN entries /\ file'[k] = entries[k]
              \/ \E l \in DOMAIN file : file'[k] = file[l]
        /\ \A k \in DOMAIN entries : k \in DOMAIN file' /\ file'[k] = entries[k]
    <3>1. file' = entries \o SubSeq(file, n, Len(file))
      BY <1>4, <2>2
    <3>2. file \in Seq(EntryType) /\ n \in 2 .. Len(file)
      BY <2>1, <2>2
    <3> QED
      BY <3>1, <3>2, Joining
  <2>4. Entries' = file'
    BY <1>1, <2>3 DEF Entries
  <2>5. \A l \in DOMAIN file : file[l].path \in Paths /\ file[l] \in known'
    BY <2>1 DEF Sound
  <2>6. \A k \in DOMAIN file' : file'[k].path \in Paths' /\ file'[k] \in known'
    BY <2>3, <2>5
  <2>7. Sound(Entries)'
    BY <1>4, <2>4, <2>6 DEF Sound
  <2>8. Names(entries) \subseteq Names(Entries')
    BY <2>3, <2>4 DEF Names
  <2> QED
    BY <2>3, <2>7, <2>8
<1> QED
  BY <1>2, <1>3, <1>4 DEF Fills

-----------------------------------------------------------------------------
(* Steps.                                                                   *)

LEMMA DoneFacts ==
    ASSUME TypeOK, NEW p \in Procs, Done(p)
    PROVE  /\ pc' \in [Procs -> Phases] /\ job' \in [Procs -> JobType]
           /\ mem' \in [Procs -> Seq(EntryType)] /\ to' \in [Procs -> Words]
           /\ existed' \in [Procs -> BOOLEAN]
           /\ pc'[p] = "idle" /\ job'[p] = NoJob /\ existed'[p] = TRUE
           /\ \A q \in Procs \ {p} : /\ pc'[q] = pc[q] /\ job'[q] = job[q]
                                     /\ mem'[q] = mem[q] /\ to'[q] = to[q]
                                     /\ existed'[q] = existed[q]
<1>1. <<>> \in Seq(EntryType) /\ "idle" \in Phases
  BY DEF Phases
<1> QED
  BY <1>1, WordFacts DEF Done, TypeOK

LEMMA AtFacts ==
    ASSUME TypeOK, NEW p \in Procs, NEW here, NEW next \in Phases, At(p, here, next)
    PROVE  /\ pc' \in [Procs -> Phases] /\ pc[p] = here /\ pc'[p] = next
           /\ \A q \in Procs \ {p} : pc'[q] = pc[q]
  BY DEF At, TypeOK

(* A step of p leaves what the others know true, as long as no ledger but   *)
(* the default one goes, and it exposes what it registers beside another.   *)
Aside(p) ==
    /\ \A q \in Procs \ {p} : /\ pc'[q] = pc[q] /\ job'[q] = job[q]
                              /\ mem'[q] = mem[q] /\ to'[q] = to[q]
                              /\ existed'[q] = existed[q]
    /\ known \subseteq known' /\ Paths \subseteq Paths' /\ (mixed => mixed')
    /\ (\E q \in Procs \ {p} : Overlaps(q)) => Safe' \subseteq Safe

LEMMA OthersKnow ==
    ASSUME NEW p \in Procs, Aside(p), NEW q \in Procs, q # p, Knows(q)
    PROVE  Knows(q)'
<1>1. /\ pc'[q] = pc[q] /\ job'[q] = job[q] /\ mem'[q] = mem[q] /\ to'[q] = to[q]
      /\ existed'[q] = existed[q]
      /\ known \subseteq known' /\ Paths \subseteq Paths'
  BY DEF Aside
<1>2. Sound(mem[q]) => Sound(mem[q])'
  BY <1>1 DEF Sound, Aside
<1>3. pc[q] \in {"truncate", "write"} \/ ~existed[q] => Safe' \subseteq Safe
  BY DEF Aside, Overlaps
<1> HIDE DEF Safe
<1>4. ~existed'[q] => Does(q, Starts)' /\ Safe' = {}
  BY <1>1, <1>3 DEF Knows, Does
<1> QED
  BY <1>1, <1>2, <1>3, <1>4 DEF Knows, Does, Targeted, Names

(* The files stay as they are, or a ledger is added.                        *)
LEMMA EntriesStay ==
    ASSUME Sound(Entries), file' = file, known \subseteq known', Paths \subseteq Paths', mixed => mixed'
    PROVE  Sound(Entries)'
  BY DEF Sound, Entries

LEMMA KeptBy ==
    ASSUME Kept, NEW p \in Procs, Aside(p), TypeOK', Knows(p)', Sound(Entries)', Opened', Held'
    PROVE  Kept'
  BY OthersKnow DEF Kept

LEMMA IdleKnows ==
    ASSUME NEW p \in Procs, pc[p] = "idle", job[p] = NoJob, existed[p] = TRUE
    PROVE  Knows(p)
  BY DEF Knows, Does, NoJob, Starts

(* A command that ends without a word to the files.                         *)
LEMMA QuitStep ==
    ASSUME Kept, NEW p \in Procs, Done(p), pc[p] # "write",
           UNCHANGED <<file, unlinked, known, acked, mixed>>, exposed \subseteq exposed',
           marker' \in Words, Paths \subseteq Paths'
    PROVE  Kept'
<1>1. TypeOK'
  BY DoneFacts DEF Kept, TypeOK
<1>2. Safe' \subseteq Safe
  BY DEF Safe
<1>3. Aside(p) /\ pc'[p] = "idle"
  BY <1>2, DoneFacts DEF Kept, Aside
<1>4. Knows(p)'
  <2>1. pc'[p] = "idle" /\ job'[p] = NoJob /\ existed'[p] = TRUE
    BY DoneFacts DEF Kept
  <2> QED
    BY <2>1 DEF Knows, Does, NoJob, Starts
<1>5. Sound(Entries)'
  BY EntriesStay DEF Kept
<1>6. p \notin unlinked /\ \A q \in Procs \ {p} : pc'[q] = pc[q]
  BY DoneFacts DEF Kept, Opened
<1>7. Opened'
  BY <1>3, <1>6 DEF Kept, TypeOK, Opened
<1>8. Held'
  <2>1. (\A q \in Procs : pc'[q] = "write" => q \in unlinked')
          => \A q \in Procs : pc[q] = "write" => q \in unlinked
    BY <1>6
  <2>2. Names(Entries)' = Names(Entries)
    BY DEF Names, Entries
  <2> QED
    BY <1>2, <2>1, <2>2 DEF Kept, Held
<1> QED
  BY <1>1, <1>3, <1>4, <1>5, <1>7, <1>8, KeptBy

(* A command that goes on, and leaves what is registered alone, or empties  *)
(* the registry to write it.                                                *)
LEMMA GoesOn ==
    ASSUME Kept, NEW p \in Procs, NEW here, NEW next \in Phases, At(p, here, next), here # "write",
           UNCHANGED <<unlinked, known, acked, mixed>>, exposed \subseteq exposed',
           IF next = "write" THEN file' = <<>> ELSE file' = file,
           marker' \in Words, Paths \subseteq Paths',
           job' \in [Procs -> JobType], mem' \in [Procs -> Seq(EntryType)],
           to' \in [Procs -> Words], existed' \in [Procs -> BOOLEAN],
           \A q \in Procs \ {p} : /\ job'[q] = job[q] /\ mem'[q] = mem[q] /\ to'[q] = to[q]
                                  /\ existed'[q] = existed[q],
           Knows(p)'
    PROVE  Kept'
<1>1. <<>> \in Seq(EntryType) /\ <<>> # Absent /\ <<>> # Torn
  BY FileFacts
<1>2. TypeOK'
  BY <1>1, AtFacts DEF Kept, TypeOK
<1>3. Safe' \subseteq Safe
  BY DEF Safe
<1>4. Aside(p)
  BY <1>3, AtFacts DEF Kept, Aside
<1>5. Sound(Entries)'
  <2>1. CASE file' = file
    BY <2>1, EntriesStay DEF Kept
  <2>2. CASE file' = <<>>
    BY <2>2 DEF Entries, Sound
  <2> QED
    BY <2>1, <2>2
<1>6. /\ pc[p] = here /\ pc'[p] = next /\ \A q \in Procs \ {p} : pc'[q] = pc[q]
      /\ p \notin unlinked
  BY AtFacts DEF Kept, Opened
<1>7. Opened'
  BY <1>1, <1>6 DEF Kept, TypeOK, Opened
<1>8. Held'
  <2>1. CASE next = "write"
    BY <1>6, <2>1 DEF Held
  <2>2. CASE next # "write"
    <3>1. (\A q \in Procs : pc'[q] = "write" => q \in unlinked')
            => \A q \in Procs : pc[q] = "write" => q \in unlinked
      BY <1>6, <2>2
    <3>2. Names(Entries)' = Names(Entries)
      BY <2>2 DEF Names, Entries
    <3> QED
      BY <1>3, <3>1, <3>2 DEF Kept, Held
  <2> QED
    BY <2>1, <2>2
<1> QED
  BY <1>2, <1>4, <1>5, <1>7, <1>8, KeptBy

LEMMA CallStep == ASSUME Kept, NEW p \in Procs, Call(p) PROVE Kept'
<1>1. PICK j \in Jobs :
         /\ job' = [job EXCEPT ![p] = j] /\ to' = [to EXCEPT ![p] = j.path]
         /\ pc' = [pc EXCEPT ![p] = First(j.cmd)]
  BY DEF Call
<1>2. /\ j \in JobType /\ j.path \in Words /\ j.cmd \in Commands
      /\ j.cmd \in Starts => j.path = Default
  BY JobsAssumption DEF JobType
<1>3. /\ First(j.cmd) \in Phases /\ First(j.cmd) # "write"
      /\ First(j.cmd) \in {"make", "check", "archive", "unmark", "choose", "load"}
      /\ First(j.cmd) = "make" => j.cmd \in Registers
      /\ First(j.cmd) = "check" => j.cmd \in Starts
      /\ First(j.cmd) \in {"archive", "unmark"} => j.cmd \in {"reset", "deactivate"}
      /\ First(j.cmd) = "choose" => j.cmd \in {"event", "checkpoint"}
      /\ First(j.cmd) = "load" => j.cmd \in {"remove", "activate"}
  BY <1>2 DEF First, Phases, Commands, Registers, Reports, Starts
<1>4. At(p, "idle", First(j.cmd))
  BY <1>1 DEF Call, At
<1>5. /\ job' \in [Procs -> JobType] /\ to' \in [Procs -> Words] /\ job'[p] = j
      /\ to'[p] = j.path /\ pc'[p] = First(j.cmd)
      /\ \A q \in Procs \ {p} : job'[q] = job[q] /\ to'[q] = to[q]
  BY <1>1, <1>2, <1>3 DEF Kept, TypeOK
<1>6. UNCHANGED <<disk, told, mem, existed>>
  BY DEF Call
<1>7. existed[p]
  <2>1. pc[p] = "idle" => existed[p]
    BY DEF Call, Kept, Knows
  <2> QED
    BY <1>4, <2>1 DEF At
<1>8. Knows(p)'
  BY <1>2, <1>3, <1>5, <1>6, <1>7 DEF Knows, Does, Registers, Reports, Starts
<1> QED
  BY <1>3, <1>4, <1>5, <1>6, <1>8, GoesOn DEF disk, told, Kept, TypeOK, Paths

(* The ledgers' files, and what init finds and takes back.                  *)
LEMMA MakeStep ==
    ASSUME Kept, NEW p \in Procs,
           \/ Archive(p) \/ RemoveMarker(p) \/ CheckRun(p) \/ MakeLedger(p)
           \/ Track(p) \/ InitFails(p) \/ RemoveLedger(p)
    PROVE  Kept'
<1>1. UNCHANGED <<file, unlinked, told>>
  BY DEF Archive, RemoveMarker, CheckRun, MakeLedger, Track, InitFails, RemoveLedger, disk
<1>2. Does(p, Starts) => to[p] = Default
  BY DEF Kept, Knows
<1>3. Paths \subseteq Paths' /\ marker' \in Words
  <2>1. RemoveLedger(p) => Does(p, Starts)
    BY DEF RemoveLedger, At, Kept, Knows
  <2> QED
    BY <1>2, <2>1, WordFacts
       DEF Archive, RemoveMarker, CheckRun, MakeLedger, Track, InitFails, RemoveLedger, disk,
           Paths, Kept, TypeOK
<1>4. pc[p] # "write"
  BY DEF Archive, RemoveMarker, CheckRun, MakeLedger, Track, InitFails, RemoveLedger, At
<1>5. CASE Done(p)
  BY <1>1, <1>3, <1>4, <1>5, QuitStep DEF told
<1>6. ASSUME NEW here, NEW next \in Phases \ {"write"}, At(p, here, next), UNCHANGED locals,
             \/ next = "unmark" /\ here = "archive"
             \/ next = "check" /\ Does(p, {"reset"})
             \/ next = "load" /\ here = "make" /\ to[p] \in Paths'
             \/ next = "unmake" /\ Does(p, Starts)
             \/ next = "unregister" /\ here = "unmake" /\ ~existed[p]
      PROVE  Kept'
  <2>1. pc[p] = here /\ pc'[p] = next
    BY <1>6, AtFacts DEF Kept
  <2>2. Knows(p)'
    BY <1>1, <1>6, <2>1 DEF Kept, Knows, locals, told, Does, Registers, Reports, Starts, Safe
  <2> QED
    BY <1>1, <1>3, <1>4, <1>6, <2>1, <2>2, GoesOn DEF locals, told, Kept, TypeOK
<1>7. CASE CheckRun(p) /\ ~Done(p)
  <2>1. /\ At(p, "check", "make") /\ existed' = [existed EXCEPT ![p] = file # Absent]
        /\ UNCHANGED <<job, mem, to>>
    BY <1>7 DEF CheckRun
  <2>2. /\ existed' \in [Procs -> BOOLEAN] /\ existed'[p] = (file # Absent)
        /\ \A q \in Procs \ {p} : existed'[q] = existed[q]
    BY <2>1 DEF Kept, TypeOK
  <2>3. pc[p] = "check" /\ pc'[p] = "make"
    BY <2>1 DEF At, Kept, TypeOK
  <2>4. file = Absent => Safe = {}
    <3>1. file = Absent => \A q \in Procs : pc[q] = "write" => q \in unlinked
      BY DEF Kept, Opened
    <3>2. file = Absent => Names(Entries) = {}
      BY DEF Names, Entries
    <3> QED
      BY <3>1, <3>2 DEF Kept, Held
  <2>5. Knows(p)'
    BY <1>1, <2>1, <2>2, <2>3, <2>4 DEF Kept, Knows, told, Does, Registers, Safe
  <2> QED
    BY <1>1, <1>3, <2>1, <2>2, <2>5, GoesOn DEF told, Kept, TypeOK, Phases
<1>8. CASE Archive(p) /\ ~Done(p)
  BY <1>6, <1>8 DEF Archive, Phases
<1>9. CASE RemoveMarker(p) /\ ~Done(p)
  BY <1>6, <1>9 DEF RemoveMarker, Phases
<1>10. CASE MakeLedger(p) /\ ~Done(p)
  BY <1>6, <1>10 DEF MakeLedger, Phases, Paths
<1>11. CASE InitFails(p)
  BY <1>6, <1>11 DEF InitFails, Phases
<1>12. CASE RemoveLedger(p) /\ ~Done(p)
  BY <1>6, <1>12 DEF RemoveLedger, Phases
<1> QED
  BY <1>5, <1>7, <1>8, <1>9, <1>10, <1>11, <1>12 DEF Track

LEMMA LoadStep == ASSUME Kept, NEW p \in Procs, Load(p) PROVE Kept'
<1>1. /\ UNCHANGED <<file, marker, ledgers, unlinked, known, acked, mixed>>
      /\ exposed' = exposed \cup {name \in acked : pc'[p] = "truncate" /\ ~Finds(name)}
      /\ pc[p] = "load"
  BY DEF Load, disk, At
<1>2. CASE Done(p)
  BY <1>1, <1>2, QuitStep DEF Kept, TypeOK, Paths
<1>3. CASE Does(p, Starts) /\ At(p, "load", "track") /\ UNCHANGED locals
  <2>1. pc'[p] = "track"
    BY <1>3 DEF At, Kept, TypeOK
  <2>2. Safe' = Safe
    BY <1>1, <2>1 DEF Safe
  <2>3. Knows(p)'
    BY <1>1, <1>3, <2>1, <2>2 DEF Kept, Knows, locals, Does, Registers
  <2> QED
    BY <1>1, <1>3, <2>3, GoesOn DEF locals, Kept, TypeOK, Phases, Paths
<1>4. ASSUME NEW next \in {"truncate", "mark"}, At(p, "load", next), ~Refused(p),
             next = "truncate" => ~Does(p, {"activate"}),
             mem' = [mem EXCEPT ![p] = Entries], UNCHANGED <<job, to, existed>>
      PROVE  Kept'
  <2>1. Entries \in Seq(EntryType)
    BY EntriesFacts DEF Kept
  <2>2. /\ mem' \in [Procs -> Seq(EntryType)] /\ mem'[p] = Entries
        /\ \A q \in Procs \ {p} : mem'[q] = mem[q]
    BY <1>4, <2>1 DEF Kept, TypeOK
  <2>3. pc'[p] = next
    BY <1>4 DEF At, Kept, TypeOK
  <2>4. Sound(mem[p])'
    BY <1>1, <2>2 DEF Kept, Sound, Paths
  <2>5. Does(p, Registers) => job[p].name \notin Names(Entries)
    BY <1>4 DEF Refused, Finds
  <2>6. Safe' \subseteq Safe /\ (next = "truncate" => Safe' \subseteq Names(mem'[p]))
    BY <1>1, <2>2, <2>3 DEF Safe, Finds
  <2>7. Knows(p)'
    <3> HIDE DEF Safe
    <3>1. ~existed'[p] => Does(p, Starts)' /\ Safe' = {}
      BY <1>4, <2>6 DEF Kept, Knows, Does
    <3> QED
      BY <1>1, <1>4, <2>2, <2>3, <2>4, <2>5, <2>6, <3>1 DEF Kept, Knows, Does, Names, Paths
  <2> QED
    BY <1>1, <1>4, <2>2, <2>7, GoesOn DEF Kept, TypeOK, Phases, Paths
<1> QED
  BY <1>2, <1>3, <1>4 DEF Load

LEMMA TruncateStep == ASSUME Kept, NEW p \in Procs, Truncate(p) PROVE Kept'
<1>1. /\ At(p, "truncate", "write") /\ file' = <<>>
      /\ UNCHANGED <<marker, ledgers, unlinked, told, locals>>
  BY DEF Truncate
<1>2. Knows(p)'
  BY <1>1, AtFacts DEF Kept, Knows, locals, told, Does, Phases, Sound, Names, Paths, Safe
<1> QED
  BY <1>1, <1>2, GoesOn DEF locals, told, Kept, TypeOK, Phases, Paths

LEMMA MarkStep == ASSUME Kept, NEW p \in Procs, Mark(p) PROVE Kept'
<1>1. job[p].name \in Words /\ pc[p] # "write"
  BY DEF Mark, At, Kept, TypeOK, JobType
<1>2. UNCHANGED <<file, ledgers, unlinked, told>>
  BY DEF Mark
<1>3. CASE Done(p)
  BY <1>1, <1>2, <1>3, QuitStep, WordFacts DEF Mark, Paths, told
<1>4. CASE ~Done(p)
  <2>1. At(p, "mark", "named") /\ marker' = NoName /\ UNCHANGED locals
    BY <1>4 DEF Mark
  <2>2. Knows(p)'
    BY <1>2, <2>1, AtFacts DEF Kept, Knows, locals, told, Phases, Does, Safe
  <2> QED
    BY <1>2, <2>1, <2>2, GoesOn, WordFacts DEF locals, told, Kept, TypeOK, Phases, Paths
<1> QED
  BY <1>3, <1>4

(* After a write its process holds no registry, and is over or goes on.     *)
LEMMA Leaving ==
    ASSUME Kept, NEW p \in Procs,
           \/ Done(p)
           \/ (\E next \in {"track", "mark", "unmake"} :
                  /\ At(p, "write", next) /\ (next = "mark" \/ Does(p, Starts)))
              /\ UNCHANGED locals
    PROVE  /\ pc' \in [Procs -> Phases] /\ job' \in [Procs -> JobType]
           /\ mem' \in [Procs -> Seq(EntryType)] /\ to' \in [Procs -> Words]
           /\ existed' \in [Procs -> BOOLEAN]
           /\ pc'[p] # "write"
           /\ \A q \in Procs \ {p} : /\ pc'[q] = pc[q] /\ job'[q] = job[q]
                                     /\ mem'[q] = mem[q] /\ to'[q] = to[q]
                                     /\ existed'[q] = existed[q]
           /\ (~existed[p] => Safe' = {}) => Knows(p)'
<1>1. CASE Done(p)
  <2>1. pc'[p] = "idle" /\ job'[p] = NoJob /\ existed'[p] = TRUE
    BY <1>1, DoneFacts DEF Kept
  <2>2. Knows(p)'
    BY <2>1 DEF Knows, Does, NoJob, Starts
  <2> QED
    BY <1>1, <2>2, DoneFacts DEF Kept
<1>2. ASSUME NEW next \in {"track", "mark", "unmake"}, At(p, "write", next),
             next = "mark" \/ Does(p, Starts), UNCHANGED locals
      PROVE  /\ pc' \in [Procs -> Phases] /\ pc'[p] # "write"
             /\ \A q \in Procs \ {p} : pc'[q] = pc[q]
             /\ (~existed[p] => Safe' = {}) => Knows(p)'
  <2>1. next \in Phases
    BY DEF Phases
  <2>2. pc' \in [Procs -> Phases] /\ pc'[p] = next /\ \A q \in Procs \ {p} : pc'[q] = pc[q]
    BY <1>2, <2>1, AtFacts DEF Kept
  <2>3. job' = job /\ to' = to /\ existed' = existed
    BY <1>2 DEF locals
  <2> QED
    BY <1>2, <2>2, <2>3 DEF Kept, Knows, Does
<1> QED
  BY <1>1, <1>2 DEF locals, Kept, TypeOK

(* What is left open by the others.                                         *)
LEMMA OpenedStays ==
    ASSUME Opened, NEW p \in Procs, pc[p] = "write", pc'[p] # "write",
           \A q \in Procs \ {p} : pc'[q] = pc[q], unlinked' = unlinked \ {p},
           file' # Absent \/ file' = file, unlinked \subseteq Procs
    PROVE  Opened'
  BY DEF Opened

(* A write that completes makes its entries known, and reports.             *)
LEMMA WriteStep == ASSUME Kept, NEW p \in Procs, Write(p) PROVE Kept'
<1>1. PICK entries \in Changed(p, mem[p]) :
         IF p \in unlinked THEN UNCHANGED <<file, known, mixed>>
         ELSE Fills(entries) /\ known' = known \cup ToSet(entries)
  BY DEF Write
<1> DEFINE name == job[p].name
           beside == \E q \in Procs \ {p} : Overlaps(q)
<1>2. /\ pc[p] = "write" /\ UNCHANGED <<marker, ledgers>> /\ unlinked' = unlinked \ {p}
      /\ acked' = (acked \cup {n \in {name} : Does(p, Reports)})
                   \ {n \in {name} : Does(p, {"remove"})}
      /\ exposed' = IF file' = Torn THEN acked'
                     ELSE IF p \in unlinked \/ beside THEN exposed \cup {name}
                     ELSE exposed \ {n \in {name} : Does(p, Reports)}
  BY DEF Write
<1>3. /\ entries \in Seq(EntryType)
      /\ ~mixed => \A m, n \in DOMAIN entries : entries[m].name = entries[n].name => m = n
      /\ \A n \in DOMAIN entries : entries[n].path \in Paths
      /\ ~Does(p, Registers) => Names(entries) = Names(mem[p]) \ {name}
      /\ Does(p, Registers) => Names(entries) = Names(mem[p]) \cup {name}
  BY <1>2, ChangedFacts DEF Kept
<1>4. /\ Does(p, Registers \cup {"remove"}) /\ Safe \subseteq Names(mem[p])
      /\ ~existed[p] => Does(p, Starts) /\ Safe = {}
  BY <1>2 DEF Kept, Knows
<1> HIDE DEF name, beside
(* What is safe after the write was safe before it, or is what it reports.  *)
<1>5. /\ Safe' \subseteq Safe \cup {n \in {name} : Does(p, Reports)}
      /\ Safe' \cap {n \in {name} : Does(p, {"remove"})} = {}
      /\ p \in unlinked \/ beside => Safe' \subseteq Safe
      /\ file' = Torn => Safe' = {}
  BY <1>2 DEF Safe
<1>6. Paths' = Paths
  BY <1>2 DEF Paths
<1>7. ASSUME p \in unlinked, \A q \in Procs \ {p} : pc[q] = "write" => q \in unlinked'
      PROVE  Safe' \subseteq Names(Entries')
  <2>1. UNCHANGED <<file, known, mixed>> /\ Safe' \subseteq Safe
    BY <1>1, <1>5, <1>7
  <2>2. Names(Entries') = Names(Entries)
    BY <2>1 DEF Names, Entries
  <2>3. \A q \in Procs : pc[q] = "write" => q \in unlinked
    BY <1>2, <1>7
  <2> QED
    BY <2>1, <2>2, <2>3 DEF Kept, Held
<1>8. ASSUME p \notin unlinked
      PROVE  Safe' \subseteq Names(Entries')
  <2>1. Fills(entries) /\ known' = known \cup ToSet(entries)
    BY <1>1, <1>8
  <2>2. \A n \in DOMAIN entries : entries[n] \in known'
    BY <2>1 DEF ToSet
  <2>3. /\ file' \in {Torn} \cup Seq(EntryType) /\ Sound(Entries)' /\ (mixed => mixed')
        /\ file' # Torn => Names(entries) \subseteq Names(Entries')
    BY <1>3, <1>6, <2>1, <2>2, FillFacts DEF Kept
  <2>4. Safe' \subseteq Names(entries)
    <3>1. CASE Does(p, Registers)
      BY <1>3, <1>4, <1>5, <3>1
    <3>2. CASE Does(p, {"remove"})
      <4>1. ~Does(p, Registers) /\ ~Does(p, Reports)
        BY <3>2 DEF Does, Registers, Reports, Starts
      <4> QED
        BY <1>3, <1>4, <1>5, <3>2, <4>1
    <3> QED
      BY <1>4, <3>1, <3>2 DEF Does
  <2> QED
    BY <1>5, <2>3, <2>4
<1>9. /\ file' \in {file, Torn} \cup Seq(EntryType) /\ Sound(Entries)'
      /\ known \subseteq known' /\ (mixed => mixed')
      /\ file' = file \/ file' # Absent
      /\ p \in unlinked => file' = file
  <2>1. Absent # Torn /\ \A s \in Seq(EntryType) : s # Absent
    BY FileFacts
  <2>2. CASE p \in unlinked
    BY <1>1, <1>6, <2>2, EntriesStay DEF Kept
  <2>3. CASE p \notin unlinked
    <3>1. \A n \in DOMAIN entries : entries[n] \in known'
      BY <1>1, <2>3 DEF ToSet
    <3>2. Fills(entries) /\ known \subseteq known'
      BY <1>1, <2>3
    <3>3. /\ file' \in {Torn} \cup Seq(EntryType) /\ Sound(Entries)' /\ (mixed => mixed')
      BY <1>3, <1>6, <3>1, <3>2, FillFacts DEF Kept
    <3> QED
      BY <2>1, <2>3, <3>2, <3>3
  <2> QED
    BY <2>2, <2>3
<1>10. ~existed[p] => Safe' = {}
  <2>1. Does(p, Starts) => ~Does(p, Reports)
    BY DEF Does, Starts, Reports
  <2> QED
    BY <1>4, <1>5, <2>1
<1>11. /\ pc' \in [Procs -> Phases] /\ job' \in [Procs -> JobType]
       /\ mem' \in [Procs -> Seq(EntryType)] /\ to' \in [Procs -> Words]
       /\ existed' \in [Procs -> BOOLEAN]
       /\ pc'[p] # "write" /\ Knows(p)'
       /\ \A q \in Procs \ {p} : /\ pc'[q] = pc[q] /\ job'[q] = job[q]
                                 /\ mem'[q] = mem[q] /\ to'[q] = to[q]
                                 /\ existed'[q] = existed[q]
  <2>1. \/ Done(p)
        \/ (\E next \in {"track", "mark", "unmake"} :
               /\ At(p, "write", next) /\ (next = "mark" \/ Does(p, Starts)))
           /\ UNCHANGED locals
    BY DEF Write
  <2> QED
    BY <1>10, <2>1, Leaving
<1>12. TypeOK'
  BY <1>2, <1>9, <1>11 DEF Kept, TypeOK
<1>13. Aside(p)
  BY <1>5, <1>6, <1>9, <1>11 DEF Aside, beside
<1>14. Opened'
  BY <1>2, <1>9, <1>11, OpenedStays DEF Kept, TypeOK
<1>15. Held'
  <2>1. SUFFICES ASSUME \A q \in Procs : pc'[q] = "write" => q \in unlinked'
                 PROVE  Safe' \subseteq Names(Entries')
    BY DEF Held, Names
  <2>2. \A q \in Procs \ {p} : pc[q] = "write" => q \in unlinked'
    BY <1>11, <2>1
  <2> QED
    BY <1>7, <1>8, <2>2
<1> QED
  BY <1>9, <1>11, <1>12, <1>13, <1>14, <1>15, KeptBy

(* What is left of a write that fails is known already, or no registry.     *)
LEMMA WriteFailsStep == ASSUME Kept, NEW p \in Procs, WriteFails(p) PROVE Kept'
<1>1. /\ pc[p] = "write" /\ unlinked' = unlinked \ {p}
      /\ UNCHANGED <<marker, ledgers, known, acked>>
      /\ IF p \in unlinked THEN UNCHANGED <<file, mixed, exposed>>
         ELSE /\ \/ file' \in {file, Torn} /\ UNCHANGED mixed
                 \/ \E entries \in Changed(p, mem[p]) : \E n \in 1 .. (Len(entries) - 1) :
                       Fills(SubSeq(entries, 1, n))
              /\ exposed' = acked
  BY DEF WriteFails
<1>2. Paths' = Paths /\ known' = known
  BY <1>1 DEF Paths
<1>3. /\ file' \in {file, Torn} \cup Seq(EntryType) /\ Sound(Entries)' /\ (mixed => mixed')
  <2>1. CASE file' = file /\ UNCHANGED mixed
    BY <1>2, <2>1, EntriesStay DEF Kept
  <2>2. CASE file' = Torn /\ UNCHANGED mixed
    BY <2>2 DEF Entries, Sound
  <2>3. ASSUME NEW entries \in Changed(p, mem[p]), NEW n \in 1 .. (Len(entries) - 1),
               Fills(SubSeq(entries, 1, n))
        PROVE  /\ file' \in {Torn} \cup Seq(EntryType) /\ Sound(Entries)' /\ (mixed => mixed')
    <3> DEFINE part == SubSeq(entries, 1, n)
    <3>1. /\ entries \in Seq(EntryType)
          /\ ~mixed => \A i, j \in DOMAIN entries : entries[i].name = entries[j].name => i = j
          /\ \A i \in DOMAIN entries : entries[i].path \in Paths
          /\ \A i \in DOMAIN entries : i < Len(entries) => entries[i] \in known
      BY <1>1, ChangedFacts DEF Kept
    <3>2. /\ part \in Seq(EntryType) /\ DOMAIN part = 1 .. n
          /\ \A i \in 1 .. n : part[i] = entries[i]
      BY <3>1
    <3>3. \A i \in 1 .. n : i \in DOMAIN entries /\ i < Len(entries)
      BY <3>1
    <3>4. /\ ~mixed => \A i, j \in DOMAIN part : part[i].name = part[j].name => i = j
          /\ \A i \in DOMAIN part : part[i].path \in Paths /\ part[i] \in known'
      BY <1>2, <3>1, <3>2, <3>3
    <3> HIDE DEF part
    <3>5. Fills(part)
      BY <2>3 DEF part
    <3> QED
      BY <1>2, <3>2, <3>4, <3>5, FillFacts DEF Kept
  <2> QED
    BY <1>1, <2>1, <2>2, <2>3
<1>4. /\ Safe' \subseteq Safe
      /\ p \notin unlinked => Safe' = {}
      /\ p \in unlinked => file' = file
  BY <1>1 DEF Safe
<1>5. ~existed[p] => Safe' = {}
  <2>1. ~existed[p] => Safe = {}
    BY DEF Kept, Knows
  <2> QED
    BY <1>4, <2>1
<1>6. /\ pc' \in [Procs -> Phases] /\ job' \in [Procs -> JobType]
      /\ mem' \in [Procs -> Seq(EntryType)] /\ to' \in [Procs -> Words]
      /\ existed' \in [Procs -> BOOLEAN]
      /\ pc'[p] # "write" /\ Knows(p)'
      /\ \A q \in Procs \ {p} : /\ pc'[q] = pc[q] /\ job'[q] = job[q]
                                /\ mem'[q] = mem[q] /\ to'[q] = to[q]
                                /\ existed'[q] = existed[q]
  BY <1>5, Leaving DEF WriteFails
<1>7. TypeOK'
  BY <1>1, <1>3, <1>6 DEF Kept, TypeOK
<1>8. Aside(p)
  BY <1>2, <1>3, <1>4, <1>6 DEF Aside
<1>9. Opened'
  <2>1. file' # Absent \/ file' = file
    BY <1>3, FileFacts
  <2> QED
    BY <1>1, <1>6, <2>1, OpenedStays DEF Kept, TypeOK
<1>10. Held'
  <2>1. CASE p \notin unlinked
    BY <1>4, <2>1 DEF Held
  <2>2. CASE p \in unlinked
    <3>1. (\A q \in Procs : pc'[q] = "write" => q \in unlinked')
            => \A q \in Procs : pc[q] = "write" => q \in unlinked
      BY <1>1, <1>6, <2>2
    <3> QED
      BY <1>4, <2>2, <3>1 DEF Kept, Held, Names, Entries
  <2> QED
    BY <2>1, <2>2
<1> QED
  BY <1>3, <1>6, <1>7, <1>8, <1>9, <1>10, KeptBy

(* An init takes back only what it may have brought about.                  *)
LEMMA RemoveRegistryStep == ASSUME Kept, NEW p \in Procs, RemoveRegistry(p) PROVE Kept'
<1>1. /\ pc[p] = "unregister" /\ Done(p) /\ file' = Absent
      /\ unlinked' = {q \in Procs : pc[q] = "write"}
      /\ UNCHANGED <<marker, ledgers, told>>
  BY DEF RemoveRegistry
<1>2. Safe = {} /\ Safe' = {}
  BY <1>1 DEF Kept, Knows, Safe, told
<1>3. pc'[p] = "idle" /\ job'[p] = NoJob /\ existed'[p] = TRUE
  BY <1>1, DoneFacts DEF Kept
<1>4. TypeOK'
  BY <1>1, DoneFacts DEF Kept, TypeOK
<1>5. Aside(p)
  BY <1>1, <1>2, DoneFacts DEF Kept, Aside, told, Paths
<1>6. Knows(p)'
  BY <1>3 DEF Knows, Does, NoJob, Starts
<1>7. Sound(Entries)'
  BY <1>1 DEF Entries, Sound
<1>8. Opened' /\ Held'
  BY <1>1, <1>2, <1>3, DoneFacts DEF Kept, Opened, Held
<1> QED
  BY <1>4, <1>5, <1>6, <1>7, <1>8, KeptBy

-----------------------------------------------------------------------------
(* The choice of a ledger.                                                  *)

LEMMA ChooseStep == ASSUME Kept, NEW p \in Procs, Choose(p) PROVE Kept'
<1>0. UNCHANGED <<disk, told>> /\ pc[p] # "write"
  BY DEF Choose, At
<1>1. CASE Done(p)
  BY <1>0, <1>1, QuitStep DEF disk, told, Kept, TypeOK, Paths
<1>2. ASSUME NEW next \in {"open", "named?", "marked?", "first?"}, At(p, "choose", next),
             next = "open" => job[p].path # NoName, next = "first?" => job[p].name = NoName,
             job' \in {job, [job EXCEPT ![p].name = marker]}, next = "first?" => job' = job,
             UNCHANGED <<mem, to, existed>>
      PROVE  Kept'
  <2>1. /\ job' \in [Procs -> JobType] /\ \A q \in Procs \ {p} : job'[q] = job[q]
        /\ job'[p].cmd = job[p].cmd /\ job'[p].path = job[p].path
    <3>1. marker \in Words /\ job \in [Procs -> JobType]
      BY DEF Kept, TypeOK
    <3>2. CASE job' = job
      BY <3>1, <3>2
    <3>3. CASE job' = [job EXCEPT ![p].name = marker]
      BY <3>1, <3>3 DEF JobType
    <3> QED
      BY <1>2, <3>2, <3>3
  <2>2. pc[p] = "choose" /\ pc'[p] = next
    BY <1>2 DEF At, Kept, TypeOK
  <2>3. Knows(p)'
    BY <1>0, <1>2, <2>1, <2>2 DEF Kept, Knows, Targeted, Does, told, Safe
  <2> QED
    BY <1>0, <1>2, <2>1, <2>3, GoesOn DEF disk, told, Kept, TypeOK, Phases, Paths
<1> QED
  BY <1>1, <1>2 DEF Choose, locals

(* A choice of a ledger that was registered under the name asked for, or by *)
(* no name.                                                                 *)
LEMMA ChoiceStep ==
    ASSUME Kept, NEW p \in Procs, NEW here \in {"named?", "marked?", "first?"}, NEW paths,
           Choice(p, here, paths), UNCHANGED <<disk, told>>,
           \A path \in paths : /\ path \in Words
                               /\ job[p].name # NoName => Entry(job[p].name, path) \in known
    PROVE  Kept'
<1>1. /\ At(p, here, "open") /\ UNCHANGED <<job, mem, existed>>
  BY DEF Choice
<1>2. PICK path \in paths : to' = [to EXCEPT ![p] = path]
  BY DEF Choice
<1>3. /\ to' \in [Procs -> Words] /\ to'[p] = path
      /\ \A q \in Procs \ {p} : to'[q] = to[q]
  BY <1>2 DEF Kept, TypeOK
<1>4. pc[p] = here /\ pc'[p] = "open"
  BY <1>1 DEF At, Kept, TypeOK
<1>5. ~Does(p, Starts)
  BY <1>4 DEF Kept, Knows, Does, Starts
<1>6. Knows(p)'
  BY <1>1, <1>3, <1>4, <1>5 DEF Kept, Knows, Targeted, Does, told, Safe
<1> QED
  BY <1>1, <1>3, <1>6, GoesOn DEF disk, told, Kept, TypeOK, Phases, Paths

LEMMA ByStep ==
    ASSUME Kept, NEW p \in Procs, ByName(p) \/ ByMarker(p) \/ ByDefault(p)
    PROVE  Kept'
<1>0. UNCHANGED <<disk, told>> /\ pc[p] # "write"
  BY DEF ByName, ByMarker, ByDefault, Choice, At
<1>1. CASE Done(p)
  BY <1>0, <1>1, QuitStep DEF disk, told, Kept, TypeOK, Paths
<1>2. ASSUME NEW here \in {"named?", "marked?", "first?"}, Choice(p, here, PathsOf(Entries, job[p].name))
      PROVE  Kept'
  BY <1>0, <1>2, PathFound, ChoiceStep DEF Kept
<1>3. CASE /\ At(p, "marked?", "first?") /\ job' = [job EXCEPT ![p].name = NoName]
           /\ UNCHANGED <<mem, to, existed>>
  <2>1. /\ job' \in [Procs -> JobType] /\ \A q \in Procs \ {p} : job'[q] = job[q]
        /\ job'[p].name = NoName /\ job'[p].cmd = job[p].cmd
    BY <1>3, WordFacts DEF Kept, TypeOK, JobType
  <2>2. pc[p] = "marked?" /\ pc'[p] = "first?"
    BY <1>3 DEF At, Kept, TypeOK, Phases
  <2>3. Knows(p)'
    BY <1>0, <1>3, <2>1, <2>2 DEF Kept, Knows, Does, told, Safe
  <2> QED
    BY <1>0, <1>3, <2>1, <2>2, <2>3, GoesOn DEF disk, told, Kept, TypeOK, Phases, Paths
<1>4. CASE ByDefault(p)
  <2>1. job[p].name = NoName
    BY <1>4 DEF ByDefault, Choice, At, Kept, Knows
  <2>2. CASE Entries # <<>> /\ Choice(p, "first?", {Head(Entries).path})
    <3>1. ASSUME NEW s \in Seq(EntryType), s # <<>> PROVE Head(s).path \in Words
      <4>1. Head(s) \in EntryType
        BY <3>1
      <4> QED
        BY <4>1 DEF EntryType
    <3>2. Head(Entries).path \in Words
      BY <2>2, <3>1, EntriesFacts DEF Kept
    <3> QED
      BY <1>0, <2>1, <2>2, <3>2, ChoiceStep
  <2>3. CASE Choice(p, "first?", {Default})
    BY <1>0, <2>1, <2>3, ChoiceStep, WordFacts
  <2> QED
    BY <1>4, <2>2, <2>3 DEF ByDefault
<1> QED
  BY <1>1, <1>2, <1>3, <1>4 DEF ByName, ByMarker

-----------------------------------------------------------------------------

LEMMA InitKept == Init => Kept
<1> SUFFICES ASSUME Init PROVE Kept
  OBVIOUS
<1>1. <<>> \in Seq(EntryType) /\ "idle" \in Phases
  BY DEF Phases
<1>2. TypeOK
  BY <1>1, WordFacts DEF Init, TypeOK
<1>3. Sound(Entries) /\ Opened /\ Held
  BY DEF Init, Sound, Entries, Opened, Held, Safe
<1>4. \A p \in Procs : Knows(p)
  BY IdleKnows DEF Init
<1> QED
  BY <1>2, <1>3, <1>4 DEF Kept

LEMMA KeptStep == ASSUME Kept, [Next]_vars PROVE Kept'
<1>1. CASE UNCHANGED vars
  <2>1. Sound(Entries)' /\ TypeOK' /\ Opened' /\ Held'
    BY <1>1 DEF vars, disk, told, locals, Kept, Sound, Entries, Paths, Names, TypeOK, Opened,
                Held, Safe
  <2>2. ASSUME NEW p \in Procs PROVE Knows(p)'
    BY <1>1 DEF vars, disk, told, locals, Kept, Knows, Does, Sound, Names, Paths, Targeted, Safe
  <2> QED
    BY <2>1, <2>2 DEF Kept
<1>2. ASSUME NEW p \in Procs,
             \/ Call(p) \/ Archive(p) \/ RemoveMarker(p) \/ CheckRun(p) \/ MakeLedger(p)
             \/ Load(p) \/ Truncate(p) \/ Write(p) \/ WriteFails(p) \/ Mark(p)
             \/ Track(p) \/ InitFails(p) \/ RemoveLedger(p) \/ RemoveRegistry(p)
             \/ Choose(p) \/ ByName(p) \/ ByMarker(p) \/ ByDefault(p)
      PROVE  Kept'
  BY <1>2, CallStep, MakeStep, LoadStep, TruncateStep, WriteStep, WriteFailsStep,
     RemoveRegistryStep, MarkStep, ChooseStep, ByStep
<1>3. ASSUME NEW p \in Procs, AppendEntry(p) \/ Kill(p)
      PROVE  Kept'
  BY <1>3, QuitStep DEF AppendEntry, Kill, disk, told, Kept, TypeOK, Paths
<1> QED
  BY <1>1, <1>2, <1>3 DEF Next

LEMMA AlwaysKept == Spec => []Kept
<1>1. Init => Kept
  BY InitKept
<1>2. Kept /\ [Next]_vars => Kept'
  BY KeptStep
<1> QED
  BY <1>1, <1>2, PTL DEF Spec

(* Whichever commands overlap, fail, are killed or are taken back, a name   *)
(* is registered for a ledger that is there, and once, unless a write ended *)
(* in the rest of another.                                                  *)
THEOREM NamesUnique == Spec => []RegisteredOnce
<1>1. Kept => RegisteredOnce
  BY DEF Kept, Sound, Paths, RegisteredOnce
<1> QED
  BY <1>1, AlwaysKept, PTL

(* What a create or an import reported is found in the registry, whoever    *)
(* rewrites it or takes it back, unless it was registered beside a command  *)
(* that had read the registry before, or a write failed or was read half    *)
(* way.                                                                     *)
THEOREM ReportsKept == Spec => []ReportedStays
<1>1. Kept => ReportedStays
  BY DEF Kept, Held, Safe, ReportedStays
<1> QED
  BY <1>1, AlwaysKept, PTL

(* A command goes on with the ledger the user named, never with another:    *)
(* a registry that another command is rewriting, or has torn, hides a name  *)
(* and never misleads.                                                      *)
THEOREM NamedWritten == Spec => []NamedIsWritten
<1>1. Kept => NamedIsWritten
  BY DEF Kept, Knows, NamedIsWritten
<1> QED
  BY <1>1, AlwaysKept, PTL
=============================================================================
