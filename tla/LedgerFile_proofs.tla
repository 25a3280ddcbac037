-------------------------- MODULE LedgerFile_proofs --------------------------
(***************************************************************************)
(* Whatever processes append to one ledger file at once, are killed or fail *)
(* to write, the file is one chain that only grows, and what any of them    *)
(* remembers or was promised of it is there: for every number of processes, *)
(* every set of bodies, every hash and every length.                        *)
(***************************************************************************)
EXTENDS LedgerFile, SequenceTheorems, TLAPS

IsSeq(s) == s \in Seq(ToSet(s))

TypeOK ==
    /\ IsSeq(pieces) /\ pieces # <<>>
    /\ ends \subseteq DOMAIN pieces
    /\ holder \in Procs \cup {NoProc}
    /\ pc \in [Procs -> {"closed", "ready", "wait", "held", "json", "newline"}]
    /\ DOMAIN mem = Procs /\ \A p \in Procs : IsSeq(mem[p])
    /\ DOMAIN base = Procs
    /\ body \in [Procs -> Bodies]
    /\ damaged \in BOOLEAN

(* One process at a time is between its lock and its unlock.                *)
LockKept ==
    \A p \in Procs : pc[p] \in {"held", "json", "newline"} <=> holder = p

(* An append is built on the file as it is: no other has written since it   *)
(* was read, and it parsed then.                                            *)
BuiltOnFile ==
    \A p \in Procs :
        /\ pc[p] = "json" => base[p] = pieces /\ Readable
        /\ pc[p] = "newline" =>
              /\ IsSeq(base[p]) /\ base[p] # <<>>
              /\ pieces = Append(base[p], NewEntry(p))

(* Only the end of the file can be cut, and the genesis is not.             *)
CutLast ==
    /\ pieces[1] # Torn
    /\ \A n \in DOMAIN pieces : pieces[n] = Torn => n = Len(pieces)

ChainKept ==
    \A n \in DOMAIN pieces :
        pieces[n] # Torn =>
            /\ pieces[n].seq = n - 1
            /\ n > 1 => pieces[n].prev = pieces[n - 1].hash

(* Without damage only an append at work leaves a line without its end.     *)
LinesKept ==
    ~damaged =>
        \A n \in DOMAIN pieces :
            /\ pieces[n] # Torn
            /\ n \in ends \/ (n = Len(pieces) /\ \E p \in Procs : pc[p] = "newline")

MemoryKept ==
    \A p \in Procs :
        /\ Len(mem[p]) <= Len(pieces)
        /\ \A n \in DOMAIN mem[p] : mem[p][n] = pieces[n] /\ mem[p][n] # Torn

AckedKept ==
    \A e \in acked :
        /\ e # Torn
        /\ e.seq + 1 \in DOMAIN pieces /\ pieces[e.seq + 1] = e

Lawful ==
    /\ TypeOK /\ LockKept /\ BuiltOnFile /\ CutLast /\ ChainKept /\ LinesKept
    /\ MemoryKept /\ AckedKept
-----------------------------------------------------------------------------
(* Sequences.                                                               *)

LEMMA SeqOfOwn ==
    ASSUME NEW S, NEW s \in Seq(S)
    PROVE  IsSeq(s)
<1>1. Len(s) \in Nat /\ s \in [1 .. Len(s) -> S] /\ DOMAIN s = 1 .. Len(s)
  BY LenProperties
<1>2. s \in [1 .. Len(s) -> ToSet(s)]
  BY <1>1 DEF ToSet
<1> QED
  BY <1>1, <1>2, SeqDef DEF IsSeq

LEMMA SeqFacts ==
    ASSUME NEW s, IsSeq(s)
    PROVE  /\ Len(s) \in Nat /\ DOMAIN s = 1 .. Len(s)
           /\ s # <<>> => Len(s) > 0 /\ Len(s) \in DOMAIN s
<1>1. Len(s) \in Nat /\ DOMAIN s = 1 .. Len(s)
  BY LenProperties DEF IsSeq
<1>2. s # <<>> => Len(s) \in Nat \ {0}
  BY EmptySeq DEF IsSeq
<1> QED
  BY <1>1, <1>2

LEMMA AppendFacts ==
    ASSUME NEW s, IsSeq(s), NEW x
    PROVE  /\ IsSeq(Append(s, x)) /\ Append(s, x) # <<>>
           /\ Len(Append(s, x)) = Len(s) + 1
           /\ DOMAIN Append(s, x) = 1 .. Len(s) + 1
           /\ \A n \in DOMAIN s : Append(s, x)[n] = s[n]
           /\ Append(s, x)[Len(s) + 1] = x
           /\ SubSeq(Append(s, x), 1, Len(s)) = s
<1> DEFINE S == ToSet(s) \cup {x}
           t == Append(s, x)
<1>1. Len(s) \in Nat /\ DOMAIN s = 1 .. Len(s)
  BY SeqFacts
<1>2. s \in Seq(S)
  BY SeqMonotonic DEF IsSeq
<1>3. /\ t \in Seq(S) /\ t # <<>> /\ Len(t) = Len(s) + 1
      /\ \A n \in 1 .. Len(s) : t[n] = s[n]
      /\ t[Len(s) + 1] = x
  BY <1>2, AppendProperties
<1>4. IsSeq(t)
  BY <1>3, SeqOfOwn
<1>5. DOMAIN t = 1 .. Len(s) + 1
  BY <1>3, <1>4, SeqFacts
<1>6. SubSeq(t, 1, Len(s)) = s
  <2>1. \A n \in 1 .. Len(s) : t[n] \in S
    BY <1>2, <1>3, ElementOfSeq
  <2>2. /\ SubSeq(t, 1, Len(s)) \in Seq(S)
        /\ Len(SubSeq(t, 1, Len(s))) = IF 1 <= Len(s) THEN Len(s) - 1 + 1 ELSE 0
        /\ \A n \in 1 .. Len(s) - 1 + 1 : SubSeq(t, 1, Len(s))[n] = t[1 + n - 1]
    BY <1>1, <2>1, SubSeqProperties
  <2>3. /\ Len(SubSeq(t, 1, Len(s))) = Len(s)
        /\ \A n \in 1 .. Len(s) : SubSeq(t, 1, Len(s))[n] = s[n]
    BY <1>1, <1>3, <2>2
  <2> QED
    BY <1>2, <2>2, <2>3, SeqEqual
<1> QED
  BY <1>1, <1>3, <1>4, <1>5, <1>6

(* All but the last.                                                        *)
LEMMA FrontFacts ==
    ASSUME NEW s, IsSeq(s), s # <<>>
    PROVE  LET f == SubSeq(s, 1, Len(s) - 1) IN
           /\ IsSeq(f) /\ Len(f) = Len(s) - 1
           /\ DOMAIN f = 1 .. Len(s) - 1
           /\ \A n \in DOMAIN f : f[n] = s[n]
<1> DEFINE f == SubSeq(s, 1, Len(s) - 1)
<1>1. Len(s) \in Nat /\ DOMAIN s = 1 .. Len(s) /\ Len(s) > 0
  BY SeqFacts
<1>2. \A n \in 1 .. Len(s) - 1 : s[n] \in ToSet(s)
  BY <1>1 DEF ToSet
<1>3. /\ f \in Seq(ToSet(s))
      /\ Len(f) = IF 1 <= Len(s) - 1 THEN Len(s) - 1 - 1 + 1 ELSE 0
      /\ \A n \in 1 .. Len(s) - 1 - 1 + 1 : f[n] = s[1 + n - 1]
  BY <1>1, <1>2, SubSeqProperties
<1>4. Len(f) = Len(s) - 1 /\ \A n \in 1 .. Len(s) - 1 : f[n] = s[n]
  BY <1>1, <1>3
<1>5. IsSeq(f)
  BY <1>3, SeqOfOwn
<1>6. DOMAIN f = 1 .. Len(s) - 1
  BY <1>4, <1>5, SeqFacts
<1> QED
  BY <1>4, <1>5, <1>6

LEMMA PrefixByPlace ==
    ASSUME NEW s, IsSeq(s), NEW t, IsSeq(t), Len(s) <= Len(t),
           \A n \in DOMAIN s : s[n] = t[n]
    PROVE  IsPrefix(s, t)
<1> DEFINE S == ToSet(s)
<1>1. Len(s) \in Nat /\ DOMAIN s = 1 .. Len(s)
  BY SeqFacts
<1>2. \A n \in 1 .. Len(s) : s[n] \in S /\ t[n] \in S
  BY <1>1 DEF ToSet
<1>3. /\ SubSeq(t, 1, Len(s)) \in Seq(S)
      /\ Len(SubSeq(t, 1, Len(s))) = IF 1 <= Len(s) THEN Len(s) - 1 + 1 ELSE 0
      /\ \A n \in 1 .. Len(s) - 1 + 1 : SubSeq(t, 1, Len(s))[n] = t[1 + n - 1]
  BY <1>1, <1>2, SubSeqProperties
<1>4. Len(SubSeq(t, 1, Len(s))) = Len(s)
  BY <1>1, <1>3
<1>5. \A n \in 1 .. Len(s) : SubSeq(t, 1, Len(s))[n] = s[n]
  BY <1>1, <1>3
<1>6. SubSeq(t, 1, Len(s)) = s
  BY <1>3, <1>4, <1>5, SeqEqual DEF IsSeq
<1>7. SubSeq(s, 1, Len(s)) = s
  BY SubSeqFull DEF IsSeq
<1> QED
  BY <1>6, <1>7 DEF IsPrefix
-----------------------------------------------------------------------------
(* Entries, and what an append adds.                                        *)

LEMMA EntryWhole ==
    ASSUME NEW seq, NEW prev, NEW b
    PROVE  EL!Make(seq, prev, b) # Torn
<1>1. "seq" \in DOMAIN EL!Make(seq, prev, b)
  BY DEF EL!Make
<1>2. "seq" \notin DOMAIN Torn
  BY DEF Torn
<1> QED
  BY <1>1, <1>2

LEMMA NewEntryFacts ==
    ASSUME NEW p \in Procs
    PROVE  /\ NewEntry(p) # Torn
           /\ NewEntry(p).seq = base[p][Len(base[p])].seq + 1
           /\ NewEntry(p).prev = base[p][Len(base[p])].hash
<1>1. NewEntry(p) =
        EL!Make(base[p][Len(base[p])].seq + 1, base[p][Len(base[p])].hash, body[p])
  BY DEF NewEntry, EL!Successor
<1> QED
  BY <1>1, EntryWhole DEF EL!Make

LEMMA PieceFacts ==
    ASSUME TypeOK
    PROVE  /\ Len(pieces) \in Nat /\ DOMAIN pieces = 1 .. Len(pieces)
           /\ Len(pieces) > 0
           /\ 1 \in DOMAIN pieces /\ Len(pieces) \in DOMAIN pieces
  BY SeqFacts DEF TypeOK

(* What a write adds to the file.                                           *)
LEMMA PutFacts ==
    ASSUME TypeOK, NEW x, Put(x)
    PROVE  /\ IsSeq(pieces') /\ pieces' # <<>>
           /\ Len(pieces') = Len(pieces) + 1
           /\ DOMAIN pieces' = 1 .. Len(pieces) + 1
           /\ \A n \in DOMAIN pieces : pieces'[n] = pieces[n]
           /\ pieces'[Len(pieces) + 1] = x
           /\ ends' = ends
  BY AppendFacts DEF TypeOK, Put

(* The steps of one process.                                                *)
Does(p) ==
    \/ AppendStep(p) \/ Open(p) \/ Reload(p) \/ CallAppend(p) \/ Close(p)
    \/ WriteFails(p) \/ Kill(p)

(* The file changes only by a write of the process that appends, on top of  *)
(* what it has read.                                                        *)
LEMMA FileSteps ==
    ASSUME Lawful, NEW p \in Procs,
           Does(p)
    PROVE  \/ UNCHANGED <<pieces, ends>> /\ damaged' \in {damaged, TRUE}
           \/ pc[p] = "newline" /\ WriteNewline(p)
           \/ pc[p] = "json" /\ WriteJson(p)
           \/ pc[p] = "json" /\ Put(Torn) /\ damaged' = TRUE /\ pc'[p] \in {"ready", "closed"}
  BY DEF Does, AppendStep, Open, Reload, CallAppend, Close, WriteFails, Kill, Lock,
         LockTimeout, Reread, WriteJson, WriteNewline, Interrupted, file, Goto,
         Lawful, TypeOK
-----------------------------------------------------------------------------
(* The invariant holds at first, and each conjunct is kept by every step.   *)

LEMMA InitLawful == Init => Lawful
<1> SUFFICES ASSUME Init PROVE Lawful
  OBVIOUS
<1> DEFINE g == EL!GenesisEntry
<1>1. /\ pieces = <<g>> /\ Len(pieces) = 1 /\ DOMAIN pieces = {1} /\ pieces[1] = g
      /\ pieces # <<>>
  BY DEF Init
<1>2. IsSeq(pieces) /\ IsSeq(<<>>)
  BY <1>1, SeqOfOwn, pieces \in Seq({g}), EmptySeq
<1>3. g # Torn /\ g.seq = 0
  BY EntryWhole DEF EL!GenesisEntry, EL!Make
<1>4. TypeOK
  BY <1>1, <1>2 DEF Init, TypeOK
<1>5. LockKept /\ BuiltOnFile
  BY ProcsAssumption DEF Init, LockKept, BuiltOnFile
<1>6. CutLast /\ ChainKept /\ LinesKept
  BY <1>1, <1>3 DEF Init, CutLast, ChainKept, LinesKept
<1>7. MemoryKept /\ AckedKept
  <2>1. Len(<<>>) = 0 /\ DOMAIN <<>> = {}
    OBVIOUS
  <2> QED
    BY <1>1, <2>1 DEF Init, MemoryKept, AckedKept
<1> QED
  BY <1>4, <1>5, <1>6, <1>7 DEF Lawful

LEMMA TypeKept ==
    ASSUME Lawful, NEW p \in Procs, Does(p)
    PROVE  TypeOK'
<1> USE DEF Lawful
<1>1. IsSeq(pieces') /\ pieces' # <<>> /\ ends' \subseteq DOMAIN pieces' /\ damaged' \in BOOLEAN
  <2>1. CASE UNCHANGED <<pieces, ends>> /\ damaged' \in {damaged, TRUE}
    BY <2>1 DEF TypeOK
  <2>2. CASE WriteNewline(p)
    BY <2>2, PieceFacts DEF TypeOK, WriteNewline
  <2>3. CASE WriteJson(p) \/ (Put(Torn) /\ damaged' = TRUE)
    <3>1. PICK x : Put(x) /\ damaged' \in {damaged, TRUE}
      BY <2>3 DEF WriteJson
    <3>2. /\ IsSeq(pieces') /\ pieces' # <<>> /\ ends' = ends
          /\ DOMAIN pieces' = 1 .. Len(pieces) + 1
      BY <3>1, PutFacts
    <3>3. ends \subseteq 1 .. Len(pieces) /\ Len(pieces) \in Nat /\ damaged \in BOOLEAN
      BY PieceFacts DEF TypeOK
    <3>4. ends' \subseteq DOMAIN pieces'
      BY <3>2, <3>3
    <3>5. damaged' \in BOOLEAN
      BY <3>1, <3>3
    <3> QED
      BY <3>2, <3>4, <3>5
  <2> QED
    BY <2>1, <2>2, <2>3, FileSteps DEF Does
<1>2. /\ holder' \in Procs \cup {NoProc}
      /\ pc' \in [Procs -> {"closed", "ready", "wait", "held", "json", "newline"}]
      /\ DOMAIN mem' = Procs /\ DOMAIN base' = Procs
      /\ body' \in [Procs -> Bodies]
  BY DEF Does, TypeOK, AppendStep, Open, Reload, CallAppend, Close, WriteFails,
         Kill, Lock, LockTimeout, Reread, WriteJson, WriteNewline, Goto
<1>3. ASSUME NEW q \in Procs PROVE IsSeq(mem'[q])
  <2>1. IsSeq(<<>>)
    BY EmptySeq, SeqOfOwn
  <2>2. mem'[q] \in {mem[q], <<>>, pieces} \/ WriteNewline(p)
    BY DEF Does, TypeOK, AppendStep, Open, Reload, CallAppend, Close,
           WriteFails, Kill, Lock, LockTimeout, Reread, WriteJson
  <2>3. CASE WriteNewline(p)
    <3>1. mem'[q] \in {mem[q], Append(base[p], NewEntry(p))} /\ IsSeq(base[p])
      BY <2>3 DEF WriteNewline, BuiltOnFile, TypeOK, Goto
    <3>2. IsSeq(Append(base[p], NewEntry(p))) /\ IsSeq(mem[q])
      BY <3>1, AppendFacts DEF TypeOK
    <3> QED
      BY <3>1, <3>2
  <2> QED
    BY <2>1, <2>2, <2>3 DEF TypeOK
<1> QED
  BY <1>1, <1>2, <1>3 DEF TypeOK

LEMMA LockStep ==
    ASSUME Lawful, NEW p \in Procs, Does(p)
    PROVE  LockKept'
  BY ProcsAssumption
     DEF Lawful, Does, TypeOK, LockKept, AppendStep, Open, Reload, CallAppend,
         Close, WriteFails, Kill, Lock, LockTimeout, Reread, WriteJson,
         WriteNewline, Goto

(* The other processes are not in an append while p writes.                 *)
LEMMA OnlyWriter ==
    ASSUME Lawful, NEW p \in Procs, pc[p] \in {"held", "json", "newline"}
    PROVE  \A q \in Procs \ {p} : pc[q] \notin {"held", "json", "newline"}
  BY DEF Lawful, LockKept

LEMMA OthersStay ==
    ASSUME Lawful, NEW p \in Procs, Does(p), NEW q \in Procs, q # p
    PROVE  pc'[q] = pc[q] /\ mem'[q] = mem[q] /\ base'[q] = base[q] /\ body'[q] = body[q]
  BY DEF Lawful, Does, TypeOK, AppendStep, Open, Reload, CallAppend,
         Close, WriteFails, Kill, Lock, LockTimeout, Reread, WriteJson,
         WriteNewline, Goto

LEMMA BuildStep ==
    ASSUME Lawful, NEW p \in Procs, Does(p)
    PROVE  BuiltOnFile'
<1>1. ASSUME NEW q \in Procs \ {p}
      PROVE  /\ pc'[q] = "json" => base'[q] = pieces' /\ Readable'
             /\ pc'[q] = "newline" =>
                   /\ IsSeq(base'[q]) /\ base'[q] # <<>>
                   /\ pieces' = Append(base'[q], NewEntry(q)')
  <2>1. CASE pc[q] \in {"json", "newline"}
    <3>1. pc[p] \notin {"json", "newline"}
      BY <2>1, OnlyWriter
    <3>2. UNCHANGED <<pieces, ends>>
      BY <3>1, FileSteps DEF Does, WriteNewline, Goto
    <3> QED
      BY <2>1, <3>2, OthersStay DEF Lawful, BuiltOnFile, NewEntry, Readable
  <2>2. CASE pc[q] \notin {"json", "newline"}
    BY <2>2, OthersStay
  <2> QED
    BY <2>1, <2>2
<1>2. ASSUME pc'[p] = "json"
      PROVE  base'[p] = pieces' /\ Readable'
  BY <1>2 DEF Lawful, Does, TypeOK, AppendStep, Open, Reload, CallAppend,
         Close, WriteFails, Kill, Lock, LockTimeout, Reread, WriteJson,
         WriteNewline, Goto, Readable, file
<1>3. ASSUME pc'[p] = "newline"
      PROVE  /\ IsSeq(base'[p]) /\ base'[p] # <<>>
             /\ pieces' = Append(base'[p], NewEntry(p)')
  <2>1. WriteJson(p)
    BY <1>3 DEF Lawful, Does, TypeOK, AppendStep, Open, Reload, CallAppend,
         Close, WriteFails, Kill, Lock, LockTimeout, Reread, WriteNewline, Goto
  <2>2. base[p] = pieces /\ base' = base /\ body' = body /\ pieces' = Append(pieces, NewEntry(p))
    BY <2>1 DEF WriteJson, Lawful, BuiltOnFile, Goto, Put
  <2> QED
    BY <2>2 DEF NewEntry, Lawful, TypeOK
<1> QED
  BY <1>1, <1>2, <1>3 DEF BuiltOnFile

LEMMA CutStep ==
    ASSUME Lawful, NEW p \in Procs, Does(p)
    PROVE  CutLast'
<1>1. CASE pieces' = pieces
  BY <1>1 DEF Lawful, CutLast
<1>2. ASSUME pc[p] = "json", NEW x, Put(x)
      PROVE  CutLast'
  <2>1. /\ Len(pieces') = Len(pieces) + 1
        /\ DOMAIN pieces' = 1 .. Len(pieces) + 1
        /\ \A n \in DOMAIN pieces : pieces'[n] = pieces[n]
    BY <1>2, PutFacts DEF Lawful
  <2>2. \A n \in DOMAIN pieces : pieces[n] # Torn
    BY <1>2 DEF Lawful, BuiltOnFile, Readable
  <2> QED
    BY <2>1, <2>2, PieceFacts DEF CutLast, Lawful
<1> QED
  BY <1>1, <1>2, FileSteps DEF WriteNewline, WriteJson

LEMMA ChainStep ==
    ASSUME Lawful, NEW p \in Procs, Does(p)
    PROVE  ChainKept'
<1>1. CASE pieces' = pieces
  BY <1>1 DEF Lawful, ChainKept
<1>2. ASSUME pc[p] = "json", NEW x, Put(x), x \in {Torn, NewEntry(p)}
      PROVE  ChainKept'
  <2> DEFINE last == Len(pieces)
  <2>1. /\ DOMAIN pieces' = 1 .. last + 1
        /\ \A n \in DOMAIN pieces : pieces'[n] = pieces[n]
        /\ pieces'[last + 1] = x
    BY <1>2, PutFacts DEF Lawful
  <2>2. last \in Nat /\ last > 0 /\ DOMAIN pieces = 1 .. last
    BY PieceFacts DEF Lawful
  <2>3. /\ pieces[last] # Torn /\ pieces[last].seq = last - 1
        /\ x # Torn => x.seq = pieces[last].seq + 1 /\ x.prev = pieces[last].hash
    <3>0. base[p] = pieces /\ Readable
      BY <1>2 DEF Lawful, BuiltOnFile
    <3>1. base[p] = pieces /\ pieces[last] # Torn /\ last \in DOMAIN pieces
      BY <2>2, <3>0 DEF Readable
    <3>2. pieces[last].seq = last - 1
      BY <3>1 DEF Lawful, ChainKept
    <3>3. /\ NewEntry(p).seq = pieces[last].seq + 1
          /\ NewEntry(p).prev = pieces[last].hash
      BY <3>1, NewEntryFacts
    <3> QED
      BY <1>2, <3>1, <3>2, <3>3
  <2>4. ASSUME NEW n \in 1 .. last, pieces'[n] # Torn
        PROVE  pieces'[n].seq = n - 1 /\ (n > 1 => pieces'[n].prev = pieces'[n - 1].hash)
    <3>1. pieces'[n] = pieces[n] /\ (n > 1 => n - 1 \in 1 .. last /\ pieces'[n - 1] = pieces[n - 1])
      BY <2>1, <2>2
    <3> QED
      BY <2>2, <2>4, <3>1 DEF Lawful, ChainKept
  <2>5. ASSUME x # Torn
        PROVE  pieces'[last + 1].seq = last + 1 - 1 /\ pieces'[last + 1].prev = pieces'[last + 1 - 1].hash
    <3>1. last + 1 - 1 = last /\ last \in DOMAIN pieces /\ last - 1 + 1 = last
      BY <2>2
    <3> QED
      BY <2>1, <2>3, <2>5, <3>1
  <2> QED
    BY <2>1, <2>2, <2>4, <2>5 DEF ChainKept
<1> QED
  BY <1>1, <1>2, FileSteps DEF WriteNewline, WriteJson

LEMMA LinesStep ==
    ASSUME Lawful, NEW p \in Procs, Does(p)
    PROVE  LinesKept'
<1> SUFFICES ASSUME ~damaged', NEW n \in DOMAIN pieces'
             PROVE  /\ pieces'[n] # Torn
                    /\ \/ n \in ends'
                       \/ n = Len(pieces') /\ \E q \in Procs : pc'[q] = "newline"
  BY DEF LinesKept
<1>1. ~damaged /\ LinesKept
  BY DEF Lawful, TypeOK, Does, AppendStep, Open, Reload, CallAppend,
         Close, WriteFails, Kill, Lock, LockTimeout, Reread, WriteJson,
         WriteNewline, Interrupted, file
<1>2. CASE WriteNewline(p)
  <2>1. pieces' = pieces /\ ends' = ends \cup {Len(pieces)}
    BY <1>2 DEF WriteNewline
  <2> QED
    BY <1>1, <2>1 DEF LinesKept
<1>3. CASE WriteJson(p)
  <2>1. /\ Len(pieces') = Len(pieces) + 1 /\ ends' = ends
        /\ DOMAIN pieces' = 1 .. Len(pieces) + 1
        /\ \A m \in DOMAIN pieces : pieces'[m] = pieces[m]
        /\ pieces'[Len(pieces) + 1] = NewEntry(p)
    BY <1>3, PutFacts DEF Lawful, WriteJson
  <2>2. pc[p] = "json" /\ pc'[p] = "newline" /\ NewEntry(p) # Torn
    BY <1>3, NewEntryFacts DEF WriteJson, Goto, Lawful, TypeOK
  <2>3. \A q \in Procs : pc[q] # "newline"
    BY <2>2, OnlyWriter
  <2>4. \A m \in DOMAIN pieces : pieces[m] # Torn /\ m \in ends
    BY <1>1, <2>3 DEF LinesKept
  <2> QED
    BY <2>1, <2>2, <2>4, PieceFacts DEF Lawful
<1>4. CASE UNCHANGED <<pieces, ends>> /\ ~WriteNewline(p) /\ ~WriteJson(p)
  <2>1. ASSUME pc[p] = "newline" PROVE FALSE
    BY <1>4, <2>1 DEF Lawful, TypeOK, Does, AppendStep, Open, Reload,
         CallAppend, Close, WriteFails, Kill, Lock, LockTimeout, Reread,
         Interrupted, Goto
  <2>2. \A q \in Procs : pc[q] = "newline" => pc'[q] = "newline"
    BY <2>1, OthersStay
  <2> QED
    BY <1>1, <1>4, <2>2 DEF LinesKept
<1>5. CASE damaged' = TRUE
  BY <1>5
<1> QED
  BY <1>2, <1>3, <1>4, <1>5, FileSteps

LEMMA MemoryStep ==
    ASSUME Lawful, NEW p \in Procs, Does(p)
    PROVE  MemoryKept'
<1> DEFINE Copy(m, f) ==
        /\ Len(m) <= Len(f)
        /\ \A n \in DOMAIN m : m[n] = f[n] /\ m[n] # Torn
<1>1. ASSUME NEW q \in Procs, Copy(mem'[q], pieces)
      PROVE  Copy(mem'[q], pieces')
  <2>1. CASE pieces' = pieces
    BY <1>1, <2>1
  <2>2. ASSUME NEW x, Put(x) PROVE Copy(mem'[q], pieces')
    <3>1. /\ Len(pieces') = Len(pieces) + 1
          /\ \A n \in DOMAIN pieces : pieces'[n] = pieces[n]
      BY <2>2, PutFacts DEF Lawful
    <3>2. /\ Len(mem'[q]) \in Nat /\ DOMAIN mem'[q] = 1 .. Len(mem'[q])
          /\ Len(pieces) \in Nat /\ DOMAIN pieces = 1 .. Len(pieces)
      BY TypeKept, SeqFacts, PieceFacts DEF TypeOK, Lawful
    <3>3. Len(mem'[q]) <= Len(pieces)
      BY <1>1
    <3> QED
      BY <1>1, <3>1, <3>2, <3>3
  <2> QED
    BY <2>1, <2>2, FileSteps DEF WriteNewline, WriteJson
<1>2. ASSUME NEW q \in Procs PROVE Copy(mem'[q], pieces)
  <2>1. CASE mem'[q] = mem[q]
    BY <2>1 DEF Lawful, MemoryKept
  <2>2. CASE mem'[q] = <<>>
    <3>1. Len(<<>>) = 0 /\ DOMAIN <<>> = {}
      OBVIOUS
    <3> QED
      BY <2>2, <3>1, PieceFacts DEF Lawful
  <2>3. CASE mem'[q] = pieces /\ Readable
    BY <2>3, PieceFacts DEF Readable, Lawful
  <2>4. CASE WriteNewline(p) /\ mem'[q] = Append(base[p], NewEntry(p))
    <3> DEFINE b == base[p]
               e == NewEntry(p)
    <3>1. pieces = Append(b, e) /\ IsSeq(b) /\ e # Torn /\ mem'[q] = pieces
      BY <2>4, NewEntryFacts DEF WriteNewline, Goto, Lawful, BuiltOnFile
    <3>2. pieces[Len(pieces)] # Torn
      BY <3>1, AppendFacts
    <3>3. \A n \in DOMAIN pieces : pieces[n] # Torn
      BY <3>2 DEF Lawful, CutLast
    <3> QED
      BY <3>1, <3>3, PieceFacts DEF Lawful
  <2>5. \/ mem'[q] = mem[q] \/ mem'[q] = <<>> \/ (mem'[q] = pieces /\ Readable)
        \/ WriteNewline(p) /\ mem'[q] = Append(base[p], NewEntry(p))
    BY DEF Does, Lawful, TypeOK, AppendStep, Open, Reload, CallAppend, Close,
           WriteFails, Kill, Lock, LockTimeout, Reread, WriteJson, WriteNewline
  <2> QED
    BY <2>1, <2>2, <2>3, <2>4, <2>5
<1> QED
  BY <1>1, <1>2 DEF MemoryKept

(* What an append adds is in its place when it is acknowledged.             *)
LEMMA AckedStep ==
    ASSUME Lawful, NEW p \in Procs, Does(p)
    PROVE  AckedKept'
<1> DEFINE In(e, f) == e.seq + 1 \in DOMAIN f /\ f[e.seq + 1] = e
<1>1. ASSUME NEW e, In(e, pieces)
      PROVE  In(e, pieces')
  <2>1. CASE pieces' = pieces
    BY <1>1, <2>1
  <2>2. ASSUME NEW x, Put(x) PROVE In(e, pieces')
    BY <1>1, <2>2, PutFacts, PieceFacts DEF Lawful
  <2> QED
    BY <2>1, <2>2, FileSteps DEF WriteNewline, WriteJson
<1>2. CASE WriteNewline(p)
  <2> DEFINE e == NewEntry(p)
             b == base[p]
  <2>1. pieces = Append(b, e) /\ IsSeq(b) /\ e # Torn /\ acked' = acked \cup {e}
    BY <1>2, NewEntryFacts DEF WriteNewline, Goto, Lawful, BuiltOnFile
  <2>2. pieces[Len(pieces)] = e /\ Len(pieces) \in DOMAIN pieces /\ Len(pieces) \in Nat
    BY <2>1, AppendFacts, SeqFacts, PieceFacts DEF Lawful
  <2>3. e.seq = Len(pieces) - 1
    BY <2>1, <2>2 DEF Lawful, ChainKept
  <2>4. In(e, pieces)
    <3> HIDE DEF e
    <3>1. e.seq + 1 = Len(pieces)
      BY <2>2, <2>3
    <3> QED
      BY <2>2, <3>1
  <2>5. \A a \in acked' : a # Torn /\ In(a, pieces)
    BY <2>1, <2>4 DEF Lawful, AckedKept
  <2> QED
    BY <1>1, <2>5 DEF AckedKept
<1>3. CASE acked' = acked
  BY <1>1, <1>3 DEF Lawful, AckedKept
<1>4. WriteNewline(p) \/ acked' = acked
  BY DEF Does, AppendStep, Open, Reload, CallAppend, Close, WriteFails, Kill,
         Lock, LockTimeout, Reread, WriteJson
<1> QED
  BY <1>2, <1>3, <1>4

LEMMA NextLawful == Lawful /\ [Next]_vars => Lawful'
<1> SUFFICES ASSUME Lawful, [Next]_vars PROVE Lawful'
  OBVIOUS
<1>1. ASSUME NEW p \in Procs, Does(p) PROVE Lawful'
  BY <1>1, TypeKept, LockStep, BuildStep, CutStep, ChainStep, LinesStep,
     MemoryStep, AckedStep DEF Lawful
<1>2. CASE UNCHANGED vars
  BY <1>2 DEF vars, Lawful, TypeOK, LockKept, BuiltOnFile, CutLast, ChainKept,
              LinesKept, MemoryKept, AckedKept, Readable, NewEntry
<1> QED
  BY <1>1, <1>2 DEF Next, Does

LEMMA AlwaysLawful == Spec => []Lawful
  BY InitLawful, NextLawful, PTL DEF Spec

-----------------------------------------------------------------------------
(* What the invariant says of the file's whole objects.                     *)

LEMMA WrittenFacts ==
    ASSUME Lawful
    PROVE  /\ IsSeq(Written) /\ DOMAIN Written = 1 .. Len(Written)
           /\ Len(Written) \in Nat
           /\ \A n \in DOMAIN Written : Written[n] = pieces[n]
           /\ \A n \in DOMAIN pieces : pieces[n] # Torn => n \in DOMAIN Written
<1> DEFINE last == Len(pieces)
<1>1. last \in Nat /\ DOMAIN pieces = 1 .. last /\ last > 0 /\ pieces # <<>> /\ IsSeq(pieces)
  BY PieceFacts DEF Lawful, TypeOK
<1>2. CASE pieces[last] = Torn
  <2>1. Written = SubSeq(pieces, 1, last - 1)
    BY <1>1, <1>2 DEF Written
  <2>2. /\ IsSeq(Written) /\ Len(Written) = last - 1 /\ DOMAIN Written = 1 .. last - 1
        /\ \A n \in DOMAIN Written : Written[n] = pieces[n]
    BY <1>1, <2>1, FrontFacts
  <2>3. \A n \in DOMAIN pieces : pieces[n] # Torn => n \in 1 .. last - 1
    BY <1>1, <1>2
  <2> QED
    BY <1>1, <2>2, <2>3
<1>3. CASE pieces[last] # Torn
  <2>1. Written = pieces
    BY <1>3 DEF Written
  <2> QED
    BY <1>1, <2>1
<1> QED
  BY <1>2, <1>3

(* Between appends a file that no append was cut off in is one chain of     *)
(* whole lines: the lock is never left with a line half written, however    *)
(* the processes interleave (Ledger::append).                               *)
THEOREM FileWhole == Spec => []WholeUnlessDamaged
<1>1. Lawful => WholeUnlessDamaged
  <2> SUFFICES ASSUME Lawful, holder = NoProc, ~damaged
               PROVE  Readable /\ Len(pieces) \in ends /\ EL!Chained(pieces)
    BY DEF WholeUnlessDamaged
  <2>1. \A p \in Procs : pc[p] # "newline"
    BY ProcsAssumption DEF Lawful, LockKept
  <2>2. \A n \in DOMAIN pieces : pieces[n] # Torn /\ n \in ends
    BY <2>1 DEF Lawful, LinesKept
  <2>3. EL!Chained(pieces)
    BY <2>2 DEF Lawful, ChainKept, EL!Chained
  <2> QED
    BY <2>2, <2>3, PieceFacts DEF Lawful, Readable
<1> QED
  BY <1>1, AlwaysLawful, PTL

(* What a process remembers of the ledger may be old, never wrong           *)
(* (Ledger::entries after open, reload and append).                         *)
THEOREM MemoryNeverWrong == Spec => []MemoryIsPrefix
<1>1. Lawful => MemoryIsPrefix
  <2> SUFFICES ASSUME Lawful, NEW p \in Procs PROVE IsPrefix(mem[p], Written)
    BY DEF MemoryIsPrefix
  <2>1. IsSeq(mem[p]) /\ DOMAIN mem[p] = 1 .. Len(mem[p]) /\ Len(mem[p]) \in Nat
    BY SeqFacts DEF Lawful, TypeOK
  <2>2. \A n \in DOMAIN mem[p] : mem[p][n] = pieces[n] /\ pieces[n] # Torn /\ n \in DOMAIN pieces
    <3>1. Len(mem[p]) <= Len(pieces) /\ DOMAIN pieces = 1 .. Len(pieces) /\ Len(pieces) \in Nat
      BY PieceFacts DEF Lawful, MemoryKept
    <3> QED
      BY <2>1, <3>1 DEF Lawful, MemoryKept
  <2>3. \A n \in DOMAIN mem[p] : n \in DOMAIN Written /\ mem[p][n] = Written[n]
    BY <2>2, WrittenFacts
  <2>4. Len(mem[p]) <= Len(Written)
    <3>1. CASE Len(mem[p]) = 0
      BY <3>1, WrittenFacts
    <3>2. CASE Len(mem[p]) # 0
      <4>1. Len(mem[p]) \in DOMAIN Written
        BY <2>1, <2>3, <3>2
      <4> QED
        BY <2>1, <4>1, WrittenFacts
    <3> QED
      BY <3>1, <3>2
  <2> QED
    BY <2>1, <2>3, <2>4, WrittenFacts, PrefixByPlace
<1> QED
  BY <1>1, AlwaysLawful, PTL

(* An entry whose append returned Ok is in the file for good, at the place  *)
(* its seq names, whatever is appended, cut off or failed after it.         *)
THEOREM PromisesKept == Spec => []AcknowledgedStays
<1>1. Lawful => AcknowledgedStays
  <2> SUFFICES ASSUME Lawful, NEW e \in acked
               PROVE  e.seq + 1 \in DOMAIN Written /\ Written[e.seq + 1] = e
    BY DEF AcknowledgedStays
  <2>1. e # Torn /\ e.seq + 1 \in DOMAIN pieces /\ pieces[e.seq + 1] = e
    BY DEF Lawful, AckedKept
  <2> QED
    BY <2>1, WrittenFacts
<1> QED
  BY <1>1, AlwaysLawful, PTL

(* A file that does not parse is left as it is by every append, open and    *)
(* reload (parse_file_inner under the lock).                                *)
THEOREM DamageNotSpread == Spec => UnreadableIsFrozen
<1>1. Lawful /\ [Next]_vars => [~Readable => pieces' = pieces]_vars
  <2> SUFFICES ASSUME Lawful, Next, ~Readable PROVE pieces' = pieces
    OBVIOUS
  <2>1. PICK p \in Procs : Does(p)
    BY DEF Next, Does
  <2>2. pc[p] # "json"
    BY DEF Lawful, BuiltOnFile
  <2> QED
    BY <2>1, <2>2, FileSteps DEF WriteNewline
<1> QED
  BY <1>1, AlwaysLawful, PTL DEF Spec, UnreadableIsFrozen

-----------------------------------------------------------------------------
(* The file implements the log.                                             *)

LEMMA StepsGrow ==
    ASSUME Lawful, [Next]_vars
    PROVE  [Chain!Next]_Written
<1>1. CASE pieces' = pieces
  BY <1>1 DEF Written
<1>2. ASSUME NEW p \in Procs, pc[p] = "json", NEW x, Put(x),
             x = Torn \/ (WriteJson(p) /\ x = NewEntry(p))
      PROVE  [Chain!Next]_Written
  <2>1. /\ pieces' = Append(pieces, x) /\ IsSeq(pieces) /\ pieces # <<>>
        /\ base[p] = pieces /\ Readable
    BY <1>2 DEF Put, Lawful, BuiltOnFile, TypeOK
  <2>2. /\ Len(pieces') = Len(pieces) + 1 /\ pieces' # <<>>
        /\ pieces'[Len(pieces) + 1] = x
        /\ SubSeq(pieces', 1, Len(pieces)) = pieces
    BY <2>1, AppendFacts, SMTT(30)
  <2>3. Len(pieces) \in Nat /\ Written = pieces
    BY <2>1, PieceFacts DEF Written, Readable, Lawful
  <2>4. CASE x = Torn
    <3>1. Len(pieces') - 1 = Len(pieces)
      BY <2>2, <2>3
    <3>2. Written' = SubSeq(pieces', 1, Len(pieces') - 1)
      BY <2>2, <2>4 DEF Written, Torn
    <3> QED
      BY <2>2, <2>3, <3>1, <3>2
  <2>5. CASE x = NewEntry(p)
    <3>1. x # Torn /\ body[p] \in Bodies
      BY <2>5, NewEntryFacts, SMTT(30) DEF Lawful, TypeOK
    <3>2. Written' = pieces'
      BY <2>2, <3>1 DEF Written, Torn
    <3>3. x = Chain!Successor(Written, body[p])
      BY <2>1, <2>3, <2>5 DEF NewEntry, EL!Successor, EL!Make, Chain!Successor, Chain!Make
    <3>4. Chain!Grow(body[p])
      BY <2>1, <2>3, <3>2, <3>3 DEF Chain!Grow
    <3> QED
      BY <3>1, <3>4 DEF Chain!Next
  <2> QED
    BY <1>2, <2>4, <2>5
<1>3. \/ pieces' = pieces
      \/ \E p \in Procs :
            /\ pc[p] = "json"
            /\ \E x : Put(x) /\ (x = Torn \/ (WriteJson(p) /\ x = NewEntry(p)))
  <2>1. CASE UNCHANGED vars
    BY <2>1 DEF vars
  <2>2. ASSUME NEW p \in Procs, Does(p)
        PROVE  \/ pieces' = pieces
               \/ /\ pc[p] = "json"
                  /\ \E x : Put(x) /\ (x = Torn \/ (WriteJson(p) /\ x = NewEntry(p)))
    <3>1. CASE pc[p] = "json" /\ WriteJson(p)
      <4>1. Put(NewEntry(p))
        BY <3>1 DEF WriteJson
      <4> QED
        BY <3>1, <4>1
    <3>2. CASE pc[p] = "json" /\ Put(Torn)
      BY <3>2
    <3> QED
      BY <2>2, <3>1, <3>2, FileSteps DEF WriteNewline
  <2> QED
    BY <2>1, <2>2 DEF Next, Does
<1> QED
  BY <1>1, <1>2, <1>3

(* However appends interleave, fail or are cut off, the whole objects in    *)
(* the file are a chain that grows by one successor at a time: the log its  *)
(* readers are promised.                                                    *)
THEOREM FileImplementsLog == Spec => ImplementsEventLog
<1>1. Init => Chain!Init
  <2> SUFFICES ASSUME Init PROVE Chain!Init
    OBVIOUS
  <2>1. pieces = <<EL!GenesisEntry>> /\ pieces[1] # Torn /\ Len(pieces) = 1
    BY EntryWhole DEF Init, EL!GenesisEntry
  <2> QED
    BY <2>1 DEF Chain!Init, Written, EL!GenesisEntry, EL!Make,
                Chain!GenesisEntry, Chain!Make
<1>2. Lawful /\ [Next]_vars => [Chain!Next]_Written
  BY StepsGrow
<1> QED
  BY <1>1, <1>2, AlwaysLawful, PTL DEF Spec, ImplementsEventLog, Chain!Spec
=============================================================================
