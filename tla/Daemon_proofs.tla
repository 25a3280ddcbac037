---------------------------- MODULE Daemon_proofs -----------------------------
(***************************************************************************)
(* As long as no two commands of the operators overlap, a daemon that       *)
(* serves is the one that its files lead to, and a stop leaves none: for    *)
(* any number of starts, operators and clients, and whatever is killed.     *)
(* Nothing but the order of their steps keeps the files of one daemon from  *)
(* another, so that the proof is of what each phase knows of the others.    *)
(***************************************************************************)
EXTENDS Daemon, TLAPS

(* A command of an operator that has begun and is not over.                 *)
Busy(o) == opr[o] \in {"starting", "signal", "wait", "unpid", "unsock"}
OneCommand == \A o, q \in Operators : Busy(o) /\ Busy(q) => o = q

(* A daemon that serves, or has not removed its files yet.                  *)
Serving == Accepting \cup {"leave", "leave2"}

(* What a start does once it has judged that no daemon lives.               *)
Taking == {"unpid", "unsock", "bind", "truncate", "write", "arm"}

Phases == {"unborn", "refused", "gone"} \cup Starting \cup Accepting \cup Leaving
OprPhases == {"free", "starting", "signal", "wait", "unpid", "unsock", "stopped"}

-----------------------------------------------------------------------------
(* The inductive invariant.                                                 *)

TypeOK ==
    /\ pidfile \in Daemons \cup {NoPid, Torn} /\ socket \in Daemons \cup {NoPid}
    /\ phase \in [Daemons -> Phases]
    /\ seen \in [Daemons -> Daemons \cup {NoPid, Torn}]
    /\ opr \in [Operators -> OprPhases]
    /\ target \in [Operators -> Daemons \cup {NoPid}]

(* A daemon that starts is the one an operator is waiting for.              *)
StartOwned ==
    \A d \in Daemons : phase[d] \in Starting =>
        \E o \in Operators : opr[o] = "starting" /\ target[o] = d

(* The files a daemon has made, and not removed, are its own.               *)
FilesOwned ==
    \A d \in Daemons :
        /\ phase[d] \in {"arm", "leave"} \cup Accepting => pidfile = d /\ socket = d
        /\ phase[d] = "leave2" => pidfile = d
        /\ phase[d] \in {"truncate", "write"} => socket = d

(* A start takes the files of no daemon that serves, and judges by the pid  *)
(* of one that does.                                                        *)
StartAlone ==
    \A d, e \in Daemons : phase[e] \in Serving =>
        phase[d] \notin Taking /\ (phase[d] = "judge" => seen[d] = e)

(* A stop signals and kills the daemon that serves, and then there is none. *)
StopKnows ==
    \A o \in Operators :
        /\ opr[o] \in {"signal", "wait"} =>
              target[o] \in Daemons /\ \A d \in Daemons : phase[d] \in Serving => d = target[o]
        /\ opr[o] \in {"unpid", "unsock"} => \A d \in Daemons : phase[d] \notin Serving
        /\ opr[o] = "unsock" => pidfile = NoPid
        /\ opr[o] = "starting" => target[o] \in Daemons

Settled == TypeOK /\ StartOwned /\ FilesOwned /\ StartAlone /\ StopKnows /\ StopStops

-----------------------------------------------------------------------------

LEMMA InitSettled == Init => Settled
  BY PidAssumption DEF Init, Settled, TypeOK, StartOwned, FilesOwned, StartAlone, StopKnows,
     StopStops, Phases, OprPhases, Starting, Accepting, Leaving, Serving, Taking, Alive, files

(* While a daemon starts, no other does and no operator stops one.          *)
LEMMA StartExcludes ==
    ASSUME StartOwned, OneCommand, NEW d \in Daemons, phase[d] \in Starting
    PROVE  /\ \A e \in Daemons : phase[e] \in Starting => e = d
           /\ \A o \in Operators : opr[o] \notin {"signal", "wait", "unpid", "unsock"}
           /\ ~(\A o \in Operators : opr[o] = "stopped")
  BY DEF StartOwned, OneCommand, Busy

(* At most one daemon serves.                                               *)
LEMMA OneServes ==
    ASSUME Settled, NEW d \in Daemons, phase[d] \in Serving
    PROVE  /\ \A e \in Daemons : phase[e] \in Serving => e = d
           /\ pidfile = d
           /\ \A o \in Operators : opr[o] \notin {"unpid", "unsock"}
           /\ ~(\A o \in Operators : opr[o] = "stopped")
<1>1. \A e \in Daemons : phase[e] \in Serving => pidfile = e
  BY DEF Settled, FilesOwned, Serving
<1>2. Alive(d) /\ phase[d] # "exit"
  BY DEF Alive, Serving, Accepting, Leaving
<1> QED
  BY <1>1, <1>2 DEF Settled, StopKnows, StopStops

(* A start that has the files to itself.                                    *)
LEMMA StartStep ==
    ASSUME Settled, OneCommand, NEW d \in Daemons,
           Look(d) \/ Read(d) \/ Judge(d) \/ RemoveStale(d) \/ Bind(d) \/ WritePid(d) \/ Arm(d)
    PROVE  Settled'
<1> USE DEF Settled
<1>1. phase[d] \in Starting
  BY DEF Look, Read, Judge, RemoveStale, Bind, WritePid, Arm, At, Starting
<1>2. /\ \A e \in Daemons : phase[e] \in Starting => e = d
      /\ \A o \in Operators : opr[o] \notin {"signal", "wait", "unpid", "unsock"}
      /\ ~(\A o \in Operators : opr[o] = "stopped")
  BY <1>1, StartExcludes
<1>3. /\ opr' = opr /\ target' = target
      /\ \A e \in Daemons \ {d} : phase'[e] = phase[e]
      /\ phase' \in [Daemons -> Phases]
  BY DEF TypeOK, Look, Read, Judge, RemoveStale, Bind, WritePid, Arm, At, operators,
         Phases, Starting, Accepting
<1>4. TypeOK'
  BY <1>3, PidAssumption DEF TypeOK, Look, Read, Judge, RemoveStale, Bind, WritePid, Arm, files
<1>5. StartOwned'
  BY <1>1, <1>3 DEF StartOwned
<1>6. StopKnows' /\ StopStops'
  BY <1>2, <1>3 DEF StopKnows, StopStops
<1>7. CASE \A e \in Daemons : phase[e] \notin Serving
  <2>1. \A e \in Daemons \ {d} : phase[e] \notin Serving /\ phase[e] \notin Starting
    BY <1>2, <1>7
  <2>2. FilesOwned'
    BY <1>3, <1>7, <2>1 DEF FilesOwned, TypeOK, Look, Read, Judge, RemoveStale, Bind, WritePid, Arm,
       At, files, Starting, Serving, Accepting
  <2>3. StartAlone'
    BY <1>3, <1>7, <2>1 DEF StartAlone, TypeOK, Look, Read, Judge, RemoveStale, Bind, WritePid, Arm,
       At, Starting, Serving, Accepting, Taking
  <2> QED
    BY <1>4, <1>5, <1>6, <2>2, <2>3
<1>8. ASSUME NEW s \in Daemons, phase[s] \in Serving
      PROVE  FilesOwned' /\ StartAlone'
  <2>1. pidfile = s /\ \A e \in Daemons : phase[e] \in Serving => e = s
    BY <1>8, OneServes
  <2>2. phase[d] \in {"look", "read", "judge"} /\ s # d
    BY <1>1, <1>8 DEF StartAlone, Taking, Starting, Serving, Accepting
  <2>3. UNCHANGED files /\ phase'[d] \in {"read", "judge", "refused"}
        /\ (phase'[d] = "judge" => seen'[d] = s)
        /\ \A e \in Daemons \ {d} : seen'[e] = seen[e]
    <3>1. CASE Look(d)
      BY <2>1, <3>1, PidAssumption DEF Look, At, TypeOK
    <3>2. CASE Read(d)
      BY <2>1, <3>2 DEF Read, At, TypeOK
    <3>3. CASE Judge(d)
      <4>1. seen[d] = s
        BY <1>8, <3>3 DEF StartAlone, Judge, At
      <4>2. Alive(s)
        BY <1>8 DEF Alive, Serving, Leaving
      <4> QED
        BY <3>3, <4>1, <4>2 DEF Judge, At, TypeOK
    <3> QED
      BY <2>2, <3>1, <3>2, <3>3 DEF RemoveStale, Bind, WritePid, Arm, At
  <2>4. FilesOwned'
    BY <1>3, <2>3 DEF FilesOwned, files, Accepting
  <2>5. StartAlone'
    BY <1>3, <2>1, <2>3 DEF StartAlone, Taking, Serving, Accepting
  <2> QED
    BY <2>4, <2>5
<1> QED
  BY <1>4, <1>5, <1>6, <1>7, <1>8

(* The accept loop keeps the daemon's files, and so does the end of it.     *)
Loops(d) ==
    \/ Accept(d) \/ Nap(d) \/ Wake(d) \/ Terminated(d)
    \/ \E c \in Clients : Answer(d, c) \/ EndOfLines(d, c) \/ ReadTimeout(d, c)

LEMMA LoopStep ==
    ASSUME Settled, NEW d \in Daemons, Loops(d)
    PROVE  Settled'
<1> USE DEF Settled
<1>1. /\ UNCHANGED files /\ UNCHANGED operators /\ seen' = seen
      /\ phase[d] \in Accepting
      /\ phase' = phase \/ \E q \in Accepting \cup {"leave"} : phase' = [phase EXCEPT ![d] = q]
  BY DEF Loops, Accept, Nap, Wake, Terminated, Answer, EndOfLines, ReadTimeout,
         HangUp, At, Accepting
<1>2. /\ phase'[d] \in Accepting \cup {"leave"} /\ phase[d] \in Serving
      /\ \A e \in Daemons \ {d} : phase'[e] = phase[e]
      /\ phase' \in [Daemons -> Phases]
  BY <1>1 DEF TypeOK, Phases, Leaving, Serving
<1>3. phase'[d] \in Serving /\ phase'[d] \notin Starting
  BY <1>2 DEF Serving, Accepting, Starting
<1>4. TypeOK' /\ StartOwned'
  BY <1>1, <1>2, <1>3 DEF TypeOK, StartOwned, files, operators
<1>5. FilesOwned'
  BY <1>1, <1>2 DEF FilesOwned, files, Accepting
<1>6. StartAlone'
  BY <1>1, <1>2, <1>3 DEF StartAlone, Taking, Serving, Accepting
<1>7. StopKnows'
  BY <1>1, <1>2 DEF StopKnows, files, operators
<1>8. StopStops'
  BY <1>1, <1>2, OneServes DEF StopStops, operators
<1> QED
  BY <1>4, <1>5, <1>6, <1>7, <1>8

(* A daemon that leaves removes files that are its own.                     *)
LEMMA LeaveStep ==
    ASSUME Settled, NEW d \in Daemons, cleanup(d)
    PROVE  Settled'
<1> USE DEF Settled
<1>1. /\ UNCHANGED operators /\ seen' = seen /\ phase[d] \in Serving
      /\ phase[d] = "leave" => phase' = [phase EXCEPT ![d] = "leave2"] /\ pidfile' = pidfile
      /\ phase[d] # "leave" => phase' = [phase EXCEPT ![d] = "exit"] /\ pidfile' = NoPid
      /\ socket' \in {socket, NoPid}
  BY DEF cleanup, At, Serving
<1>2. /\ \A e \in Daemons \ {d} :
            /\ phase'[e] = phase[e] /\ phase[e] \notin Serving /\ phase[e] \notin Taking
      /\ phase' \in [Daemons -> Phases] /\ phase'[d] \in {"leave2", "exit"}
      /\ pidfile = d
  BY <1>1, OneServes DEF TypeOK, StartAlone, Phases, Leaving
<1>3. TypeOK' /\ StartOwned'
  BY <1>1, <1>2 DEF TypeOK, StartOwned, operators, Starting
<1>4. FilesOwned'
  BY <1>1, <1>2 DEF FilesOwned, TypeOK, Serving, Accepting, Taking
<1>5. StartAlone'
  BY <1>1, <1>2 DEF StartAlone, TypeOK, Taking, Serving, Accepting
<1>6. StopKnows'
  BY <1>1, <1>2, OneServes DEF StopKnows, operators, Serving, Accepting
<1>7. StopStops'
  BY <1>1, OneServes DEF StopStops, operators
<1> QED
  BY <1>3, <1>4, <1>5, <1>6, <1>7

(* A daemon that ends leaves its files as they are.                         *)
LEMMA EndsFacts ==
    ASSUME Settled, NEW d \in Daemons, Ends(d, "gone"), UNCHANGED files, seen' = seen
    PROVE  /\ FilesOwned' /\ StartAlone'
           /\ phase'[d] = "gone" /\ phase' \in [Daemons -> Phases]
           /\ \A e \in Daemons \ {d} : phase'[e] = phase[e]
<1>1. /\ phase'[d] = "gone" /\ phase' \in [Daemons -> Phases]
      /\ \A e \in Daemons \ {d} : phase'[e] = phase[e]
  BY DEF Settled, TypeOK, Ends, Phases
<1>2. FilesOwned'
  BY <1>1 DEF Settled, FilesOwned, files, Accepting
<1>3. StartAlone'
  BY <1>1 DEF Settled, StartAlone, Taking, Serving, Accepting
<1> QED
  BY <1>1, <1>2, <1>3

LEMMA EndStep ==
    ASSUME Settled, NEW d \in Daemons, Exit(d) \/ StartFails(d) \/ Kill(d)
    PROVE  Settled'
<1> USE DEF Settled
<1>1. Ends(d, "gone") /\ UNCHANGED files /\ seen' = seen /\ UNCHANGED operators
  BY DEF Exit, StartFails, Kill
<1>2. /\ FilesOwned' /\ StartAlone'
      /\ phase'[d] = "gone" /\ phase' \in [Daemons -> Phases]
      /\ \A e \in Daemons \ {d} : phase'[e] = phase[e]
  BY <1>1, EndsFacts
<1>3. TypeOK' /\ StartOwned'
  BY <1>1, <1>2 DEF TypeOK, StartOwned, files, operators, Starting
<1>4. StopKnows'
  BY <1>1, <1>2 DEF StopKnows, files, operators, Serving, Accepting
<1>5. StopStops'
  BY <1>1, <1>2 DEF StopStops, files, operators, Alive, Starting, Accepting, Leaving
<1> QED
  BY <1>2, <1>3, <1>4, <1>5

LEMMA ClientStep ==
    ASSUME Settled, NEW c \in Clients, Connect(c) \/ Request(c) \/ Close(c)
    PROVE  Settled'
<1>1. UNCHANGED <<pidfile, socket, phase, seen, opr, target>>
  BY DEF Connect, Request, Close, files, operators
<1> QED
  BY <1>1 DEF Settled, TypeOK, StartOwned, FilesOwned, StartAlone, StopKnows,
              StopStops, Alive

-----------------------------------------------------------------------------
(* The operators.                                                           *)

LEMMA StartCommandStep ==
    ASSUME Settled, OneCommand', NEW o \in Operators, NEW d \in Daemons, Start(o, d)
    PROVE  Settled'
<1> USE DEF Settled
<1>1. /\ opr'[o] = "starting" /\ target'[o] = d /\ opr[o] \in {"free", "stopped"}
      /\ \A q \in Operators \ {o} : opr'[q] = opr[q] /\ target'[q] = target[q]
      /\ opr' \in [Operators -> OprPhases]
      /\ target' \in [Operators -> Daemons \cup {NoPid}]
      /\ phase[d] = "unborn" /\ phase'[d] = "look" /\ phase' \in [Daemons -> Phases]
      /\ \A e \in Daemons \ {d} : phase'[e] = phase[e]
      /\ UNCHANGED files /\ seen' = seen
  BY DEF Start, At, TypeOK, OprPhases, Phases, Starting
<1>2. \A q \in Operators \ {o} : ~Busy(q)
  BY <1>1 DEF OneCommand, Busy
<1>3. TypeOK' /\ StartOwned'
  BY <1>1 DEF TypeOK, StartOwned, files, Starting
<1>4. FilesOwned' /\ StartAlone'
  BY <1>1 DEF FilesOwned, StartAlone, files, Serving, Accepting, Taking
<1>5. StopKnows'
  BY <1>1, <1>2 DEF StopKnows, Busy
<1>6. StopStops'
  BY <1>1 DEF StopStops
<1> QED
  BY <1>3, <1>4, <1>5, <1>6

LEMMA StartedStep ==
    ASSUME Settled, NEW o \in Operators, Started(o)
    PROVE  Settled'
<1> USE DEF Settled
<1>1. /\ opr[o] = "starting" /\ phase[target[o]] \notin Starting /\ opr'[o] = "free"
      /\ \A q \in Operators \ {o} : opr'[q] = opr[q] /\ target'[q] = target[q]
      /\ opr' \in [Operators -> OprPhases]
      /\ target' \in [Operators -> Daemons \cup {NoPid}]
      /\ UNCHANGED files /\ seen' = seen /\ phase' = phase
  BY DEF Started, TypeOK, OprPhases
<1>2. TypeOK' /\ StartOwned'
  BY <1>1 DEF TypeOK, StartOwned, files
<1>3. FilesOwned' /\ StartAlone'
  BY <1>1 DEF FilesOwned, StartAlone, files
<1>4. StopKnows' /\ StopStops'
  BY <1>1 DEF StopKnows, StopStops, files
<1> QED
  BY <1>2, <1>3, <1>4

(* A stop reads the pid of the daemon that serves, if one does.             *)
LEMMA StopStep ==
    ASSUME Settled, NEW o \in Operators, Stop(o)
    PROVE  Settled'
<1> USE DEF Settled
<1>1. /\ opr[o] \in {"free", "stopped"}
      /\ opr'[o] = IF pidfile \in Daemons THEN "signal" ELSE "free"
      /\ target'[o] = IF pidfile \in Daemons THEN pidfile ELSE NoPid
      /\ \A q \in Operators \ {o} : opr'[q] = opr[q] /\ target'[q] = target[q]
      /\ opr' \in [Operators -> OprPhases]
      /\ target' \in [Operators -> Daemons \cup {NoPid}]
      /\ UNCHANGED files /\ seen' = seen /\ phase' = phase
  BY DEF Stop, TypeOK, OprPhases
<1>2. TypeOK' /\ StartOwned'
  BY <1>1 DEF TypeOK, StartOwned, files
<1>3. FilesOwned' /\ StartAlone'
  BY <1>1 DEF FilesOwned, StartAlone, files
<1>4. StopKnows'
  BY <1>1, OneServes DEF StopKnows, files
<1>5. StopStops'
  BY <1>1 DEF StopStops
<1> QED
  BY <1>2, <1>3, <1>4, <1>5

LEMMA SignalStep ==
    ASSUME Settled, OneCommand, NEW o \in Operators, Signal(o)
    PROVE  Settled'
<1> USE DEF Settled
<1>1. /\ opr[o] = "signal" /\ opr'[o] = "wait" /\ target[o] \in Daemons
      /\ \A q \in Operators \ {o} : opr'[q] = opr[q]
      /\ opr' \in [Operators -> OprPhases]
      /\ UNCHANGED files /\ seen' = seen /\ target' = target
  BY DEF Signal, OprAt, TypeOK, OprPhases, StopKnows
<1>2. phase[target[o]] \notin Starting
  BY <1>1, StartExcludes
<1>3. phase' = phase
  BY <1>2 DEF Signal
<1>4. TypeOK' /\ StartOwned'
  BY <1>1, <1>3 DEF TypeOK, StartOwned, files
<1>5. FilesOwned' /\ StartAlone'
  BY <1>1, <1>3 DEF FilesOwned, StartAlone, files
<1>6. StopKnows' /\ StopStops'
  BY <1>1, <1>3 DEF StopKnows, StopStops, files
<1> QED
  BY <1>4, <1>5, <1>6

(* The daemon it waited for was the only one.                               *)
LEMMA WaitStep ==
    ASSUME Settled, NEW o \in Operators, Wait(o)
    PROVE  Settled'
<1> USE DEF Settled
<1> DEFINE d == target[o]
<1>1. /\ opr[o] = "wait" /\ opr'[o] = "unpid" /\ d \in Daemons
      /\ \A q \in Operators \ {o} : opr'[q] = opr[q]
      /\ opr' \in [Operators -> OprPhases]
      /\ UNCHANGED files /\ seen' = seen /\ target' = target
      /\ \A e \in Daemons : phase[e] \in Serving => e = d
  BY DEF Wait, OprAt, TypeOK, OprPhases, StopKnows
<1>2. /\ phase' \in [Daemons -> Phases]
      /\ \A e \in Daemons \ {d} : phase'[e] = phase[e]
      /\ phase'[d] \in {phase[d], "gone"} /\ phase'[d] \notin Serving
      /\ FilesOwned' /\ StartAlone'
  <2>1. CASE Alive(d)
    <3>1. Ends(d, "gone")
      BY <2>1 DEF Wait
    <3> QED
      BY <1>1, <3>1, EndsFacts DEF Serving, Accepting
  <2>2. CASE ~Alive(d)
    <3>1. phase' = phase
      BY <2>2 DEF Wait
    <3> QED
      BY <1>1, <2>2, <3>1 DEF FilesOwned, StartAlone, files, TypeOK, Alive, Serving, Leaving
  <2> QED
    BY <2>1, <2>2
<1>3. TypeOK' /\ StartOwned'
  BY <1>1, <1>2 DEF TypeOK, StartOwned, files, Starting
<1>4. StopKnows'
  BY <1>1, <1>2 DEF StopKnows, files, Serving, Accepting
<1>5. StopStops'
  BY <1>1 DEF StopStops
<1> QED
  BY <1>2, <1>3, <1>4, <1>5

LEMMA RemoveFilesStep ==
    ASSUME Settled, OneCommand, NEW o \in Operators, RemoveFiles(o)
    PROVE  Settled'
<1> USE DEF Settled
<1>1. /\ opr[o] \in {"unpid", "unsock"} /\ phase' = phase /\ seen' = seen
      /\ opr[o] = "unpid" => opr'[o] = "unsock" /\ target' = target
      /\ opr[o] = "unsock" => opr'[o] = "stopped" /\ socket' = NoPid
      /\ \A q \in Operators \ {o} : opr'[q] = opr[q] /\ target'[q] = target[q]
      /\ opr' \in [Operators -> OprPhases]
      /\ target' \in [Operators -> Daemons \cup {NoPid}]
      /\ pidfile' = NoPid /\ socket' \in {socket, NoPid}
  BY DEF RemoveFiles, OprAt, TypeOK, OprPhases, StopKnows
<1>2. \A d \in Daemons : phase[d] \notin Serving /\ phase[d] \notin Starting
  BY <1>1, StartExcludes DEF StopKnows
<1>3. \A q \in Operators \ {o} : ~Busy(q)
  BY <1>1 DEF OneCommand, Busy
<1>4. TypeOK' /\ StartOwned'
  BY <1>1, <1>2 DEF TypeOK, StartOwned
<1>5. FilesOwned' /\ StartAlone'
  BY <1>1, <1>2 DEF FilesOwned, StartAlone, Serving, Accepting, Starting
<1>6. StopKnows'
  BY <1>1, <1>2, <1>3 DEF StopKnows, Busy
<1>7. StopStops'
  BY <1>1, <1>2 DEF StopStops, Alive, Serving, Leaving
<1> QED
  BY <1>4, <1>5, <1>6, <1>7

-----------------------------------------------------------------------------

LEMMA SettledStep ==
    ASSUME Settled, OneCommand, OneCommand', [Next]_vars
    PROVE  Settled'
<1>1. CASE UNCHANGED vars
  BY <1>1 DEF vars, files, operators, Settled, TypeOK, StartOwned, FilesOwned,
              StartAlone, StopKnows, StopStops, Alive
<1>2. ASSUME NEW d \in Daemons, Step(d) \/ StartFails(d) \/ Kill(d)
      PROVE  Settled'
  <2>1. Step(d) => \/ Look(d) \/ Read(d) \/ Judge(d) \/ RemoveStale(d)
                   \/ Bind(d) \/ WritePid(d) \/ Arm(d)
                   \/ Loops(d) \/ cleanup(d) \/ Exit(d)
    BY DEF Step, Loops
  <2> QED
    BY <1>2, <2>1, StartStep, LoopStep, LeaveStep, EndStep
<1>3. ASSUME NEW o \in Operators, Command(o) \/ Stop(o) \/ \E d \in Daemons : Start(o, d)
      PROVE  Settled'
  BY <1>3, StartCommandStep, StartedStep, StopStep, SignalStep, WaitStep,
     RemoveFilesStep DEF Command
<1>4. ASSUME NEW c \in Clients, Connect(c) \/ Request(c) \/ Close(c)
      PROVE  Settled'
  BY <1>4, ClientStep
<1> QED
  BY <1>1, <1>2, <1>3, <1>4, Zenon DEF Next

LEMMA AlwaysSettled == Spec /\ []OneCommand => []Settled
<1>1. Init => Settled
  BY InitSettled
<1>2. Settled /\ OneCommand /\ OneCommand' /\ [Next]_vars => Settled'
  BY SettledStep
<1> QED
  BY <1>1, <1>2, PTL DEF Spec

(* A daemon that serves is the one the socket and the pid file lead to, and *)
(* so the only one.                                                         *)
THEOREM ServerFound == Spec /\ []OneCommand => []ServingIsFound
<1>1. Settled => ServingIsFound
  BY DEF Settled, FilesOwned, ServingIsFound
<1> QED
  BY <1>1, AlwaysSettled, PTL

(* When every operator's last command was a stop that succeeded, no daemon  *)
(* and no file of one is left.                                              *)
THEOREM StoppedForGood == Spec /\ []OneCommand => []StopStops
<1>1. Settled => StopStops
  BY DEF Settled
<1> QED
  BY <1>1, AlwaysSettled, PTL

(* One operator, whose commands cannot overlap, has both.                   *)
THEOREM OneOperator ==
    (\A o, q \in Operators : o = q) => (Spec => [](ServingIsFound /\ StopStops))
<1> SUFFICES ASSUME \A o, q \in Operators : o = q
             PROVE  Spec => [](ServingIsFound /\ StopStops)
  OBVIOUS
<1>1. OneCommand
  BY DEF OneCommand
<1> QED
  BY <1>1, ServerFound, StoppedForGood, PTL
=============================================================================
