------------------------------- MODULE Daemon -------------------------------
(***************************************************************************)
(* daemon/mod.rs and cli/daemon_cmd.rs: the life of the daemon.  A start    *)
(* looks at the pid file, clears what a dead daemon left, binds the socket, *)
(* writes its pid and accepts clients one at a time; it ends by a signal,   *)
(* by its idle timeout or by a kill.  A stop reads the pid, signals, waits, *)
(* kills, and removes both files.  A daemon is known by its pid; a dead     *)
(* daemon's pid is not given to another process.                            *)
(***************************************************************************)
EXTENDS Naturals, Sequences

CONSTANTS
    Daemons,         \* pids, one for each start
    Operators,       \* who runs daemon start and daemon stop, one at a time each
    Clients,
    NoPid,           \* no file, or no process
    Torn,            \* a pid file created and not yet written
    MaxRequests      \* bound on the requests of one connection

ASSUME PidAssumption == NoPid \notin Daemons /\ Torn \notin Daemons /\ NoPid # Torn

VARIABLES
    pidfile,    \* what daemon.pid holds
    socket,     \* the daemon whose listener the socket's path leads to
    phase,      \* where each daemon is
    seen,       \* the pid each start read
    term,       \* the daemons whose signal handler has cleared RUNNING
    backlog,    \* the connections each listener has queued
    conn,       \* each client's connection
    opr, target \* where each operator's command is, and the pid it is about

vars == <<pidfile, socket, phase, seen, term, backlog, conn, opr, target>>
files == <<pidfile, socket>>
operators == <<opr, target>>

\* A client's connection: not made, queued, the one served, or over.
NoConn == [at |-> "none", to |-> NoPid, asked |-> FALSE, left |-> FALSE, sent |-> 0]

Init ==
    /\ pidfile = NoPid /\ socket = NoPid
    /\ phase = [d \in Daemons |-> "unborn"]
    /\ seen = [d \in Daemons |-> NoPid]
    /\ term = {}
    /\ backlog = [d \in Daemons |-> <<>>]
    /\ conn = [c \in Clients |-> NoConn]
    /\ opr = [o \in Operators |-> "free"]
    /\ target = [o \in Operators |-> NoPid]

Starting == {"look", "read", "judge", "unpid", "unsock", "bind", "truncate", "write", "arm"}
Accepting == {"loop", "nap", "serve"}
Leaving == {"leave", "leave2", "exit"}
Alive(d) == phase[d] \in Starting \cup Accepting \cup Leaving
Listening(d) == phase[d] \in {"truncate", "write", "arm"} \cup Accepting \cup Leaving

At(d, p, q) == phase[d] = p /\ phase' = [phase EXCEPT ![d] = q]

\* What the death of d does to the clients: the kernel closes their connections.
Dropped(d) == [c \in Clients |->
    IF conn[c].to = d THEN [NoConn EXCEPT !.at = "over"] ELSE conn[c]]

\* d is gone, its files are as it leaves them.
Ends(d, p) ==
    /\ phase' = [phase EXCEPT ![d] = p]
    /\ conn' = Dropped(d)
    /\ backlog' = [backlog EXCEPT ![d] = <<>>]
    /\ term' = term \ {d}

(***************************************************************************)
(* DaemonServer::new and start.                                             *)
(***************************************************************************)

\* daemon start: a process of its own.
Start(o, d) ==
    /\ opr[o] \in {"free", "stopped"}
    /\ At(d, "unborn", "look")
    /\ opr' = [opr EXCEPT ![o] = "starting"]
    /\ target' = [target EXCEPT ![o] = d]
    /\ UNCHANGED <<files, seen, term, backlog, conn>>

\* The operator goes on once the daemon accepts or the start has ended.
Started(o) ==
    /\ opr[o] = "starting"
    /\ phase[target[o]] \notin Starting
    /\ opr' = [opr EXCEPT ![o] = "free"]
    /\ target' = [target EXCEPT ![o] = NoPid]
    /\ UNCHANGED <<files, phase, seen, term, backlog, conn>>

\* No pid file: only a socket may be stale.
Look(d) ==
    /\ At(d, "look", IF pidfile # NoPid THEN "read"
                     ELSE IF socket # NoPid THEN "unsock" ELSE "bind")
    /\ UNCHANGED <<files, seen, term, backlog, conn, operators>>

\* A pid file that is gone again or is no number is an error.
Read(d) ==
    /\ At(d, "read", IF pidfile \in Daemons THEN "judge" ELSE "refused")
    /\ seen' = [seen EXCEPT ![d] = pidfile]
    /\ UNCHANGED <<files, term, backlog, conn, operators>>

\* kill(pid, 0): a living daemon keeps its files, a dead one's are stale.
Judge(d) ==
    /\ At(d, "judge", IF Alive(seen[d]) THEN "refused" ELSE "unpid")
    /\ UNCHANGED <<files, seen, term, backlog, conn, operators>>

RemoveStale(d) ==
    /\ \/ At(d, "unpid", "unsock") /\ pidfile' = NoPid /\ UNCHANGED socket
       \/ At(d, "unsock", "bind") /\ socket' = NoPid /\ UNCHANGED pidfile
    /\ UNCHANGED <<seen, term, backlog, conn, operators>>

\* bind fails when the path exists; from here on clients may connect.
Bind(d) ==
    /\ At(d, "bind", IF socket = NoPid THEN "truncate" ELSE "refused")
    /\ socket' = IF socket = NoPid THEN d ELSE socket
    /\ UNCHANGED <<pidfile, seen, term, backlog, conn, operators>>

\* fs::write makes or empties the file, then writes the number.
WritePid(d) ==
    /\ \/ At(d, "truncate", "write") /\ pidfile' = Torn
       \/ At(d, "write", "arm") /\ pidfile' = d
    /\ UNCHANGED <<socket, seen, term, backlog, conn, operators>>

\* RUNNING is set and the handlers installed.
Arm(d) ==
    /\ At(d, "arm", "loop")
    /\ UNCHANGED <<files, seen, term, backlog, conn, operators>>

\* chmod or a write fails: the start ends and removes nothing.
StartFails(d) ==
    /\ phase[d] \in {"truncate", "write", "arm"}
    /\ Ends(d, "gone")
    /\ UNCHANGED <<files, seen, operators>>

(***************************************************************************)
(* The accept loop and handle_connection.                                   *)
(***************************************************************************)

Accept(d) ==
    /\ d \notin term /\ backlog[d] # <<>>
    /\ At(d, "loop", "serve")
    /\ conn' = [conn EXCEPT ![Head(backlog[d])].at = "served"]
    /\ backlog' = [backlog EXCEPT ![d] = Tail(@)]
    /\ UNCHANGED <<files, seen, term, operators>>

\* Nobody waits: sleep, then look whether the idle timeout has passed.
Nap(d) ==
    /\ d \notin term /\ backlog[d] = <<>>
    /\ At(d, "loop", "nap")
    /\ UNCHANGED <<files, seen, term, backlog, conn, operators>>

Wake(d) ==
    /\ \/ At(d, "nap", "loop")
       \/ At(d, "nap", "leave")
    /\ UNCHANGED <<files, seen, term, backlog, conn, operators>>

\* RUNNING is read between connections only.
Terminated(d) ==
    /\ d \in term
    /\ At(d, "loop", "leave")
    /\ UNCHANGED <<files, seen, term, backlog, conn, operators>>

Serves(d, c) == conn[c].at = "served" /\ conn[c].to = d

Answer(d, c) ==
    /\ phase[d] = "serve" /\ Serves(d, c) /\ conn[c].asked
    /\ conn' = [conn EXCEPT ![c].asked = FALSE]
    /\ UNCHANGED <<files, phase, seen, term, backlog, operators>>

HangUp(d, c) ==
    /\ At(d, "serve", "loop")
    /\ conn' = [conn EXCEPT ![c] = [NoConn EXCEPT !.at = "over"]]
    /\ UNCHANGED <<files, seen, term, backlog, operators>>

\* The client closed its end.
EndOfLines(d, c) == Serves(d, c) /\ ~conn[c].asked /\ conn[c].left /\ HangUp(d, c)

\* A defect: the read of a connection has no timeout.
Slip_NoReadTimeout(d, c) == FALSE /\ HangUp(d, c)

\* CONNECTION_IO_TIMEOUT: a silent client is dropped after ten seconds.
ReadTimeout(d, c) == Serves(d, c) /\ ~conn[c].asked /\ HangUp(d, c)

\* A defect: the pid file goes first.
Slip_PidFirst(d) ==
    /\ \/ At(d, "leave", "leave2") /\ pidfile' = NoPid /\ UNCHANGED socket
       \/ At(d, "leave2", "exit") /\ socket' = NoPid /\ UNCHANGED pidfile
    /\ UNCHANGED <<seen, term, backlog, conn, operators>>

\* The socket, then the pid file, whoever they belong to.
cleanup(d) ==
    /\ \/ At(d, "leave", "leave2") /\ socket' = NoPid /\ UNCHANGED pidfile
       \/ At(d, "leave2", "exit") /\ pidfile' = NoPid /\ UNCHANGED socket
    /\ UNCHANGED <<seen, term, backlog, conn, operators>>

\* The process ends and with it its listener.
Exit(d) ==
    /\ phase[d] = "exit"
    /\ Ends(d, "gone")
    /\ UNCHANGED <<files, seen, operators>>

(***************************************************************************)
(* Clients: connect_and_request, or a hook that speaks the socket itself.   *)
(***************************************************************************)

\* The path must lead to a live listener.
Connect(c) ==
    /\ conn[c] = NoConn
    /\ socket # NoPid /\ Listening(socket)
    /\ conn' = [conn EXCEPT ![c] = [NoConn EXCEPT !.at = "queued", !.to = socket]]
    /\ backlog' = [backlog EXCEPT ![socket] = Append(@, c)]
    /\ UNCHANGED <<files, phase, seen, term, operators>>

Request(c) ==
    /\ conn[c].at \in {"queued", "served"} /\ ~conn[c].asked /\ ~conn[c].left
    /\ conn[c].sent < MaxRequests
    /\ conn' = [conn EXCEPT ![c].asked = TRUE, ![c].sent = @ + 1]
    /\ UNCHANGED <<files, phase, seen, term, backlog, operators>>

Close(c) ==
    /\ conn[c].at \in {"queued", "served"} /\ ~conn[c].left
    /\ conn' = [conn EXCEPT ![c].left = TRUE]
    /\ UNCHANGED <<files, phase, seen, term, backlog, operators>>

(***************************************************************************)
(* daemon stop, and kills from outside.                                     *)
(***************************************************************************)

OprAt(o, p, q) == opr[o] = p /\ opr' = [opr EXCEPT ![o] = q]

\* No pid file, or one that is no number, is an error.
Stop(o) ==
    /\ opr[o] \in {"free", "stopped"}
    /\ opr' = [opr EXCEPT ![o] = IF pidfile \in Daemons THEN "signal" ELSE "free"]
    /\ target' = [target EXCEPT ![o] = IF pidfile \in Daemons THEN pidfile ELSE NoPid]
    /\ UNCHANGED <<files, phase, seen, term, backlog, conn>>

\* SIGTERM clears RUNNING, or ends a daemon without its handlers yet.
Signal(o) ==
    LET d == target[o] IN
    /\ OprAt(o, "signal", "wait")
    /\ \/ phase[d] \in Starting /\ Ends(d, "gone")
       \/ /\ phase[d] \notin Starting
          /\ term' = IF Alive(d) THEN term \cup {d} ELSE term
          /\ UNCHANGED <<phase, backlog, conn>>
    /\ UNCHANGED <<files, seen, target>>

\* A defect: the wait gives up and the daemon is left to finish.
Slip_NoKill(o) ==
    /\ OprAt(o, "wait", "unpid")
    /\ UNCHANGED <<files, phase, seen, term, backlog, conn, target>>

\* The pid is polled for five seconds; a daemon still there is killed.
Wait(o) ==
    LET d == target[o] IN
    /\ OprAt(o, "wait", "unpid")
    /\ IF Alive(d) THEN Ends(d, "gone") ELSE UNCHANGED <<phase, term, backlog, conn>>
    /\ UNCHANGED <<files, seen, target>>

RemoveFiles(o) ==
    /\ \/ OprAt(o, "unpid", "unsock") /\ pidfile' = NoPid /\ UNCHANGED <<socket, target>>
       \/ /\ OprAt(o, "unsock", "stopped")
          /\ socket' = NoPid
          /\ target' = [target EXCEPT ![o] = NoPid]
          /\ UNCHANGED pidfile
    /\ UNCHANGED <<phase, seen, term, backlog, conn>>

\* SIGKILL, a crash or a power cut: nothing is cleaned up.
Kill(d) ==
    /\ Alive(d)
    /\ Ends(d, "gone")
    /\ UNCHANGED <<files, seen, operators>>

Step(d) ==
    \/ Look(d) \/ Read(d) \/ Judge(d) \/ RemoveStale(d) \/ Bind(d) \/ WritePid(d) \/ Arm(d)
    \/ Accept(d) \/ Nap(d) \/ Wake(d) \/ Terminated(d) \/ cleanup(d) \/ Exit(d)
    \/ \E c \in Clients : Answer(d, c) \/ EndOfLines(d, c) \/ ReadTimeout(d, c)

Command(o) == Started(o) \/ Signal(o) \/ Wait(o) \/ RemoveFiles(o)

Next ==
    \/ \E d \in Daemons : Step(d) \/ StartFails(d) \/ Kill(d)
    \/ \E o \in Operators : Command(o) \/ Stop(o) \/ \E d \in Daemons : Start(o, d)
    \/ \E c \in Clients : Connect(c) \/ Request(c) \/ Close(c)

\* A running process goes on, and so does a command that has begun: the
\* kernel schedules them, and both of the waits involved have a timeout.
Fairness ==
    /\ \A d \in Daemons : WF_vars(Step(d))
    /\ \A o \in Operators : WF_vars(Command(o))

Spec == Init /\ [][Next]_vars /\ Fairness

(***************************************************************************)
(* Properties.                                                              *)
(***************************************************************************)

\* A daemon that serves is the one the socket and the pid file lead to, and so
\* the only one: no late cleanup, stop or stale removal takes its files away.
\* With two operators whose commands overlap this fails (hazards).
ServingIsFound ==
    \A d \in Daemons : phase[d] \in {"arm"} \cup Accepting => pidfile = d /\ socket = d

\* A stop that returns success leaves no file and no daemon, but one that has
\* cleaned up and is about to exit.
StopStops ==
    (\A o \in Operators : opr[o] = "stopped") =>
        /\ \A d \in Daemons : ~Alive(d) \/ phase[d] = "exit"
        /\ pidfile = NoPid /\ socket = NoPid

\* A client that connects is answered until it leaves or is let go: a silent
\* one before it in the queue does not hold the daemon for ever.
EveryClientLetGo ==
    \A c \in Clients : conn[c].at = "queued" ~> conn[c].at # "queued"
=============================================================================
