------------------------------- MODULE Daemon -------------------------------
(***************************************************************************)
(* The process: main() and do_main() of main.rs, the listener of           *)
(* io/seq_packet.rs and the size check of seccomp.rs, over the life of     *)
(* several instances of the daemon that systemd starts one after another.  *)
(*                                                                         *)
(* The task of a connection (Client.tla) is reduced here to what outlives  *)
(* it: its socket, the descriptors recv() leaks, and the forked child,     *)
(* which inherits the listener and every open socket, and goes on after    *)
(* the daemon has exited.                                                  *)
(***************************************************************************)
EXTENDS Integers, Sequences, FiniteSets

CONSTANTS
    Conns,       \* connections of lxc monitors, one request each
    Hung,        \* those whose system call may never return
    FdLimit,     \* RLIMIT_NOFILE, less what the daemon always has open
    Backlog,     \* listen()'s second argument
    MaxGen,      \* bound on the instances of the daemon
    MaxFaults    \* bound on crashes and failing starts

ASSUME DaemonAssumption ==
    /\ FdLimit \in Nat /\ Backlog \in Nat /\ MaxGen \in Nat \ {0}
    /\ MaxFaults \in Nat /\ Hung \subseteq Conns

VARIABLES
    gen, main,      \* the instance of the daemon, and where its do_main() is
    path,           \* the instance whose socket the path names, or 0
    queue,          \* the listener's backlog
    leaked,         \* descriptors of the daemon that nobody owns
    sizesOk,        \* the kernel agrees on the seccomp structures
    conn, via,      \* a connection, and the instance it was made to
    kid, held,      \* its child, and the sockets the child inherited
    did,            \* the child has made the system call
    faults

daemonVars == <<gen, main, path, queue, leaked, sizesOk, faults>>
vars == <<daemonVars, conn, via, kid, held, did>>

Init ==
    /\ gen = 1 /\ main = "start"
    /\ path = 0 /\ queue = <<>> /\ leaked = 0
    /\ sizesOk \in BOOLEAN
    /\ conn = [k \in Conns |-> "none"] /\ via = [k \in Conns |-> 0]
    /\ kid = [k \in Conns |-> "none"] /\ held = [k \in Conns |-> {}]
    /\ did = [k \in Conns |-> FALSE]
    /\ faults = 0

Alive(k) == kid[k] \in {"run", "killed"}

Listening == main \in {"bound", "serving"}

\* The sockets open in the daemon.
Open == {k \in Conns : /\ main = "serving" /\ via[k] = gen
                       /\ conn[k] \in {"accepted", "idle", "calling", "answered"}}

\* A listener lives until the last process that has it closes it.
ListenerOpen(g) ==
    \/ g = gen /\ Listening
    \/ \E k \in Conns : Alive(k) /\ via[k] = g

\* What the monitor sees: the end of a socket that was shut down, or whose
\* last copy is closed, or that nobody can accept any more.
HungUp(k) ==
    \/ conn[k] = "dropped"
    \/ conn[k] = "queued" /\ ~ListenerOpen(via[k])
    \/ /\ conn[k] \in {"accepted", "idle", "calling", "answered", "panicked"}
       /\ k \notin Open
       /\ \A j \in Conns : Alive(j) => k \notin held[j]

----------------------------------------------------------------------------
(* do_main().                                                              *)

Exit ==
    /\ main' = "exited"
    /\ queue' = <<>> /\ leaked' = 0
    /\ UNCHANGED <<gen, path, sizesOk, conn, via, kid, held, did>>

\* Mutated form: a socket left by an earlier instance stays.
RemoveFileNot ==
    /\ main = "start" /\ main' = "removed"
    /\ UNCHANGED <<gen, path, queue, leaked, sizesOk, faults, conn, via, kid, held, did>>

\* remove_file(); NotFound is no error.
RemoveFile ==
    /\ main = "start" /\ main' = "removed"
    /\ path' = 0
    /\ UNCHANGED <<gen, queue, leaked, sizesOk, faults, conn, via, kid, held, did>>

\* bind() and listen(); EADDRINUSE when the path exists.
Bind ==
    /\ main = "removed"
    /\ IF path = 0
       THEN /\ main' = "bound" /\ path' = gen
            /\ UNCHANGED <<gen, queue, leaked, sizesOk, conn, via, kid, held, did>>
       ELSE Exit
    /\ UNCHANGED faults

\* sd_notify(READY=1), then the loop.
Notify ==
    /\ main = "bound" /\ main' = "serving"
    /\ UNCHANGED <<gen, path, queue, leaked, sizesOk, faults, conn, via, kid, held, did>>

Used == Cardinality(Open) + leaked

\* Mutated form: the task is awaited instead of spawned.
AcceptAwaits ==
    /\ main = "serving" /\ queue # <<>>
    /\ Open = {}
    /\ conn' = [conn EXCEPT ![Head(queue)] = "accepted"]
    /\ queue' = Tail(queue)
    /\ UNCHANGED <<gen, main, path, leaked, sizesOk, faults, via, kid, held, did>>

\* accept(), and a task for the client; an error ends the daemon.
Accept ==
    /\ main = "serving" /\ queue # <<>>
    /\ IF Used < FdLimit
       THEN /\ conn' = [conn EXCEPT ![Head(queue)] = "accepted"]
            /\ queue' = Tail(queue)
            /\ UNCHANGED <<gen, main, path, leaked, sizesOk, via, kid, held, did>>
       ELSE Exit
    /\ UNCHANGED faults

\* The daemon is killed, or a step of its start fails.
Crash ==
    /\ main # "exited" /\ faults < MaxFaults
    /\ Exit
    /\ faults' = faults + 1

\* systemd starts the next instance (Restart=on-failure).
Restart ==
    /\ main = "exited" /\ gen < MaxGen
    /\ gen' = gen + 1 /\ main' = "start"
    /\ UNCHANGED <<path, queue, leaked, sizesOk, faults, conn, via, kid, held, did>>

----------------------------------------------------------------------------
(* Monitors, tasks and children.                                           *)

Become(k, state) == conn' = [conn EXCEPT ![k] = state]

\* A full backlog makes the monitor wait; a path that is gone, or a socket
\* that no process has, refuses it.
Connect(k) ==
    /\ conn[k] = "none"
    /\ IF path # 0 /\ ListenerOpen(path)
       THEN /\ path = gen /\ Listening => Len(queue) < Backlog
            /\ Become(k, "queued")
            /\ via' = [via EXCEPT ![k] = path]
            /\ queue' = IF path = gen /\ Listening THEN Append(queue, k) ELSE queue
       ELSE Become(k, "refused") /\ UNCHANGED <<via, queue>>
    /\ UNCHANGED <<gen, main, path, leaked, sizesOk, faults, kid, held, did>>

\* The monitor closes, the task reads end of file and ends.
MonClose(k) ==
    /\ k \in Open /\ conn[k] \in {"idle", "answered"}
    /\ Become(k, "closed")
    /\ UNCHANGED <<daemonVars, via, kid, held, did>>

\* The task starts with ProxyMessageBuffer::new(), which looks at
\* SECCOMP_SIZES: a mismatch panics in the first task, and in every later one.
MainDo(k) ==
    /\ k \in Open /\ conn[k] = "accepted"
    /\ Become(k, IF sizesOk THEN "idle" ELSE "panicked")
    /\ UNCHANGED <<daemonVars, via, kid, held, did>>

\* Mutated form: the child closes the sockets it does not need.
HandleClosing(k) ==
    /\ k \in Open /\ conn[k] = "idle"
    /\ Become(k, "calling")
    /\ kid' = [kid EXCEPT ![k] = "run"]
    /\ UNCHANGED <<daemonVars, via, held, did>>

\* A request whose handler forks: the child has what is open now.
Handle(k) ==
    /\ k \in Open /\ conn[k] = "idle"
    /\ Become(k, "calling")
    /\ kid' = [kid EXCEPT ![k] = "run"]
    /\ held' = [held EXCEPT ![k] = Open]
    /\ UNCHANGED <<daemonVars, via, did>>

\* The child makes the system call.
Act(k) ==
    /\ Alive(k) /\ ~did[k]
    /\ did' = [did EXCEPT ![k] = TRUE]
    /\ UNCHANGED <<daemonVars, conn, via, kid, held>>

\* It exits, or is killed: with the daemon's control group if it has not yet
\* moved to the container's, or by the daemon.
KidExits(k) ==
    /\ Alive(k)
    /\ kid' = [kid EXCEPT ![k] = "gone"]
    /\ UNCHANGED <<daemonVars, conn, via, held, did>>

\* The child is reaped and the monitor gets the answer; or the child could
\* not be waited for, was sent SIGKILL, and the answer is an error.  An error
\* that is not the system's, or of sending the answer, costs the connection.
Reply(k) ==
    /\ k \in Open /\ conn[k] = "calling"
    /\ \/ kid[k] = "gone" /\ UNCHANGED kid
       \/ kid[k] = "run" /\ kid' = [kid EXCEPT ![k] = "killed"]
    /\ \E state \in {"answered", "dropped"} : Become(k, state)
    /\ UNCHANGED <<daemonVars, via, held, did>>

\* A message that is rejected costs the connection, and the descriptors that
\* came with it.
WrapError(k, n) ==
    /\ k \in Open /\ conn[k] \in {"idle", "answered"}
    /\ Become(k, "dropped")
    /\ leaked' = leaked + n
    /\ UNCHANGED <<gen, main, path, queue, sizesOk, faults, via, kid, held, did>>

Run == RemoveFile \/ Bind \/ Notify \/ Accept \/ Restart

Serve(k) == MainDo(k) \/ (kid[k] = "gone" /\ Reply(k))

Next ==
    \/ Run \/ Crash
    \/ \E k \in Conns : \/ Connect(k) \/ MonClose(k) \/ MainDo(k) \/ Handle(k)
                        \/ Act(k) \/ KidExits(k) \/ Reply(k)
                        \/ \E n \in {0, 2} : WrapError(k, n)

Spec == Init /\ [][Next]_vars

\* The main thread and systemd go on, tasks that can proceed are polled, and
\* children end whose system call returns.  Nothing ends a child that hangs:
\* there is no timeout, and it may be out of reach of SIGKILL.
FairSpec ==
    /\ Spec /\ WF_vars(Run)
    /\ \A k \in Conns : WF_vars(Serve(k))
    /\ \A k \in Conns \ Hung : WF_vars(KidExits(k))

----------------------------------------------------------------------------
(* Properties.                                                             *)

\* A monitor that sees its connection end before the answer can rely on it:
\* the system call is not made afterwards.  The daemon may be gone and the
\* child still at work, but then the child has the socket.  A child that was
\* sent SIGKILL is the exception; its monitor has had an error as answer, or
\* lost the connection when that could not be sent.
HangupIsFinal ==
    [][\A k \in Conns : did'[k] # did[k] /\ HungUp(k) => kid[k] = "killed"]_vars

Waiting(k) == conn[k] \in {"queued", "calling"}

\* Child h makes the monitor of k wait: it makes k's own call, or the instance
\* of k is gone and h, left over from it, still has what it inherited, the
\* listener in whose queue k is or the socket of k.
Delays(h, k) ==
    /\ Alive(h) /\ Waiting(k)
    /\ \/ h = k
       \/ /\ ~(via[k] = gen /\ Listening)
          /\ \/ conn[k] = "queued" /\ via[h] = via[k]
             \/ conn[k] = "calling" /\ k \in held[h]

\* No monitor waits for ever to be accepted or answered: it is served, or it
\* sees the connection end, whatever other connections, crashes and a full
\* descriptor table do.  A system call that hangs makes only its own monitor
\* wait as long as the daemon lives; when the daemon exits, the hanging child
\* also keeps those waiting whose sockets or queue it inherited.
NobodyWaitsForever ==
    \A k \in Conns :
        Waiting(k) ~> (~Waiting(k) \/ HungUp(k) \/ \E h \in Hung : Delays(h, k))

\* The daemon always comes back to accepting connections.
ComesBack == (main # "serving") ~> (main = "serving")
=============================================================================
