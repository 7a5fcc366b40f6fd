-------------------------------- MODULE Fork --------------------------------
(***************************************************************************)
(* src/fork.rs with the pipe of src/io/pipe.rs: forking_syscall() as       *)
(* several tasks of the multi-threaded runtime run it at the same time.    *)
(*                                                                         *)
(* Each call c makes a pipe, forks a child that runs the handler's closure *)
(* and writes one packed `Data` to the pipe, reads it and waits for the    *)
(* child.  The tasks run on NWorkers threads of ONE process, so fork()     *)
(* copies whatever pipe ends the other calls have open at that moment:     *)
(* O_CLOEXEC does not help, the children never exec.                       *)
(***************************************************************************)
EXTENDS SyscallResult, FiniteSets

CONSTANTS Calls,      \* invocations of forking_syscall()
          Daemon,     \* the daemon's process; the child of call c is c itself
          NWorkers,   \* worker threads of the runtime (2 to 4, main.rs)
          Hung        \* calls whose closure may never return from the kernel

ASSUME ForkAssumption ==
    /\ Daemon \notin Calls
    /\ NWorkers \in Nat \ {0}
    /\ Hung \subseteq Calls

Procs == Calls \cup {Daemon}
R(c) == <<c, "r">>     \* pipe_r of call c
W(c) == <<c, "w">>     \* pipe_w of call c
PipeEnds == Calls \X {"r", "w"}

(***************************************************************************)
(* The wire format between child and daemon: struct Data.                  *)
(***************************************************************************)
Datas == [val : Vals \cup {-1}, error : Errnos \cup {-1, 0},
          failure : Errnos \cup {0}]

EncodeLosesFailure(r) ==     \* mutant: a failed closure reported in `error`
    CASE r.kind = "ok"       -> [val |-> r.n, error |-> 0,   failure |-> 0]
      [] r.kind = "err"      -> [val |-> -1,  error |-> r.n, failure |-> 0]
      [] r.kind = "fail"     -> [val |-> -1,  error |-> -1,  failure |-> 0]
      [] r.kind = "failNoOs" -> [val |-> -1,  error |-> -1,  failure |-> EFAULT]

Encode(r) ==
    CASE r.kind = "ok"       -> [val |-> r.n, error |-> 0,   failure |-> 0]
      [] r.kind = "err"      -> [val |-> -1,  error |-> r.n, failure |-> 0]
      [] r.kind = "fail"     -> [val |-> -1,  error |-> -1,  failure |-> r.n]
      [] r.kind = "failNoOs" -> [val |-> -1,  error |-> -1,  failure |-> EFAULT]

Decode(d) ==
    CASE d.failure # 0                 -> [kind |-> "osErr", n |-> d.failure]
      [] d.failure = 0 /\ d.error = 0  -> [kind |-> "ok", n |-> d.val]
      [] d.failure = 0 /\ d.error # 0  -> [kind |-> "err", n |-> d.error]

-----------------------------------------------------------------------------
VARIABLES pc,       \* pc[c]: the daemon's task of call c
          child,    \* child[c]: the life of the forked process
          status,   \* status[c]: its wait status once it is a zombie
          killed,   \* killed[c]: SIGKILL is pending for it
          did,      \* did[c]: what the closure returned, None before it ran
          pipe,     \* pipe[c]: the bytes in the pipe: None or one Data
          fds,      \* fds[p]: the pipe ends open in process p
          outcome   \* outcome[c]: what forking_syscall() returns

vars == <<pc, child, status, killed, did, pipe, fds, outcome>>

(***************************************************************************)
(* "piped" .. "register" are the points of Fork::new(), "await" the        *)
(* suspended read in get_result(), "wait" the wait() of forking_syscall(), *)
(* "drop" the one of Drop.  "abandoned" is a return from Fork::new() that  *)
(* leaves a child behind.                                                  *)
(***************************************************************************)
TaskStates == {"start", "piped", "forked", "register", "kill", "await",
               "wait", "drop", "returned", "abandoned"}
(* "forked" .. "computed" hold the write end; "exit0", "exit1" and         *)
(* "unwound" are past the closure and only have _exit() left.              *)
ChildStates == {"none", "forked", "running", "computed", "exit0", "exit1",
                "unwound", "zombie", "reaped"}
Executing == {"forked", "running", "computed"}
Exiting == {"exit0", "exit1", "unwound"}
Statuses == {"zero", "nonzero"}

TypeOK ==
    /\ pc \in [Calls -> TaskStates]
    /\ child \in [Calls -> ChildStates]
    /\ status \in [Calls -> Statuses]
    /\ killed \in [Calls -> BOOLEAN]
    /\ did \in [Calls -> FuncResults \cup {None}]
    /\ pipe \in [Calls -> Datas \cup {None}]
    /\ fds \in [Procs -> SUBSET PipeEnds]
    /\ outcome \in [Calls -> Outcomes \cup {None}]

Init ==
    /\ pc = [c \in Calls |-> "start"]
    /\ child = [c \in Calls |-> "none"]
    /\ status = [c \in Calls |-> "zero"]
    /\ killed = [c \in Calls |-> FALSE]
    /\ did = [c \in Calls |-> None]
    /\ pipe = [c \in Calls |-> None]
    /\ fds = [p \in Procs |-> {}]
    /\ outcome = [c \in Calls |-> None]

(***************************************************************************)
(* A task occupies a worker thread except where it awaits; wait() blocks   *)
(* the thread.                                                             *)
(***************************************************************************)
Busy == {c \in Calls : pc[c] \in {"piped", "forked", "register", "kill",
                                  "wait", "drop"}}
WorkerFree == Cardinality(Busy) < NWorkers

(* The call returns o to the handler; the daemon's ends of its pipe close. *)
ReturnTo(c, state, o) ==
    /\ pc' = [pc EXCEPT ![c] = state]
    /\ outcome' = [outcome EXCEPT ![c] = o]
    /\ fds' = [fds EXCEPT ![Daemon] = @ \ {R(c), W(c)}]

-----------------------------------------------------------------------------
(* Fork::new() in the daemon.                                              *)

PipeFds(c) ==
    /\ pc[c] = "start"
    /\ WorkerFree
    /\ \/ /\ pc' = [pc EXCEPT ![c] = "piped"]
          /\ fds' = [fds EXCEPT ![Daemon] = @ \cup {R(c), W(c)}]
          /\ UNCHANGED outcome
       \/ \E o \in OsErrors : ReturnTo(c, "returned", o)
    /\ UNCHANGED <<child, status, killed, did, pipe>>

(* fork() duplicates the whole descriptor table, whatever other calls      *)
(* have open in it.                                                        *)
ForkChild(c) ==
    /\ pc[c] = "piped"
    /\ \/ /\ pc' = [pc EXCEPT ![c] = "forked"]
          /\ child' = [child EXCEPT ![c] = "forked"]
          /\ fds' = [fds EXCEPT ![c] = fds[Daemon]]
          /\ UNCHANGED outcome
       \/ /\ \E o \in OsErrors : ReturnTo(c, "returned", o)
          /\ UNCHANGED child
    /\ UNCHANGED <<status, killed, did, pipe>>

DropPipeWForgotten(c) ==     \* mutant: the daemon keeps its write end
    /\ pc[c] = "forked"
    /\ pc' = [pc EXCEPT ![c] = "register"]
    /\ UNCHANGED <<child, status, killed, did, pipe, outcome, fds>>

DropPipeW(c) ==
    /\ pc[c] = "forked"
    /\ pc' = [pc EXCEPT ![c] = "register"]
    /\ fds' = [fds EXCEPT ![Daemon] = @ \ {W(c)}]
    /\ UNCHANGED <<child, status, killed, did, pipe, outcome>>

(* pipe_r.try_into(): AsyncFd::new() registers the read end, or fails and  *)
(* closes it.                                                              *)
TryInto(c) ==
    /\ pc[c] = "register"
    /\ \/ pc' = [pc EXCEPT ![c] = "await"] /\ UNCHANGED fds
       \/ /\ pc' = [pc EXCEPT ![c] = "kill"]
          /\ fds' = [fds EXCEPT ![Daemon] = @ \ {R(c)}]
    /\ UNCHANGED <<child, status, killed, did, pipe, outcome>>

(* kill(pid, 9) and return: no Fork was built, so nothing waits.  Without  *)
(* effect on a child that is already a zombie.                             *)
KillChild(c) ==
    /\ pc[c] = "kill"
    /\ killed' = [killed EXCEPT ![c] = TRUE]
    /\ \E o \in OsErrors : ReturnTo(c, "abandoned", o)
    /\ UNCHANGED <<child, status, did, pipe>>

-----------------------------------------------------------------------------
(* The child.                                                              *)

ChildStartDropsBoth(c) ==    \* mutant: the child closes its write end early
    /\ child[c] = "forked"
    /\ child' = [child EXCEPT ![c] = "running"]
    /\ fds' = [fds EXCEPT ![c] = @ \ {R(c), W(c)}]
    /\ UNCHANGED <<pc, status, killed, did, pipe, outcome>>

ChildStart(c) ==
    /\ child[c] = "forked"
    /\ child' = [child EXCEPT ![c] = "running"]
    /\ fds' = [fds EXCEPT ![c] = @ \ {R(c)}]
    /\ UNCHANGED <<pc, status, killed, did, pipe, outcome>>

(* The closure runs, with whatever effect it has, and returns r.           *)
ChildFunc(c, r) ==
    /\ child[c] = "running"
    /\ child' = [child EXCEPT ![c] = "computed"]
    /\ did' = [did EXCEPT ![c] = r]
    /\ UNCHANGED <<pc, status, killed, pipe, fds, outcome>>

(* A panic in set_fd_nonblocking() or in the closure: unwinding drops      *)
(* pipe_w, catch_unwind() returns, and _exit(-1) is left.                  *)
ChildPanic(c) ==
    /\ child[c] = "running"
    /\ child' = [child EXCEPT ![c] = "unwound"]
    /\ fds' = [fds EXCEPT ![c] = @ \ {W(c)}]
    /\ UNCHANGED <<pc, status, killed, did, pipe, outcome>>

(* write_all(): sixteen bytes, atomic on a pipe.  EPIPE when every process *)
(* has closed the read end (SIGPIPE is ignored).                           *)
ChildWrite(c) ==
    /\ child[c] = "computed"
    /\ \/ /\ \E p \in Procs : R(c) \in fds[p]
          /\ pipe' = [pipe EXCEPT ![c] = Encode(did[c])]
          /\ child' = [child EXCEPT ![c] = "exit0"]
       \/ /\ \A p \in Procs : R(c) \notin fds[p]
          /\ child' = [child EXCEPT ![c] = "exit1"]
          /\ UNCHANGED pipe
    /\ UNCHANGED <<pc, status, killed, did, fds, outcome>>

(* The process ends with wait status s and all its descriptors close.      *)
Die(c, s) ==
    /\ child' = [child EXCEPT ![c] = "zombie"]
    /\ status' = [status EXCEPT ![c] = s]
    /\ fds' = [fds EXCEPT ![c] = {}]
    /\ UNCHANGED <<pc, killed, did, pipe, outcome>>

ChildExit(c) ==
    \/ child[c] = "exit0" /\ Die(c, "zero")
    \/ child[c] \in {"exit1", "unwound"} /\ Die(c, "nonzero")

(* The pending SIGKILL takes effect.                                       *)
ChildKilled(c) ==
    /\ child[c] \in Executing \cup Exiting
    /\ killed[c]
    /\ Die(c, "nonzero")

(* Somebody else kills the child: it sits in the container's cgroup.       *)
ChildCrash(c) ==
    /\ child[c] \in Executing \cup Exiting
    /\ Die(c, "nonzero")

-----------------------------------------------------------------------------
(* get_result(), wait() and Drop in the daemon.                            *)

PipeEof(c) == pipe[c] = None /\ \A p \in Procs : W(c) \notin fds[p]

GetResultReadToEnd(c) ==     \* mutant: read up to end of file
    /\ pc[c] = "await"
    /\ pipe[c] # None
    /\ \A p \in Procs : W(c) \notin fds[p]
    /\ WorkerFree
    /\ pipe' = [pipe EXCEPT ![c] = None]
    /\ outcome' = [outcome EXCEPT ![c] = Decode(pipe[c])]
    /\ pc' = [pc EXCEPT ![c] =
                 IF Decode(pipe[c]).kind = "osErr" THEN "drop" ELSE "wait"]
    /\ UNCHANGED <<child, status, killed, did, fds>>

(* read_exact() gets the sixteen bytes.  A failure leaves by `?`, so Drop  *)
(* waits; otherwise forking_syscall() itself waits.                        *)
GetResult(c) ==
    /\ pc[c] = "await"
    /\ pipe[c] # None
    /\ WorkerFree
    /\ pipe' = [pipe EXCEPT ![c] = None]
    /\ outcome' = [outcome EXCEPT ![c] = Decode(pipe[c])]
    /\ pc' = [pc EXCEPT ![c] =
                 IF Decode(pipe[c]).kind = "osErr" THEN "drop" ELSE "wait"]
    /\ UNCHANGED <<child, status, killed, did, fds>>

(* read_exact() meets end of file: ErrorKind::UnexpectedEof, then Drop.    *)
GetEof(c) ==
    /\ pc[c] = "await"
    /\ PipeEof(c)
    /\ WorkerFree
    /\ outcome' = [outcome EXCEPT ![c] = NoOsError]
    /\ pc' = [pc EXCEPT ![c] = "drop"]
    /\ UNCHANGED <<child, status, killed, did, pipe, fds>>

(* waitpid() returns: the zombie is gone.                                  *)
Reap(c) ==
    /\ child[c] = "zombie"
    /\ child' = [child EXCEPT ![c] = "reaped"]
    /\ UNCHANGED <<status, killed, did, pipe>>

WaitIgnoresStatus(c) ==      \* mutant: wait() does not look at the status
    /\ pc[c] = "wait"
    /\ Reap(c)
    /\ ReturnTo(c, "returned", outcome[c])

WaitKeepsPid(c) ==           \* mutant: wait() leaves the pid for Drop
    /\ pc[c] = "wait"
    /\ Reap(c)
    /\ ReturnTo(c, "drop", outcome[c])

Wait(c) ==
    /\ pc[c] = "wait"
    /\ Reap(c)
    /\ ReturnTo(c, "returned",
                IF status[c] = "zero" THEN outcome[c] ELSE NoOsError)

DropForkNoWait(c) ==         \* mutant: Drop does not wait for the child
    /\ pc[c] = "drop"
    /\ ReturnTo(c, "returned", outcome[c])
    /\ UNCHANGED <<child, status, killed, did, pipe>>

DropFork(c) ==
    /\ pc[c] = "drop"
    /\ Reap(c)
    /\ ReturnTo(c, "returned", outcome[c])

-----------------------------------------------------------------------------
Task(c) ==
    \/ PipeFds(c) \/ ForkChild(c) \/ DropPipeW(c) \/ TryInto(c) \/ KillChild(c)
    \/ GetResult(c) \/ GetEof(c) \/ Wait(c) \/ DropFork(c)

Around(c) == ChildStart(c) \/ ChildWrite(c) \/ ChildExit(c) \/ ChildKilled(c)

Closure(c) == \E r \in FuncResults : ChildFunc(c, r)

Child(c) == Around(c) \/ Closure(c)

Next == \E c \in Calls : Task(c) \/ Child(c) \/ ChildPanic(c) \/ ChildCrash(c)

Spec == Init /\ [][Next]_vars

(***************************************************************************)
(* The runtime keeps polling tasks that can proceed (a free worker picks   *)
(* every ready task in turn, hence the strong fairness of the steps that   *)
(* need one), and the kernel keeps scheduling the children.  Nobody has to *)
(* panic or crash, and the closures of Hung need not return.               *)
(***************************************************************************)
Fairness ==
    \A c \in Calls :
        /\ WF_vars(Task(c))
        /\ SF_vars(PipeFds(c) \/ GetResult(c) \/ GetEof(c))
        /\ WF_vars(Around(c)) /\ (c \notin Hung => WF_vars(Closure(c)))

FairSpec == Spec /\ Fairness

-----------------------------------------------------------------------------
(* Properties.                                                             *)

(* A call that has returned left no process behind: its child was never    *)
(* made, or wait()/Drop collected it.  So there is no zombie, and the      *)
(* closure cannot take effect after the handler has its answer.            *)
ReturnedMeansReaped ==
    \A c \in Calls : pc[c] = "returned" => child[c] \in {"none", "reaped"}

(* What the handler is told is what its own closure did, although the      *)
(* pipes are shared by inheritance: a status is the closure's own, from a  *)
(* child that exited with 0; an OS error is the closure's own, or there    *)
(* was no child.                                                           *)
OwnResult ==
    \A c \in Calls : pc[c] = "returned" =>
        \/ outcome[c] = NoOsError
        \/ child[c] = "none" /\ outcome[c] \in OsErrors
        \/ /\ did[c] # None /\ outcome[c] = Reports(did[c])
           /\ outcome[c].kind \in {"ok", "err"} => status[c] = "zero"

(* waitpid() blocks a worker thread, so it is only called for a child that *)
(* is past its closure: a system call that hangs never blocks a worker.    *)
WaitIsShort ==
    \A c \in Calls :
        pc[c] \in {"wait", "drop"} => child[c] \in Exiting \cup {"zombie"}

(* Whenever the daemon may still pass the child's pid to kill() or         *)
(* waitpid(), the pid names this call's child: it has not been reaped, so  *)
(* the kernel cannot have given it to another process.                     *)
PidIsOurs ==
    \A c \in Calls :
        pc[c] \in {"forked", "register", "kill", "await", "wait", "drop"}
            => child[c] \notin {"none", "reaped"}

(***************************************************************************)
(* The inductive invariant behind the four properties above: what the      *)
(* child still holds and has written, and what the task knows of it.       *)
(***************************************************************************)
ChildInv(c) ==
    /\ child[c] \in Executing => W(c) \in fds[c]
    /\ child[c] \in {"none", "forked", "running"} => did[c] = None
    /\ child[c] \in {"computed", "exit0", "exit1"} => did[c] # None
    /\ child[c] \in Executing \cup {"none"} => pipe[c] = None
    /\ pipe[c] # None => did[c] # None /\ pipe[c] = Encode(did[c])

TaskInv(c) ==
    /\ pc[c] \in {"start", "piped"} => child[c] = "none"
    /\ pc[c] = "piped" => W(c) \in fds[Daemon]
    /\ pc[c] = "wait" =>
          did[c] # None /\ outcome[c] = Reports(did[c]) /\ outcome[c].kind \in {"ok", "err"}
    /\ pc[c] = "drop" =>
          \/ outcome[c] = NoOsError
          \/ did[c] # None /\ outcome[c] = Reports(did[c]) /\ outcome[c].kind = "osErr"
    /\ pc[c] = "abandoned" => child[c] \notin {"none", "reaped"}

ForkInv ==
    /\ \A c \in Calls : ChildInv(c) /\ TaskInv(c)
    /\ ReturnedMeansReaped /\ OwnResult /\ WaitIsShort /\ PidIsOurs

(* The abstract specification, with the task and child states folded.      *)
Phase(c) ==
    CASE pc[c] = "start"                    -> "idle"
      [] pc[c] \in {"returned", "abandoned"} -> pc[c]
      [] OTHER                              -> "called"
phaseBar == [c \in Calls |-> Phase(c)]
outcomeBar == [c \in Calls |->
    IF pc[c] \in {"returned", "abandoned"} THEN outcome[c] ELSE None]

Abs == INSTANCE ForkedSyscall WITH phase <- phaseBar, outcome <- outcomeBar

(* Fork.tla implements ForkedSyscall.tla: the closure runs at most once,   *)
(* never after its call returned, and the call reports it truthfully.      *)
Refinement == Abs!AbsSpec

(* Every call returns if no closure hangs for ever, although calls wait    *)
(* for each other's children to close the pipe ends they inherited.        *)
EveryCallReturns ==
    (\A h \in Hung : []<>(child[h] # "running"))
        => \A c \in Calls : <>(pc[c] \in {"returned", "abandoned"})

(* A closure that hangs in the kernel does not hold up another call whose  *)
(* child has delivered its result.                                         *)
DeliveredIsReturned ==
    \A c \in Calls :
        (child[c] = "exit0" /\ pipe[c] # None) ~> (pc[c] \in {"returned", "abandoned"})

(* A call whose child died without a result also returns, unless a hung    *)
(* child inherited the write end of its pipe.                              *)
DeadIsReturnedUnlessHeld ==
    \A c \in Calls :
        (child[c] = "zombie" /\ \A h \in Hung : W(c) \notin fds[h])
            ~> (pc[c] \in {"returned", "abandoned"} \/ \E h \in Hung : W(c) \in fds[h])
=============================================================================
