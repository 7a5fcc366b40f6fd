------------------------------- MODULE AsyncIo -------------------------------
(***************************************************************************)
(* Waiting for a descriptor: wrap_read and wrap_write (io/mod.rs) on the   *)
(* sockets of io/seq_packet.rs, and poll_read (io/pipe.rs) on the pipe of  *)
(* a forked call.                                                          *)
(*                                                                         *)
(* The kernel has `avail' units for the descriptor: messages to receive,   *)
(* room to send, connections to accept, the result in the pipe.  It        *)
(* reports a change to epoll once (edge-triggered).  The runtime's driver  *)
(* fetches the event and marks the descriptor ready, with a new tick.  The *)
(* mark stays until a task that met WouldBlock clears it; clearing does    *)
(* nothing if the tick has changed since the task looked.                  *)
(***************************************************************************)
EXTENDS Integers

CONSTANTS
    MaxUnits,   \* bound on the units that ever come to a socket
    MaxTicks    \* bound on the events the driver applies

ASSUME AsyncIoAssumption == MaxUnits \in Nat /\ MaxTicks \in Nat

(***************************************************************************)
(* recvmsg() and sendmsg() on a client's socket, accept4() on the          *)
(* listener, read() on a result pipe.                                      *)
(***************************************************************************)
Kinds == {"recv", "send", "listener", "pipe"}

VARIABLES
    kind,
    avail, came, taken,    \* units there now, ever there, and used
    closed,                \* the other side has closed
    edge,                  \* epoll has an event for us
    flight,                \* the driver has fetched it and not yet applied it
    ready, hup, tick,      \* the runtime's mark, its `closed' bit, its tick
    waker,                 \* the task's waker is registered
    pc, seen               \* the task, and the tick in its guard

kernel == <<kind, avail, came, closed>>
runtime == <<edge, flight, ready, hup, tick>>
vars == <<kernel, taken, runtime, waker, pc, seen>>

\* Mutated form: accept4() without SOCK_NONBLOCK.
BlockingAll(k) == TRUE

\* socket() and pipe2() are called without the flag, accept4() with it.
Blocking(k) == k \in {"listener", "pipe"}

\* A child writes its result once.
Most(k) == IF k = "pipe" THEN 1 ELSE MaxUnits

\* AsyncFd::new: epoll reports at once what is there at registration.  The
\* monitor may have sent, and the child may have written and exited, before.
Init ==
    /\ kind \in Kinds
    /\ avail \in 0..Most(kind) /\ came = avail /\ taken = 0
    /\ closed \in BOOLEAN /\ (kind = "listener" => ~closed)
    /\ edge = (avail > 0 \/ closed)
    /\ flight = FALSE
    /\ ready = FALSE /\ hup = FALSE /\ tick = 0
    /\ waker = FALSE
    /\ pc = "poll" /\ seen = 0

----------------------------------------------------------------------------
(* The other side, the kernel's epoll and the runtime's driver.            *)

Arrive ==
    /\ ~closed /\ came < Most(kind)
    /\ avail' = avail + 1 /\ came' = came + 1
    /\ edge' = TRUE
    /\ UNCHANGED <<kind, closed, taken, flight, ready, hup, tick, waker, pc, seen>>

Close ==
    /\ ~closed /\ kind # "listener"
    /\ closed' = TRUE
    /\ edge' = TRUE
    /\ UNCHANGED <<kind, avail, came, taken, flight, ready, hup, tick, waker, pc, seen>>

\* A socket has one event for both directions: news of the other one brings
\* up ours again.
OtherDirection ==
    /\ kind \in {"recv", "send"} /\ tick < MaxTicks
    /\ edge' = TRUE
    /\ UNCHANGED <<kernel, taken, flight, ready, hup, tick, waker, pc, seen>>

\* epoll_wait looks again: what has come to nothing is not reported.
EpollWait ==
    /\ edge /\ ~flight
    /\ edge' = FALSE
    /\ flight' = (avail > 0 \/ closed)
    /\ UNCHANGED <<kernel, taken, ready, hup, tick, waker, pc, seen>>

\* A waker is used once.
Dispatch ==
    /\ flight
    /\ flight' = FALSE
    /\ ready' = TRUE /\ tick' = tick + 1
    /\ hup' = (hup \/ closed)
    /\ waker' = FALSE
    /\ pc' = IF pc = "parked" /\ waker THEN "poll" ELSE pc
    /\ UNCHANGED <<kernel, taken, edge, seen>>

----------------------------------------------------------------------------
(* The task.                                                               *)

\* readable(), poll_read_ready(): look, and register the waker if not ready.
Readable ==
    /\ pc = "poll"
    /\ IF ready \/ hup
       THEN pc' = "call" /\ seen' = tick /\ UNCHANGED waker
       ELSE pc' = "parked" /\ waker' = TRUE /\ UNCHANGED seen
    /\ UNCHANGED <<kernel, taken, runtime>>

\* The call returned a unit.  A task has one result to read; sockets and the
\* listener are asked again once the unit is dealt with.
Took ==
    /\ avail > 0
    /\ avail' = avail - 1 /\ taken' = taken + 1
    /\ pc' = IF kind = "pipe" THEN "done" ELSE "poll"
    /\ UNCHANGED <<kind, came, closed, edge, flight, hup, tick, waker, seen>>

Goto(to) == pc' = to /\ UNCHANGED <<kernel, taken, runtime, waker, seen>>

\* Mutated form: the mark is cleared whenever the call returns.
CallClears ==
    /\ pc = "call"
    /\ \/ Took /\ ready' = FALSE
       \/ avail = 0 /\ closed /\ Goto("done")
       \/ avail = 0 /\ ~closed /\ Goto(IF Blocking(kind) THEN "blocked" ELSE "clear")

\* Mutated form: end of file is taken for WouldBlock.
CallMissesEof ==
    /\ pc = "call"
    /\ \/ Took /\ UNCHANGED ready
       \/ avail = 0 /\ closed /\ Goto("clear")
       \/ avail = 0 /\ ~closed /\ Goto(IF Blocking(kind) THEN "blocked" ELSE "clear")

\* A unit, and the mark is retained; end of file or an error; or nothing
\* there, in which case a blocking descriptor keeps the thread.
Call ==
    /\ pc = "call"
    /\ \/ Took /\ UNCHANGED ready
       \/ avail = 0 /\ closed /\ Goto("done")
       \/ avail = 0 /\ ~closed /\ Goto(IF Blocking(kind) THEN "blocked" ELSE "clear")

\* The kernel wakes the thread that sleeps in the call.
Unblock ==
    /\ pc = "blocked"
    /\ Took /\ UNCHANGED ready

\* Mutated form: the mark is cleared whatever came since the call.
ClearReadyAnyway ==
    /\ pc = "clear"
    /\ ready' = FALSE
    /\ pc' = IF kind = "pipe" THEN "parked" ELSE "poll"
    /\ UNCHANGED <<kernel, taken, edge, flight, hup, tick, waker, seen>>

\* clear_ready(), then `continue' in wrap_read and wrap_write, Poll::Pending
\* in poll_read.
ClearReady ==
    /\ pc = "clear"
    /\ ready' = (ready /\ tick # seen)
    /\ pc' = IF kind = "pipe" THEN "parked" ELSE "poll"
    /\ UNCHANGED <<kernel, taken, edge, flight, hup, tick, waker, seen>>

Task == Readable \/ Call \/ Unblock \/ ClearReady

Next == Arrive \/ Close \/ OtherDirection \/ EpollWait \/ Dispatch \/ Task

Spec == Init /\ [][Next]_vars

\* The driver runs and the runtime polls every task that was woken; the
\* kernel runs a thread whose call can return.  The other side owes nothing.
FairSpec == Spec /\ WF_vars(EpollWait) /\ WF_vars(Dispatch) /\ WF_vars(Task)

----------------------------------------------------------------------------
(* Properties.                                                             *)

\* No wake-up is lost: while a task sleeps, something it waits for is there
\* only if its waker is registered and an event is on its way.  Units that
\* come between a call's WouldBlock and clear_ready() are what could break
\* it, and poll_read's Pending, which registers no waker.
NoLostWakeup ==
    pc = "parked" /\ (avail > 0 \/ closed) => waker /\ (edge \/ flight)

\* No worker thread sleeps in a call of a descriptor: result pipes block, but
\* are read only when they have something.  Only accept4() may sleep, in the
\* main thread, after a connection it was marked ready for has been accepted.
WorkersNeverBlock == pc = "blocked" => kind = "listener"

\* Every message, connection or result that comes is used, and room to send
\* is found, unless the task is done with the descriptor.
EveryUnitIsUsed ==
    \A n \in 1..MaxUnits : (came >= n) ~> (taken >= n \/ pc = "done")

\* A task learns that the other side has closed.
ClosingIsSeen == closed ~> pc = "done"
=============================================================================
