---------------------------- MODULE AsyncIoProofs ----------------------------
(***************************************************************************)
(* For any number of units and events: no wake-up is lost, and no worker   *)
(* thread sleeps in a call of a descriptor.                                *)
(***************************************************************************)
EXTENDS AsyncIo, TLAPS

There == avail > 0 \/ closed

Numbers ==
    /\ kind \in Kinds /\ avail \in Nat /\ taken \in Nat
    /\ tick \in Nat /\ seen \in Nat /\ seen <= tick
    /\ pc \in {"poll", "parked", "call", "clear", "blocked", "done"}

Flags ==
    /\ closed \in BOOLEAN /\ edge \in BOOLEAN /\ flight \in BOOLEAN
    /\ ready \in BOOLEAN /\ hup \in BOOLEAN /\ waker \in BOOLEAN

\* The runtime's mark is never missing without an event to bring it back, not
\* even when a task is about to clear it.
Marked ==
    /\ There /\ ~ready => edge \/ flight
    /\ pc = "clear" /\ There => edge \/ flight \/ tick # seen
    /\ pc = "parked" => waker /\ ~ready

\* A result pipe is marked ready only when it has the result or is closed, and
\* its task reads once; only descriptors that do not block give WouldBlock.
PipeReady ==
    /\ pc = "clear" => ~Blocking(kind)
    /\ hup => closed
    /\ kind = "pipe" => /\ pc # "done" => taken = 0
                        /\ taken = 0 /\ (flight \/ ready \/ pc = "call") => There
    /\ WorkersNeverBlock

AsyncInv == Numbers /\ Flags /\ Marked /\ PipeReady

LEMMA InitInv == Init => AsyncInv
  <1> SUFFICES ASSUME Init PROVE AsyncInv
    OBVIOUS
  <1>1. avail \in Nat
    BY AsyncIoAssumption DEF Init, Most
  <1>2. edge \in BOOLEAN /\ (There => edge)
    BY <1>1 DEF Init, There
  <1>3. Numbers
    BY <1>1 DEF Init, Numbers
  <1>5. Flags
    BY <1>2, Zenon DEF Init, Flags
  <1>4. Marked /\ PipeReady
    BY <1>2 DEF Init, Marked, PipeReady, WorkersNeverBlock
  <1> QED
    BY <1>3, <1>4, <1>5 DEF AsyncInv

LEMMA NextInv == AsyncInv /\ [Next]_vars => AsyncInv'
  <1> SUFFICES ASSUME AsyncInv, [Next]_vars PROVE AsyncInv'
    OBVIOUS
  <1> USE DEF AsyncInv, Numbers, Flags, Marked, PipeReady, There, WorkersNeverBlock,
          Blocking, Kinds
  <1>1. CASE Arrive
    BY <1>1 DEF Arrive
  <1>2. CASE Close
    BY <1>2 DEF Close
  <1>3. CASE OtherDirection
    BY <1>3 DEF OtherDirection, kernel
  <1>4. CASE EpollWait
    BY <1>4 DEF EpollWait, kernel
  <1>5. CASE Dispatch
    <2>1. Numbers' /\ Marked'
      BY <1>5 DEF Dispatch, kernel
    <2>2. Flags'
      BY <1>5, Zenon DEF Dispatch, kernel
    <2>3. hup' => closed'
      BY <1>5, Zenon DEF Dispatch, kernel
    <2>4. PipeReady'
      BY <1>5, <2>3 DEF Dispatch, kernel
    <2> QED
      BY <2>1, <2>2, <2>4
  <1>6. CASE Readable
    <2>1. CASE ready \/ hup
      BY <1>6, <2>1 DEF Readable, kernel, runtime
    <2>2. CASE ~(ready \/ hup)
      BY <1>6, <2>2 DEF Readable, kernel, runtime
    <2> QED
      BY <2>1, <2>2
  <1>7. CASE Call
    <2>1. CASE Took /\ UNCHANGED ready
      BY <1>7, <2>1 DEF Call, Took
    <2>2. CASE avail = 0 /\ closed /\ Goto("done")
      BY <1>7, <2>2 DEF Call, Goto, kernel, runtime
    <2>3. CASE avail = 0 /\ ~closed /\ Goto(IF Blocking(kind) THEN "blocked" ELSE "clear")
      BY <1>7, <2>3 DEF Call, Goto, kernel, runtime
    <2> QED
      BY <1>7, <2>1, <2>2, <2>3 DEF Call
  <1>8. CASE Unblock
    BY <1>8 DEF Unblock, Took
  <1>9. CASE ClearReady
    BY <1>9 DEF ClearReady, kernel
  <1>10. CASE UNCHANGED vars
    BY <1>10 DEF vars, kernel, runtime
  <1> QED
    BY <1>1, <1>2, <1>3, <1>4, <1>5, <1>6, <1>7, <1>8, <1>9, <1>10 DEF Next, Task

\* While a task sleeps in wrap_read, wrap_write or poll_read, what it waits
\* for is there only if its waker is registered and an event is on its way.
THEOREM WakeupsAreKept == Spec => []NoLostWakeup
  <1>1. AsyncInv => NoLostWakeup
    BY DEF AsyncInv, Numbers, Flags, Marked, There, NoLostWakeup
  <1> QED
    BY InitInv, NextInv, <1>1, PTL DEF Spec

\* Only accept4() on the listener sleeps in a call: poll_read does not, though
\* its pipe blocks.
THEOREM OnlyAcceptSleeps == Spec => []WorkersNeverBlock
  <1>1. AsyncInv => WorkersNeverBlock
    BY DEF AsyncInv, PipeReady
  <1> QED
    BY InitInv, NextInv, <1>1, PTL DEF Spec
=============================================================================
