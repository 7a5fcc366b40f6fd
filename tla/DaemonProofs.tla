---------------------------- MODULE DaemonProofs ----------------------------
(***************************************************************************)
(* For any number of connections, instances of the daemon, faults, and any *)
(* descriptor limit: no system call is made for a monitor that has seen    *)
(* its connection end.                                                     *)
(***************************************************************************)
EXTENDS Daemon, TLAPS

Types ==
    /\ conn \in [Conns -> {"none", "refused", "queued", "accepted", "idle", "calling",
                           "answered", "closed", "dropped", "panicked"}]
    /\ kid \in [Conns -> {"none", "run", "killed", "gone"}]
    /\ held \in [Conns -> SUBSET Conns]
    /\ did \in [Conns -> BOOLEAN]
    /\ queue \in Seq(Conns)

\* A child at work belongs to a request without an answer, and has a copy of
\* its own connection's socket.
OwnSocketHeld ==
    \A k \in Conns : kid[k] = "run" => conn[k] = "calling" /\ k \in held[k]

\* The backlog has each waiting connection once.
QueueWaits ==
    /\ \A i \in 1..Len(queue) : conn[queue[i]] = "queued"
    /\ \A i, j \in 1..Len(queue) : queue[i] = queue[j] => i = j

DaemonInv == Types /\ OwnSocketHeld /\ QueueWaits

LEMMA InitInv == Init => DaemonInv
  <1> SUFFICES ASSUME Init PROVE DaemonInv
    OBVIOUS
  <1>1. did \in [Conns -> BOOLEAN]
    BY Zenon DEF Init
  <1> QED
    BY <1>1 DEF Init, DaemonInv, Types, OwnSocketHeld, QueueWaits

\* What changes one connection that does not wait in the backlog, and leaves
\* the backlog alone, keeps the backlog in order.
LEMMA QueueKept ==
  ASSUME DaemonInv, NEW k \in Conns, NEW state, conn[k] # "queued",
         Become(k, state), queue' = queue
  PROVE  QueueWaits'
  BY DEF DaemonInv, Types, QueueWaits, Become

LEMMA ExitInv == DaemonInv /\ Exit => DaemonInv'
  <1> SUFFICES ASSUME DaemonInv, Exit PROVE DaemonInv'
    OBVIOUS
  <1>1. did' \in [Conns -> BOOLEAN]
    BY DEF DaemonInv, Types, Exit
  <1> QED
    BY <1>1 DEF DaemonInv, Types, OwnSocketHeld, QueueWaits, Exit

LEMMA NextInv == DaemonInv /\ [Next]_vars => DaemonInv'
  <1> SUFFICES ASSUME DaemonInv, [Next]_vars PROVE DaemonInv'
    OBVIOUS
  <1> USE DEF DaemonInv, Types, OwnSocketHeld
  <1>1. CASE RemoveFile \/ Notify \/ Restart \/ UNCHANGED vars
    BY <1>1 DEF RemoveFile, Notify, Restart, vars, daemonVars, QueueWaits
  <1>2. CASE Bind
    BY <1>2, ExitInv DEF Bind, QueueWaits
  <1>3. CASE Crash
    BY <1>3, ExitInv DEF Crash
  <1>4. CASE Accept
    <2>1. CASE Exit
      BY <2>1, ExitInv
    <2>2. CASE ~Exit
      <3>1. /\ queue # <<>> /\ queue' = Tail(queue)
            /\ conn' = [conn EXCEPT ![Head(queue)] = "accepted"]
            /\ UNCHANGED <<kid, held, did>>
        BY <1>4, <2>2 DEF Accept
      <3>2. /\ Head(queue) = queue[1] /\ Head(queue) \in Conns
            /\ Tail(queue) \in Seq(Conns) /\ Len(Tail(queue)) = Len(queue) - 1
            /\ \A i \in 1..Len(Tail(queue)) : Tail(queue)[i] = queue[i + 1]
            /\ Len(queue) \in Nat /\ Len(queue) >= 1
        BY <3>1
      <3>3. conn[Head(queue)] = "queued"
        BY <3>2 DEF QueueWaits
      <3>4. Types' /\ OwnSocketHeld'
        BY <3>1, <3>2, <3>3
      <3>5. QueueWaits'
        <4>1. \A i \in 1..Len(queue') : /\ i + 1 \in 1..Len(queue)
                                        /\ queue'[i] = queue[i + 1]
          BY <3>1, <3>2
        <4>2. \A i \in 1..Len(queue') : queue[i + 1] # queue[1]
          BY <4>1, <3>2 DEF QueueWaits
        <4>3. \A i \in 1..Len(queue') : conn'[queue'[i]] = "queued"
          <5> TAKE i \in 1..Len(queue')
          <5>1. queue[i + 1] \in Conns /\ conn[queue[i + 1]] = "queued"
            BY <4>1 DEF QueueWaits
          <5> QED
            BY <5>1, <4>1, <4>2, <3>1, <3>2
        <4>4. \A i, j \in 1..Len(queue') : queue'[i] = queue'[j] => i = j
          BY <4>1 DEF QueueWaits
        <4> QED
          BY <4>3, <4>4 DEF QueueWaits
      <3> QED
        BY <3>4, <3>5
    <2> QED
      BY <2>1, <2>2
  <1>5. ASSUME NEW k \in Conns, Connect(k) PROVE DaemonInv'
    <2>1. conn[k] = "none" /\ UNCHANGED <<kid, held, did>>
      BY <1>5 DEF Connect
    <2>2. CASE queue' = queue /\ (Become(k, "queued") \/ Become(k, "refused"))
      <3>1. Types' /\ OwnSocketHeld'
        BY <2>1, <2>2 DEF Become
      <3> QED
        BY <2>1, <2>2, <3>1, QueueKept
    <2>3. CASE queue' = Append(queue, k) /\ Become(k, "queued")
      <3>1. Types' /\ OwnSocketHeld'
        BY <2>1, <2>3 DEF Become
      <3>2. /\ Len(queue) \in Nat /\ Len(queue') = Len(queue) + 1
            /\ \A i \in 1..Len(queue) : queue'[i] = queue[i] /\ queue[i] \in Conns
            /\ queue'[Len(queue) + 1] = k
        BY <2>3
      <3>3. \A i \in 1..Len(queue) : queue[i] # k
        BY <2>1 DEF QueueWaits
      <3>4. QueueWaits'
        <4>1. conn'[k] = "queued" /\ \A j \in Conns \ {k} : conn'[j] = conn[j]
          BY <2>3 DEF Become
        <4>2. \A i \in 1..Len(queue') : i \in 1..Len(queue) \/ i = Len(queue) + 1
          BY <3>2
        <4> QED
          BY <4>1, <4>2, <3>2, <3>3 DEF QueueWaits
      <3> QED
        BY <3>1, <3>4
    <2> QED
      BY <1>5, <2>2, <2>3 DEF Connect
  <1>6. ASSUME NEW k \in Conns, MonClose(k) PROVE DaemonInv'
    BY <1>6, QueueKept DEF MonClose, daemonVars, Become
  <1>7. ASSUME NEW k \in Conns, MainDo(k) PROVE DaemonInv'
    BY <1>7, QueueKept DEF MainDo, daemonVars, Become
  <1>8. ASSUME NEW k \in Conns, Handle(k) PROVE DaemonInv'
    <2>1. Open \subseteq Conns
      BY DEF Open
    <2>2. QueueWaits'
      BY <1>8, QueueKept DEF Handle, daemonVars
    <2> QED
      BY <1>8, <2>1, <2>2 DEF Handle, daemonVars, Become
  <1>9. ASSUME NEW k \in Conns, Act(k) PROVE DaemonInv'
    BY <1>9 DEF Act, daemonVars, QueueWaits
  <1>10. ASSUME NEW k \in Conns, KidExits(k) PROVE DaemonInv'
    BY <1>10 DEF KidExits, daemonVars, QueueWaits
  <1>11. ASSUME NEW k \in Conns, Reply(k) PROVE DaemonInv'
    <2>1. QueueWaits'
      BY <1>11, QueueKept DEF Reply, daemonVars
    <2> QED
      BY <1>11, <2>1 DEF Reply, daemonVars, Become
  <1>12. ASSUME NEW k \in Conns, NEW n \in {0, 2}, WrapError(k, n) PROVE DaemonInv'
    BY <1>12, QueueKept DEF WrapError, Become
  <1> QED
    BY <1>1, <1>2, <1>3, <1>4, <1>5, <1>6, <1>7, <1>8, <1>9, <1>10, <1>11, <1>12
       DEF Next, Run

\* The step that makes the system call is of a child that still has its own
\* connection's socket, so its monitor cannot have seen the connection end.
LEMMA ActIsSeenOpen ==
  ASSUME DaemonInv, [Next]_vars
  PROVE  [\A k \in Conns : did'[k] # did[k] /\ HungUp(k) => kid[k] = "killed"]_vars
  <1> SUFFICES ASSUME NEW k \in Conns, did'[k] # did[k], kid[k] # "killed"
               PROVE  ~HungUp(k)
    OBVIOUS
  <1>1. PICK j \in Conns : Act(j)
    BY DEF Next, Run, RemoveFile, Bind, Notify, Accept, Restart, Crash, Exit, Connect,
           MonClose, MainDo, Handle, KidExits, Reply, WrapError, vars, daemonVars
  <1>2. j = k
    BY <1>1 DEF Act, DaemonInv, Types
  <1>3. kid[k] = "run"
    BY <1>1, <1>2 DEF Act, Alive
  <1>4. conn[k] = "calling" /\ k \in held[k] /\ Alive(k)
    BY <1>3 DEF DaemonInv, OwnSocketHeld, Alive
  <1> QED
    BY <1>4 DEF HungUp

\* A monitor that sees its connection end before the answer can rely on the
\* system call not being made afterwards, across exits of the daemon.
THEOREM NoEffectAfterHangup == Spec => HangupIsFinal
  <1>1. DaemonInv /\ [Next]_vars =>
          [\A k \in Conns : did'[k] # did[k] /\ HungUp(k) => kid[k] = "killed"]_vars
    BY ActIsSeenOpen
  <1> QED
    BY InitInv, NextInv, <1>1, PTL DEF Spec, HangupIsFinal
=============================================================================
