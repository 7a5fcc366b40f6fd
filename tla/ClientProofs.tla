---------------------------- MODULE ClientProofs ----------------------------
(***************************************************************************)
(* What the handler and forking_syscall() do to a connection, and the      *)
(* theorems about Client.tla, for any number of connections and messages,  *)
(* any message layouts and whichever calls hang.                           *)
(***************************************************************************)
EXTENDS ClientSteps

(* Calls for messages after the one being served have not been made, nor   *)
(* the call for that one before its handler forks.                         *)
LEMMA LaterCalls ==
    ASSUME NEW k \in Conns, TypeOK, ConnInv(k), pc[k] \in Busy,
           NEW m \in 0..MaxMsgs, m > Done(k) + 1
    PROVE  phase[<<k, m>>] = "idle" /\ did[<<k, m>>] = None
<1>1. Done(k) \in 0..MaxMsgs
  BY Counts, Zenon
<1>2. m > Done(k)
  BY <1>1
<1> QED
  BY <1>2, Zenon DEF ConnInv, WorkInv, Busy

LEMMA NotYetCalled ==
    ASSUME NEW k \in Conns, TypeOK, ConnInv(k), pc[k] = "handle"
    PROVE  /\ phase[<<k, Done(k) + 1>>] = "idle" /\ did[<<k, Done(k) + 1>>] = None
           /\ \A m \in 0..MaxMsgs : phase[<<k, m>>] # "called"
<1>1. Done(k) \in 0..MaxMsgs /\ Done(k) + 1 \in 1..MaxMsgs
  BY Counts, Zenon DEF Busy
<1> DEFINE m == Done(k) + 1
<1>2. m \in 0..MaxMsgs /\ m > Done(k)
  BY <1>1
<1> HIDE DEF m
<1>3. phase[<<k, m>>] = "idle" /\ did[<<k, m>>] = None
  BY <1>2, Zenon DEF ConnInv, WorkInv
<1> QED
  BY <1>3, Zenon DEF ConnInv, WorkInv, m

(* WorkInv of a task that has its handler's result.                        *)
LEMMA WorkAtReply ==
    ASSUME NEW k \in Conns, pc'[k] = "reply", Done(k)' = Done(k),
           \A m \in 0..MaxMsgs : phase'[<<k, m>>] # "called",
           \A m \in 0..MaxMsgs :
               m > Done(k) + 1 => phase'[<<k, m>>] = "idle" /\ did'[<<k, m>>] = None,
           NEW o \in Outcomes, result'[k] = o,
           o.kind = "noOsErr" \/ Tells(<<k, Done(k) + 1>>, o)'
    PROVE  WorkInv(k)'
BY Zenon DEF WorkInv, Waiting, Tells

(* The handler fails before it forks: no closure ran for this message.     *)
LEMMA AtOnceStep ==
    ASSUME NEW k \in Conns, NEW o \in Outcomes, TypeOK, ConnInv(k), HandleAtOnce(k, o)
    PROVE  ConnInv(k)'
<1>1. pc[k] = "handle" /\ pc'[k] = "reply" /\ result'[k] = o /\ o.kind # "ok"
  BY TypeNamed, Zenon DEF HandleAtOnce, ConnType
<1>2. /\ UNCHANGED <<buf, msgFds, leaked, shut, inbox, sent, replies, phase, did>>
      /\ SameCalls(k)
  BY Zenon DEF HandleAtOnce, monVars, callVars, SameCalls
<1>3. Done(k)' = Done(k) /\ Done(k) \in Nat /\ Done(k) + 1 \in 0..MaxMsgs
  BY <1>1, <1>2, Counts DEF Done, Busy
<1>4. LineInv(k)'
  BY <1>1, <1>2, <1>3, Zenon DEF ConnInv, LineInv, Queued, Waiting, Busy
<1>5. Tells(<<k, Done(k) + 1>>, o)'
  BY <1>1, <1>2, <1>3, NotYetCalled, Zenon DEF Tells
<1>6. WorkInv(k)'
  <2>1. \A m \in 0..MaxMsgs : phase'[<<k, m>>] # "called"
    BY <1>1, <1>2, NotYetCalled, Zenon
  <2>2. \A m \in 0..MaxMsgs :
           m > Done(k) + 1 => phase'[<<k, m>>] = "idle" /\ did'[<<k, m>>] = None
    BY <1>1, <1>2, LaterCalls, Zenon DEF Busy
  <2> QED
    BY <1>1, <1>3, <1>5, <2>1, <2>2, WorkAtReply, Zenon
<1>7. FdInv(k)'
  BY <1>1, <1>2, Zenon DEF ConnInv, FdInv, Busy
<1> QED
  BY <1>2, <1>4, <1>6, <1>7, TruthKept, Zenon DEF ConnInv

(* A step that changes only the call of the message being served keeps the *)
(* replies sent before it true.                                            *)
LEMMA EarlierTruth ==
    ASSUME NEW k \in Conns, TypeOK, ConnInv(k), pc[k] \in Busy,
           replies'[k] = replies[k], did' = did,
           NEW v, phase' = [phase EXCEPT ![<<k, Done(k) + 1>>] = v]
    PROVE  /\ \A i \in 1..Done(k)' : TrueReply(k, i)'
           /\ \A m \in 0..MaxMsgs : m # Done(k) + 1 => phase'[<<k, m>>] = phase[<<k, m>>]
           /\ phase'[<<k, Done(k) + 1>>] = v
<1>1. Done(k)' = Done(k) /\ Done(k) \in 0..MaxMsgs /\ Done(k) + 1 \in 0..MaxMsgs
  BY Counts DEF Done
<1>2. /\ \A m \in 0..MaxMsgs : <<k, m>> \in DOMAIN phase
      /\ <<k, Done(k) + 1>> \in DOMAIN phase
  BY <1>1, TypeNamed, Zenon DEF CallType, Calls
<1>3. \A m \in 0..MaxMsgs : m # Done(k) + 1 => phase'[<<k, m>>] = phase[<<k, m>>]
  BY <1>2, CallIndex, Zenon
<1>4. phase'[<<k, Done(k) + 1>>] = v
  BY <1>2, Zenon
<1>5. ASSUME NEW i \in 1..Done(k)
      PROVE  TrueReply(k, i)'
  <2>1. i \in 0..MaxMsgs /\ i # Done(k) + 1
    BY <1>1, ClientAssumption
  <2>2. phase'[<<k, i>>] = phase[<<k, i>>]
    BY <1>3, <2>1, Zenon
  <2>3. TrueReply(k, i)
    BY Zenon DEF ConnInv
  <2> QED
    BY <2>2, <2>3, Zenon DEF TrueReply
<1> QED
  BY <1>1, <1>3, <1>4, <1>5, Zenon

LEMMA ForksInv ==
    ASSUME NEW k \in Conns, TypeOK, ConnInv(k), HandleForks(k)
    PROVE  ConnInv(k)'
<1>1. /\ pc[k] = "handle" /\ pc[k] \in Busy /\ did' = did
      /\ pc \in [Conns -> TaskStates] /\ result \in [Conns -> Outcomes \cup {None}]
  BY ForksStep, TypeNamed, Zenon DEF Busy, ConnType
<1>2. UNCHANGED <<buf, msgFds, leaked, shut, inbox, sent, replies>>
  BY Zenon DEF HandleForks, monVars
<1>3. Done(k)' = Done(k) /\ Done(k) \in Nat /\ Done(k) + 1 \in 0..MaxMsgs
  BY <1>1, <1>2, Counts DEF Done
<1>4. CallOf(k) = <<k, Done(k) + 1>>
  BY <1>1, Zenon DEF ConnInv, LineInv, CallOf
<1>5. pc'[k] \in {"calling", "reply"}
  BY <1>1, ForksStep, Zenon
<1>6. LineInv(k)'
  BY <1>1, <1>2, <1>3, <1>5, Zenon DEF ConnInv, LineInv, Queued, Waiting, Busy
<1>7. FdInv(k)'
  BY <1>1, <1>2, <1>5, Zenon DEF ConnInv, FdInv, Busy
<1>8. /\ did[<<k, Done(k) + 1>>] = None
      /\ \A m \in 0..MaxMsgs : phase[<<k, m>>] # "called"
      /\ \A m \in 0..MaxMsgs :
            m > Done(k) + 1 => phase[<<k, m>>] = "idle" /\ did[<<k, m>>] = None
  BY <1>1, NotYetCalled, LaterCalls, Zenon
<1>9. ASSUME phase' = [phase EXCEPT ![<<k, Done(k) + 1>>] = "called"], pc'[k] = "calling"
      PROVE  ConnInv(k)'
  <2>1. /\ \A m \in 0..MaxMsgs : m # Done(k) + 1 => phase'[<<k, m>>] = phase[<<k, m>>]
        /\ phase'[<<k, Done(k) + 1>>] = "called"
        /\ \A i \in 1..Done(k)' : TrueReply(k, i)'
    BY <1>1, <1>2, <1>9, EarlierTruth, Zenon
  <2>2. ASSUME NEW m \in 0..MaxMsgs
        PROVE  /\ phase'[<<k, m>>] = "called" => m = Done(k) + 1
               /\ m > Done(k) + 1 => phase'[<<k, m>>] = "idle" /\ did'[<<k, m>>] = None
    BY <1>1, <1>3, <1>8, <2>1
  <2>3. WorkInv(k)'
    BY <1>3, <1>9, <2>1, <2>2, Zenon DEF WorkInv, Waiting
  <2> QED
    BY <1>6, <1>7, <2>1, <2>3, Zenon DEF ConnInv
<1>10. ASSUME NEW o \in OsErrors, phase' = [phase EXCEPT ![<<k, Done(k) + 1>>] = "returned"],
              pc'[k] = "reply", result'[k] = o
       PROVE  ConnInv(k)'
  <2>1. /\ \A m \in 0..MaxMsgs : m # Done(k) + 1 => phase'[<<k, m>>] = phase[<<k, m>>]
        /\ phase'[<<k, Done(k) + 1>>] = "returned"
        /\ \A i \in 1..Done(k)' : TrueReply(k, i)'
    BY <1>1, <1>2, <1>10, EarlierTruth, Zenon
  <2>2. o \in Outcomes /\ o.kind # "ok"
    BY Zenon DEF OsErrors, Outcomes
  <2>3. Tells(<<k, Done(k) + 1>>, o)'
    BY <1>1, <1>3, <1>8, <2>2, Zenon DEF Tells
  <2>4. ASSUME NEW m \in 0..MaxMsgs
        PROVE  /\ phase'[<<k, m>>] # "called"
               /\ m > Done(k) + 1 => phase'[<<k, m>>] = "idle" /\ did'[<<k, m>>] = None
    BY <1>1, <1>3, <1>8, <2>1
  <2>5. WorkInv(k)'
    BY <1>3, <1>10, <2>2, <2>3, <2>4, WorkAtReply, Zenon
  <2> QED
    BY <1>6, <1>7, <2>1, <2>5, Zenon DEF ConnInv
<1>11. \/ phase' = [phase EXCEPT ![<<k, Done(k) + 1>>] = "called"] /\ pc'[k] = "calling"
       \/ \E o \in OsErrors : /\ phase' = [phase EXCEPT ![<<k, Done(k) + 1>>] = "returned"]
                              /\ pc'[k] = "reply" /\ result'[k] = o
  BY <1>1, <1>4, ForksStep, Zenon
<1> QED
  BY <1>9, <1>10, <1>11, Zenon

(* Reporting a success, forking_syscall() hands the closure's result over. *)
LEMMA ReportsOk == \A r \in FuncResults : Reports(r).kind = "ok" => Reports(r) = r
BY Zenon DEF FuncResults, Reports

LEMMA ReturnsInv ==
    ASSUME NEW k \in Conns, TypeOK, ConnInv(k), CallReturns(k)
    PROVE  ConnInv(k)'
<1> DEFINE c == <<k, Done(k) + 1>>
<1>1. /\ pc[k] = "calling" /\ pc[k] \in Busy /\ did' = did
      /\ pc \in [Conns -> TaskStates] /\ result \in [Conns -> Outcomes \cup {None}]
  BY ReturnsStep, TypeNamed, Zenon DEF Busy, ConnType
<1>2. UNCHANGED <<buf, msgFds, leaked, shut, inbox, sent, replies>>
  BY Zenon DEF CallReturns, monVars
<1>3. Done(k)' = Done(k) /\ Done(k) \in Nat /\ Done(k) + 1 \in 0..MaxMsgs
  BY <1>1, <1>2, Counts DEF Done
<1>4. CallOf(k) = c
  BY <1>1, Zenon DEF ConnInv, LineInv, CallOf
<1>5. did[c] \in FuncResults \cup {None}
  BY <1>3, TypeNamed, Zenon DEF CallType, Calls
<1> HIDE DEF c
<1>6. PICK o \in Outcomes :
         /\ pc'[k] = "reply" /\ result'[k] = o
         /\ \/ /\ phase' = [phase EXCEPT ![c] = "returned"]
               /\ \/ did[c] # None /\ o = Reports(did[c])
                  \/ o = NoOsError
                  \/ did[c] = None /\ o \in OsErrors
            \/ phase' = [phase EXCEPT ![c] = "abandoned"] /\ o \in OsErrors
  BY <1>1, <1>4, ReturnsStep
<1>7. PICK v \in {"returned", "abandoned"} : phase' = [phase EXCEPT ![c] = v]
  BY <1>6, Zenon
<1>8. /\ \A m \in 0..MaxMsgs : m # Done(k) + 1 => phase'[<<k, m>>] = phase[<<k, m>>]
      /\ phase'[c] = v
      /\ \A i \in 1..Done(k)' : TrueReply(k, i)'
  BY <1>1, <1>2, <1>7, EarlierTruth, Zenon DEF c
<1>9. LineInv(k)'
  BY <1>1, <1>2, <1>3, <1>6, Zenon DEF ConnInv, LineInv, Queued, Waiting, Busy
<1>10. FdInv(k)'
  BY <1>1, <1>2, <1>6, Zenon DEF ConnInv, FdInv, Busy
<1>11. o.kind = "noOsErr" \/ Tells(<<k, Done(k) + 1>>, o)'
  <2>1. o \in OsErrors => o.kind = "osErr"
    BY Zenon DEF OsErrors
  <2>2. CASE phase' = [phase EXCEPT ![c] = "abandoned"] /\ o \in OsErrors
    <3>1. phase'[c] = "abandoned"
      BY <1>1, <1>2, <2>2, EarlierTruth, Zenon DEF c
    <3> QED
      BY <1>3, <2>1, <2>2, <3>1, Zenon DEF Tells, c
  <2>3. CASE did[c] # None /\ o = Reports(did[c])
    <3>1. o.kind = "ok" => did[c] = o
      BY <1>5, <2>3, ReportsOk, Zenon
    <3> QED
      BY <1>1, <1>3, <2>3, <3>1, Zenon DEF Tells, c
  <2>4. CASE o = NoOsError
    BY <2>4, Zenon DEF NoOsError
  <2>5. CASE did[c] = None /\ o \in OsErrors
    BY <1>1, <1>3, <2>1, <2>5, Zenon DEF Tells, c
  <2> QED
    BY <1>6, <2>2, <2>3, <2>4, <2>5, Zenon
<1>12. ASSUME NEW m \in 0..MaxMsgs
       PROVE  /\ phase'[<<k, m>>] # "called"
              /\ m > Done(k) + 1 => phase'[<<k, m>>] = "idle" /\ did'[<<k, m>>] = None
  <2>1. CASE m = Done(k) + 1
    BY <1>3, <1>8, <2>1 DEF c
  <2>2. CASE m # Done(k) + 1
    <3>1. phase'[<<k, m>>] = phase[<<k, m>>]
      BY <1>8, <2>2, Zenon
    <3>2. phase[<<k, m>>] # "called"
      BY <2>2, Zenon DEF ConnInv, WorkInv
    <3>3. m > Done(k) + 1 => phase[<<k, m>>] = "idle" /\ did[<<k, m>>] = None
      BY <1>1, LaterCalls, Zenon
    <3> QED
      BY <1>1, <3>1, <3>2, <3>3, Zenon
  <2> QED
    BY <2>1, <2>2, Zenon
<1>13. WorkInv(k)'
  BY <1>3, <1>6, <1>11, <1>12, WorkAtReply, Zenon
<1> QED
  BY <1>8, <1>9, <1>10, <1>13, Zenon DEF ConnInv

-----------------------------------------------------------------------------
(* The reply goes out under the id of the message served, and repeats what *)
(* the handler returned.                                                   *)
LEMMA ReplyStep ==
    ASSUME NEW k \in Conns, TypeOK, ConnInv(k), Reply(k)
    PROVE  ConnInv(k)'
<1> DEFINE o == result[k]
           a == Answer(buf[k].resp, o)
<1>0. ConnType /\ CallType
  BY TypeNamed, Zenon
<1>1. /\ pc[k] = "reply" /\ pc[k] \in Busy /\ pc'[k] = "recv" /\ o.kind # "noOsErr"
      /\ msgFds'[k] = 0
  BY <1>0, Zenon DEF Reply, Reset, ConnType, Busy
<1>2. Done(k) \in 0..MaxMsgs /\ Len(inbox[k]) \in Nat
  BY Counts, Zenon
<1>n. PICK n \in 1..MaxMsgs : n = Done(k) + 1
  BY <1>1, Counts, Zenon
<1>3. o \in Outcomes /\ Tells(<<k, n>>, o)
  BY <1>1, <1>n, Zenon DEF ConnInv, WorkInv
<1>4. buf[k].req = n /\ buf[k].resp.id = n /\ Queued(k, n) /\ buf[k].resp \in Resps
  BY <1>0, <1>1, <1>n, Zenon DEF ConnInv, LineInv, ConnType, Bufs
<1>5. a \in Resps /\ a.id = n
  BY <1>1, <1>3, <1>4, AnswerType, Zenon
<1>6. replies[k] \in Seq(Replies) /\ [resp |-> a, req |-> n] \in Replies
  <2>1. n \in 0..MaxMsgs
    OBVIOUS
  <2> HIDE DEF a
  <2> QED
    BY <1>0, <1>5, <2>1, Zenon DEF ConnType, Replies
<1>7. replies'[k] = Append(replies[k], [resp |-> a, req |-> n])
  BY <1>0, <1>4, Zenon DEF Reply, ConnType
<1>8. /\ Len(replies'[k]) = Len(replies[k]) + 1
      /\ \A i \in 1..Len(replies[k]) : replies'[k][i] = replies[k][i]
      /\ replies'[k][Len(replies[k]) + 1] = [resp |-> a, req |-> n]
  BY <1>6, <1>7, AppendToSeq
<1>9. Done(k)' = n /\ replies'[k][n] = [resp |-> a, req |-> n]
  BY <1>8, <1>n, Zenon DEF Done
<1>10. UNCHANGED <<leaked, shut, inbox, sent, phase, did>>
  BY Zenon DEF Reply, monVars, callVars
<1>11. LineInv(k)'
  <2>1. Done(k)' <= sent'[k]
    BY <1>2, <1>4, <1>9, <1>10, <1>n DEF Queued
  <2>2. Queued(k, Done(k))'
    BY <1>4, <1>9, <1>10, Zenon DEF Queued
  <2> QED
    BY <1>1, <2>1, <2>2, Zenon DEF LineInv, Busy
<1>12. WorkInv(k)'
  <2>1. ASSUME NEW m \in 0..MaxMsgs
        PROVE  /\ phase[<<k, m>>] # "called"
               /\ m > n => phase[<<k, m>>] = "idle" /\ did[<<k, m>>] = None
    BY <1>1, <1>n, Zenon DEF ConnInv, WorkInv
  <2> QED
    BY <1>1, <1>9, <1>10, <2>1, Zenon DEF WorkInv, Waiting
<1>13. FdInv(k)'
  BY <1>1, <1>10 DEF ConnInv, FdInv
<1>14. TrueReply(k, n)'
  <2>1. replies'[k][n].resp = a /\ replies'[k][n].req = n
    BY <1>9
  <2>2. CASE o.kind = "ok"
    <3>1. a.error = 0 /\ a.val = o.n
      BY <1>4, <2>2, Zenon DEF Answer, Resps
    <3>2. did[<<k, n>>] = [kind |-> "ok", n |-> o.n] /\ did[<<k, n>>] # None
      BY <1>3, <2>2, NoneAssumption, Zenon DEF Tells, Outcomes, OsErrors, NoOsError
    <3> HIDE DEF a, o
    <3> QED
      BY <1>5, <1>10, <2>1, <3>1, <3>2, Zenon DEF TrueReply
  <2>3. CASE o.kind # "ok"
    <3>1. o.n \in Errnos
      BY <1>1, <1>3, <2>3 DEF Outcomes, OsErrors, NoOsError
    <3>2. a.error = -o.n
      BY <1>4, <2>3, Zenon DEF Answer, Resps
    <3>3. a.error # 0
      <4> HIDE DEF a, o
      <4>1. o.n \in Nat \ {0}
        BY <3>1, ErrnoAssumption, Zenon
      <4> QED
        BY <3>2, <4>1
    <3>4. did[<<k, n>>] = None \/ phase[<<k, n>>] = "abandoned" \/ Reports(did[<<k, n>>]) = o
      BY <1>3, <2>3, Zenon DEF Tells
    <3> HIDE DEF a, o
    <3> QED
      BY <1>5, <1>10, <2>1, <2>3, <3>2, <3>3, <3>4, Zenon DEF TrueReply
  <2> QED
    BY <2>2, <2>3, Zenon
<1>15. ASSUME NEW i \in 1..Done(k)
       PROVE  TrueReply(k, i)'
  <2>1. TrueReply(k, i) /\ replies'[k][i] = replies[k][i]
    BY <1>8, Zenon DEF ConnInv, Done
  <2>2. did' = did /\ phase' = phase
    BY <1>10, Zenon
  <2> QED
    BY <2>1, <2>2, Zenon DEF TrueReply
<1>16. \A i \in 1..Done(k)' : TrueReply(k, i)'
  <2> SUFFICES ASSUME NEW i \in 1..n
               PROVE  TrueReply(k, i)'
    BY <1>9, Zenon
  <2>1. i \in 1..Done(k) \/ i = n
    BY <1>2, <1>n
  <2> QED
    BY <1>14, <1>15, <2>1, Zenon
<1> QED
  BY <1>11, <1>12, <1>13, <1>16, Zenon DEF ConnInv

(* The closure runs while its message is served, or after its call was     *)
(* abandoned; neither unsettles a reply.                                   *)
LEMMA PerformStep ==
    ASSUME NEW k \in Conns, NEW c \in Calls, NEW r \in FuncResults,
           TypeOK, ConnInv(k), Perform(c, r)
    PROVE  ConnInv(k)'
<1>0. ConnType /\ CallType
  BY TypeNamed, Zenon
<1>1. /\ phase[c] \in {"called", "abandoned"} /\ did[c] = None
      /\ did' = [did EXCEPT ![c] = r] /\ phase' = phase
  BY Zenon DEF Perform, F!Perform
<1>2. UNCHANGED <<pc, buf, msgFds, leaked, result, shut, inbox, sent, replies>>
  BY Zenon DEF Perform, taskVars, monVars
<1>3. Done(k)' = Done(k) /\ Done(k) \in 0..MaxMsgs
  BY <1>2, Counts, Zenon DEF Done
<1>4. ASSUME NEW m \in 0..MaxMsgs, <<k, m>> # c
      PROVE  did'[<<k, m>>] = did[<<k, m>>]
  BY <1>0, <1>1, <1>4, Zenon DEF CallType, Calls
<1>5. None \notin FuncResults \cup Outcomes
  BY NoneAssumption, Zenon
<1>6. LineInv(k)' /\ FdInv(k)'
  BY <1>2, <1>3, Zenon DEF ConnInv, LineInv, FdInv, Queued
<1>7. ASSUME NEW i \in 1..Done(k)
      PROVE  TrueReply(k, i)'
  <2>1. i \in 0..MaxMsgs /\ i # Done(k) + 1
    BY <1>3, ClientAssumption
  <2>2. TrueReply(k, i)
    BY Zenon DEF ConnInv
  <2>3. CASE <<k, i>> # c
    BY <1>1, <1>2, <1>4, <2>1, <2>2, <2>3, Zenon DEF TrueReply
  <2>4. CASE <<k, i>> = c
    <3>1. phase[<<k, i>>] # "called"
      BY <2>1, Zenon DEF ConnInv, WorkInv
    <3>2. phase[<<k, i>>] = "abandoned" /\ did[<<k, i>>] = None
      BY <1>1, <2>4, <3>1, Zenon
    <3>3. replies[k][i].resp.error # 0
      BY <2>2, <3>2, Zenon DEF TrueReply
    <3> QED
      BY <1>1, <1>2, <2>2, <3>2, <3>3, Zenon DEF TrueReply
  <2> QED
    BY <2>3, <2>4, Zenon
<1>8. WorkInv(k)'
  <2>1. ASSUME NEW m \in 0..MaxMsgs, phase[<<k, m>>] = "idle"
        PROVE  did'[<<k, m>>] = did[<<k, m>>]
    BY <1>1, <1>4, <2>1, Zenon
  <2>2. ASSUME pc[k] = "reply", result[k].kind # "noOsErr"
        PROVE  Tells(<<k, Done(k) + 1>>, result[k])'
    <3>1. Done(k) + 1 \in 0..MaxMsgs
      BY <2>2, Counts DEF Busy
    <3>2. Tells(<<k, Done(k) + 1>>, result[k]) /\ result[k] \in Outcomes
      BY <2>2, Zenon DEF ConnInv, WorkInv
    <3>3. CASE <<k, Done(k) + 1>> # c
      BY <1>1, <1>2, <1>3, <1>4, <3>1, <3>2, <3>3, Zenon DEF Tells
    <3>4. CASE <<k, Done(k) + 1>> = c
      <4>1. phase[c] = "abandoned"
        BY <1>1, <2>2, <3>1, <3>4, Zenon DEF ConnInv, WorkInv
      <4>2. result[k].kind # "ok"
        BY <1>1, <1>5, <3>2, <3>4, Zenon DEF Tells
      <4> QED
        BY <1>1, <1>2, <1>3, <3>4, <4>1, <4>2, Zenon DEF Tells
    <3> QED
      BY <3>3, <3>4, Zenon
  <2>3. ASSUME NEW m \in 0..MaxMsgs
        PROVE  /\ phase'[<<k, m>>] = "called" => pc'[k] = "calling" /\ m = Done(k) + 1
               /\ pc'[k] \in Waiting \cup {"handle"} /\ m > Done(k)
                    => phase'[<<k, m>>] = "idle" /\ did'[<<k, m>>] = None
               /\ pc'[k] \in {"calling", "reply"} /\ m > Done(k) + 1
                    => phase'[<<k, m>>] = "idle" /\ did'[<<k, m>>] = None
    BY <1>1, <1>2, <2>1, Zenon DEF ConnInv, WorkInv
  <2>4. /\ pc'[k] = "calling" => phase'[<<k, Done(k) + 1>>] = "called"
        /\ pc'[k] = "reply" => result'[k] \in Outcomes
    BY <1>1, <1>2, Zenon DEF ConnInv, WorkInv
  <2> QED
    BY <1>2, <1>3, <2>2, <2>3, <2>4, Zenon DEF WorkInv, Tells
<1> QED
  BY <1>3, <1>6, <1>7, <1>8, Zenon DEF ConnInv

-----------------------------------------------------------------------------
(* The invariant is inductive.                                             *)

LEMMA InitInv == Init => TypeOK /\ ClientInv
<1> SUFFICES ASSUME Init
             PROVE  TypeOK /\ ClientInv
  BY Zenon
<1>1. CallType
  BY Zenon DEF Init, F!AbsInit, CallType
<1>2. ZeroBuf \in Bufs
  BY ZeroRespType, ClientAssumption DEF ZeroBuf, Bufs
<1>3. /\ <<>> \in Seq(Messages) /\ <<>> \in Seq(Replies) /\ Len(<<>>) = 0
      /\ 0 \in 0..MaxMsgs
  BY ClientAssumption
<1>4. ConnType
  BY <1>2, <1>3, Zenon DEF Init, ConnType, TaskStates
<1>5. ASSUME NEW k \in Conns
      PROVE  ConnInv(k)
  <2>1. /\ pc[k] = "listen" /\ Done(k) = 0 /\ sent[k] = 0 /\ Len(inbox[k]) = 0
        /\ msgFds[k] = 0 /\ leaked[k] = 0
    BY <1>3, Zenon DEF Init, Done
  <2>2. \A m \in 0..MaxMsgs : phase[<<k, m>>] = "idle" /\ did[<<k, m>>] = None
    BY Zenon DEF Init, F!AbsInit, Calls
  <2>3. LineInv(k) /\ FdInv(k)
    BY <2>1 DEF LineInv, FdInv, Queued, Waiting, Busy
  <2>4. WorkInv(k)
    BY <2>1, <2>2, Zenon DEF WorkInv
  <2> QED
    BY <2>1, <2>3, <2>4 DEF ConnInv
<1> QED
  BY <1>1, <1>4, <1>5, TypeNamed, Zenon DEF ClientInv

LEMMA ClientStep == TypeOK /\ ClientInv /\ [Next]_vars => ClientInv'
<1> SUFFICES ASSUME TypeOK, ClientInv, [Next]_vars, NEW j \in Conns
             PROVE  ConnInv(j)'
  BY Zenon DEF ClientInv
<1>0. ConnInv(j)
  BY Zenon DEF ClientInv
<1>1. CASE UNCHANGED vars
  <2>1. Untouched(j)
    BY <1>1, Zenon DEF vars, taskVars, monVars, callVars, Untouched, SameCalls
  <2> QED
    BY <1>0, <2>1, UntouchedInv, Zenon
<1>2. ASSUME NEW k \in Conns,
             MainDo(k) \/ HandlerPanic(k) \/ MonClose(k) \/ \E s \in Shapes : MonSend(k, s)
      PROVE  ConnInv(j)'
  <2>1. CASE j # k
    BY <1>0, <1>2, <2>1, OthersUntouched, UntouchedInv, Zenon
  <2>2. CASE j = k
    <3>1. MonClose(j) => Untouched(j)
      BY Zenon DEF MonClose, taskVars, callVars, Untouched, SameCalls
    <3>2. MonClose(j) \/ (\E s \in Shapes : MonSend(j, s)) => ConnInv(j)'
      BY <1>0, <3>1, UntouchedInv, MonSendStep, Zenon
    <3>3. MainDo(j) \/ HandlerPanic(j) => ConnInv(j)'
      BY <1>0, AcceptStep, EndingStep, RecvMsgStep, AtOnceStep, ForksInv, ReturnsInv, Zenon,
         ReplyStep DEF MainDo
    <3> QED
      BY <1>2, <2>2, <3>2, <3>3, Zenon
  <2> QED
    BY <2>1, <2>2, Zenon
<1>3. ASSUME NEW c \in Calls, NEW r \in FuncResults, Perform(c, r)
      PROVE  ConnInv(j)'
  BY <1>0, <1>3, PerformStep, Zenon
<1>4. ASSUME NEW c \in Calls, AbandonedDies(c)
      PROVE  ConnInv(j)'
  <2>1. Untouched(j)
    BY <1>4, Zenon DEF AbandonedDies, taskVars, monVars, callVars, Untouched, SameCalls
  <2> QED
    BY <1>0, <2>1, UntouchedInv, Zenon
<1> QED
  BY <1>1, <1>2, <1>3, <1>4, Zenon DEF Next, Kid

(* All variables keep their types, and every connection its invariant.     *)
THEOREM ClientInvariant == Spec => [](TypeOK /\ ClientInv)
<1>1. Init => TypeOK /\ ClientInv
  BY InitInv, Zenon
<1>2. TypeOK /\ ClientInv /\ [Next]_vars => (TypeOK /\ ClientInv)'
  BY TypeStep, ClientStep, Zenon
<1> QED
  BY <1>1, <1>2, PTL DEF Spec

(* The buffers, queues and replies of every connection keep their types:   *)
(* no path of recv() or respond() leaves an id, a length or an error       *)
(* number out of its range.                                                *)
THEOREM TypeCorrect == Spec => []TypeOK
BY ClientInvariant, PTL

(* Every reply answers its own message and tells the truth about it, for   *)
(* any number of connections and messages and any message layouts.         *)
THEOREM RepliesStayTrue == Spec => []RepliesAreTrue
<1>1. ClientInv => RepliesAreTrue
  BY ZenonT(30) DEF ClientInv, ConnInv, Done, TrueReply, RepliesAreTrue
<1> QED
  BY <1>1, ClientInvariant, PTL

(* A connection owns descriptors only while it serves a message, and leaks *)
(* two at the most, in its last message.                                   *)
THEOREM DescriptorsStayBounded == Spec => []DescriptorsBounded
<1>1. ClientInv => DescriptorsBounded
  BY Zenon DEF ClientInv, ConnInv, FdInv, Busy, DescriptorsBounded
<1> QED
  BY <1>1, ClientInvariant, PTL

(* A connection dropped for an error is seen as closed at once, whatever   *)
(* the children of other connections still hold.                           *)
THEOREM DropsAreSeen == Spec => []DroppedIsSeen
<1>1. ClientInv => DroppedIsSeen
  BY Zenon DEF ClientInv, ConnInv, FdInv, DroppedIsSeen, HungUp
<1> QED
  BY <1>1, ClientInvariant, PTL

(* A closure has its effect while its message is being served, so before   *)
(* the reply, unless its call was abandoned.                               *)
THEOREM EffectsComeFirst == Spec => EffectBeforeReply
<1> DEFINE First == \A k \in Conns : \A n \in 1..MaxMsgs :
              did'[<<k, n>>] # did[<<k, n>>] /\ phase[<<k, n>>] # "abandoned" =>
                  pc[k] = "calling" /\ buf[k].req = n /\ Len(replies[k]) = n - 1
<1>1. TypeOK /\ ClientInv /\ [Next]_vars => [First]_vars
  <2> SUFFICES ASSUME TypeOK, ClientInv, Next, NEW k \in Conns, NEW n \in 1..MaxMsgs,
                      did'[<<k, n>>] # did[<<k, n>>], phase[<<k, n>>] # "abandoned"
               PROVE  pc[k] = "calling" /\ buf[k].req = n /\ Len(replies[k]) = n - 1
    BY Zenon
  <2>1. did' # did
    BY Zenon
  <2>2. PICK c \in Calls, r \in FuncResults : Perform(c, r)
    <3>1. ASSUME NEW j \in Conns,
                 MainDo(j) \/ HandlerPanic(j) \/ MonClose(j) \/ \E s \in Shapes : MonSend(j, s)
          PROVE  FALSE
      <4>1. HandleForks(j) \/ CallReturns(j) => did' = did
        BY ForksStep, ReturnsStep, Zenon
      <4> QED
        BY <2>1, <3>1, <4>1, Zenon DEF MainDo, Accept, RecvEmpty, RecvReject, RecvBadFds, RecvMsg,
           Take, RecvClosed, Reply, ReplyFails, WrapError, HandleAtOnce, HandlerPanic,
           MonClose, MonSend, callVars
    <3>2. ASSUME NEW c \in Calls, AbandonedDies(c)
          PROVE  FALSE
      BY <2>1, <3>2, Zenon DEF AbandonedDies, callVars
    <3> QED
      BY <3>1, <3>2, Zenon DEF Next, Kid
  <2>3. /\ did' = [did EXCEPT ![c] = r] /\ phase[c] \in {"called", "abandoned"}
        /\ n \in 0..MaxMsgs /\ <<k, n>> \in Calls
    BY <2>2 DEF Perform, F!Perform, Calls
  <2>4. c = <<k, n>>
    BY <2>3, TypeNamed, Zenon DEF CallType
  <2>5. phase[<<k, n>>] = "called" /\ ConnInv(k)
    BY <2>3, <2>4, Zenon DEF ClientInv
  <2>6. pc[k] = "calling" /\ n = Done(k) + 1
    BY <2>3, <2>5, Zenon DEF ConnInv, WorkInv
  <2>7. buf[k].req = Done(k) + 1 /\ Done(k) \in 0..MaxMsgs
    BY <2>5, <2>6, Counts, Zenon DEF ConnInv, LineInv, Busy
  <2> QED
    BY <2>6, <2>7 DEF Done
<1> QED
  BY <1>1, ClientInvariant, PTL DEF Spec, EffectBeforeReply
=============================================================================
