---------------------------- MODULE ClientSteps -----------------------------
(***************************************************************************)
(* The inductive invariant of Client.tla, one connection at a time; every  *)
(* step keeps the variables in their types; steps of one connection leave  *)
(* the others alone; what accepting, receiving and ending do to one.       *)
(***************************************************************************)
EXTENDS Client, TLAPS

(* What the queues rest on: appending to a sequence, and taking its head.  *)
LEMMA LenOfSeq ==
    ASSUME NEW S, NEW q \in Seq(S)
    PROVE  Len(q) \in Nat /\ DOMAIN q = 1..Len(q) /\ \A i \in 1..Len(q) : q[i] \in S
OBVIOUS

LEMMA AppendToSeq ==
    ASSUME NEW S, NEW q \in Seq(S), NEW e \in S
    PROVE  /\ Append(q, e) \in Seq(S) /\ Len(Append(q, e)) = Len(q) + 1
           /\ \A i \in 1..Len(q) : Append(q, e)[i] = q[i]
           /\ Append(q, e)[Len(q) + 1] = e
OBVIOUS

LEMMA TailOfSeq ==
    ASSUME NEW S, NEW q \in Seq(S), q # <<>>
    PROVE  /\ Head(q) \in S /\ Tail(q) \in Seq(S) /\ Len(Tail(q)) = Len(q) - 1
           /\ \A i \in 1..Len(Tail(q)) : Tail(q)[i] = q[i + 1]
OBVIOUS

(* The abstract call of ForkedSyscall has the same results.                *)
LEMMA SameResults ==
    /\ F!FuncResults = FuncResults /\ F!Outcomes = Outcomes /\ F!OsErrors = OsErrors
    /\ F!NoOsError = NoOsError /\ \A r : F!Reports(r) = Reports(r)
BY Zenon DEF F!FuncResults, FuncResults, F!Outcomes, Outcomes, F!OsErrors, OsErrors,
   F!NoOsError, NoOsError, F!Reports, Reports

LEMMA ReportsType == \A r \in FuncResults : Reports(r) \in Outcomes
BY ErrnoAssumption, Zenon DEF FuncResults, Reports, Outcomes, OsErrors

-----------------------------------------------------------------------------
(* What recv() and respond() make of the buffer has the buffer's type.     *)

Bufs == [reserved : {0, 1}, sizesOk : BOOLEAN, cookieLen : Nat, req : 0..MaxMsgs,
         resp : Resps]
Messages == [id : 1..MaxMsgs, shape : Shapes]

LEMMA ZeroRespType == ZeroResp \in Resps
BY ClientAssumption DEF ZeroResp, Resps

LEMMA FilledType ==
    ASSUME NEW b \in Bufs, NEW m \in Messages
    PROVE  Filled(b, m.id, m.shape) \in Bufs
<1>1. m.id \in 0..MaxMsgs /\ m.shape \in AllShapes
  BY ClientAssumption DEF Messages
<1>2. /\ m.shape.reserved \in {0, 1} /\ m.shape.sizesOk \in BOOLEAN
      /\ m.shape.cookieLen \in Nat
  BY <1>1, Zenon DEF AllShapes
<1>3. /\ b.reserved \in {0, 1} /\ b.sizesOk \in BOOLEAN /\ b.cookieLen \in Nat
      /\ b.req \in 0..MaxMsgs /\ b.resp \in Resps
  BY Zenon DEF Bufs
<1> DEFINE f == Filled(b, m.id, m.shape)
<1>4. f.sizesOk \in BOOLEAN
  BY <1>2, <1>3, Zenon DEF Filled
<1>5. /\ f.reserved \in {0, 1} /\ f.cookieLen \in Nat /\ f.req \in 0..MaxMsgs
      /\ f.resp \in Resps
  BY <1>1, <1>2, <1>3, ZeroRespType, Zenon DEF Filled
<1>6. f = [reserved |-> f.reserved, sizesOk |-> f.sizesOk, cookieLen |-> f.cookieLen,
           req |-> f.req, resp |-> f.resp]
  BY Zenon DEF Filled
<1> HIDE DEF f
<1>7. f \in Bufs
  BY <1>4, <1>5, <1>6, Zenon DEF Bufs
<1> QED
  BY <1>7, Zenon DEF f

LEMMA PrepareType ==
    ASSUME NEW b \in Bufs
    PROVE  PrepareResponse(b) \in Bufs /\ PrepareResponse(b).req = b.req
           /\ PrepareResponse(b).resp.id = b.req
<1>1. [id |-> b.req, val |-> -1, error |-> -ENOSYS] \in Resps
  BY Zenon DEF Bufs, Resps, ENOSYS
<1> QED
  BY <1>1, Zenon DEF Bufs, PrepareResponse

LEMMA AnswerType ==
    ASSUME NEW resp \in Resps, NEW o \in Outcomes, o.kind # "noOsErr"
    PROVE  Answer(resp, o) \in Resps /\ Answer(resp, o).id = resp.id
<1>1. resp = [id |-> resp.id, val |-> resp.val, error |-> resp.error]
      /\ resp.id \in 0..MaxMsgs /\ resp.val \in Vals \cup {-1, 0}
  BY Zenon DEF Resps
<1>2. CASE o.kind = "ok"
  <2>1. o.n \in Vals
    BY <1>2 DEF Outcomes, OsErrors, NoOsError
  <2>2. Answer(resp, o) = [id |-> resp.id, val |-> o.n, error |-> 0]
    BY <1>1, <1>2, Zenon DEF Answer
  <2> QED
    BY <1>1, <2>1, <2>2 DEF Resps
<1>3. CASE o.kind # "ok"
  <2>1. o.n \in Errnos
    BY <1>3 DEF Outcomes, OsErrors, NoOsError
  <2>2. Answer(resp, o) = [id |-> resp.id, val |-> -1, error |-> -o.n]
    BY <1>1, <1>3, Zenon DEF Answer
  <2> QED
    BY <1>1, <2>1, <2>2 DEF Resps
<1> QED
  BY <1>2, <1>3, Zenon

-----------------------------------------------------------------------------
(* The inductive invariant, connection by connection.                      *)

Waiting == {"listen", "recv"}
Busy == {"handle", "calling", "reply"}
Done(k) == Len(replies[k])     \* messages answered

(* The inbox holds the messages after the n-th, in order.                  *)
Queued(k, n) ==
    /\ sent[k] = n + Len(inbox[k])
    /\ \A j \in 1..Len(inbox[k]) : inbox[k][j].id = n + j

(* While the task lives, the messages it got were answered one by one, but *)
(* for the one it is serving, which is what the buffer is about.           *)
LineInv(k) ==
    /\ Done(k) <= sent[k]
    /\ pc[k] \in Waiting => Queued(k, Done(k))
    /\ pc[k] \in Busy => /\ Queued(k, Done(k) + 1)
                         /\ buf[k].req = Done(k) + 1
                         /\ buf[k].resp.id = Done(k) + 1

(* Outcome o is the truth about call c.                                    *)
Tells(c, o) ==
    IF o.kind = "ok"
    THEN did[c] = o
    ELSE did[c] = None \/ phase[c] = "abandoned" \/ Reports(did[c]) = o

(* A call is made for the message being served and for no later one, and   *)
(* its handler returns the truth about it.                                 *)
WorkInv(k) ==
    /\ \A m \in 0..MaxMsgs :
         /\ phase[<<k, m>>] = "called" => pc[k] = "calling" /\ m = Done(k) + 1
         /\ pc[k] \in Waiting \cup {"handle"} /\ m > Done(k)
              => phase[<<k, m>>] = "idle" /\ did[<<k, m>>] = None
         /\ pc[k] \in {"calling", "reply"} /\ m > Done(k) + 1
              => phase[<<k, m>>] = "idle" /\ did[<<k, m>>] = None
    /\ pc[k] = "calling" => phase[<<k, Done(k) + 1>>] = "called"
    /\ pc[k] = "reply" => /\ result[k] \in Outcomes
                         /\ \/ result[k].kind = "noOsErr"
                            \/ Tells(<<k, Done(k) + 1>>, result[k])

(* RepliesAreTrue for one reply, whose success is a closure's that ran.    *)
TrueReply(k, i) ==
    /\ replies[k][i].resp.id = i /\ replies[k][i].req = i
    /\ IF replies[k][i].resp.error = 0
       THEN /\ did[<<k, i>>] = [kind |-> "ok", n |-> replies[k][i].resp.val]
            /\ did[<<k, i>>] # None
       ELSE \/ did[<<k, i>>] = None \/ phase[<<k, i>>] = "abandoned"
            \/ /\ Reports(did[<<k, i>>]).kind # "ok"
               /\ replies[k][i].resp.error = -Reports(did[<<k, i>>]).n

(* What a connection owns, and that it was shut down when it was dropped.  *)
FdInv(k) ==
    /\ msgFds[k] > 0 => pc[k] \in Busy
    /\ leaked[k] > 0 => pc[k] \in {"error", "eof", "dropped"} /\ leaked[k] <= 2
    /\ pc[k] = "dropped" => k \in shut

ConnInv(k) ==
    /\ LineInv(k) /\ WorkInv(k) /\ FdInv(k)
    /\ \A i \in 1..Done(k) : TrueReply(k, i)

ClientInv == \A k \in Conns : ConnInv(k)

-----------------------------------------------------------------------------
(* The actions that make, perform and end a call, in terms of SyscallResult. *)

LEMMA CallIndex ==
    \A k, j : \A m, n : <<k, m>> = <<j, n>> <=> k = j /\ m = n
BY Zenon

LEMMA ForksStep ==
    ASSUME NEW k \in Conns, TypeOK, HandleForks(k)
    PROVE  /\ pc[k] = "handle" /\ did' = did
           /\ \/ /\ phase' = [phase EXCEPT ![CallOf(k)] = "called"]
                 /\ pc' = [pc EXCEPT ![k] = "calling"]
                 /\ inherits' = [inherits EXCEPT ![CallOf(k)] = Open]
                 /\ result' = result /\ outcome' = outcome
              \/ \E o \in OsErrors :
                 /\ phase' = [phase EXCEPT ![CallOf(k)] = "returned"]
                 /\ outcome' = [outcome EXCEPT ![CallOf(k)] = o]
                 /\ pc' = [pc EXCEPT ![k] = "reply"]
                 /\ result' = [result EXCEPT ![k] = o]
                 /\ inherits' = inherits
<1> DEFINE c == CallOf(k)
<1>1. c \in Calls
  BY Zenon DEF TypeOK, CallOf, Calls
<1>2. c \in DOMAIN phase /\ c \in DOMAIN outcome
  BY <1>1, Zenon DEF TypeOK, F!AbsTypeOK
<1> HIDE DEF c
<1>3. pc[k] = "handle" /\ F!Call(c) /\ did' = did
  BY Zenon DEF HandleForks, F!Call, c
<1>4. CASE phase' = [phase EXCEPT ![c] = "called"] /\ outcome' = outcome
  <2>1. phase'[c] = "called"
    BY <1>2, <1>4, Zenon
  <2> QED
    BY <1>3, <1>4, <2>1, Zenon DEF HandleForks, c
<1>5. ASSUME NEW o \in OsErrors, phase' = [phase EXCEPT ![c] = "returned"],
             outcome' = [outcome EXCEPT ![c] = o]
      PROVE  /\ pc' = [pc EXCEPT ![k] = "reply"] /\ inherits' = inherits
             /\ result' = [result EXCEPT ![k] = o]
  <2>1. phase'[c] = "returned" /\ outcome'[c] = o
    BY <1>2, <1>5, Zenon
  <2> QED
    BY <2>1, Zenon DEF HandleForks, c
<1> QED
  BY <1>3, <1>4, <1>5, SameResults, Zenon DEF F!Call, c

LEMMA ReturnsStep ==
    ASSUME NEW k \in Conns, TypeOK, CallReturns(k)
    PROVE  \E o \in Outcomes :
           /\ pc[k] = "calling" /\ did' = did
           /\ outcome' = [outcome EXCEPT ![CallOf(k)] = o]
           /\ pc' = [pc EXCEPT ![k] = "reply"]
           /\ result' = [result EXCEPT ![k] = o]
           /\ \/ /\ phase' = [phase EXCEPT ![CallOf(k)] = "returned"]
                 /\ inherits' = [inherits EXCEPT ![CallOf(k)] = {}]
                 /\ \/ did[CallOf(k)] # None /\ o = Reports(did[CallOf(k)])
                    \/ o = NoOsError
                    \/ did[CallOf(k)] = None /\ o \in OsErrors
              \/ /\ phase' = [phase EXCEPT ![CallOf(k)] = "abandoned"]
                 /\ inherits' = inherits /\ o \in OsErrors
<1> DEFINE c == CallOf(k)
<1>1. c \in DOMAIN outcome
  BY Zenon DEF TypeOK, CallOf, Calls, F!AbsTypeOK
<1> HIDE DEF c
<1>2. /\ pc[k] = "calling" /\ pc' = [pc EXCEPT ![k] = "reply"]
      /\ result' = [result EXCEPT ![k] = outcome'[c]]
  BY Zenon DEF CallReturns, c
<1>3. ASSUME NEW o \in Outcomes, F!Return(c, o) \/ F!Abandon(c, o)
      PROVE  result' = [result EXCEPT ![k] = o]
  <2>1. outcome'[c] = o
    BY <1>1, <1>3, Zenon DEF F!Return, F!Abandon
  <2> QED
    BY <1>2, <2>1, Zenon
<1>4. CASE (\E o \in Outcomes : F!Return(c, o)) /\ inherits' = [inherits EXCEPT ![c] = {}]
  <2>1. PICK o \in Outcomes : F!Return(c, o)
    BY <1>4, Zenon
  <2> QED
    BY <1>2, <1>3, <1>4, <2>1, SameResults, Zenon DEF F!Return, c
<1>5. CASE (\E o \in Outcomes : F!Abandon(c, o)) /\ inherits' = inherits
  <2>1. PICK o \in Outcomes : F!Abandon(c, o)
    BY <1>5, Zenon
  <2> QED
    BY <1>2, <1>3, <1>5, <2>1, SameResults, Zenon DEF F!Abandon, c
<1> QED
  BY <1>4, <1>5, Zenon DEF CallReturns, c

-----------------------------------------------------------------------------
(* Types.  The same invariant with its record sets named.                  *)

Replies == [resp : Resps, req : 0..MaxMsgs]
CallType ==
    /\ phase \in [Calls -> {"idle", "called", "returned", "abandoned"}]
    /\ did \in [Calls -> FuncResults \cup {None}]
    /\ outcome \in [Calls -> Outcomes \cup {None}]
ConnType ==
    /\ pc \in [Conns -> TaskStates]
    /\ buf \in [Conns -> Bufs]
    /\ msgFds \in [Conns -> {0, 2}]
    /\ leaked \in [Conns -> Nat]
    /\ result \in [Conns -> Outcomes \cup {None}]
    /\ shut \subseteq Conns
    /\ inherits \in [Calls -> SUBSET Conns]
    /\ inbox \in [Conns -> Seq(Messages)]
    /\ sent \in [Conns -> 0..MaxMsgs]
    /\ peer \in [Conns -> {"open", "closed"}]
    /\ replies \in [Conns -> Seq(Replies)]

LEMMA TypeNamed == TypeOK <=> ConnType /\ CallType
BY SameResults, Zenon DEF TypeOK, ConnType, CallType, F!AbsTypeOK, Bufs, Messages, Replies

LEMMA TypeNamedNext == TypeOK' <=> ConnType' /\ CallType'
BY SameResults, Zenon DEF TypeOK, ConnType, CallType, F!AbsTypeOK, Bufs, Messages, Replies

(* What recv() does to the connection's variables keeps their types.       *)
LEMMA TakeType ==
    ASSUME NEW k \in Conns, TypeOK, Take(k)
    PROVE  /\ inbox' \in [Conns -> Seq(Messages)]
           /\ Head(inbox[k]) \in Messages
           /\ Incoming(k) \in Bufs /\ PrepareResponse(Incoming(k)) \in Bufs
           /\ Fds(k) \in 0..2
<1>1. inbox \in [Conns -> Seq(Messages)] /\ buf[k] \in Bufs
  BY TypeNamed, Zenon DEF ConnType
<1>2. inbox[k] # <<>> /\ inbox' = [inbox EXCEPT ![k] = Tail(@)]
  BY Zenon DEF Take
<1>3. Head(inbox[k]) \in Messages /\ Tail(inbox[k]) \in Seq(Messages)
  BY <1>1, <1>2, TailOfSeq, Zenon
<1>4. Incoming(k) \in Bufs
  BY <1>1, <1>3, FilledType, Zenon DEF Incoming
<1>5. Head(inbox[k]).shape \in AllShapes
  BY <1>3, ClientAssumption, Zenon DEF Messages
<1>6. Fds(k) \in 0..2
  BY <1>5, SMTT(30) DEF AllShapes, Fds, GotFds, Min2
<1> QED
  BY <1>1, <1>2, <1>3, <1>4, <1>6, PrepareType, Zenon

LEMMA TypeStep == TypeOK /\ ClientInv /\ [Next]_vars => TypeOK'
<1> SUFFICES ASSUME TypeOK, ClientInv, [Next]_vars
             PROVE  ConnType' /\ CallType'
  BY TypeNamedNext, Zenon
<1>0. ConnType /\ CallType
  BY TypeNamed, Zenon
<1> USE DEF ConnType, CallType, TaskStates, taskVars, monVars, callVars
<1>1. CASE UNCHANGED vars
  BY <1>0, <1>1, Zenon DEF vars
<1>2. ASSUME NEW k \in Conns, NEW s \in Shapes, MonSend(k, s)
      PROVE  ConnType' /\ CallType'
  <2>1. sent[k] + 1 \in 1..MaxMsgs
    BY <1>0, <1>2, ClientAssumption DEF MonSend
  <2>2. [id |-> sent[k] + 1, shape |-> s] \in Messages
    BY <2>1, Zenon DEF Messages
  <2>3. Append(inbox[k], [id |-> sent[k] + 1, shape |-> s]) \in Seq(Messages)
    BY <1>0, <2>2, AppendToSeq, Zenon
  <2> QED
    BY <1>0, <1>2, <2>1, <2>3 DEF MonSend
<1>3. ASSUME NEW k \in Conns, \/ MonClose(k) \/ Accept(k) \/ RecvClosed(k) \/ WrapError(k)
                              \/ HandlerPanic(k) \/ ReplyFails(k)
      PROVE  ConnType' /\ CallType'
  <2>1. MonClose(k) => ConnType' /\ CallType'
    BY <1>0, ZenonT(30) DEF MonClose
  <2>2. Accept(k) \/ RecvClosed(k) \/ HandlerPanic(k) => ConnType' /\ CallType'
    BY <1>0, ZenonT(30) DEF Accept, RecvClosed, HandlerPanic
  <2>3. WrapError(k) => ConnType' /\ CallType'
    BY <1>0 DEF WrapError
  <2>4. ReplyFails(k) => ConnType' /\ CallType'
    BY <1>0 DEF ReplyFails, Reset
  <2> QED
    BY <1>3, <2>1, <2>2, <2>3, <2>4, Zenon
<1>4. ASSUME NEW k \in Conns, RecvEmpty(k) \/ RecvReject(k) \/ RecvBadFds(k) \/ RecvMsg(k)
      PROVE  ConnType' /\ CallType'
  <2>1. Take(k)
    BY <1>4, Zenon DEF RecvEmpty, RecvReject, RecvBadFds, RecvMsg
  <2>2. leaked[k] + Fds(k) \in Nat
    <3>1. leaked[k] \in Nat /\ Fds(k) \in 0..2
      BY <1>0, <2>1, TakeType, Zenon
    <3> QED
      BY <3>1
  <2>3. CallType' /\ UNCHANGED <<result, shut, inherits, sent, peer, replies>>
    BY <1>0, <2>1, Zenon DEF Take
  <2>4. /\ inbox' \in [Conns -> Seq(Messages)]
        /\ Incoming(k) \in Bufs /\ PrepareResponse(Incoming(k)) \in Bufs
    BY <2>1, TakeType, Zenon
  <2>5. /\ \E t \in {"eof", "error", "handle"} : pc' = [pc EXCEPT ![k] = t]
        /\ buf' = buf \/ \E b \in Bufs : buf' = [buf EXCEPT ![k] = b]
        /\ msgFds' = msgFds \/ msgFds' = [msgFds EXCEPT ![k] = 2]
        /\ leaked' = leaked \/ leaked' = [leaked EXCEPT ![k] = leaked[k] + Fds(k)]
    BY <1>0, <1>4, <2>4, Zenon DEF RecvEmpty, RecvReject, RecvBadFds, RecvMsg
  <2>6. pc' \in [Conns -> TaskStates]
    <3>1. PICK t \in {"eof", "error", "handle"} : pc' = [pc EXCEPT ![k] = t]
      BY <2>5, Zenon
    <3>2. t \in TaskStates /\ pc \in [Conns -> TaskStates]
      BY <1>0, Zenon
    <3> QED
      BY <3>1, <3>2, Zenon
  <2>7. buf' \in [Conns -> Bufs]
    BY <1>0, <2>5, Zenon
  <2>8. msgFds' \in [Conns -> {0, 2}]
    BY <1>0, <2>5, Zenon
  <2>9. leaked' \in [Conns -> Nat]
    BY <1>0, <2>2, <2>5, ZenonT(30)
  <2> QED
    BY <1>0, <2>3, <2>4, <2>6, <2>7, <2>8, <2>9, Zenon
<1>5. ASSUME NEW k \in Conns, NEW o \in Outcomes, HandleAtOnce(k, o)
      PROVE  ConnType' /\ CallType'
  BY <1>0, <1>5, Zenon DEF HandleAtOnce
<1>6. ASSUME NEW k \in Conns, HandleForks(k)
      PROVE  ConnType' /\ CallType'
  <2>1. Open \subseteq Conns /\ OsErrors \subseteq Outcomes
    BY Zenon DEF Open, Outcomes
  <2>2. CallOf(k) \in Calls
    BY <1>0, Zenon DEF CallOf, Calls, Bufs
  <2>3. UNCHANGED <<buf, msgFds, leaked, shut, inbox, sent, peer, replies>>
    BY <1>6, Zenon DEF HandleForks
  <2>4. did' = did /\ inherits' \in [Calls -> SUBSET Conns]
    <3>1. \/ inherits' = inherits
          \/ inherits' = [inherits EXCEPT ![CallOf(k)] = Open]
      BY <1>6, ForksStep, Zenon
    <3>2. did' = did
      BY <1>6, ForksStep, Zenon
    <3> QED
      BY <1>0, <2>1, <2>2, <3>1, <3>2, Zenon
  <2>5. phase' \in [Calls -> {"idle", "called", "returned", "abandoned"}]
    BY <1>0, <1>6, <2>2, ForksStep, Zenon
  <2>6. /\ outcome' \in [Calls -> Outcomes \cup {None}]
        /\ result' \in [Conns -> Outcomes \cup {None}]
        /\ pc' \in [Conns -> TaskStates]
    <3>1. CASE outcome' = outcome /\ result' = result /\ pc' = [pc EXCEPT ![k] = "calling"]
      BY <1>0, <3>1, Zenon
    <3>2. ASSUME NEW o \in OsErrors, outcome' = [outcome EXCEPT ![CallOf(k)] = o],
                 result' = [result EXCEPT ![k] = o], pc' = [pc EXCEPT ![k] = "reply"]
          PROVE  /\ outcome' \in [Calls -> Outcomes \cup {None}]
                 /\ result' \in [Conns -> Outcomes \cup {None}]
                 /\ pc' \in [Conns -> TaskStates]
      <4>1. o \in Outcomes
        BY <2>1, Zenon
      <4> QED
        BY <1>0, <2>2, <3>2, <4>1, Zenon
    <3> QED
      BY <1>6, <3>1, <3>2, ForksStep, Zenon
  <2> QED
    BY <1>0, <2>3, <2>4, <2>5, <2>6, Zenon
<1>7. ASSUME NEW k \in Conns, CallReturns(k)
      PROVE  ConnType' /\ CallType'
  <2>1. CallOf(k) \in Calls
    BY <1>0, Zenon DEF CallOf, Calls, Bufs
  <2>2. UNCHANGED <<buf, msgFds, leaked, shut, inbox, sent, peer, replies>>
    BY <1>7, Zenon DEF CallReturns
  <2>3. did' = did /\ inherits' \in [Calls -> SUBSET Conns]
    BY <1>0, <1>7, <2>1, ReturnsStep, Zenon
  <2>4. phase' \in [Calls -> {"idle", "called", "returned", "abandoned"}]
    BY <1>0, <1>7, <2>1, ReturnsStep, ZenonT(30)
  <2>5. /\ outcome' \in [Calls -> Outcomes \cup {None}]
        /\ result' \in [Conns -> Outcomes \cup {None}]
        /\ pc' \in [Conns -> TaskStates]
    <3>1. PICK o \in Outcomes : /\ outcome' = [outcome EXCEPT ![CallOf(k)] = o]
                                /\ result' = [result EXCEPT ![k] = o]
                                /\ pc' = [pc EXCEPT ![k] = "reply"]
      BY <1>7, ReturnsStep, Zenon
    <3> QED
      BY <1>0, <2>1, <3>1, Zenon
  <2> QED
    BY <1>0, <2>2, <2>3, <2>4, <2>5, Zenon
<1>8. ASSUME NEW k \in Conns, Reply(k)
      PROVE  ConnType' /\ CallType'
  <2>1. result[k] \in Outcomes /\ result[k].kind # "noOsErr"
    BY <1>8, Zenon DEF Reply, ClientInv, ConnInv, WorkInv
  <2>2. buf[k] \in Bufs /\ buf[k].resp \in Resps /\ buf[k].req \in 0..MaxMsgs
    BY <1>0, Zenon DEF Bufs
  <2> DEFINE a == Answer(buf[k].resp, result[k])
  <2>3. a \in Resps
    BY <2>1, <2>2, AnswerType, Zenon
  <2> HIDE DEF a
  <2>4. [resp |-> a, req |-> buf[k].req] \in Replies
    BY <2>2, <2>3, Zenon DEF Replies
  <2>5. Append(replies[k], [resp |-> a, req |-> buf[k].req]) \in Seq(Replies)
    BY <1>0, <2>4, AppendToSeq, Zenon
  <2>6. [buf[k] EXCEPT !.resp = a, !.cookieLen = 0] \in Bufs
    BY <2>2, <2>3, Zenon DEF Bufs
  <2>7. buf' = [buf EXCEPT ![k] = [buf[k] EXCEPT !.resp = a, !.cookieLen = 0]]
    BY <1>0, <1>8, Zenon DEF Reply, a
  <2>8. buf' \in [Conns -> Bufs]
    BY <1>0, <2>6, <2>7, Zenon
  <2>9. replies' \in [Conns -> Seq(Replies)]
    BY <1>0, <1>8, <2>5, Zenon DEF Reply, a
  <2> QED
    BY <1>0, <1>8, <2>8, <2>9, Zenon DEF Reply, Reset
<1>9. ASSUME NEW c \in Calls, NEW r \in FuncResults, Perform(c, r)
      PROVE  ConnType' /\ CallType'
  BY <1>0, <1>9, Zenon DEF Perform, F!Perform
<1>10. ASSUME NEW c \in Calls, AbandonedDies(c)
       PROVE  ConnType' /\ CallType'
  BY <1>0, <1>10, Zenon DEF AbandonedDies
<1> QED
  BY <1>1, <1>2, <1>3, <1>4, <1>5, <1>6, <1>7, <1>8, <1>9, <1>10, Zenon DEF Next, MainDo, Kid

-----------------------------------------------------------------------------
(* A step that leaves a connection alone keeps its invariant.              *)

SameCalls(k) ==
    \A m \in 0..MaxMsgs :
        phase'[<<k, m>>] = phase[<<k, m>>] /\ did'[<<k, m>>] = did[<<k, m>>]
Untouched(k) ==
    /\ pc'[k] = pc[k] /\ buf'[k] = buf[k] /\ msgFds'[k] = msgFds[k]
    /\ leaked'[k] = leaked[k] /\ result'[k] = result[k] /\ inbox'[k] = inbox[k]
    /\ sent'[k] = sent[k] /\ replies'[k] = replies[k]
    /\ k \in shut => k \in shut'
    /\ SameCalls(k)

LEMMA Counts ==
    ASSUME NEW k \in Conns, TypeOK, ConnInv(k)
    PROVE  /\ Done(k) \in 0..MaxMsgs /\ Len(inbox[k]) \in Nat /\ sent[k] \in 0..MaxMsgs
           /\ pc[k] \in Busy => Done(k) + 1 \in 1..MaxMsgs
<1>1. /\ inbox[k] \in Seq(Messages) /\ replies[k] \in Seq(Replies)
      /\ sent[k] \in 0..MaxMsgs
  BY TypeNamed, Zenon DEF ConnType
<1>2. Len(inbox[k]) \in Nat /\ Done(k) \in Nat
  BY <1>1, LenOfSeq, Zenon DEF Done
<1>3. /\ Done(k) <= sent[k]
      /\ pc[k] \in Busy => sent[k] = Done(k) + 1 + Len(inbox[k])
  BY Zenon DEF ConnInv, LineInv, Queued
<1> QED
  BY <1>1, <1>2, <1>3, ClientAssumption

(* Replies already sent stay true.                                         *)
LEMMA TruthKept ==
    ASSUME NEW k \in Conns, TypeOK, ConnInv(k), SameCalls(k), replies'[k] = replies[k]
    PROVE  \A i \in 1..Done(k)' : TrueReply(k, i)'
<1>1. Done(k)' = Done(k)
  BY Zenon DEF Done
<1> SUFFICES ASSUME NEW i \in 1..Done(k)
             PROVE  TrueReply(k, i)'
  BY <1>1, Zenon
<1>2. Done(k) \in 0..MaxMsgs
  BY Counts, Zenon
<1>3. i \in 0..MaxMsgs
  BY <1>2, ClientAssumption
<1>4. TrueReply(k, i)
  BY Zenon DEF ConnInv
<1> QED
  BY <1>3, <1>4, Zenon DEF SameCalls, TrueReply

LEMMA UntouchedInv ==
    ASSUME NEW k \in Conns, TypeOK, ConnInv(k), Untouched(k)
    PROVE  ConnInv(k)'
<1>1. Done(k)' = Done(k)
  BY Zenon DEF Done, Untouched
<1>2. LineInv(k)'
  BY <1>1, Zenon DEF ConnInv, LineInv, Queued, Untouched
<1>3. FdInv(k)'
  BY Zenon DEF ConnInv, FdInv, Untouched
<1>4. \A i \in 1..Done(k)' : TrueReply(k, i)'
  BY TruthKept, Zenon DEF Untouched
<1>5. WorkInv(k)'
  <2>1. \A m \in 0..MaxMsgs :
           phase'[<<k, m>>] = phase[<<k, m>>] /\ did'[<<k, m>>] = did[<<k, m>>]
    BY Zenon DEF Untouched, SameCalls
  <2>2. pc[k] \in Busy => Done(k) + 1 \in 0..MaxMsgs
    BY Counts
  <2>3. pc'[k] = pc[k] /\ result'[k] = result[k]
    BY Zenon DEF Untouched
  <2> QED
    BY <1>1, <2>1, <2>2, <2>3, Zenon DEF ConnInv, WorkInv, Tells, Busy
<1> QED
  BY <1>2, <1>3, <1>4, <1>5, Zenon DEF ConnInv

(* A step of one connection's task or monitor leaves the others alone.     *)
LEMMA OthersUntouched ==
    ASSUME NEW k \in Conns, NEW j \in Conns, j # k, TypeOK,
           MainDo(k) \/ HandlerPanic(k) \/ MonClose(k) \/ \E s \in Shapes : MonSend(k, s)
    PROVE  Untouched(j)
<1>0. ConnType /\ CallType
  BY TypeNamed, Zenon
<1>1. \A m, n : <<j, m>> # <<k, n>>
  BY CallIndex, Zenon
<1>2. \A m \in 0..MaxMsgs : <<j, m>> \in Calls
  BY Zenon DEF Calls
<1> USE DEF Untouched, SameCalls, taskVars, monVars, callVars
<1>3. ASSUME NEW s \in Shapes, MonSend(k, s)
      PROVE  Untouched(j)
  BY <1>0, <1>3, ZenonT(30) DEF MonSend, ConnType
<1>4. ASSUME MonClose(k) \/ Accept(k) \/ RecvClosed(k) \/ WrapError(k) \/ HandlerPanic(k)
      PROVE  Untouched(j)
  BY <1>0, <1>4, Zenon DEF MonClose, Accept, RecvClosed, WrapError, HandlerPanic, ConnType
<1>5. ASSUME RecvEmpty(k) \/ RecvReject(k) \/ RecvBadFds(k) \/ RecvMsg(k)
      PROVE  Untouched(j)
  BY <1>0, <1>5, ZenonT(30) DEF RecvEmpty, RecvReject, RecvBadFds, RecvMsg, Take, ConnType
<1>6. ASSUME NEW o \in Outcomes, HandleAtOnce(k, o)
      PROVE  Untouched(j)
  BY <1>0, <1>6, Zenon DEF HandleAtOnce, ConnType
<1>7. ASSUME HandleForks(k)
      PROVE  Untouched(j)
  <2>1. UNCHANGED <<buf, msgFds, leaked, shut, inbox, sent, replies>> /\ did' = did
    BY <1>7, ForksStep, Zenon DEF HandleForks
  <2>2. pc'[j] = pc[j] /\ result'[j] = result[j]
    <3>1. /\ \E t : pc' = [pc EXCEPT ![k] = t]
          /\ result' = result \/ \E o : result' = [result EXCEPT ![k] = o]
      BY <1>7, ForksStep, Zenon
    <3> QED
      BY <1>0, <3>1, Zenon DEF ConnType
  <2>3. \E v : phase' = [phase EXCEPT ![<<k, buf[k].req>>] = v]
    BY <1>7, ForksStep, Zenon DEF CallOf
  <2>4. \A m \in 0..MaxMsgs : phase'[<<j, m>>] = phase[<<j, m>>]
    BY <1>0, <1>1, <1>2, <2>3, Zenon DEF CallType
  <2> QED
    BY <2>1, <2>2, <2>4, Zenon
<1>8. ASSUME CallReturns(k)
      PROVE  Untouched(j)
  <2>1. UNCHANGED <<buf, msgFds, leaked, shut, inbox, sent, replies>> /\ did' = did
    BY <1>8, ReturnsStep, Zenon DEF CallReturns
  <2>2. pc'[j] = pc[j] /\ result'[j] = result[j]
    <3>1. \E o : pc' = [pc EXCEPT ![k] = "reply"] /\ result' = [result EXCEPT ![k] = o]
      BY <1>8, ReturnsStep, Zenon
    <3> QED
      BY <1>0, <3>1, Zenon DEF ConnType
  <2>3. \E v : phase' = [phase EXCEPT ![<<k, buf[k].req>>] = v]
    BY <1>8, ReturnsStep, Zenon DEF CallOf
  <2>4. \A m \in 0..MaxMsgs : phase'[<<j, m>>] = phase[<<j, m>>]
    BY <1>0, <1>1, <1>2, <2>3, Zenon DEF CallType
  <2> QED
    BY <2>1, <2>2, <2>4, Zenon
<1>9. ASSUME Reply(k) \/ ReplyFails(k)
      PROVE  Untouched(j)
  BY <1>0, <1>9, ZenonT(30) DEF Reply, ReplyFails, Reset, ConnType
<1> QED
  BY <1>3, <1>4, <1>5, <1>6, <1>7, <1>8, <1>9, Zenon DEF MainDo

-----------------------------------------------------------------------------
(* What a step does to its own connection.                                 *)

(* The task ends, or is about to: nothing more is claimed of its messages. *)
LEMMA EndsInv ==
    ASSUME NEW k \in Conns, TypeOK, ConnInv(k), SameCalls(k),
           replies'[k] = replies[k], sent'[k] = sent[k], pc[k] # "calling",
           pc'[k] \in {"error", "eof", "dropped", "panicked"}, FdInv(k)'
    PROVE  ConnInv(k)'
<1>1. Done(k)' = Done(k)
  BY Zenon DEF Done
<1>2. LineInv(k)'
  BY <1>1, Zenon DEF ConnInv, LineInv, Waiting, Busy
<1>3. WorkInv(k)'
  BY <1>1, Zenon DEF ConnInv, WorkInv, SameCalls, Waiting
<1> QED
  BY <1>2, <1>3, TruthKept, Zenon DEF ConnInv

LEMMA EndingStep ==
    ASSUME NEW k \in Conns, TypeOK, ConnInv(k),
           \/ RecvEmpty(k) \/ RecvReject(k) \/ RecvBadFds(k) \/ RecvClosed(k)
           \/ HandlerPanic(k) \/ ReplyFails(k) \/ WrapError(k)
    PROVE  ConnInv(k)'
<1>0. /\ pc \in [Conns -> TaskStates] /\ msgFds \in [Conns -> {0, 2}]
      /\ leaked \in [Conns -> Nat]
  BY TypeNamed, Zenon DEF ConnType
<1>1. SameCalls(k) /\ replies'[k] = replies[k] /\ sent'[k] = sent[k]
  BY Zenon DEF SameCalls, RecvEmpty, RecvReject, RecvBadFds, Take, RecvClosed, HandlerPanic,
     ReplyFails, WrapError, callVars, monVars
<1>2. pc[k] # "calling" /\ pc'[k] \in {"error", "eof", "dropped", "panicked"}
  BY <1>0, Zenon DEF RecvEmpty, RecvReject, RecvBadFds, Take, RecvClosed, HandlerPanic,
     ReplyFails, WrapError
<1>3. FdInv(k)
  BY Zenon DEF ConnInv
<1>4. FdInv(k)'
  <2>1. ASSUME RecvEmpty(k) \/ RecvReject(k)
        PROVE  FdInv(k)'
    <3>1. Take(k) /\ pc[k] = "recv"
      BY <2>1, Zenon DEF RecvEmpty, RecvReject, Take
    <3>2. Fds(k) \in 0..2
      BY <3>1, TakeType, Zenon
    <3>3. msgFds'[k] = 0 /\ leaked[k] = 0
      BY <1>0, <1>3, <2>1, <3>1 DEF RecvEmpty, RecvReject, FdInv, Busy
    <3>4. leaked'[k] = Fds(k) /\ pc'[k] \in {"eof", "error"}
      BY <1>0, <2>1, <3>2, <3>3, SMTT(30) DEF RecvEmpty, RecvReject
    <3>5. ~(msgFds'[k] > 0)
      BY <3>3
    <3>6. leaked'[k] <= 2
      BY <3>2, <3>4
    <3> QED
      BY <3>4, <3>5, <3>6, Zenon DEF FdInv
  <2>2. ASSUME RecvBadFds(k) \/ RecvClosed(k)
        PROVE  FdInv(k)'
    BY <1>0, <1>3, <2>2, Zenon DEF RecvBadFds, RecvClosed, Take, FdInv, Busy
  <2>3. ASSUME HandlerPanic(k) \/ ReplyFails(k)
        PROVE  FdInv(k)'
    BY <1>0, <1>3, <2>3 DEF HandlerPanic, ReplyFails, Reset, FdInv
  <2>4. ASSUME WrapError(k)
        PROVE  FdInv(k)'
    BY <1>0, <1>3, <2>4, Zenon DEF WrapError, FdInv, Busy
  <2> QED
    BY <2>1, <2>2, <2>3, <2>4, Zenon
<1> QED
  BY <1>1, <1>2, <1>4, EndsInv, Zenon

LEMMA MonSendStep ==
    ASSUME NEW k \in Conns, NEW s \in Shapes, TypeOK, ConnInv(k), MonSend(k, s)
    PROVE  ConnInv(k)'
<1>0. ConnType
  BY TypeNamed, Zenon
<1>1. /\ inbox[k] \in Seq(Messages) /\ sent[k] \in 0..MaxMsgs /\ Len(inbox[k]) \in Nat
      /\ Done(k) \in Nat
  BY <1>0, Counts DEF ConnType
<1> DEFINE m == [id |-> sent[k] + 1, shape |-> s]
<1>2. sent'[k] = sent[k] + 1 /\ inbox'[k] = Append(inbox[k], m)
  BY <1>0, Zenon DEF MonSend, ConnType
<1>3. m \in Messages /\ m.id = sent[k] + 1
  BY <1>1, ClientAssumption, SMTT(30) DEF MonSend, Messages
<1> HIDE DEF m
<1>4. /\ Len(inbox'[k]) = Len(inbox[k]) + 1
      /\ \A j \in 1..Len(inbox[k]) : inbox'[k][j] = inbox[k][j]
      /\ inbox'[k][Len(inbox[k]) + 1] = m
  BY <1>1, <1>2, <1>3, AppendToSeq, SMTT(30)
<1>5. /\ pc' = pc /\ buf' = buf /\ replies' = replies /\ SameCalls(k) /\ result' = result
      /\ msgFds' = msgFds /\ leaked' = leaked /\ shut' = shut /\ did' = did /\ phase' = phase
  BY Zenon DEF MonSend, SameCalls, taskVars, callVars
<1>6. Done(k)' = Done(k)
  BY <1>5, Zenon DEF Done
<1>7. \A n \in Nat : Queued(k, n) => Queued(k, n)'
  <2> SUFFICES ASSUME NEW n \in Nat, Queued(k, n)
               PROVE  Queued(k, n)'
    BY Zenon
  <2>1. sent[k] = n + Len(inbox[k])
    BY Zenon DEF Queued
  <2>2. sent'[k] = n + Len(inbox'[k])
    BY <1>1, <1>2, <1>4, <2>1
  <2>3. ASSUME NEW j \in 1..Len(inbox'[k])
        PROVE  inbox'[k][j].id = n + j
    <3>1. CASE j \in 1..Len(inbox[k])
      BY <1>4, <3>1, Zenon DEF Queued
    <3>2. CASE j = Len(inbox[k]) + 1
      <4>1. inbox'[k][j].id = sent[k] + 1
        BY <1>3, <1>4, <3>2, Zenon
      <4>2. sent[k] + 1 = n + j
        BY <1>1, <2>1, <3>2
      <4> QED
        BY <4>1, <4>2, Zenon
    <3> QED
      BY <1>1, <1>4, <3>1, <3>2, SMTT(30)
  <2> QED
    BY <2>2, <2>3, Zenon DEF Queued
<1>8. LineInv(k)'
  <2>1. Done(k) + 1 \in Nat /\ Done(k)' <= sent'[k]
    BY <1>1, <1>2, <1>6 DEF ConnInv, LineInv
  <2>2. \A n \in Nat : Queued(k, n) =>
           /\ sent'[k] = n + Len(inbox'[k])
           /\ \A j \in 1..Len(inbox'[k]) : inbox'[k][j].id = n + j
    BY <1>7, Zenon DEF Queued
  <2>3. /\ pc[k] \in Waiting => Queued(k, Done(k))
        /\ pc[k] \in Busy => Queued(k, Done(k) + 1)
        /\ pc[k] \in Busy => buf[k].req = Done(k) + 1 /\ buf[k].resp.id = Done(k) + 1
    BY Zenon DEF ConnInv, LineInv
  <2>4. pc[k] \in Waiting => Queued(k, Done(k))'
    <3>1. pc[k] \in Waiting =>
             /\ sent'[k] = Done(k) + Len(inbox'[k])
             /\ \A j \in 1..Len(inbox'[k]) : inbox'[k][j].id = Done(k) + j
      BY <1>1, <2>2, <2>3, Zenon
    <3> QED
      BY <1>6, <3>1, Zenon DEF Queued
  <2>5. pc[k] \in Busy => Queued(k, Done(k) + 1)'
    <3>1. pc[k] \in Busy =>
             /\ sent'[k] = Done(k) + 1 + Len(inbox'[k])
             /\ \A j \in 1..Len(inbox'[k]) : inbox'[k][j].id = Done(k) + 1 + j
      BY <2>1, <2>2, <2>3, Zenon
    <3> QED
      BY <1>6, <3>1, Zenon DEF Queued
  <2> QED
    BY <1>5, <1>6, <2>1, <2>3, <2>4, <2>5, Zenon DEF LineInv
<1>9. WorkInv(k)' /\ FdInv(k)'
  BY <1>5, <1>6, Zenon DEF ConnInv, WorkInv, FdInv, Tells
<1> QED
  BY <1>5, <1>8, <1>9, TruthKept, Zenon DEF ConnInv

(* The task moves from one state to another with its message untouched.    *)
LEMMA AcceptStep ==
    ASSUME NEW k \in Conns, TypeOK, ConnInv(k), Accept(k)
    PROVE  ConnInv(k)'
<1>1. pc[k] = "listen" /\ pc'[k] = "recv"
  BY TypeNamed, Zenon DEF Accept, ConnType
<1>2. /\ UNCHANGED <<buf, msgFds, leaked, result, shut, inbox, sent, replies, phase, did>>
      /\ SameCalls(k)
  BY Zenon DEF Accept, monVars, callVars, SameCalls
<1>3. Done(k)' = Done(k)
  BY <1>2, Zenon DEF Done
<1>4. LineInv(k)'
  BY <1>1, <1>2, <1>3, Zenon DEF ConnInv, LineInv, Queued, Waiting, Busy
<1>5. WorkInv(k)' /\ FdInv(k)'
  BY <1>1, <1>2, <1>3, Zenon DEF ConnInv, WorkInv, FdInv, Waiting, Busy
<1> QED
  BY <1>2, <1>4, <1>5, TruthKept, Zenon DEF ConnInv

(* recv() takes the message after the last one answered, whole.            *)
LEMMA RecvMsgStep ==
    ASSUME NEW k \in Conns, TypeOK, ConnInv(k), RecvMsg(k)
    PROVE  ConnInv(k)'
<1>0. ConnType /\ Take(k)
  BY TypeNamed, Zenon DEF RecvMsg
<1>1. pc[k] = "recv" /\ pc'[k] = "handle" /\ inbox[k] # <<>> /\ inbox'[k] = Tail(inbox[k])
  BY <1>0, Zenon DEF RecvMsg, Take, ConnType
<1>2. /\ UNCHANGED <<leaked, result, shut, sent, replies, phase, did>>
      /\ SameCalls(k)
  BY Zenon DEF RecvMsg, Take, callVars, SameCalls
<1>3. Done(k)' = Done(k) /\ Done(k) \in Nat /\ Len(inbox[k]) \in Nat
  BY <1>2, Counts, SMTT(30) DEF Done
<1>4. /\ inbox[k] \in Seq(Messages) /\ Len(inbox'[k]) = Len(inbox[k]) - 1
      /\ Len(inbox'[k]) \in Nat
      /\ \A j \in 1..Len(inbox'[k]) : inbox'[k][j] = inbox[k][j + 1]
      /\ Head(inbox[k]) = inbox[k][1] /\ Len(inbox[k]) >= 1
  <2>1. inbox[k] \in Seq(Messages)
    BY <1>0, Zenon DEF ConnType
  <2>2. /\ Tail(inbox[k]) \in Seq(Messages) /\ Len(Tail(inbox[k])) = Len(inbox[k]) - 1
        /\ \A j \in 1..Len(Tail(inbox[k])) : Tail(inbox[k])[j] = inbox[k][j + 1]
    BY <1>1, <2>1, TailOfSeq, Zenon
  <2>3. Len(Tail(inbox[k])) \in Nat
    BY <2>2, LenOfSeq, Zenon
  <2>4. Head(inbox[k]) = inbox[k][1]
    BY <1>1, <2>1
  <2> QED
    BY <1>1, <1>3, <2>1, <2>2, <2>3, <2>4
<1>5. Queued(k, Done(k))
  BY <1>1, Zenon DEF ConnInv, LineInv, Waiting
<1>6. Queued(k, Done(k) + 1)'
  <2>1. sent'[k] = Done(k) + 1 + Len(inbox'[k])
    BY <1>2, <1>3, <1>4, <1>5 DEF Queued
  <2>2. ASSUME NEW j \in 1..Len(inbox'[k])
        PROVE  inbox'[k][j].id = Done(k) + 1 + j
    <3>1. inbox'[k][j] = inbox[k][j + 1]
      BY <1>4, Zenon
    <3>2. j + 1 \in 1..Len(inbox[k])
      BY <1>3, <1>4
    <3>3. inbox[k][j + 1].id = Done(k) + (j + 1)
      BY <1>5, <3>2, Zenon DEF Queued
    <3>4. Done(k) + (j + 1) = Done(k) + 1 + j
      BY <1>3
    <3> QED
      BY <3>1, <3>3, <3>4, Zenon
  <2> QED
    BY <1>3, <2>1, <2>2, Zenon DEF Queued
<1>7. Head(inbox[k]).id = Done(k) + 1
  BY <1>3, <1>4, <1>5 DEF Queued
<1>8. buf'[k].req = Done(k) + 1 /\ buf'[k].resp.id = Done(k) + 1
  <2>1. Incoming(k) \in Bufs
    BY <1>0, TakeType, Zenon
  <2>2. Got(Head(inbox[k]).shape) >= PacketSize
    BY Zenon DEF RecvMsg, SetLen, Length
  <2>3. Head(inbox[k]).shape \in AllShapes
    BY <1>0, TakeType, ClientAssumption, Zenon DEF Messages
  <2>4. Got(Head(inbox[k]).shape) \in Int
    BY <2>3, ClientAssumption, SMTT(30) DEF AllShapes, Got, Min2, PacketSize
  <2>5. Incoming(k).req = Done(k) + 1
    BY <1>7, <2>2, <2>4 DEF Incoming, Filled, PacketSize
  <2>6. buf'[k] = PrepareResponse(Incoming(k))
    BY <1>0, Zenon DEF RecvMsg, ConnType
  <2> QED
    BY <2>1, <2>5, <2>6, PrepareType, Zenon
<1>9. LineInv(k)'
  BY <1>1, <1>2, <1>3, <1>6, <1>8, Zenon DEF ConnInv, LineInv, Waiting, Busy
<1>10. WorkInv(k)'
  BY <1>1, <1>2, <1>3, Zenon DEF ConnInv, WorkInv, Waiting
<1>11. FdInv(k)'
  BY <1>1, <1>2, Zenon DEF ConnInv, FdInv, Busy
<1> QED
  BY <1>2, <1>9, <1>10, <1>11, TruthKept, Zenon DEF ConnInv
=============================================================================
