------------------------------- MODULE Client -------------------------------
(***************************************************************************)
(* src/client.rs with the message buffer of src/lxcseccomp.rs and the      *)
(* socket of src/io/seq_packet.rs: the tasks that serve the connections of *)
(* the lxc monitors, all in one process that forks.                        *)
(*                                                                         *)
(* A connection's task receives a proxy message into its one reused        *)
(* buffer, runs the handler and sends the buffer back as the response.     *)
(* The handler reaches the kernel through forking_syscall(), taken here    *)
(* from its abstract specification ForkedSyscall, which Fork.tla           *)
(* implements.  Call <<k, n>> serves the n-th message of connection k.     *)
(***************************************************************************)
EXTENDS SyscallResult, Sequences, FiniteSets

CONSTANTS Conns,      \* connections of lxc monitors
          MaxMsgs,    \* bound: messages a monitor sends on a connection
          MaxCookie,  \* ProxyMessageBuffer::new(max_cookie)
          Shapes,     \* the message layouts monitors send
          Hung        \* calls whose closure may never return

(***************************************************************************)
(* Lengths are in units: the header, the request and the response struct   *)
(* are one each, the cookie has one per byte.                              *)
(***************************************************************************)
PacketSize == 3                                \* seccomp_packet_size
ENOSYS == 38
AllShapes == [len : Nat, reserved : {0, 1}, sizesOk : BOOLEAN,
              cookieLen : Nat, nfds : Nat]
Calls == Conns \X (0..MaxMsgs)       \* 0 is the id in a buffer never filled

ASSUME ClientAssumption ==
    /\ MaxMsgs \in Nat /\ MaxCookie \in Nat
    /\ Shapes \subseteq AllShapes
    /\ Hung \subseteq Calls

VARIABLES pc,         \* pc[k]: the task of connection k
          buf,        \* buf[k]: its ProxyMessageBuffer
          msgFds,     \* msgFds[k]: descriptors owned by pid_fd and mem_fd
          leaked,     \* leaked[k]: received descriptors nobody owns
          result,     \* result[k]: what the handler returned
          shut,       \* connections shut down with shutdown(Both)
          inherits,   \* inherits[c]: the sockets open in the child of call c
          inbox,      \* inbox[k]: messages sent and not yet received
          sent,       \* sent[k]: how many messages the monitor sent
          peer,       \* peer[k]: the monitor's end of the socket
          replies,    \* replies[k]: what the monitor was sent back
          phase, did, outcome   \* of ForkedSyscall

taskVars == <<pc, buf, msgFds, leaked, result>>
monVars == <<inbox, sent, peer>>
callVars == <<phase, did, outcome>>
vars == <<taskVars, shut, inherits, monVars, replies, callVars>>

F == INSTANCE ForkedSyscall

TaskStates == {"listen", "recv", "handle", "calling", "reply", "error",
               "eof", "dropped", "panicked"}
Ended == {"eof", "dropped", "panicked"}

ZeroResp == [id |-> 0, val |-> 0, error |-> 0]
Resps == [id : 0..MaxMsgs, val : Vals \cup {-1, 0},
          error : {0, -ENOSYS} \cup {-e : e \in Errnos}]
ZeroBuf == [reserved |-> 0, sizesOk |-> FALSE, cookieLen |-> 0, req |-> 0,
            resp |-> ZeroResp]

TypeOK ==
    /\ pc \in [Conns -> TaskStates]
    /\ buf \in [Conns -> [reserved : {0, 1}, sizesOk : BOOLEAN, cookieLen : Nat,
                          req : 0..MaxMsgs, resp : Resps]]
    /\ msgFds \in [Conns -> {0, 2}]
    /\ leaked \in [Conns -> Nat]
    /\ result \in [Conns -> Outcomes \cup {None}]
    /\ shut \subseteq Conns
    /\ inherits \in [Calls -> SUBSET Conns]
    /\ inbox \in [Conns -> Seq([id : 1..MaxMsgs, shape : Shapes])]
    /\ sent \in [Conns -> 0..MaxMsgs]
    /\ peer \in [Conns -> {"open", "closed"}]
    /\ replies \in [Conns -> Seq([resp : Resps, req : 0..MaxMsgs])]
    /\ F!AbsTypeOK

Init ==
    /\ pc = [k \in Conns |-> "listen"]
    /\ buf = [k \in Conns |-> ZeroBuf]
    /\ msgFds = [k \in Conns |-> 0]
    /\ leaked = [k \in Conns |-> 0]
    /\ result = [k \in Conns |-> None]
    /\ shut = {}
    /\ inherits = [c \in Calls |-> {}]
    /\ inbox = [k \in Conns |-> <<>>]
    /\ sent = [k \in Conns |-> 0]
    /\ peer = [k \in Conns |-> "open"]
    /\ replies = [k \in Conns |-> <<>>]
    /\ F!AbsInit

(* The sockets open in the daemon.                                         *)
Open == {k \in Conns : pc[k] \notin Ended \cup {"listen"}}

(* The monitor sees its connection end: by shutdown(), or because the last *)
(* copy of the descriptor is closed.                                       *)
HungUp(k) ==
    k \in shut \/ (pc[k] \in Ended /\ \A c \in Calls : k \notin inherits[c])

-----------------------------------------------------------------------------
(* The monitor.  Its n-th message carries the request id n.                *)

MonSend(k, s) ==
    /\ peer[k] = "open" /\ ~HungUp(k)
    /\ sent[k] < MaxMsgs
    /\ sent' = [sent EXCEPT ![k] = @ + 1]
    /\ inbox' = [inbox EXCEPT ![k] = Append(@, [id |-> sent[k] + 1, shape |-> s])]
    /\ UNCHANGED <<taskVars, shut, inherits, peer, replies, callVars>>

MonClose(k) ==
    /\ peer[k] = "open"
    /\ peer' = [peer EXCEPT ![k] = "closed"]
    /\ UNCHANGED <<taskVars, shut, inherits, inbox, sent, replies, callVars>>

-----------------------------------------------------------------------------
(* Accepting and receiving.                                                *)

Accept(k) ==
    /\ pc[k] = "listen"
    /\ pc' = [pc EXCEPT ![k] = "recv"]
    /\ UNCHANGED <<buf, msgFds, leaked, result, shut, inherits, monVars, replies, callVars>>

(* recvmsg() fills the buffer as far as the message reaches; what is       *)
(* longer than the buffer is cut off.                                      *)
Min2(a, b) == IF a < b THEN a ELSE b
Got(s) == Min2(s.len, PacketSize + MaxCookie)
Filled(b, id, s) ==
    [reserved  |-> IF Got(s) >= 1 THEN s.reserved ELSE b.reserved,
     sizesOk   |-> IF Got(s) >= 1 THEN s.sizesOk ELSE b.sizesOk,
     cookieLen |-> IF Got(s) >= 1 THEN s.cookieLen ELSE b.cookieLen,
     req       |-> IF Got(s) >= 2 THEN id ELSE b.req,
     resp      |-> IF Got(s) >= 3 THEN ZeroResp ELSE b.resp]
(* The control buffer has room for two descriptors.                        *)
GotFds(s) == Min2(s.nfds, 2)

SetLenNoLengthCheck(b, len) ==   \* mutant: no check against seccomp_packet_size
    /\ b.reserved = 0
    /\ b.sizesOk

SetLen(b, len) ==
    /\ len >= PacketSize
    /\ b.reserved = 0
    /\ b.sizesOk
    /\ len - PacketSize <= MaxCookie
    /\ len = PacketSize + b.cookieLen

PrepareResponseKeepsId(b) ==     \* mutant: the id is left as it was received
    [b EXCEPT !.resp = [id |-> b.resp.id, val |-> -1, error |-> -ENOSYS]]

PrepareResponse(b) ==
    [b EXCEPT !.resp = [id |-> b.req, val |-> -1, error |-> -ENOSYS]]

(* recv() after its await: Take() is what every outcome has in common.     *)
Incoming(k) == Filled(buf[k], Head(inbox[k]).id, Head(inbox[k]).shape)
Length(k) == Got(Head(inbox[k]).shape)
Fds(k) == GotFds(Head(inbox[k]).shape)
Take(k) ==
    /\ pc[k] = "recv" /\ inbox[k] # <<>>
    /\ inbox' = [inbox EXCEPT ![k] = Tail(@)]
    /\ UNCHANGED <<result, shut, inherits, sent, peer, replies, callVars>>

(* An empty message is taken for end of file; its descriptors get no owner. *)
RecvEmpty(k) ==
    /\ Take(k)
    /\ Length(k) = 0
    /\ pc' = [pc EXCEPT ![k] = "eof"]
    /\ leaked' = [leaked EXCEPT ![k] = @ + Fds(k)]
    /\ UNCHANGED <<buf, msgFds>>

RecvRejectContinues(k) ==        \* mutant: a rejected message is skipped
    /\ Take(k)
    /\ Length(k) > 0 /\ ~SetLen(Incoming(k), Length(k))
    /\ buf' = [buf EXCEPT ![k] = Incoming(k)]
    /\ leaked' = [leaked EXCEPT ![k] = @ + Fds(k)]
    /\ UNCHANGED <<pc, msgFds>>

(* set_len() fails, also before the descriptors have an owner.             *)
RecvReject(k) ==
    /\ Take(k)
    /\ Length(k) > 0 /\ ~SetLen(Incoming(k), Length(k))
    /\ pc' = [pc EXCEPT ![k] = "error"]
    /\ buf' = [buf EXCEPT ![k] = Incoming(k)]
    /\ leaked' = [leaked EXCEPT ![k] = @ + Fds(k)]
    /\ UNCHANGED msgFds

(* Not two descriptors, or a pidfd whose process is already gone: the      *)
(* owned descriptors close.                                                *)
RecvBadFds(k) ==
    /\ Take(k)
    /\ SetLen(Incoming(k), Length(k))
    /\ pc' = [pc EXCEPT ![k] = "error"]
    /\ buf' = [buf EXCEPT ![k] = PrepareResponse(Incoming(k))]
    /\ UNCHANGED <<msgFds, leaked>>

RecvMsg(k) ==
    /\ Take(k)
    /\ SetLen(Incoming(k), Length(k))
    /\ Fds(k) = 2
    /\ pc' = [pc EXCEPT ![k] = "handle"]
    /\ buf' = [buf EXCEPT ![k] = PrepareResponse(Incoming(k))]
    /\ msgFds' = [msgFds EXCEPT ![k] = 2]
    /\ UNCHANGED leaked

(* The monitor has closed: end of file once everything is received, or     *)
(* ECONNRESET when it left something unread.                               *)
RecvClosed(k) ==
    /\ pc[k] = "recv" /\ peer[k] = "closed"
    /\ \/ inbox[k] = <<>> /\ pc' = [pc EXCEPT ![k] = "eof"]
       \/ replies[k] # <<>> /\ pc' = [pc EXCEPT ![k] = "error"]
    /\ UNCHANGED <<buf, msgFds, leaked, result, shut, inherits, monVars, replies, callVars>>

-----------------------------------------------------------------------------
(* handle_syscall().                                                       *)

CallOf(k) == <<k, buf[k].req>>

(* A handler that never forks: an unknown system call, an argument it      *)
(* cannot read, a device it refuses, a process that is gone.               *)
HandleAtOnce(k, o) ==
    /\ pc[k] = "handle"
    /\ o.kind # "ok"
    /\ result' = [result EXCEPT ![k] = o]
    /\ pc' = [pc EXCEPT ![k] = "reply"]
    /\ UNCHANGED <<buf, msgFds, leaked, shut, inherits, monVars, replies, callVars>>

(* The handler calls forking_syscall(): the child inherits every socket    *)
(* that is open, or the call fails without a child.                        *)
HandleForks(k) ==
    /\ pc[k] = "handle"
    /\ F!Call(CallOf(k))
    /\ \/ /\ phase'[CallOf(k)] = "called"
          /\ pc' = [pc EXCEPT ![k] = "calling"]
          /\ inherits' = [inherits EXCEPT ![CallOf(k)] = Open]
          /\ UNCHANGED result
       \/ /\ phase'[CallOf(k)] = "returned"
          /\ pc' = [pc EXCEPT ![k] = "reply"]
          /\ result' = [result EXCEPT ![k] = outcome'[CallOf(k)]]
          /\ UNCHANGED inherits
    /\ UNCHANGED <<buf, msgFds, leaked, shut, monVars, replies>>

(* A handler panics: the runtime drops the task, nobody calls shutdown().  *)
HandlerPanic(k) ==
    /\ pc[k] = "handle"
    /\ pc' = [pc EXCEPT ![k] = "panicked"]
    /\ msgFds' = [msgFds EXCEPT ![k] = 0]
    /\ UNCHANGED <<buf, leaked, result, shut, inherits, monVars, replies, callVars>>

(* The child runs the closure.                                             *)
Perform(c, r) ==
    /\ inherits[c] # {}
    /\ F!Perform(c, r)
    /\ UNCHANGED <<taskVars, shut, inherits, monVars, replies>>

CallReturnsTooSoon(k) ==         \* mutant: the handler does not wait for the child
    /\ pc[k] = "calling"
    /\ \E o \in OsErrors : result' = [result EXCEPT ![k] = o]
    /\ pc' = [pc EXCEPT ![k] = "reply"]
    /\ UNCHANGED <<buf, msgFds, leaked, shut, inherits, monVars, replies, callVars>>

(* forking_syscall() returns with its child gone, or abandons it.          *)
CallReturns(k) ==
    /\ pc[k] = "calling"
    /\ \/ /\ \E o \in Outcomes : F!Return(CallOf(k), o)
          /\ inherits' = [inherits EXCEPT ![CallOf(k)] = {}]
       \/ /\ \E o \in Outcomes : F!Abandon(CallOf(k), o)
          /\ UNCHANGED inherits
    /\ pc' = [pc EXCEPT ![k] = "reply"]
    /\ result' = [result EXCEPT ![k] = outcome'[CallOf(k)]]
    /\ UNCHANGED <<buf, msgFds, leaked, shut, monVars, replies>>

(* A child that was abandoned dies of its SIGKILL.                         *)
AbandonedDies(c) ==
    /\ phase[c] = "abandoned" /\ inherits[c] # {}
    /\ inherits' = [inherits EXCEPT ![c] = {}]
    /\ UNCHANGED <<taskVars, shut, monVars, replies, callVars>>

AnswerPositive(resp, o) ==       \* mutant: the error number is not negated
    IF o.kind = "ok" THEN [resp EXCEPT !.val = o.n, !.error = 0]
                     ELSE [resp EXCEPT !.val = -1, !.error = o.n]

(* SyscallStatus to seccomp_notif_resp; the id is prepare_response()'s.    *)
Answer(resp, o) ==
    IF o.kind = "ok" THEN [resp EXCEPT !.val = o.n, !.error = 0]
                     ELSE [resp EXCEPT !.val = -1, !.error = -o.n]

ResetKeepsFds(k) ==              \* mutant: reset() keeps pid_fd and mem_fd
    /\ UNCHANGED msgFds
    /\ result' = [result EXCEPT ![k] = None]

(* The message is done with: reset() at the start of the next recv(), or   *)
(* the buffer is dropped with the task.                                    *)
Reset(k) ==
    /\ msgFds' = [msgFds EXCEPT ![k] = 0]
    /\ result' = [result EXCEPT ![k] = None]

(* respond(), then the loop's next recv(), which waits for a message.      *)
Reply(k) ==
    /\ pc[k] = "reply" /\ result[k].kind # "noOsErr" /\ peer[k] = "open"
    /\ replies' = [replies EXCEPT ![k] =
           Append(@, [resp |-> Answer(buf[k].resp, result[k]), req |-> buf[k].req])]
    /\ buf' = [buf EXCEPT ![k].resp = Answer(@, result[k]), ![k].cookieLen = 0]
    /\ pc' = [pc EXCEPT ![k] = "recv"]
    /\ Reset(k)
    /\ UNCHANGED <<leaked, shut, inherits, monVars, callVars>>

ReplyFailsContinues(k) ==        \* mutant: the error is logged and the loop goes on
    /\ pc[k] = "reply"
    /\ result[k].kind = "noOsErr" \/ peer[k] = "closed"
    /\ pc' = [pc EXCEPT ![k] = "recv"]
    /\ Reset(k)
    /\ UNCHANGED <<buf, leaked, shut, inherits, monVars, replies, callVars>>

(* An error without an error number, or EPIPE from sendmsg().              *)
ReplyFails(k) ==
    /\ pc[k] = "reply"
    /\ result[k].kind = "noOsErr" \/ peer[k] = "closed"
    /\ pc' = [pc EXCEPT ![k] = "error"]
    /\ Reset(k)
    /\ UNCHANGED <<buf, leaked, shut, inherits, monVars, replies, callVars>>

DropWithoutShutdown(k) ==        \* mutant: the socket is only closed
    /\ pc[k] = "error"
    /\ pc' = [pc EXCEPT ![k] = "dropped"]
    /\ UNCHANGED <<buf, msgFds, leaked, result, shut, inherits, monVars, replies, callVars>>

(* wrap_error(): shutdown(Both), then the task ends and closes the socket. *)
WrapError(k) ==
    /\ pc[k] = "error"
    /\ shut' = shut \cup {k}
    /\ pc' = [pc EXCEPT ![k] = "dropped"]
    /\ UNCHANGED <<buf, msgFds, leaked, result, inherits, monVars, replies, callVars>>

-----------------------------------------------------------------------------
MainDo(k) ==
    \/ Accept(k) \/ RecvEmpty(k) \/ RecvReject(k) \/ RecvBadFds(k) \/ RecvMsg(k)
    \/ RecvClosed(k) \/ HandleForks(k) \/ CallReturns(k) \/ Reply(k) \/ ReplyFails(k)
    \/ WrapError(k) \/ \E o \in Outcomes : HandleAtOnce(k, o)

Kid(c) == AbandonedDies(c) \/ \E r \in FuncResults : Perform(c, r)

Next ==
    \/ \E k \in Conns : MainDo(k) \/ HandlerPanic(k) \/ MonClose(k)
                         \/ \E s \in Shapes : MonSend(k, s)
    \/ \E c \in Calls : Kid(c)

Spec == Init /\ [][Next]_vars

(* The runtime polls every task that can proceed, the kernel runs the      *)
(* children, and forking_syscall() returns (EveryCallReturns of Fork.tla)  *)
(* unless the closure hangs.  Monitors and panics owe nothing.             *)
Proceed(k) == MainDo(k) /\ (pc[k] = "calling" => CallOf(k) \notin Hung)

FairSpec ==
    /\ Spec
    /\ \A k \in Conns : WF_vars(Proceed(k))
    /\ \A c \in Calls \ Hung : WF_vars(Kid(c))

-----------------------------------------------------------------------------
(* Properties.                                                             *)

(* The i-th reply answers the i-th message of its connection and tells the *)
(* truth about it: success only for a closure that succeeded with that     *)
(* value; failure only when the closure failed with that error or never    *)
(* ran, short of an abandoned child.                                       *)
RepliesAreTrue ==
    \A k \in Conns : \A i \in 1..Len(replies[k]) :
        LET r == replies[k][i].resp
            c == <<k, i>>
        IN  /\ r.id = i /\ replies[k][i].req = i
            /\ IF r.error = 0
               THEN did[c] = [kind |-> "ok", n |-> r.val]
               ELSE \/ did[c] = None \/ phase[c] = "abandoned"
                    \/ Reports(did[c]).kind # "ok" /\ r.error = -Reports(did[c]).n

(* A closure runs for a message that is still being handled, so its effect *)
(* comes before the reply; an abandoned child is the exception.            *)
EffectBeforeReply ==
    [][\A k \in Conns : \A n \in 1..MaxMsgs :
          did'[<<k, n>>] # did[<<k, n>>] /\ phase[<<k, n>>] # "abandoned" =>
              pc[k] = "calling" /\ buf[k].req = n /\ Len(replies[k]) = n - 1]_vars

(* The daemon keeps a container process's pidfd and memory open only while *)
(* it serves a request of it, and what recv() leaks costs the monitor its  *)
(* connection: at most two descriptors per connection.                     *)
DescriptorsBounded ==
    \A k \in Conns :
        /\ msgFds[k] > 0 => pc[k] \in {"handle", "calling", "reply"}
        /\ leaked[k] > 0 => pc[k] \in {"error", "eof", "dropped"} /\ leaked[k] <= 2

(* A connection dropped for an error is seen as closed by its monitor at   *)
(* once, whichever children of other connections still hold the socket.    *)
DroppedIsSeen == \A k \in Conns : pc[k] = "dropped" => HungUp(k)

(* Every message is answered, or the monitor sees the connection closed    *)
(* (or has closed it), if no child stays for ever: a request is never      *)
(* silently lost.                                                          *)
AnsweredOrHungUp ==
    (\A c \in Hung : []<>(inherits[c] = {})) =>
    \A k \in Conns : \A i \in 1..MaxMsgs :
        (sent[k] >= i) ~> (Len(replies[k]) >= i \/ HungUp(k) \/ peer[k] = "closed")

(* A closure that hangs for one connection holds up no other: its messages *)
(* are answered, or the connection is seen to drop, unless the handler     *)
(* panicked or the monitor ended the conversation itself.                  *)
OthersAreServed ==
    \A k \in Conns : \A i \in 1..MaxMsgs :
        (sent[k] >= i /\ \A n \in 1..MaxMsgs : <<k, n>> \notin Hung)
            ~> (Len(replies[k]) >= i \/ HungUp(k) \/ pc[k] \in {"panicked", "eof"})
=============================================================================
