----------------------------- MODULE ForkProofs -----------------------------
(***************************************************************************)
(* Proofs about Fork.tla, for any number of concurrent calls, workers,     *)
(* values and error numbers, and whichever closures hang.                  *)
(***************************************************************************)
EXTENDS Fork, TLAPS

(* Encoding a closure's result as `Data` stays inside the type of Data.    *)
LEMMA EncodeType == \A r \in FuncResults : Encode(r) \in Datas
BY ErrnoAssumption DEF FuncResults, Encode, Datas

(* get_result() understands what the child wrote: decoding the encoding of *)
(* a result gives the outcome that reports it.                             *)
LEMMA DecodeEncode == \A r \in FuncResults : Decode(Encode(r)) = Reports(r)
BY ErrnoAssumption DEF FuncResults, Encode, Decode, Reports

LEMMA ReportsType == \A r \in FuncResults : Reports(r) \in Outcomes
BY ErrnoAssumption DEF FuncResults, Reports, Outcomes, OsErrors

LEMMA DecodeType == \A r \in FuncResults : Decode(Encode(r)) \in Outcomes
BY DecodeEncode, ReportsType

-----------------------------------------------------------------------------
(* The invariant holds initially.                                          *)
LEMMA InitInv == Init => TypeOK /\ ForkInv
BY ForkAssumption DEF Init, TypeOK, ForkInv, ChildInv, TaskInv, ReturnedMeansReaped,
   OwnResult, WaitIsShort, PidIsOurs, TaskStates, ChildStates, Executing, Exiting,
   Statuses, Procs

(* Every step keeps the variables in their types.                          *)
LEMMA TypeStep == TypeOK /\ ForkInv /\ [Next]_vars => TypeOK'
<1> SUFFICES ASSUME TypeOK, ForkInv, [Next]_vars
             PROVE  TypeOK'
  OBVIOUS
<1> USE DEF TypeOK, TaskStates, ChildStates, Statuses, Procs
<1>1. CASE UNCHANGED vars
  BY <1>1 DEF vars
<1>2. ASSUME NEW c \in Calls, PipeFds(c)
      PROVE  TypeOK'
  BY <1>2 DEF PipeFds, ReturnTo, PipeEnds, R, W, Outcomes
<1>3. ASSUME NEW c \in Calls, ForkChild(c)
      PROVE  TypeOK'
  BY <1>3 DEF ForkChild, ReturnTo, Outcomes
<1>4. ASSUME NEW c \in Calls, DropPipeW(c) \/ TryInto(c)
      PROVE  TypeOK'
  BY <1>4 DEF DropPipeW, TryInto
<1>5. ASSUME NEW c \in Calls, KillChild(c)
      PROVE  TypeOK'
  BY <1>5 DEF KillChild, ReturnTo, Outcomes
<1>6. ASSUME NEW c \in Calls, ChildStart(c) \/ ChildPanic(c)
      PROVE  TypeOK'
  BY <1>6 DEF ChildStart, ChildPanic
<1>7. ASSUME NEW c \in Calls, NEW r \in FuncResults, ChildFunc(c, r)
      PROVE  TypeOK'
  BY <1>7 DEF ChildFunc
<1>8. ASSUME NEW c \in Calls, ChildWrite(c)
      PROVE  TypeOK'
  <2>1. did[c] \in FuncResults
    BY <1>8 DEF ChildWrite, ForkInv, ChildInv
  <2> QED
    BY <1>8, <2>1, EncodeType DEF ChildWrite
<1>9. ASSUME NEW c \in Calls, ChildExit(c) \/ ChildKilled(c) \/ ChildCrash(c)
      PROVE  TypeOK'
  BY <1>9 DEF ChildExit, ChildKilled, ChildCrash, Die
<1>10. ASSUME NEW c \in Calls, GetResult(c)
       PROVE  TypeOK'
  <2>1. Decode(pipe[c]) \in Outcomes
    BY <1>10, DecodeType DEF GetResult, ForkInv, ChildInv
  <2> QED
    BY <1>10, <2>1 DEF GetResult
<1>11. ASSUME NEW c \in Calls, GetEof(c)
       PROVE  TypeOK'
  BY <1>11 DEF GetEof, Outcomes
<1>12. ASSUME NEW c \in Calls, Wait(c) \/ DropFork(c)
       PROVE  TypeOK'
  BY <1>12 DEF Wait, DropFork, Reap, ReturnTo, Outcomes
<1> QED
  BY <1>1, <1>2, <1>3, <1>4, <1>5, <1>6, <1>7, <1>8, <1>9, <1>10, <1>11, <1>12
     DEF Next, Task, Child, Around, Closure

-----------------------------------------------------------------------------
(* A step of one call leaves what ChildInv and TaskInv say of another call *)
(* alone: fds[c] only changes with c's own child, and the daemon closes    *)
(* only the ends of the call's own pipe.                                   *)
Untouched(d) ==
    /\ pc'[d] = pc[d] /\ child'[d] = child[d] /\ status'[d] = status[d]
    /\ did'[d] = did[d] /\ pipe'[d] = pipe[d] /\ fds'[d] = fds[d]
    /\ outcome'[d] = outcome[d]
    /\ W(d) \in fds[Daemon] => W(d) \in fds'[Daemon]

(* ForkInv, call by call.                                                  *)
CallInv(c) ==
    /\ ChildInv(c) /\ TaskInv(c)
    /\ pc[c] = "returned" => child[c] \in {"none", "reaped"}
    /\ pc[c] = "returned" =>
        \/ outcome[c] = NoOsError
        \/ child[c] = "none" /\ outcome[c] \in OsErrors
        \/ /\ did[c] # None /\ outcome[c] = Reports(did[c])
           /\ outcome[c].kind \in {"ok", "err"} => status[c] = "zero"
    /\ pc[c] \in {"wait", "drop"} => child[c] \in Exiting \cup {"zombie"}
    /\ pc[c] \in {"forked", "register", "kill", "await", "wait", "drop"}
          => child[c] \notin {"none", "reaped"}

LEMMA ForkInvByCall == ForkInv <=> \A c \in Calls : CallInv(c)
BY DEF ForkInv, CallInv, ReturnedMeansReaped, OwnResult, WaitIsShort, PidIsOurs

LEMMA ForkInvByCallPrime == ForkInv' <=> \A c \in Calls : CallInv(c)'
BY DEF ForkInv, CallInv, ReturnedMeansReaped, OwnResult, WaitIsShort, PidIsOurs

LEMMA UntouchedInv ==
    ASSUME NEW d \in Calls, CallInv(d), Untouched(d)
    PROVE  CallInv(d)'
BY DEF Untouched, CallInv, ChildInv, TaskInv

(* Every step preserves the invariant of the call that takes it.           *)
LEMMA OwnStep ==
    ASSUME TypeOK, NEW c \in Calls, CallInv(c),
           Task(c) \/ Child(c) \/ ChildPanic(c) \/ ChildCrash(c)
    PROVE  CallInv(c)'
<1> USE DEF TypeOK, TaskStates, ChildStates, Statuses, Procs
<1>a. R(c) # W(c) /\ c # Daemon
  BY ForkAssumption DEF R, W
<1>b. NoOsError.kind = "noOsErr" /\ (\A o \in OsErrors : o # NoOsError)
  BY DEF NoOsError, OsErrors
<1>1. ASSUME PipeFds(c)
      PROVE  CallInv(c)'
  BY <1>1, <1>a DEF PipeFds, ReturnTo, CallInv, ChildInv, TaskInv, Executing, Exiting
<1>2. ASSUME ForkChild(c)
      PROVE  CallInv(c)'
  BY <1>2, <1>a DEF ForkChild, ReturnTo, CallInv, ChildInv, TaskInv, Executing, Exiting
<1>3. ASSUME DropPipeW(c) \/ TryInto(c) \/ KillChild(c)
      PROVE  CallInv(c)'
  BY <1>3, <1>a DEF DropPipeW, TryInto, KillChild, ReturnTo, CallInv, ChildInv,
     TaskInv, Executing, Exiting
<1>4. ASSUME ChildStart(c) \/ ChildPanic(c)
      PROVE  CallInv(c)'
  BY <1>4, <1>a DEF ChildStart, ChildPanic, CallInv, ChildInv, TaskInv, Executing, Exiting
<1>5. ASSUME NEW r \in FuncResults, ChildFunc(c, r)
      PROVE  CallInv(c)'
  <2>1. r # None
    BY NoneAssumption
  <2> QED
    BY <1>5, <2>1 DEF ChildFunc, CallInv, ChildInv, TaskInv, Executing, Exiting
<1>6. ASSUME ChildWrite(c)
      PROVE  CallInv(c)'
  BY <1>6 DEF ChildWrite, CallInv, ChildInv, TaskInv, Executing, Exiting
<1>7. ASSUME ChildExit(c) \/ ChildKilled(c) \/ ChildCrash(c)
      PROVE  CallInv(c)'
  BY <1>7, <1>a DEF ChildExit, ChildKilled, ChildCrash, Die, CallInv, ChildInv,
     TaskInv, Executing, Exiting
<1>8. ASSUME GetResult(c)
      PROVE  CallInv(c)'
  <2>1. did[c] \in FuncResults /\ Decode(pipe[c]) = Reports(did[c])
    BY <1>8, DecodeEncode DEF GetResult, CallInv, ChildInv
  <2>2. Reports(did[c]).kind \in {"ok", "err", "osErr"}
    BY <2>1 DEF FuncResults, Reports
  <2> QED
    BY <1>8, <2>1, <2>2 DEF GetResult, CallInv, ChildInv, TaskInv, Executing, Exiting
<1>9. ASSUME GetEof(c)
      PROVE  CallInv(c)'
  BY <1>9 DEF GetEof, PipeEof, CallInv, ChildInv, TaskInv, Executing, Exiting
<1>10. ASSUME Wait(c)
       PROVE  CallInv(c)'
  BY <1>10, <1>a DEF Wait, Reap, ReturnTo, CallInv, ChildInv, TaskInv, Executing, Exiting
<1>11. ASSUME DropFork(c)
       PROVE  CallInv(c)'
  BY <1>11, <1>a DEF DropFork, Reap, ReturnTo, CallInv, ChildInv, TaskInv, Executing, Exiting
<1> QED
  BY <1>1, <1>2, <1>3, <1>4, <1>5, <1>6, <1>7, <1>8, <1>9, <1>10, <1>11
     DEF Task, Child, Around, Closure

LEMMA OtherStep ==
    ASSUME TypeOK, NEW c \in Calls, NEW d \in Calls, d # c,
           Task(c) \/ Child(c) \/ ChildPanic(c) \/ ChildCrash(c)
    PROVE  Untouched(d)
<1> USE DEF TypeOK, Procs
<1>1. d # Daemon /\ c # Daemon /\ W(d) # W(c) /\ W(d) # R(c)
  BY ForkAssumption DEF R, W
<1>2. CASE Task(c)
  BY <1>1, <1>2 DEF Task, PipeFds, ForkChild, DropPipeW, TryInto, KillChild, GetResult,
     GetEof, Wait, DropFork, Reap, ReturnTo, Untouched
<1>3. CASE Child(c)
  BY <1>1, <1>3
     DEF Child, Around, Closure, ChildStart, ChildFunc, ChildWrite, ChildExit, ChildKilled, Die,
     Untouched
<1>4. CASE ChildPanic(c) \/ ChildCrash(c)
  BY <1>1, <1>4 DEF ChildPanic, ChildCrash, Die, Untouched
<1> QED
  BY <1>2, <1>3, <1>4

LEMMA InvStep == TypeOK /\ ForkInv /\ [Next]_vars => ForkInv'
<1> SUFFICES ASSUME TypeOK, ForkInv, [Next]_vars, NEW d \in Calls
             PROVE  CallInv(d)'
  BY ForkInvByCallPrime
<1>1. CallInv(d)
  BY ForkInvByCall
<1>2. CASE UNCHANGED vars
  BY <1>1, <1>2, UntouchedInv DEF vars, Untouched
<1>3. CASE Next
  <2>1. PICK c \in Calls : Task(c) \/ Child(c) \/ ChildPanic(c) \/ ChildCrash(c)
    BY <1>3 DEF Next
  <2>2. CASE c = d
    BY <1>1, <2>1, <2>2, OwnStep
  <2>3. CASE c # d
    BY <1>1, <2>1, <2>3, OtherStep, UntouchedInv
  <2> QED
    BY <2>2, <2>3
<1> QED
  BY <1>2, <1>3

(* forking_syscall() keeps its variables typed and satisfies the inductive *)
(* invariant, with any number of calls running at once.                    *)
THEOREM ForkInvariant == Spec => [](TypeOK /\ ForkInv)
<1>1. TypeOK /\ ForkInv /\ [Next]_vars => (TypeOK /\ ForkInv)'
  BY TypeStep, InvStep
<1> QED
  BY <1>1, InitInv, PTL DEF Spec

(* The variables of fork.rs keep their types.                              *)
THEOREM TypeCorrect == Spec => []TypeOK
BY ForkInvariant, PTL

(* No returned call leaves a process behind (Drop and wait()).             *)
THEOREM NoChildLeft == Spec => []ReturnedMeansReaped
<1>1. ForkInv => ReturnedMeansReaped
  BY DEF ForkInv
<1> QED
  BY <1>1, ForkInvariant, PTL

(* A handler is told what its own closure did (get_result()).              *)
THEOREM HandlersGetTheirOwnResult == Spec => []OwnResult
<1>1. ForkInv => OwnResult
  BY DEF ForkInv
<1> QED
  BY <1>1, ForkInvariant, PTL

(* waitpid() on a worker thread only meets children past their closure.    *)
THEOREM WaitNeverHangs == Spec => []WaitIsShort
<1>1. ForkInv => WaitIsShort
  BY DEF ForkInv
<1> QED
  BY <1>1, ForkInvariant, PTL

(* kill() and waitpid() are never given a recycled pid.                    *)
THEOREM PidNeverStale == Spec => []PidIsOurs
<1>1. ForkInv => PidIsOurs
  BY DEF ForkInv
<1> QED
  BY <1>1, ForkInvariant, PTL
-----------------------------------------------------------------------------
(* The instance speaks of the same results and outcomes.                   *)
LEMMA SameResults ==
    /\ Abs!FuncResults = FuncResults /\ Abs!OsErrors = OsErrors
    /\ Abs!NoOsError = NoOsError /\ Abs!Outcomes = Outcomes
    /\ \A r : Abs!Reports(r) = Reports(r)
BY DEF Abs!FuncResults, FuncResults, Abs!OsErrors, OsErrors, Abs!NoOsError, NoOsError,
   Abs!Outcomes, Outcomes, Abs!Reports, Reports

(* What the refinement mapping does to each kind of step of call c.        *)
LEMMA MapStutter ==
    ASSUME TypeOK, NEW c \in Calls, NEW s \in TaskStates,
           pc' = [pc EXCEPT ![c] = s], did' = did,
           s \notin {"start", "returned", "abandoned"},
           pc[c] \notin {"start", "returned", "abandoned"},
           \A d \in Calls : d # c => outcome'[d] = outcome[d]
    PROVE  UNCHANGED <<phaseBar, did, outcomeBar>>
BY DEF TypeOK, phaseBar, outcomeBar, Phase

LEMMA MapSame ==
    ASSUME pc' = pc, did' = did, outcome' = outcome
    PROVE  UNCHANGED <<phaseBar, did, outcomeBar>>
BY DEF phaseBar, outcomeBar, Phase

LEMMA MapReturn ==
    ASSUME TypeOK, NEW c \in Calls, NEW s \in {"returned", "abandoned"}, NEW o \in Outcomes,
           ReturnTo(c, s, o)
    PROVE  /\ phaseBar' = [phaseBar EXCEPT ![c] = s]
           /\ outcomeBar' = [outcomeBar EXCEPT ![c] = o]
BY DEF TypeOK, ReturnTo, phaseBar, outcomeBar, Phase

(* Every step of a call is a step of ForkedSyscall or invisible to it.     *)
LEMMA StepRefines ==
    ASSUME TypeOK, ForkInv, NEW c \in Calls,
           Task(c) \/ Child(c) \/ ChildPanic(c) \/ ChildCrash(c)
    PROVE  Abs!AbsNext \/ UNCHANGED <<phaseBar, did, outcomeBar>>
<1>a. ChildInv(c) /\ TaskInv(c) /\ CallInv(c)
  BY ForkInvByCall DEF ForkInv
<1>b. OsErrors \subseteq Outcomes /\ NoOsError \in Outcomes
  BY DEF Outcomes
<1>c. phaseBar[c] = Phase(c)
  BY DEF phaseBar
<1>1. ASSUME PipeFds(c)
      PROVE  Abs!Call(c)
  <2>1. phaseBar[c] = "idle"
    BY <1>1, <1>c DEF PipeFds, Phase
  <2>2. CASE \E o \in OsErrors : ReturnTo(c, "returned", o)
    BY <1>1, <1>b, <2>1, <2>2, MapReturn, SameResults DEF PipeFds, Abs!Call
  <2>3. CASE pc' = [pc EXCEPT ![c] = "piped"] /\ UNCHANGED outcome
    <3>1. phaseBar' = [phaseBar EXCEPT ![c] = "called"] /\ outcomeBar' = outcomeBar
      BY <1>1, <2>3 DEF PipeFds, TypeOK, phaseBar, outcomeBar, Phase
    <3> QED
      BY <1>1, <2>1, <3>1 DEF PipeFds, Abs!Call
  <2> QED
    BY <1>1, <2>2, <2>3 DEF PipeFds
<1>2. ASSUME ForkChild(c)
      PROVE  Abs!AbsNext \/ UNCHANGED <<phaseBar, did, outcomeBar>>
  <2>1. phaseBar[c] = "called" /\ did[c] = None
    BY <1>2, <1>a, <1>c DEF ForkChild, Phase, ChildInv, TaskInv
  <2>2. CASE \E o \in OsErrors : ReturnTo(c, "returned", o)
    <3>1. PICK o \in OsErrors : ReturnTo(c, "returned", o)
      BY <2>2
    <3>2. Abs!Return(c, o)
      BY <1>2, <1>b, <2>1, <3>1, MapReturn, SameResults DEF ForkChild, Abs!Return
    <3> QED
      BY <1>b, <3>1, <3>2, SameResults DEF Abs!AbsNext
  <2>3. CASE pc' = [pc EXCEPT ![c] = "forked"] /\ UNCHANGED outcome
    BY <1>2, <2>3, MapStutter DEF ForkChild, TaskStates
  <2> QED
    BY <1>2, <2>2, <2>3 DEF ForkChild
<1>3. ASSUME DropPipeW(c) \/ TryInto(c)
      PROVE  UNCHANGED <<phaseBar, did, outcomeBar>>
  BY <1>3, MapStutter DEF DropPipeW, TryInto, TaskStates
<1>4. ASSUME KillChild(c)
      PROVE  Abs!AbsNext
  <2>1. phaseBar[c] = "called"
    BY <1>4, <1>c DEF KillChild, Phase
  <2>2. PICK o \in OsErrors : ReturnTo(c, "abandoned", o)
    BY <1>4 DEF KillChild
  <2>3. Abs!Abandon(c, o)
    BY <1>4, <1>b, <2>1, <2>2, MapReturn, SameResults DEF KillChild, Abs!Abandon
  <2> QED
    BY <1>b, <2>2, <2>3, SameResults DEF Abs!AbsNext
<1>5. ASSUME NEW r \in FuncResults, ChildFunc(c, r)
      PROVE  Abs!Perform(c, r)
  <2>1. did[c] = None /\ pc[c] \notin {"start", "returned"}
    BY <1>5, <1>a DEF ChildFunc, CallInv, ChildInv, TaskInv
  <2>2. phaseBar[c] \in {"called", "abandoned"}
    BY <1>c, <2>1 DEF Phase, TypeOK
  <2>3. phaseBar' = phaseBar /\ outcomeBar' = outcomeBar
    BY <1>5 DEF ChildFunc, phaseBar, outcomeBar, Phase
  <2> QED
    BY <1>5, <2>1, <2>2, <2>3 DEF ChildFunc, Abs!Perform
<1>6. ASSUME ChildStart(c) \/ ChildPanic(c) \/ ChildWrite(c) \/ ChildExit(c)
             \/ ChildKilled(c) \/ ChildCrash(c)
      PROVE  UNCHANGED <<phaseBar, did, outcomeBar>>
  BY <1>6, MapSame DEF ChildStart, ChildPanic, ChildWrite, ChildExit, ChildKilled,
     ChildCrash, Die
<1>7. ASSUME GetResult(c) \/ GetEof(c)
      PROVE  UNCHANGED <<phaseBar, did, outcomeBar>>
  <2>1. PICK s \in {"wait", "drop"} : pc' = [pc EXCEPT ![c] = s]
    BY <1>7 DEF GetResult, GetEof
  <2>2. did' = did /\ pc[c] = "await" /\ \A d \in Calls : d # c => outcome'[d] = outcome[d]
    BY <1>7 DEF GetResult, GetEof, TypeOK
  <2> QED
    BY <2>1, <2>2, MapStutter DEF TaskStates
<1>8. ASSUME Wait(c) \/ DropFork(c)
      PROVE  Abs!AbsNext
  <2>1. PICK o : ReturnTo(c, "returned", o) /\ (o = NoOsError \/ o = outcome[c])
    BY <1>8 DEF Wait, DropFork
  <2>2. \/ o = NoOsError
        \/ did[c] # None /\ did[c] \in FuncResults /\ o = Reports(did[c])
    BY <1>8, <1>a, <2>1 DEF Wait, DropFork, TaskInv, TypeOK
  <2>3. o \in Outcomes
    BY <1>b, <2>2, ReportsType
  <2>4. phaseBar[c] = "called" /\ did' = did
    BY <1>8, <1>c DEF Wait, DropFork, Reap, Phase
  <2>5. Abs!Return(c, o)
    BY <2>1, <2>2, <2>3, <2>4, MapReturn, SameResults DEF Abs!Return
  <2> QED
    BY <2>3, <2>5, SameResults DEF Abs!AbsNext
<1> QED
  BY <1>1, <1>2, <1>3, <1>4, <1>5, <1>6, <1>7, <1>8, SameResults
     DEF Task, Child, Around, Closure, Abs!AbsNext

(* fork.rs implements its abstract specification: whatever the other calls *)
(* do, a closure runs at most once and not after its call has returned,    *)
(* and the call reports what the closure did or fails.                     *)
THEOREM ForkRefines == Spec => Refinement
<1>1. Init => Abs!AbsInit
  BY DEF Init, Abs!AbsInit, phaseBar, outcomeBar, Phase
<1>2. TypeOK /\ ForkInv /\ [Next]_vars => [Abs!AbsNext]_(Abs!absVars)
  <2> SUFFICES ASSUME TypeOK, ForkInv, [Next]_vars
               PROVE  Abs!AbsNext \/ UNCHANGED <<phaseBar, did, outcomeBar>>
    BY DEF Abs!absVars
  <2>1. CASE Next
    BY <2>1, StepRefines DEF Next
  <2>2. CASE UNCHANGED vars
    BY <2>2, MapSame DEF vars
  <2> QED
    BY <2>1, <2>2
<1> QED
  BY <1>1, <1>2, ForkInvariant, PTL DEF Spec, Refinement, Abs!AbsSpec
=============================================================================
