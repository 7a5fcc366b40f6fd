---------------------------- MODULE ForkedSyscall ----------------------------
(***************************************************************************)
(* What src/fork.rs promises the system call handlers: the abstract        *)
(* specification of forking_syscall().                                     *)
(*                                                                         *)
(* A handler passes a closure; the closure runs at most once, in some      *)
(* other process; the handler gets back what the closure returned, or an   *)
(* error.  When the handler has an answer the closure can no longer run,   *)
(* with one exception the code really has: a call that is "abandoned"      *)
(* (killed, but not waited for).                                           *)
(***************************************************************************)
EXTENDS SyscallResult

CONSTANT Calls     \* invocations of forking_syscall()

VARIABLES phase,    \* phase[c]: where call c is, as its caller sees it
          did,      \* did[c]: what the closure returned, None before it ran
          outcome   \* outcome[c]: what the call returned, None before

absVars == <<phase, did, outcome>>

AbsTypeOK ==
    /\ phase \in [Calls -> {"idle", "called", "returned", "abandoned"}]
    /\ did \in [Calls -> FuncResults \cup {None}]
    /\ outcome \in [Calls -> Outcomes \cup {None}]

AbsInit ==
    /\ phase = [c \in Calls |-> "idle"]
    /\ did = [c \in Calls |-> None]
    /\ outcome = [c \in Calls |-> None]

(* A handler calls forking_syscall(); without the resources to start, the  *)
(* call returns at once and the closure never runs.                        *)
Call(c) ==
    /\ phase[c] = "idle"
    /\ \/ phase' = [phase EXCEPT ![c] = "called"] /\ outcome' = outcome
       \/ \E o \in OsErrors :
            /\ phase' = [phase EXCEPT ![c] = "returned"]
            /\ outcome' = [outcome EXCEPT ![c] = o]
    /\ UNCHANGED did

(* The closure runs, once, and returns r.                                  *)
Perform(c, r) ==
    /\ phase[c] \in {"called", "abandoned"}
    /\ did[c] = None
    /\ did' = [did EXCEPT ![c] = r]
    /\ UNCHANGED <<phase, outcome>>

(* The call returns: the closure's own result, an error without an OS      *)
(* error, or (when the closure never ran) a failure to start it.           *)
Return(c, o) ==
    /\ phase[c] = "called"
    /\ \/ did[c] # None /\ o = Reports(did[c])
       \/ o = NoOsError
       \/ did[c] = None /\ o \in OsErrors
    /\ phase' = [phase EXCEPT ![c] = "returned"]
    /\ outcome' = [outcome EXCEPT ![c] = o]
    /\ UNCHANGED did

(* The call gives up on a closure that may still be running.               *)
Abandon(c, o) ==
    /\ phase[c] = "called"
    /\ o \in OsErrors
    /\ phase' = [phase EXCEPT ![c] = "abandoned"]
    /\ outcome' = [outcome EXCEPT ![c] = o]
    /\ UNCHANGED did

AbsNext ==
    \E c \in Calls :
        \/ Call(c)
        \/ \E r \in FuncResults : Perform(c, r)
        \/ \E o \in Outcomes : Return(c, o) \/ Abandon(c, o)

AbsSpec == AbsInit /\ [][AbsNext]_absVars

=============================================================================
