---------------------------- MODULE SyscallResult ----------------------------
(***************************************************************************)
(* The values that travel through a forked system call: what the closure   *)
(* returns in the child, and what forking_syscall() returns in the daemon  *)
(* (SyscallStatus in src/syscall.rs, io::Result around it in src/fork.rs). *)
(***************************************************************************)
EXTENDS Integers

CONSTANTS Vals,     \* return values of a successful system call (i64)
          Errnos,   \* error numbers (i32)
          EFAULT,   \* what an io::Error without an OS error is turned into
          None      \* "no value yet"

ASSUME ErrnoAssumption ==
    /\ Vals \subseteq Int
    /\ Errnos \subseteq Nat \ {0}
    /\ EFAULT \in Errnos

(***************************************************************************)
(* What the closure `func` returns: Ok(SyscallStatus::Ok(n)),              *)
(* Ok(SyscallStatus::Err(n)), Err(e) with e.raw_os_error() = Some(n), or   *)
(* Err(e) without an OS error.                                             *)
(***************************************************************************)
FuncResults ==
    [kind : {"ok"}, n : Vals] \cup [kind : {"err", "fail"}, n : Errnos]
        \cup [kind : {"failNoOs"}, n : {0}]

(***************************************************************************)
(* What forking_syscall() returns: Ok(SyscallStatus::Ok(n)),               *)
(* Ok(SyscallStatus::Err(n)), an io::Error that carries the OS error n, or *)
(* an io::Error that carries none.                                         *)
(***************************************************************************)
OsErrors == [kind : {"osErr"}, n : Errnos]
NoOsError == [kind |-> "noOsErr", n |-> 0]
Outcomes ==
    [kind : {"ok"}, n : Vals] \cup [kind : {"err"}, n : Errnos]
        \cup OsErrors \cup {NoOsError}

(***************************************************************************)
(* The outcome that reports the closure's result r.                        *)
(***************************************************************************)
Reports(r) ==
    CASE r.kind \in {"ok", "err"} -> r
      [] r.kind = "fail"          -> [kind |-> "osErr", n |-> r.n]
      [] r.kind = "failNoOs"      -> [kind |-> "osErr", n |-> EFAULT]

ASSUME NoneAssumption == None \notin FuncResults \cup Outcomes

=============================================================================
