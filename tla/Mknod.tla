-------------------------------- MODULE Mknod --------------------------------
(***************************************************************************)
(* The mknod and mknodat handlers (sys_mknod.rs), the arguments they take  *)
(* from the notification (lxcseccomp.rs) and from the caller's memory      *)
(* (syscall.rs), and what C library and kernel then make of them.          *)
(*                                                                         *)
(* The fields of a number and their order are kept, their sizes are        *)
(* parameters: a dev_t of the C library has, from the low end, a field of  *)
(* the minor number with Minors values, one of the major with Majors, two  *)
(* more of the minor with Mids and Highs, and one more of the major with   *)
(* Tops values (8, 12, 12, 12 and 20 bits in the code).  The kernel's own  *)
(* number, an unsigned int, ends after the third.  Entering the caller's   *)
(* environment is in UserCaps, the fork in Fork.                           *)
(***************************************************************************)
EXTENDS Integers, Sequences, FiniteSetsExt

CONSTANTS
    Minors, Majors, Mids, Highs, Tops,
    Perms,        \* number of values below the file type in a mode (2^12)
    ModeWord,     \* number of values of a mode_t (2^32)
    IntMax,       \* largest int (2^31 - 1)
    AT_FDCWD,     \* -100
    PathMax,      \* bytes get_c_string reads (4096)
    Fds,          \* the caller's descriptors: a function to "dir" or "file"
    Requests,     \* notifications: arch, nr, fd, null (is the path a null
                  \* pointer), mem (the bytes mapped where it points to),
                  \* mode and dev
    MaxNodes      \* bound on the nodes made

VARIABLES nodes,  \* the nodes that exist: dir, path, type, major, minor
          last    \* the last request and its reply

vars == <<nodes, last>>

\* No field is empty.
ASSUME FieldAssumption ==
    /\ Minors \in Nat \ {0} /\ Majors \in Nat \ {0} /\ Mids \in Nat \ {0}
    /\ Highs \in Nat \ {0} /\ Tops \in Nat \ {0} /\ Perms \in Nat \ {0}

\* Open descriptors are not negative, AT_FDCWD is not -1, and the registers
\* of a notification are unsigned.
ASSUME ArgAssumption ==
    /\ IntMax \in Nat /\ PathMax \in Nat /\ ModeWord \in Nat
    /\ AT_FDCWD \in Int /\ AT_FDCWD < -1
    /\ DOMAIN Fds \subseteq Nat /\ \A fd \in DOMAIN Fds : Fds[fd] \in {"dir", "file"}
    /\ \A r \in Requests : /\ r.fd \in Nat /\ r.mode \in Nat /\ r.dev \in Nat
                           /\ r.null \in BOOLEAN /\ r.mem \in Seq(Nat)

----------------------------------------------------------------------------
(* Arguments.                                                              *)

Word == 2 * (IntMax + 1)
AsInt(raw) == LET u == raw % Word IN IF u > IntMax THEN u - Word ELSE u

S_IFREG == 8
S_IFCHR == 2

\* translate_syscall: the table of system call numbers.
Table == [x86_64 |-> [mknod |-> 133, mknodat |-> 259, quotactl |-> 179],
          i386   |-> [mknod |-> 14,  mknodat |-> 297, quotactl |-> 131]]

translate_syscall(arch, nr) ==
    {c \in {"mknod", "mknodat", "quotactl"} :
        arch \in DOMAIN Table /\ nr # -1 /\ Table[arch][c] = nr}

\* arg_mode_t.
ArgModeFits(r) == r.mode < ModeWord

\* A string in memory is the bytes up to the next unmapped page: 0 ends a
\* string, 1 is a slash.
strnlen(data, n) == LET ends == {i \in 1..n : data[i] = 0}
                    IN  IF ends = {} THEN n ELSE Min(ends) - 1

\* Mutated form: the string may end in what read_at did not fill.
get_c_string_full(mem) ==
    LET got  == Min({PathMax, Len(mem)})
        full == [i \in 1..PathMax |-> IF i <= got THEN mem[i] ELSE 0]
        len  == strnlen(full, PathMax)
    IN  IF len >= PathMax THEN [reply |-> "EINVAL", path |-> <<>>]
        ELSE [reply |-> "ok", path |-> SubSeq(full, 1, len)]

\* get_c_string: one read_at of PathMax bytes into an uninitialised buffer.
\* It is short where the mapping ends, and fails where nothing is mapped.
get_c_string(mem) ==
    LET got == Min({PathMax, Len(mem)})
        len == strnlen(mem, got)
    IN  IF mem = <<>> THEN [reply |-> "EIO", path |-> <<>>]
        ELSE IF len >= got THEN [reply |-> "EINVAL", path |-> <<>>]
        ELSE [reply |-> "ok", path |-> SubSeq(mem, 1, len)]

\* arg_c_string: a null pointer is no string.
arg_c_string(r) == IF r.null THEN [reply |-> "EINVAL", path |-> <<>>]
                   ELSE get_c_string(r.mem)

\* Mutated form: the register is not taken as an int.
arg_fd_raw(raw) ==
    IF raw \in DOMAIN Fds /\ Fds[raw] = "dir" THEN [reply |-> "ok", dir |-> "fd"]
    ELSE [reply |-> "ENOENT", dir |-> "none"]

\* arg_fd: the directory the descriptor argument stands for.  OwnedFd cannot
\* hold -1: from_raw_fd panics.
arg_fd(raw) ==
    LET fd == AsInt(raw)
    IN  CASE fd = AT_FDCWD -> [reply |-> "ok", dir |-> "cwd"]
          [] fd = -1       -> [reply |-> "panic", dir |-> "none"]
          [] fd < 0 /\ fd \notin {AT_FDCWD, -1} ->
                              [reply |-> "ok", dir |-> "invalid"]
          [] fd >= 0 /\ fd \notin DOMAIN Fds ->
                              [reply |-> "ENOENT", dir |-> "none"]
          [] OTHER         -> IF Fds[fd] = "file"
                              THEN [reply |-> "ENOTDIR", dir |-> "none"]
                              ELSE [reply |-> "ok", dir |-> "fd"]

----------------------------------------------------------------------------
(* Device numbers.                                                         *)

Field(n, unit, size) == (n \div unit) % size

\* makedev's inverse in the C library, over the whole dev_t.
KernelDevs == Minors * Majors * Mids
major(dev) == Field(dev, KernelDevs * Highs, Tops) * Majors
              + Field(dev, Minors, Majors)
minor(dev) == Field(dev, Minors * Majors, Mids * Highs) * Minors
              + Field(dev, 1, Minors)

\* mknodat of the C library refuses what does not fit; the kernel decodes.
FitsKernel(dev) == dev < KernelDevs
kernel_major(dev) == Field(dev, Minors, Majors)
kernel_minor(dev) == Field(dev, Minors * Majors, Mids) * Minors
                     + Field(dev, 1, Minors)

FileType(mode) == Field(mode, Perms, 16)

Listed == {<<S_IFREG, 0, 0>>, <<S_IFCHR, 0, 0>>, <<S_IFCHR, 5, 0>>,
           <<S_IFCHR, 5, 1>>, <<S_IFCHR, 5, 2>>, <<S_IFCHR, 1, 3>>,
           <<S_IFCHR, 1, 5>>, <<S_IFCHR, 1, 7>>, <<S_IFCHR, 1, 8>>,
           <<S_IFCHR, 1, 9>>}

\* Mutated form: only the bits of the old 16 bit device numbers are looked at.
check_mknod_dev_old(mode, dev) ==
    <<FileType(mode), Field(dev, Minors, Majors), Field(dev, 1, Minors)>>
        \in Listed

check_mknod_dev(mode, dev) ==
    <<FileType(mode), major(dev), minor(dev)>> \in Listed

----------------------------------------------------------------------------
(* The handlers.                                                           *)

FirstError(replies) ==
    LET bad == {i \in DOMAIN replies : replies[i] # "ok"}
    IN  IF bad = {} THEN "ok" ELSE replies[Min(bad)]

Reply(failed, errno) == IF failed THEN errno ELSE "ok"

\* The early returns, in the order of the code.  Only mknodat has a
\* descriptor argument; mknod resolves relative to the caller's cwd.
DirOf(call, r) == IF call = "mknodat" THEN arg_fd(r.fd)
                  ELSE [reply |-> "ok", dir |-> "cwd"]

Early(call, r) ==
    FirstError(<<Reply(~ArgModeFits(r), "EINVAL"),
                 Reply(~check_mknod_dev(r.mode, r.dev), "EPERM"),
                 DirOf(call, r).reply,
                 arg_c_string(r).reply>>)

Absolute(path) == path # <<>> /\ path[1] = 1

\* The node mknodat(dir, path, mode, dev) is about.
Node(dir, path, mode, dev) ==
    [dir |-> IF Absolute(path) THEN "root" ELSE dir, path |-> path,
     type |-> FileType(mode), major |-> kernel_major(dev),
     minor |-> kernel_minor(dev)]

\* The child's mknodat: the C library, then the kernel.
LibcMknodat(dir, path, dev) ==
    FirstError(<<Reply(~FitsKernel(dev), "EINVAL"),
                 Reply(path = <<>>, "ENOENT"),
                 Reply(dir = "invalid" /\ ~Absolute(path), "EBADF"),
                 Reply(\E n \in nodes : n.path = path
                         /\ n.dir = IF Absolute(path) THEN "root" ELSE dir,
                       "EEXIST")>>)

NoRequest == [req |-> {}, reply |-> "none", made |-> {}]

Init == nodes = {} /\ last = NoRequest

Answer(r, reply, made) ==
    /\ last' = [req |-> {r}, reply |-> reply, made |-> made]
    /\ nodes' = nodes \cup made

\* handle_syscall_do, for a request that is not quotactl.
Unknown(r) ==
    /\ translate_syscall(r.arch, r.nr) = {}
    /\ Answer(r, "ENOSYS", {})

Refuse(call, r) ==
    /\ Early(call, r) # "ok"
    /\ Answer(r, Early(call, r), {})

do_mknodat(call, r) ==
    LET dir == DirOf(call, r).dir
        path == arg_c_string(r).path
        reply == LibcMknodat(dir, path, r.dev)
    IN  /\ Early(call, r) = "ok"
        /\ Cardinality(nodes) < MaxNodes \/ reply # "ok"
        /\ Answer(r, reply,
                  IF reply = "ok" THEN {Node(dir, path, r.mode, r.dev)} ELSE {})

mknod(r) ==
    /\ "mknod" \in translate_syscall(r.arch, r.nr)
    /\ Refuse("mknod", r) \/ do_mknodat("mknod", r)

mknodat(r) ==
    /\ "mknodat" \in translate_syscall(r.arch, r.nr)
    /\ Refuse("mknodat", r) \/ do_mknodat("mknodat", r)

\* The reply has been sent: the next request may come.
Replied == last # NoRequest /\ last' = NoRequest /\ UNCHANGED nodes

\* The node is removed again in the container.
Unlink == \E n \in nodes : nodes' = nodes \ {n} /\ UNCHANGED last

Next == \/ /\ last = NoRequest
           /\ \E r \in Requests : Unknown(r) \/ mknod(r) \/ mknodat(r)
        \/ Replied \/ Unlink

Spec == Init /\ [][Next]_vars

----------------------------------------------------------------------------
(* Properties.                                                             *)

\* Reference: the string the kernel would have taken from the caller's memory,
\* {} if it would have failed (EFAULT, ENAMETOOLONG, ENOENT).
KernelPath(r) ==
    {SubSeq(r.mem, 1, n - 1) :
        n \in {m \in 2..PathMax : /\ ~r.null /\ m <= Len(r.mem)
                                  /\ r.mem[m] = 0
                                  /\ \A i \in 1..(m - 1) : r.mem[i] # 0}}

\* Reference: the directory the caller's own call would have started from.
KernelDir(r) ==
    LET fd == AsInt(r.fd)
    IN  IF "mknod" \in translate_syscall(r.arch, r.nr) \/ fd = AT_FDCWD
        THEN "cwd"
        ELSE IF fd \in DOMAIN Fds /\ Fds[fd] = "dir" THEN "fd" ELSE "invalid"

\* Whatever the caller asks for, every node that is made is, as the kernel
\* reads its number, one that check_mknod_dev lists.  The filter splits a
\* 64 bit dev_t, the kernel makes a node from a 32 bit one: no bit may be
\* looked at by only one of them.
NodesAreListed ==
    \A n \in nodes : <<n.type, n.major, n.minor>> \in Listed

\* A node that is made is the one the caller's own system call would have
\* made: same directory, same path as the kernel would have read it, however
\* long the string and wherever the mapping ends, same type and number.
MadeAsAsked ==
    \A n \in last.made : \A r \in last.req :
        \E p \in KernelPath(r) : n = Node(KernelDir(r), p, r.mode, r.dev)

\* What the filter lists is made: a request with a good path, for a listed
\* type and number, that the kernel would have granted, is granted or finds
\* the name taken.  The exceptions are those of the code: registers with bits
\* above the argument's own width, descriptor -1, and descriptors that are
\* not open directories (even where an absolute path ignores them).
ListedIsMade ==
    \A r \in last.req :
        /\ translate_syscall(r.arch, r.nr) # {}
        /\ <<FileType(r.mode), kernel_major(r.dev), kernel_minor(r.dev)>>
               \in Listed
        /\ r.mode < ModeWord /\ FitsKernel(r.dev)
        /\ KernelPath(r) # {}
        /\ \/ KernelDir(r) # "invalid"
           \/ /\ AsInt(r.fd) < -1
              /\ \A p \in KernelPath(r) : Absolute(p)
        => last.reply \in {"ok", "EEXIST"}

\* What the comment in arg_fd says: "we pass negative ones 'as-is'".  The
\* kernel ignores the descriptor when the path is absolute, so such a call
\* is granted or refused, but answered.
NegativeFdsPassAsIs ==
    \A r \in last.req :
        /\ AsInt(r.fd) < 0
        /\ KernelPath(r) # {} /\ \A p \in KernelPath(r) : Absolute(p)
        => last.reply # "panic"

=============================================================================
