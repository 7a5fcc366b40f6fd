---------------------------- MODULE MknodProofs ----------------------------
(***************************************************************************)
(* Proofs about Mknod, for device numbers, paths and descriptors of every  *)
(* size: what the filter lists is what the kernel makes, and the node made *)
(* is the one the caller asked for.                                        *)
(***************************************************************************)
EXTENDS Mknod, WellFoundedInduction, TLAPS

----------------------------------------------------------------------------
(* The least element of a set of numbers.                                  *)

Less == {p \in Nat \X Nat : p[1] < p[2]}

LEMMA LeastExists ==
    ASSUME NEW S \in SUBSET Nat, S # {}
    PROVE  \E x \in S : \A y \in S : x <= y
<1>1. OpToRel(<, Nat) = Less
  BY Zenon DEF OpToRel, Less
<1>2. IsWellFoundedOn(Less, Nat)
  BY <1>1, NatLessThanWellFounded, Zenon
<1>3. PICK x \in S : \A y \in S : <<y, x>> \notin Less
  BY <1>2, WFMin, Zenon
<1>4. ASSUME NEW y \in S, y < x
      PROVE  <<y, x>> \in Less
  BY <1>4 DEF Less
<1>5. \A y \in S : ~(y < x)
  BY <1>3, <1>4, Zenon
<1>6. \A y \in S : x <= y
  BY <1>5
<1> QED
  BY <1>6, Zenon

LEMMA MinIsLeast ==
    ASSUME NEW S \in SUBSET Nat, S # {}
    PROVE  Min(S) \in S /\ \A y \in S : Min(S) <= y
BY LeastExists, Zenon DEF Min

LEMMA MinIsUnique ==
    ASSUME NEW S \in SUBSET Nat, NEW n \in S, \A y \in S : n <= y
    PROVE  Min(S) = n
<1>1. Min(S) \in S /\ Min(S) <= n
  BY MinIsLeast, Zenon
<1>2. n <= Min(S)
  BY <1>1, Zenon
<1>3. Min(S) \in Nat /\ n \in Nat
  BY <1>1, Zenon
<1> HIDE DEF Min
<1> QED
  BY <1>1, <1>2, <1>3

----------------------------------------------------------------------------
(* Device numbers: below the kernel's limit, the fields that only the C    *)
(* library has are zero, and both splits agree.                            *)

LEMMA SmallField ==
    ASSUME NEW n \in Nat, NEW u \in Nat \ {0}, NEW s \in Nat \ {0}, n < u * s
    PROVE  /\ n \div u \in Nat /\ n \div u < s
           /\ Field(n, u, s) = n \div u
<1>1. n \div u \in Nat /\ n \div u < s
  OBVIOUS
<1>2. \A m \in Nat : m < s => m % s = m
  OBVIOUS
<1> QED
  BY <1>1, <1>2, Zenon DEF Field

LEMMA Products ==
    ASSUME NEW a \in Nat \ {0}, NEW b \in Nat \ {0}
    PROVE  a * b \in Nat \ {0} /\ a <= a * b
OBVIOUS

LEMMA SplitsAgree ==
    ASSUME NEW dev \in Nat, FitsKernel(dev)
    PROVE  major(dev) = kernel_major(dev) /\ minor(dev) = kernel_minor(dev)
<1> DEFINE unit == Minors * Majors
<1>1. unit \in Nat \ {0} /\ Mids * Highs \in Nat \ {0}
  BY FieldAssumption, Products, Zenon
<1>2. KernelDevs = unit * Mids /\ dev < unit * Mids
  BY Zenon DEF FitsKernel, KernelDevs
<1> HIDE DEF unit
<1>3. KernelDevs \in Nat \ {0} /\ KernelDevs * Highs \in Nat \ {0}
  BY <1>1, <1>2, FieldAssumption, Products, Zenon
<1>4. dev < KernelDevs * Highs
  BY <1>1, <1>2, <1>3, FieldAssumption, Products
<1>5. Field(dev, unit, Mids) = dev \div unit /\ dev \div unit \in Nat /\ dev \div unit < Mids
  BY <1>1, <1>2, FieldAssumption, SmallField, Zenon
<1>6. Field(dev, unit, Mids * Highs) = dev \div unit
  <2>1. Mids <= Mids * Highs
    BY FieldAssumption, Products, Zenon
  <2>2. dev \div unit < Mids * Highs
    BY <1>1, <1>5, <2>1, FieldAssumption
  <2>3. \A m \in Nat, s \in Nat \ {0} : m < s => m % s = m
    OBVIOUS
  <2> QED
    BY <1>1, <1>5, <2>2, <2>3, Zenon DEF Field
<1>7. Field(dev, KernelDevs * Highs, Tops) = 0
  <2>1. dev \div (KernelDevs * Highs) = 0
    BY <1>3, <1>4
  <2>2. 0 % Tops = 0
    BY FieldAssumption
  <2> QED
    BY <2>1, <2>2, Zenon DEF Field
<1>8. Field(dev, Minors, Majors) \in Nat
  BY FieldAssumption DEF Field
<1>9. major(dev) = kernel_major(dev)
  BY <1>7, <1>8, FieldAssumption DEF major, kernel_major
<1>10. minor(dev) = kernel_minor(dev)
  BY <1>5, <1>6, Zenon DEF minor, kernel_minor, unit
<1> QED
  BY <1>9, <1>10

\* What check_mknod_dev says of a number that fits the kernel, it says of the
\* node the kernel makes.
LEMMA FilterIsKernels ==
    ASSUME NEW mode, NEW dev \in Nat, FitsKernel(dev)
    PROVE  check_mknod_dev(mode, dev)
             <=> <<FileType(mode), kernel_major(dev), kernel_minor(dev)>> \in Listed
BY SplitsAgree, Zenon DEF check_mknod_dev

----------------------------------------------------------------------------
(* Strings: what get_c_string returns is what the kernel would read.       *)

EndsAt(mem, m) ==
    /\ m \in 1..PathMax /\ m <= Len(mem) /\ mem[m] = 0
    /\ \A i \in 1..(m - 1) : mem[i] # 0

LEMMA StrnlenIs ==
    ASSUME NEW data, NEW n \in Nat, NEW m \in 1..n, data[m] = 0,
           \A i \in 1..(m - 1) : data[i] # 0
    PROVE  strnlen(data, n) = m - 1
<1> DEFINE ends == {i \in 1..n : data[i] = 0}
<1>1. ends \in SUBSET Nat /\ m \in ends
  OBVIOUS
<1>2. \A y \in ends : m <= y
  OBVIOUS
<1>3. Min(ends) = m
  BY <1>1, <1>2, MinIsUnique, Zenon
<1>4. ends # {}
  BY <1>1, Zenon
<1> QED
  BY <1>3, <1>4, Zenon DEF strnlen

LEMMA StrnlenFinds ==
    ASSUME NEW data, NEW n \in Nat, ~(strnlen(data, n) >= n)
    PROVE  \E m \in 1..n : /\ strnlen(data, n) = m - 1 /\ data[m] = 0
                           /\ \A i \in 1..(m - 1) : data[i] # 0
<1> DEFINE ends == {i \in 1..n : data[i] = 0}
<1>1. ends \in SUBSET Nat
  OBVIOUS
<1>2. ends # {}
  <2>1. ends = {} => strnlen(data, n) = n
    BY Zenon DEF strnlen
  <2> QED
    BY <2>1
<1>3. Min(ends) \in ends /\ \A y \in ends : Min(ends) <= y
  BY <1>1, <1>2, MinIsLeast, Zenon
<1>4. strnlen(data, n) = Min(ends) - 1
  BY <1>2, Zenon DEF strnlen
<1> HIDE DEF ends
<1>5. PICK m \in 1..n : m = Min(ends)
  BY <1>3, Zenon DEF ends
<1>6. data[m] = 0
  BY <1>3, <1>5, Zenon DEF ends
<1>7. \A i \in 1..(m - 1) : data[i] # 0
  <2> SUFFICES ASSUME NEW i \in 1..(m - 1), data[i] = 0
               PROVE  FALSE
    BY Zenon
  <2>1. i \in 1..n /\ ~(m <= i)
    OBVIOUS
  <2> QED
    BY <1>3, <1>5, <2>1, Zenon DEF ends
<1> QED
  BY <1>4, <1>5, <1>6, <1>7, Zenon

\* How much of the mapping read_at fills.
LEMMA ReadFills ==
    ASSUME NEW mem \in Seq(Nat)
    PROVE  /\ Min({PathMax, Len(mem)}) \in Nat
           /\ \A m \in Nat : m <= Min({PathMax, Len(mem)}) <=> m <= PathMax /\ m <= Len(mem)
<1>1. PathMax \in Nat /\ Len(mem) \in Nat
  BY ArgAssumption
<1>2. CASE PathMax <= Len(mem)
  <2>1. Min({PathMax, Len(mem)}) = PathMax
    <3>1. \A y \in {PathMax, Len(mem)} : PathMax <= y
      BY <1>1, <1>2
    <3>2. {PathMax, Len(mem)} \in SUBSET Nat
      BY <1>1
    <3> QED
      BY <3>1, <3>2, MinIsUnique, Zenon
  <2>2. \A m \in Nat : m <= PathMax <=> m <= PathMax /\ m <= Len(mem)
    BY <1>1, <1>2
  <2> QED
    BY <1>1, <2>1, <2>2, Zenon
<1>3. CASE ~(PathMax <= Len(mem))
  <2>1. Min({PathMax, Len(mem)}) = Len(mem)
    <3>1. \A y \in {PathMax, Len(mem)} : Len(mem) <= y
      BY <1>1, <1>3
    <3>2. {PathMax, Len(mem)} \in SUBSET Nat
      BY <1>1
    <3> QED
      BY <3>1, <3>2, MinIsUnique, Zenon
  <2>2. \A m \in Nat : m <= Len(mem) <=> m <= PathMax /\ m <= Len(mem)
    BY <1>1, <1>3
  <2> QED
    BY <1>1, <2>1, <2>2, Zenon
<1> QED
  BY <1>2, <1>3, Zenon

LEMMA StringIsRead ==
    ASSUME NEW mem \in Seq(Nat), NEW m, EndsAt(mem, m)
    PROVE  get_c_string(mem) = [reply |-> "ok", path |-> SubSeq(mem, 1, m - 1)]
<1> DEFINE got == Min({PathMax, Len(mem)})
<1>1. got \in Nat /\ m \in 1..got
  BY ReadFills, ArgAssumption DEF EndsAt
<1>2. strnlen(mem, got) = m - 1
  BY <1>1, StrnlenIs, Zenon DEF EndsAt
<1>3. ~(m - 1 >= got)
  BY <1>1
<1>4. mem # <<>>
  BY ArgAssumption DEF EndsAt
<1> QED
  BY <1>2, <1>3, <1>4, Zenon DEF get_c_string

LEMMA ReadIsString ==
    ASSUME NEW mem \in Seq(Nat), get_c_string(mem).reply = "ok"
    PROVE  \E m : EndsAt(mem, m) /\ get_c_string(mem).path = SubSeq(mem, 1, m - 1)
<1> DEFINE got == Min({PathMax, Len(mem)})
<1>1. got \in Nat
  BY ReadFills, Zenon
<1>2. ~(strnlen(mem, got) >= got)
  BY Zenon DEF get_c_string
<1>3. get_c_string(mem).path = SubSeq(mem, 1, strnlen(mem, got))
  BY <1>2, Zenon DEF get_c_string
<1>4. PICK m \in 1..got : /\ strnlen(mem, got) = m - 1 /\ mem[m] = 0
                          /\ \A i \in 1..(m - 1) : mem[i] # 0
  BY <1>1, <1>2, StrnlenFinds, Zenon
<1>5. m \in Nat /\ 1 <= m /\ m <= got
  BY <1>1
<1>6. m \in 1..PathMax /\ m <= Len(mem)
  BY <1>5, ReadFills, ArgAssumption
<1> QED
  BY <1>3, <1>4, <1>6, Zenon DEF EndsAt

----------------------------------------------------------------------------
(* The first error of the checks.                                          *)

LEMMA FirstErrorOk ==
    ASSUME NEW s, DOMAIN s = 1..4
    PROVE  /\ FirstError(s) = "ok" <=> s[1] = "ok" /\ s[2] = "ok" /\ s[3] = "ok" /\ s[4] = "ok"
           /\ s[1] = "ok" /\ s[2] = "ok" /\ s[3] = "ok" => FirstError(s) = s[4]
<1> DEFINE bad == {i \in DOMAIN s : s[i] # "ok"}
<1>1. 1 \in DOMAIN s /\ 2 \in DOMAIN s /\ 3 \in DOMAIN s /\ 4 \in DOMAIN s
  OBVIOUS
<1>2. bad \in SUBSET Nat
  OBVIOUS
<1>3. ASSUME FirstError(s) = "ok"
      PROVE  bad = {}
  <2> SUFFICES ASSUME bad # {}
               PROVE  FALSE
    BY Zenon
  <2>1. Min(bad) \in bad
    BY <1>2, MinIsLeast, Zenon
  <2>2. FirstError(s) = s[Min(bad)]
    BY Zenon DEF FirstError
  <2> QED
    BY <1>3, <2>1, <2>2, Zenon
<1>4. bad = {} => FirstError(s) = "ok"
  BY Zenon DEF FirstError
<1>5. bad = {} <=> s[1] = "ok" /\ s[2] = "ok" /\ s[3] = "ok" /\ s[4] = "ok"
  OBVIOUS
<1>6. ASSUME s[1] = "ok", s[2] = "ok", s[3] = "ok", bad # {}
      PROVE  FirstError(s) = s[4]
  <2>1. bad = {4}
    BY <1>6
  <2>2. Min(bad) = 4
    BY <1>2, <2>1, MinIsLeast, Zenon
  <2> QED
    BY <1>6, <2>2, Zenon DEF FirstError
<1> QED
  BY <1>3, <1>4, <1>5, <1>6, Zenon

----------------------------------------------------------------------------
(* The arguments of a request.                                             *)

LEMMA CallIsOne ==
    ASSUME NEW arch, NEW nr, "mknodat" \in translate_syscall(arch, nr)
    PROVE  "mknod" \notin translate_syscall(arch, nr)
<1>1. /\ arch \in {"x86_64", "i386"} /\ Table[arch]["mknodat"] = nr
      /\ "mknod" \in translate_syscall(arch, nr) => Table[arch]["mknod"] = nr
  BY DEF translate_syscall, Table
<1>2. Table["x86_64"]["mknodat"] = 259 /\ Table["x86_64"]["mknod"] = 133
      /\ Table["i386"]["mknodat"] = 297 /\ Table["i386"]["mknod"] = 14
  BY DEF Table
<1> QED
  BY <1>1, <1>2

LEMMA AsIntType ==
    ASSUME NEW raw \in Nat
    PROVE  AsInt(raw) \in Int
<1>1. Word \in Nat \ {0}
  BY ArgAssumption DEF Word
<1>2. raw % Word \in Int
  BY <1>1
<1> QED
  BY <1>1, <1>2, ArgAssumption DEF AsInt

LEMMA ArgFd ==
    ASSUME NEW raw \in Nat
    PROVE  /\ AsInt(raw) = AT_FDCWD => arg_fd(raw) = [reply |-> "ok", dir |-> "cwd"]
           /\ AsInt(raw) < -1 /\ AsInt(raw) # AT_FDCWD
                => arg_fd(raw) = [reply |-> "ok", dir |-> "invalid"]
           /\ AsInt(raw) = -1 => arg_fd(raw).reply # "ok"
           /\ AsInt(raw) >= 0 /\ AsInt(raw) \notin DOMAIN Fds => arg_fd(raw).reply # "ok"
           /\ AsInt(raw) \in DOMAIN Fds /\ Fds[AsInt(raw)] = "file"
                => arg_fd(raw).reply # "ok"
           /\ AsInt(raw) \in DOMAIN Fds /\ Fds[AsInt(raw)] = "dir"
                => arg_fd(raw) = [reply |-> "ok", dir |-> "fd"]
<1> DEFINE fd == AsInt(raw)
<1>0. fd \in Int /\ AT_FDCWD \in Int
  BY AsIntType, ArgAssumption, Zenon
<1>1. fd = AT_FDCWD => fd # -1 /\ ~(fd >= 0)
  BY <1>0, ArgAssumption
<1>2. fd < -1 => fd # -1 /\ fd < 0 /\ ~(fd >= 0)
  BY <1>0
<1>3. fd = -1 => fd # AT_FDCWD /\ ~(fd >= 0)
  BY <1>0, ArgAssumption
<1>4. fd >= 0 => fd # AT_FDCWD /\ fd # -1 /\ ~(fd < 0)
  BY <1>0, ArgAssumption
<1>5. fd \in DOMAIN Fds => fd >= 0
  BY <1>0, ArgAssumption
<1> HIDE DEF fd
<1> QED
  BY <1>1, <1>2, <1>3, <1>4, <1>5, Zenon DEF arg_fd, fd

LEMMA DirIsKernels ==
    ASSUME NEW r \in Requests, NEW call \in {"mknod", "mknodat"},
           call \in translate_syscall(r.arch, r.nr), DirOf(call, r).reply = "ok"
    PROVE  DirOf(call, r).dir = KernelDir(r)
<1>1. CASE call = "mknod"
  BY <1>1, Zenon DEF DirOf, KernelDir
<1>2. CASE call = "mknodat"
  <2> DEFINE fd == AsInt(r.fd)
  <2>1. "mknod" \notin translate_syscall(r.arch, r.nr)
    BY <1>2, CallIsOne, Zenon
  <2>2. r.fd \in Nat /\ fd \in Int
    BY ArgAssumption, AsIntType, Zenon
  <2>3. DirOf(call, r) = arg_fd(r.fd)
    BY <1>2, Zenon DEF DirOf
  <2>4. fd \in DOMAIN Fds => fd >= 0 /\ Fds[fd] \in {"dir", "file"}
    BY <2>2, ArgAssumption
  <2>5. fd < -1 \/ fd = -1 \/ fd >= 0
    BY <2>2
  <2>6. fd < -1 => ~(fd >= 0)
    BY <2>2
  <2>7. KernelDir(r) = IF fd = AT_FDCWD THEN "cwd"
                       ELSE IF fd \in DOMAIN Fds /\ Fds[fd] = "dir" THEN "fd" ELSE "invalid"
    BY <2>1, Zenon DEF KernelDir
  <2>8. arg_fd(r.fd).reply = "ok"
    BY <2>3, Zenon
  <2> HIDE DEF fd
  <2>9. CASE fd = AT_FDCWD
    <3>1. arg_fd(r.fd) = [reply |-> "ok", dir |-> "cwd"]
      BY <2>2, <2>9, ArgFd, Zenon DEF fd
    <3> QED
      BY <2>3, <2>7, <2>9, <3>1
  <2>10. CASE fd # AT_FDCWD /\ fd < -1
    <3>1. arg_fd(r.fd) = [reply |-> "ok", dir |-> "invalid"] /\ fd \notin DOMAIN Fds
      BY <2>2, <2>4, <2>6, <2>10, ArgFd, Zenon DEF fd
    <3> QED
      BY <2>3, <2>7, <2>10, <3>1
  <2>11. CASE fd # AT_FDCWD /\ ~(fd < -1)
    <3>1. fd \in DOMAIN Fds /\ Fds[fd] = "dir"
      BY <2>2, <2>4, <2>5, <2>8, <2>11, ArgFd, Zenon DEF fd
    <3>2. arg_fd(r.fd) = [reply |-> "ok", dir |-> "fd"]
      BY <2>2, <3>1, ArgFd, Zenon DEF fd
    <3> QED
      BY <2>3, <2>7, <2>11, <3>1, <3>2
  <2> QED
    BY <2>9, <2>10, <2>11, Zenon
<1> QED
  BY <1>1, <1>2, Zenon

LEMMA DirIsGranted ==
    ASSUME NEW r \in Requests, NEW call \in {"mknod", "mknodat"},
           call \in translate_syscall(r.arch, r.nr),
           KernelDir(r) # "invalid" \/ AsInt(r.fd) < -1
    PROVE  DirOf(call, r).reply = "ok"
<1>1. CASE call = "mknod"
  BY <1>1, Zenon DEF DirOf
<1>2. CASE call = "mknodat"
  <2>1. "mknod" \notin translate_syscall(r.arch, r.nr)
    BY <1>2, CallIsOne, Zenon
  <2>2. r.fd \in Nat
    BY ArgAssumption, Zenon
  <2> DEFINE fd == AsInt(r.fd)
  <2>3. fd = AT_FDCWD \/ fd < -1 \/ (fd \in DOMAIN Fds /\ Fds[fd] = "dir")
    BY <2>1, Zenon DEF KernelDir
  <2>4. arg_fd(r.fd) \in {[reply |-> "ok", dir |-> d] : d \in {"cwd", "invalid", "fd"}}
    BY <2>2, <2>3, ArgFd, Zenon
  <2>5. arg_fd(r.fd).reply = "ok"
    BY <2>4
  <2> QED
    BY <1>2, <2>5, Zenon DEF DirOf
<1> QED
  BY <1>1, <1>2, Zenon

LEMMA NonEmpty ==
    ASSUME NEW mem \in Seq(Nat), NEW m, EndsAt(mem, m)
    PROVE  SubSeq(mem, 1, m - 1) # <<>> <=> m \in 2..PathMax
<1>1. m \in Nat /\ 1 <= m /\ m <= PathMax /\ m <= Len(mem)
  BY ArgAssumption DEF EndsAt
<1>2. Len(SubSeq(mem, 1, m - 1)) = m - 1
  BY <1>1
<1> QED
  BY <1>1, <1>2, ArgAssumption

LEMMA KernelPathIs ==
    ASSUME NEW r
    PROVE  \A p : p \in KernelPath(r)
             <=> \E m \in 2..PathMax :
                    ~r.null /\ EndsAt(r.mem, m) /\ p = SubSeq(r.mem, 1, m - 1)
<1>1. \A m \in 2..PathMax : m \in 1..PathMax
  BY ArgAssumption
<1> QED
  BY <1>1, Zenon DEF KernelPath, EndsAt

LEMMA PathIsKernels ==
    ASSUME NEW r \in Requests, arg_c_string(r).reply = "ok", arg_c_string(r).path # <<>>
    PROVE  arg_c_string(r).path \in KernelPath(r)
<1>1. r.mem \in Seq(Nat)
  BY ArgAssumption, Zenon
<1>2. ~r.null /\ arg_c_string(r) = get_c_string(r.mem)
  BY Zenon DEF arg_c_string
<1>3. PICK m : EndsAt(r.mem, m) /\ arg_c_string(r).path = SubSeq(r.mem, 1, m - 1)
  BY <1>1, <1>2, ReadIsString, Zenon
<1>4. m \in 2..PathMax
  BY <1>1, <1>3, NonEmpty, Zenon
<1> QED
  BY <1>2, <1>3, <1>4, KernelPathIs, Zenon

LEMMA PathIsGranted ==
    ASSUME NEW r \in Requests, KernelPath(r) # {}
    PROVE  /\ arg_c_string(r).reply = "ok" /\ arg_c_string(r).path # <<>>
           /\ arg_c_string(r).path \in KernelPath(r)
<1>1. r.mem \in Seq(Nat)
  BY ArgAssumption, Zenon
<1>2. PICK m \in 2..PathMax : ~r.null /\ EndsAt(r.mem, m)
  BY KernelPathIs, Zenon
<1>3. arg_c_string(r) = [reply |-> "ok", path |-> SubSeq(r.mem, 1, m - 1)]
  BY <1>1, <1>2, StringIsRead, Zenon DEF arg_c_string
<1>4. SubSeq(r.mem, 1, m - 1) # <<>>
  BY <1>1, <1>2, NonEmpty, Zenon
<1>5. arg_c_string(r).reply = "ok" /\ arg_c_string(r).path = SubSeq(r.mem, 1, m - 1)
  BY <1>3
<1>6. SubSeq(r.mem, 1, m - 1) \in KernelPath(r)
  BY <1>2, KernelPathIs, Zenon
<1> QED
  BY <1>4, <1>5, <1>6, Zenon

----------------------------------------------------------------------------
(* The handlers.                                                           *)

\* What the early returns let through.
LEMMA EarlyPasses ==
    ASSUME NEW r, NEW call
    PROVE  Early(call, r) = "ok"
             <=> /\ ArgModeFits(r) /\ check_mknod_dev(r.mode, r.dev)
                 /\ DirOf(call, r).reply = "ok" /\ arg_c_string(r).reply = "ok"
<1> DEFINE a == Reply(~ArgModeFits(r), "EINVAL")
           b == Reply(~check_mknod_dev(r.mode, r.dev), "EPERM")
           c == DirOf(call, r).reply
           d == arg_c_string(r).reply
<1>1. (a = "ok" <=> ArgModeFits(r)) /\ (b = "ok" <=> check_mknod_dev(r.mode, r.dev))
  BY Zenon DEF Reply
<1>2. Early(call, r) = FirstError(<<a, b, c, d>>)
  BY Zenon DEF Early
<1> HIDE DEF a, b, c, d
<1>3. FirstError(<<a, b, c, d>>) = "ok" <=> a = "ok" /\ b = "ok" /\ c = "ok" /\ d = "ok"
  BY FirstErrorOk
<1> QED
  BY <1>1, <1>2, <1>3, Zenon DEF c, d

\* What the C library and the kernel let through.
LEMMA LibcPasses ==
    ASSUME NEW dir, NEW path, NEW dev
    PROVE  /\ LibcMknodat(dir, path, dev) = "ok" => FitsKernel(dev) /\ path # <<>>
           /\ FitsKernel(dev) /\ path # <<>> /\ (dir # "invalid" \/ Absolute(path))
                => LibcMknodat(dir, path, dev) \in {"ok", "EEXIST"}
<1> DEFINE a == Reply(~FitsKernel(dev), "EINVAL")
           b == Reply(path = <<>>, "ENOENT")
           c == Reply(dir = "invalid" /\ ~Absolute(path), "EBADF")
           d == Reply(\E n \in nodes : n.path = path
                         /\ n.dir = IF Absolute(path) THEN "root" ELSE dir, "EEXIST")
<1>1. /\ a = "ok" <=> FitsKernel(dev)
      /\ b = "ok" <=> path # <<>>
      /\ c = "ok" <=> dir # "invalid" \/ Absolute(path)
      /\ d \in {"ok", "EEXIST"}
  BY Zenon DEF Reply
<1>2. LibcMknodat(dir, path, dev) = FirstError(<<a, b, c, d>>)
  BY Zenon DEF LibcMknodat
<1> HIDE DEF a, b, c, d
<1>3. FirstError(<<a, b, c, d>>) = "ok" => a = "ok" /\ b = "ok"
  BY FirstErrorOk
<1>4. a = "ok" /\ b = "ok" /\ c = "ok" => FirstError(<<a, b, c, d>>) = d
  BY FirstErrorOk
<1> QED
  BY <1>1, <1>2, <1>3, <1>4, Zenon

\* The requests that have to be granted.
Good(r) ==
    /\ translate_syscall(r.arch, r.nr) # {}
    /\ <<FileType(r.mode), kernel_major(r.dev), kernel_minor(r.dev)>> \in Listed
    /\ r.mode < ModeWord /\ FitsKernel(r.dev)
    /\ KernelPath(r) # {}
    /\ \/ KernelDir(r) # "invalid"
       \/ AsInt(r.fd) < -1 /\ \A p \in KernelPath(r) : Absolute(p)

LEMMA GoodPasses ==
    ASSUME NEW r \in Requests, NEW call \in {"mknod", "mknodat"},
           call \in translate_syscall(r.arch, r.nr), Good(r)
    PROVE  /\ Early(call, r) = "ok"
           /\ LibcMknodat(DirOf(call, r).dir, arg_c_string(r).path, r.dev) \in {"ok", "EEXIST"}
<1>1. r.dev \in Nat /\ FitsKernel(r.dev) /\ ArgModeFits(r)
  BY ArgAssumption, Zenon DEF Good, ArgModeFits
<1>2. check_mknod_dev(r.mode, r.dev)
  BY <1>1, FilterIsKernels, Zenon DEF Good
<1>3. DirOf(call, r).reply = "ok"
  BY DirIsGranted, Zenon DEF Good
<1>4. /\ arg_c_string(r).reply = "ok" /\ arg_c_string(r).path # <<>>
      /\ arg_c_string(r).path \in KernelPath(r)
  BY PathIsGranted, Zenon DEF Good
<1>5. DirOf(call, r).dir # "invalid" \/ Absolute(arg_c_string(r).path)
  BY <1>3, <1>4, DirIsKernels, Zenon DEF Good
<1> QED
  BY <1>1, <1>2, <1>3, <1>4, <1>5, EarlyPasses, LibcPasses, Zenon

\* The node a request may lead to.
Right(n, r) ==
    /\ <<n.type, n.major, n.minor>> \in Listed
    /\ \E p \in KernelPath(r) : n = Node(KernelDir(r), p, r.mode, r.dev)

LEMMA MadeIsRight ==
    ASSUME NEW r \in Requests, NEW call \in {"mknod", "mknodat"},
           call \in translate_syscall(r.arch, r.nr), Early(call, r) = "ok",
           LibcMknodat(DirOf(call, r).dir, arg_c_string(r).path, r.dev) = "ok"
    PROVE  Right(Node(DirOf(call, r).dir, arg_c_string(r).path, r.mode, r.dev), r)
<1> DEFINE path == arg_c_string(r).path
           n == Node(KernelDir(r), path, r.mode, r.dev)
<1>1. /\ check_mknod_dev(r.mode, r.dev) /\ DirOf(call, r).reply = "ok"
      /\ arg_c_string(r).reply = "ok"
  BY EarlyPasses, Zenon
<1>2. FitsKernel(r.dev) /\ path # <<>> /\ r.dev \in Nat
  BY LibcPasses, ArgAssumption, Zenon
<1>3. DirOf(call, r).dir = KernelDir(r)
  BY <1>1, DirIsKernels, Zenon
<1>4. path \in KernelPath(r)
  BY <1>1, <1>2, PathIsKernels, Zenon
<1>5. <<FileType(r.mode), kernel_major(r.dev), kernel_minor(r.dev)>> \in Listed
  BY <1>1, <1>2, FilterIsKernels, Zenon
<1>6. n.type = FileType(r.mode) /\ n.major = kernel_major(r.dev) /\ n.minor = kernel_minor(r.dev)
  BY DEF Node
<1>7. <<n.type, n.major, n.minor>> \in Listed
  BY <1>5, <1>6, Zenon
<1> HIDE DEF path
<1>8. \E p \in KernelPath(r) : n = Node(KernelDir(r), p, r.mode, r.dev)
  BY <1>4, Zenon
<1> HIDE DEF n
<1>9. Right(n, r)
  BY <1>7, <1>8, Zenon DEF Right
<1> QED
  BY <1>3, <1>9, Zenon DEF n, path

----------------------------------------------------------------------------
(* Every step.                                                             *)

Inv == NodesAreListed /\ MadeAsAsked /\ ListedIsMade

LEMMA AnswerKeeps ==
    ASSUME Inv, NEW r, last'.req = {r}, nodes' = nodes \cup last'.made,
           \A n \in last'.made : Right(n, r), Good(r) => last'.reply \in {"ok", "EEXIST"}
    PROVE  Inv'
<1>1. NodesAreListed'
  BY Zenon DEF Inv, NodesAreListed, Right
<1>2. MadeAsAsked'
  BY Zenon DEF MadeAsAsked, Right
<1>3. ListedIsMade'
  BY Zenon DEF ListedIsMade, Good
<1> QED
  BY <1>1, <1>2, <1>3, Zenon DEF Inv

LEMMA AnswerIs ==
    ASSUME NEW r, NEW reply, NEW made, Answer(r, reply, made)
    PROVE  last'.req = {r} /\ last'.reply = reply /\ last'.made = made /\ nodes' = nodes \cup made
BY DEF Answer

LEMMA HandlerKeeps ==
    ASSUME Inv, NEW r \in Requests, NEW call \in {"mknod", "mknodat"},
           call \in translate_syscall(r.arch, r.nr),
           Refuse(call, r) \/ do_mknodat(call, r)
    PROVE  Inv'
<1>1. CASE Refuse(call, r)
  <2>1. ~Good(r) /\ Answer(r, Early(call, r), {})
    BY <1>1, GoodPasses, Zenon DEF Refuse
  <2>2. last'.req = {r} /\ last'.made = {} /\ nodes' = nodes \cup {}
    BY <2>1, AnswerIs
  <2> QED
    BY <2>1, <2>2, AnswerKeeps, Zenon
<1>2. CASE do_mknodat(call, r)
  <2> DEFINE dir == DirOf(call, r).dir
             path == arg_c_string(r).path
             reply == LibcMknodat(dir, path, r.dev)
             made == IF reply = "ok" THEN {Node(dir, path, r.mode, r.dev)} ELSE {}
  <2>1. Early(call, r) = "ok" /\ Answer(r, reply, made)
    BY <1>2, Zenon DEF do_mknodat
  <2>2. \A n \in made : Right(n, r)
    BY <2>1, MadeIsRight, Zenon
  <2>3. Good(r) => reply \in {"ok", "EEXIST"}
    BY GoodPasses, Zenon
  <2> HIDE DEF reply, made
  <2>4. last'.req = {r} /\ last'.reply = reply /\ last'.made = made /\ nodes' = nodes \cup made
    BY <2>1, AnswerIs
  <2> QED
    BY <2>2, <2>3, <2>4, AnswerKeeps, Zenon
<1> QED
  BY <1>1, <1>2, Zenon

LEMMA NoRequestKeeps ==
    ASSUME NodesAreListed', last' = NoRequest
    PROVE  Inv'
<1>1. last'.req = {} /\ last'.made = {}
  BY DEF NoRequest
<1> QED
  BY <1>1, Zenon DEF Inv, MadeAsAsked, ListedIsMade

LEMMA NextKeeps ==
    ASSUME Inv, [Next]_vars
    PROVE  Inv'
<1>1. ASSUME NEW r \in Requests, Unknown(r)
      PROVE  Inv'
  <2>1. ~Good(r) /\ Answer(r, "ENOSYS", {})
    BY <1>1, Zenon DEF Unknown, Good
  <2>2. last'.req = {r} /\ last'.made = {} /\ nodes' = nodes \cup {}
    BY <2>1 DEF Answer
  <2> QED
    BY <2>1, <2>2, AnswerKeeps, Zenon
<1>2. ASSUME NEW r \in Requests, mknod(r) \/ mknodat(r)
      PROVE  Inv'
  BY <1>2, HandlerKeeps, Zenon DEF mknod, mknodat
<1>3. CASE Replied
  BY <1>3, NoRequestKeeps, Zenon DEF Replied, Inv, NodesAreListed
<1>4. CASE Unlink
  BY <1>4, Zenon DEF Unlink, Inv, NodesAreListed, MadeAsAsked, ListedIsMade
<1>5. CASE UNCHANGED vars
  BY <1>5, Zenon DEF vars, Inv, NodesAreListed, MadeAsAsked, ListedIsMade
<1> QED
  BY <1>1, <1>2, <1>3, <1>4, <1>5, Zenon DEF Next

LEMMA InitInv == Init => Inv
<1>1. Init => last.req = {} /\ last.made = {} /\ nodes = {}
  BY DEF Init, NoRequest
<1> QED
  BY <1>1, Zenon DEF Inv, NodesAreListed, MadeAsAsked, ListedIsMade

LEMMA MknodInvariant == Spec => []Inv
BY InitInv, NextKeeps, PTL DEF Spec

\* For fields of every size: no node is made that check_mknod_dev does not
\* list, although the filter splits the whole dev_t and the kernel makes a
\* node from its own, shorter number.
THEOREM OnlyListedNodes == Spec => []NodesAreListed
<1>1. Inv => NodesAreListed
  BY DEF Inv
<1> QED
  BY <1>1, MknodInvariant, PTL

\* For every memory, path limit and set of descriptors: the node do_mknodat
\* makes is the one the kernel would have made of the caller's own call.
THEOREM NodesAreMadeAsAsked == Spec => []MadeAsAsked
<1>1. Inv => MadeAsAsked
  BY DEF Inv
<1> QED
  BY <1>1, MknodInvariant, PTL

\* A listed request with a good path and directory passes every early return
\* of the handlers and every check of the C library.
THEOREM ListedNodesAreMade == Spec => []ListedIsMade
<1>1. Inv => ListedIsMade
  BY DEF Inv
<1> QED
  BY <1>1, MknodInvariant, PTL

=============================================================================
