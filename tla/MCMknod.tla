------------------------------- MODULE MCMknod -------------------------------
(* Instances of Mknod for TLC.                                             *)
EXTENDS Mknod

MCFdcwd == -3
MCFds == [n \in 0..1 |-> IF n = 0 THEN "dir" ELSE "file"]

Req(arch, nr, fd, null, mem, mode, dev) ==
    [arch |-> arch, nr |-> nr, fd |-> fd, null |-> null, mem |-> mem,
     mode |-> mode, dev |-> dev]

Name == <<2, 0>>

\* Every device number, with every file type that matters, with and without
\* mode bits above the 16 the kernel keeps and above the 32 of a mode_t.
NumberRequests ==
    {Req("x86_64", 133, 0, FALSE, Name, (t + 16 * h) * Perms, d) :
        t \in {0, S_IFCHR, 6, S_IFREG}, h \in {0, 1, 2},
        d \in 0..(KernelDevs * Highs * Tops - 1)}

\* Every string of up to PathMax + 1 mapped bytes, with every kind of
\* descriptor, on both architectures.
Strings == UNION {[1..n -> {0, 1, 2}] : n \in 0..(PathMax + 1)}

PathRequests ==
    {Req(c[1], c[2], fd, null, mem, S_IFCHR * Perms, Minors + 3) :
        c \in {<<"x86_64", 133>>, <<"i386", 297>>, <<"x86_64", 297>>},
        fd \in {0, 1, 2} \cup {Word - 1, Word - 2, Word + AT_FDCWD, Word},
        null \in BOOLEAN, mem \in Strings}
        \cup {Req("x86_64", nr, 0, FALSE, Name, S_IFCHR * Perms, d) :
                nr \in {-1, 14}, d \in {0, 4}}

MCRequests == NumberRequests \cup PathRequests

FdRequests ==
    {Req("i386", 297, fd, FALSE, mem, S_IFCHR * Perms, Minors + 3) :
        fd \in 0..(2 * Word - 1), mem \in {<<1, 2, 0>>, <<2, 2, 0>>, <<1>>}}
=============================================================================
