------------------------------ MODULE MCUserCaps ------------------------------
(* Instances of UserCaps for TLC.                                          *)
EXTENDS UserCaps

MCCaps == {"SETUID", "SETGID", "SETPCAP", "MKNOD"}

\* Container root; a user with distinct file system ids; a group 0 process
\* with another file system group and inheritable capabilities.
Root(l, n) ==
    [euid |-> 1, egid |-> 1, fsuid |-> 1, fsgid |-> 1, inheritable |-> {},
     permitted |-> MCCaps, effective |-> MCCaps, label |-> l, ns |-> n]

User(l, n) ==
    [euid |-> 2, egid |-> 2, fsuid |-> 3, fsgid |-> 3, inheritable |-> {},
     permitted |-> {"MKNOD", "SETUID"}, effective |-> {"MKNOD"}, label |-> l,
     ns |-> n]

Group0(l, n) ==
    [euid |-> 0, egid |-> 0, fsuid |-> 2, fsgid |-> 2,
     inheritable |-> {"MKNOD"}, permitted |-> {"MKNOD"}, effective |-> {},
     label |-> l, ns |-> n]

MCFsStates == {[root |-> "ct", cwd |-> "ct", umask |-> "077"],
               [root |-> "jail", cwd |-> "dir", umask |-> "000"]}

\* "lxc" refuses nothing, "nopcap" the change of the securebits, "tight" that
\* of the ids.
MCDenies == [unconfined |-> {}, lxc |-> {}, none |-> {}, nopcap |-> {"SETPCAP"},
             tight |-> {"SETUID", "SETGID"}, other |-> {}]
MCEnters == {"unconfined", "lxc", "nopcap", "tight"}

Hybrid ==
    [mounts |-> {"devices/", "unified/"}, caps |-> MCCaps, label |-> "unconfined",
     enters |-> MCEnters,
     groups |-> {[v1 |-> TRUE, devices |-> d, v2 |-> g] :
                    d \in {"d1", "none"}, g \in {"g1", "g2"}},
     creds |-> {Root("lxc", "ct"), User("lxc", "ct2"), Group0("nopcap", "ct")}]

\* No AppArmor, v1 cgroups only, a daemon without MKNOD.
Legacy ==
    [mounts |-> {"devices/"}, caps |-> MCCaps \ {"MKNOD"}, label |-> "none",
     enters |-> {},
     groups |-> {[v1 |-> TRUE, devices |-> d, v2 |-> "none"] : d \in {"d1", "d2"}},
     creds |-> {Root("none", "ct"), User("none", "ct2"),
                [User("none", "ct") EXCEPT !.permitted = {"SETUID"},
                                           !.effective = {}]}]

\* v2 cgroups only, and a label that refuses the change of the ids.
Unified ==
    [mounts |-> {""}, caps |-> MCCaps, label |-> "unconfined",
     enters |-> MCEnters,
     groups |-> {[v1 |-> FALSE, devices |-> "none", v2 |-> g] : g \in {"g1", "g2"}},
     creds |-> {Root("lxc", "ct"), Group0("tight", "ct")}]

\* v2 cgroups with one named v1 hierarchy besides, which makes the guess of the
\* mount point wrong for a process with a line for it; and a label of which the
\* daemon's own does not allow the change.
Named ==
    [mounts |-> {""}, caps |-> MCCaps, label |-> "unconfined", enters |-> MCEnters,
     groups |-> {[v1 |-> v, devices |-> "none", v2 |-> "g1"] : v \in BOOLEAN},
     creds |-> {Root("lxc", "ct"), User("other", "ct")}]

AllHosts == {Hybrid, Legacy, Unified, Named}
TightHost == {Unified}
=============================================================================
