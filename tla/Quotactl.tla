------------------------------ MODULE Quotactl ------------------------------
(***************************************************************************)
(* src/sys_quotactl.rs, with the argument accessors of src/lxcseccomp.rs:  *)
(* quotactl() on behalf of several containers that share a file system.    *)
(*                                                                         *)
(* A request is one step: the daemon only reads the request, the id map    *)
(* (written once per namespace) and the caller's memory; the shared state  *)
(* is the kernel's quota, which the child touches with one system call.    *)
(***************************************************************************)
EXTENDS IdMap

CONSTANTS Containers,
          Me,         \* the container whose view is checked
          Maps,       \* Maps[c][t]: uid_map and gid_map of container c
          IntMax,     \* the greatest `int` (2^31 - 1)
          RawIds,     \* 64-bit values passed as `id`
          ReqKinds,   \* quota kinds passed in `cmd`
          Sent,       \* the requests the containers send
          HostSets,   \* ids the host's administrator sets quotas for
          Blks        \* contents of struct dqblk / dqinfo; 0 is "not set"

USRQUOTA == 0
GRPQUOTA == 1
Mapped == {USRQUOTA, GRPQUOTA}
Modulus == 2 * (IntMax + 1)           \* number of values of an unsigned int
Uints == 0 .. (Modulus - 1)

(***************************************************************************)
(* arg_int(): a 64-bit argument that must fit an unsigned int and is then  *)
(* reinterpreted; `as u64` extends its sign again.                         *)
(***************************************************************************)
ArgUint(raw) == raw \in Uints
AsInt(u) == IF u > IntMax THEN u - Modulus ELSE u
AsU64(i) == IF i < 0 THEN i + Modulus * Modulus ELSE i
KernelId(i) == IF i < 0 THEN i + Modulus ELSE i    \* the kernel's qid is unsigned

Subs == {"getinfo", "setinfo", "getfmt", "quotaon", "quotaoff", "getquota",
         "setquota", "getnextquota", "sync", "other", "wide"}
Requests == [sub : Subs, kind : ReqKinds, special : {"null", "path", "bad"},
             id : RawIds, addr : {"good", "bad"}, data : Blks]

ASSUME QuotaAssumption ==
    /\ IntMax \in Nat
    /\ Me \in Containers
    /\ \A c \in Containers : \A t \in Mapped :
          /\ WellFormed(Maps[c][t])
          /\ HostIds(Maps[c][t]) \subseteq Uints /\ NsIds(Maps[c][t]) \subseteq Uints
    /\ RawIds \subseteq Nat /\ HostSets \subseteq Uints /\ ReqKinds \subseteq Nat
    /\ Blks \subseteq Nat /\ Sent \subseteq Requests

VARIABLES quota,      \* quota[t][h]: what is set for host id h
          info,       \* info[t]: struct dqinfo
          on,         \* the kinds quotas are on for
          last        \* the latest request: who, what, the reply, what was written

vars == <<quota, info, on, last>>

(* "memory" is the errno of a failed access to /proc/<pid>/mem, or EINVAL  *)
(* when the access comes up short; "kernel" is any errno of the kernel.    *)
Replies == {"ok", "EINVAL", "ERANGE", "EOPNOTSUPP", "memory", "kernel"}
NoReq == [sub |-> "other", kind |-> 0, special |-> "null", id |-> 0,
          addr |-> "good", data |-> 0]
Done(c, r, reply, data, next) ==
    last' = [by |-> c, req |-> r, reply |-> reply, data |-> data, next |-> next]

TypeOK ==
    /\ quota \in [ReqKinds -> [Uints -> Blks \cup {0}]]
    /\ info \in [ReqKinds -> Blks \cup {0}]
    /\ on \subseteq ReqKinds
    /\ last \in [by : Containers \cup {"host"}, req : Sent \cup {NoReq},
                 reply : Replies, data : Blks \cup {0}, next : Uints]

Init ==
    /\ quota = [t \in ReqKinds |-> [h \in Uints |-> 0]]
    /\ info = [t \in ReqKinds |-> 0]
    /\ on = ReqKinds
    /\ last = [by |-> "host", req |-> NoReq, reply |-> "ok", data |-> 0, next |-> 0]

(* The host's administrator sets or clears a quota.                        *)
HostSet(t, h, v) ==
    /\ quota' = [quota EXCEPT ![t][h] = v]
    /\ Done("host", NoReq, "ok", 0, 0)
    /\ UNCHANGED <<info, on>>

-----------------------------------------------------------------------------
(***************************************************************************)
(* What the handler refuses before it forks, in the order of the code:     *)
(* special, id, the id map, the argument behind addr.                      *)
(***************************************************************************)
NeedsSpecial == {"setinfo", "getquota", "setquota", "getnextquota", "sync"}
NoHost == -Modulus                     \* no `int` has this value
MapsId == {"getquota", "setquota", "getnextquota"}
ReadsAddr == {"setinfo", "setquota", "quotaon"}

UidGidArgUnmapped(c, r) ==   \* mutant: the id goes to the kernel as it is
    AsInt(r.id)

(* uid_gid_arg(): the host's id for a mapped kind, NoHost for ERANGE.      *)
UidGidArg(c, r) ==
    LET id == AsInt(r.id)
        host == MapFrom(Maps[c][r.kind], AsU64(id))
    IN  IF r.kind \notin Mapped THEN id
        ELSE IF host = NoId \/ host > IntMax THEN NoHost ELSE host

Checks(c, r) == <<
    <<r.sub = "wide",                                     "EINVAL">>,
    <<r.special = "bad",                                  "memory">>,
    <<r.sub = "other",                                    "EOPNOTSUPP">>,
    <<r.sub \in NeedsSpecial /\ r.special = "null",       "EINVAL">>,
    <<r.sub # "sync" /\ ~ArgUint(r.id),                   "EINVAL">>,
    <<r.sub \in MapsId /\ UidGidArg(c, r) = NoHost,       "ERANGE">>,
    <<r.sub \in ReadsAddr /\ r.addr = "bad",              "memory">> >>
Passes(c, r, n) ==
    LET checks == Checks(c, r) IN \A i \in 1..n : ~checks[i][1]
Refusal(c, r) ==
    LET checks == Checks(c, r)
    IN  checks[First({i \in DOMAIN checks : checks[i][1]})][2]

Refuse(c, r) ==
    /\ ~Passes(c, r, 7)
    /\ Done(c, r, Refusal(c, r), 0, 0)
    /\ UNCHANGED <<quota, info, on>>

(* The kernel turns the child's call down, or UserCaps does before it, or  *)
(* already the process's id map cannot be read.                            *)
KernelFails(c, r) ==
    /\ Passes(c, r, IF r.sub \in MapsId /\ r.kind \in Mapped THEN 5 ELSE 7)
    /\ Done(c, r, "kernel", 0, 0)
    /\ UNCHANGED <<quota, info, on>>

(* The end of a closure that returns data: mem_write_struct().             *)
WriteBack(c, r, data, next) ==
    /\ Done(c, r, IF r.addr = "bad" THEN "memory" ELSE "ok",
            IF r.addr = "bad" THEN 0 ELSE data, IF r.addr = "bad" THEN 0 ELSE next)
    /\ UNCHANGED <<quota, info, on>>

(* The kernel has nothing to work on without `special`.                    *)
Called(c, r, sub) == r.sub = sub /\ Passes(c, r, 7) /\ r.special = "path"

QGetinfo(c, r) == Called(c, r, "getinfo") /\ WriteBack(c, r, info[r.kind], 0)
QGetfmt(c, r) == Called(c, r, "getfmt") /\ r.kind \in on /\ WriteBack(c, r, 0, 0)

QSetinfo(c, r) ==
    /\ Called(c, r, "setinfo")
    /\ info' = [info EXCEPT ![r.kind] = r.data]
    /\ Done(c, r, "ok", 0, 0)
    /\ UNCHANGED <<quota, on>>

QQuotaon(c, r) ==
    /\ Called(c, r, "quotaon")
    /\ on' = on \cup {r.kind}
    /\ Done(c, r, "ok", 0, 0)
    /\ UNCHANGED <<quota, info>>

QQuotaoff(c, r) ==
    /\ Called(c, r, "quotaoff")
    /\ on' = on \ {r.kind}
    /\ Done(c, r, "ok", 0, 0)
    /\ UNCHANGED <<quota, info>>

QSync(c, r) ==
    /\ Called(c, r, "sync")
    /\ Done(c, r, "ok", 0, 0)
    /\ UNCHANGED <<quota, info, on>>

QGetquota(c, r) ==
    /\ Called(c, r, "getquota") /\ r.kind \in on
    /\ WriteBack(c, r, quota[r.kind][KernelId(UidGidArg(c, r))], 0)

QSetquota(c, r) ==
    /\ Called(c, r, "setquota") /\ r.kind \in on
    /\ quota' = [quota EXCEPT ![r.kind][KernelId(UidGidArg(c, r))] = r.data]
    /\ Done(c, r, "ok", 0, 0)
    /\ UNCHANGED <<info, on>>

(* The kernel answers with the next host id that has a quota; the child    *)
(* maps it back, or fails with ERANGE when it is somebody else's.          *)
NextSet(t, h) == {j \in Uints : j >= h /\ quota[t][j] # 0}

QGetnextquotaRaw(c, r) ==    \* mutant: the host's id is handed out unmapped
    LET S == NextSet(r.kind, KernelId(UidGidArg(c, r)))
    IN  /\ Called(c, r, "getnextquota") /\ r.kind \in on /\ S # {}
        /\ WriteBack(c, r, quota[r.kind][First(S)], First(S))

QGetnextquotaUnchecked(c, r) ==   \* mutant: map_into() is taken to succeed
    LET S == NextSet(r.kind, KernelId(UidGidArg(c, r)))
    IN  /\ Called(c, r, "getnextquota") /\ r.kind \in on /\ S # {}
        /\ WriteBack(c, r, quota[r.kind][First(S)], MapInto(Maps[c][r.kind], First(S)))

QGetnextquota(c, r) ==
    LET S == NextSet(r.kind, KernelId(UidGidArg(c, r)))
        next == IF r.kind \in Mapped THEN MapInto(Maps[c][r.kind], First(S)) ELSE First(S)
    IN  /\ Called(c, r, "getnextquota") /\ r.kind \in on /\ S # {}
        /\ \/ next # NoId /\ WriteBack(c, r, quota[r.kind][First(S)], next % Modulus)
           \/ /\ next = NoId
              /\ Done(c, r, "ERANGE", 0, 0)
              /\ UNCHANGED <<quota, info, on>>

Request(c, r) ==
    \/ Refuse(c, r) \/ KernelFails(c, r)
    \/ QGetinfo(c, r) \/ QSetinfo(c, r) \/ QGetfmt(c, r) \/ QQuotaon(c, r)
    \/ QQuotaoff(c, r) \/ QSync(c, r) \/ QGetquota(c, r) \/ QSetquota(c, r)
    \/ QGetnextquota(c, r)

Next ==
    \/ \E c \in Containers, r \in Sent : Request(c, r)
    \/ \E t \in ReqKinds, h \in HostSets, v \in Blks \cup {0} : HostSet(t, h, v)

Spec == Init /\ [][Next]_vars

-----------------------------------------------------------------------------
(* Properties.                                                             *)

(* A request of a container changes user and group quotas only of host ids *)
(* that its own id map covers (uid_gid_arg()).                             *)
OnlyOwnIds ==
    [][\A t \in Mapped \cap ReqKinds : \A h \in Uints :
          quota'[t][h] # quota[t][h] /\ last'.by # "host" =>
              h \in HostIds(Maps[last'.by][t])]_vars

(* A container (Me, any of them) sees private tables of user and group     *)
(* quotas in its own ids: what it set, and all of it when it enumerates    *)
(* (Q_GETNEXTQUOTA), whatever other containers on the file system do.      *)
MyMap(t) == Maps[Me][t]
MyKinds == Mapped \cap ReqKinds
ByHost == [by |-> "host"]
Elsewhere == [by |-> "elsewhere"]
ViewTable ==
    [t \in MyKinds |-> [i \in NsIds(MyMap(t)) |-> quota[t][MapFrom(MyMap(t), i)]]]
ViewAnswer ==
    IF last.by = "host" THEN ByHost
    ELSE IF last.by = Me /\ last.req.sub \in MapsId /\ last.req.kind \in Mapped THEN last
    ELSE Elsewhere
View == INSTANCE QuotaView WITH
    Kinds <- MyKinds,
    Ids <- [t \in MyKinds |-> NsIds(MyMap(t))],
    Reachable <- [t \in MyKinds |->
        {i \in NsIds(MyMap(t)) : i <= IntMax /\ MapFrom(MyMap(t), i) <= IntMax}],
    table <- ViewTable, answer <- ViewAnswer
PrivateTables == View!ViewSpec

(* When that is so: no other container has one of its host ids, and the    *)
(* kernel, which looks for the next quota in the order of host ids, meets  *)
(* the container's ids in their own order and no others between them.      *)
Orderly(m) ==
    \A i, j \in NsIds(m) :
        /\ i < j => MapFrom(m, i) < MapFrom(m, j)
        /\ MapFrom(m, i) .. MapFrom(m, j) \subseteq HostIds(m)
PrivateMaps ==
    \A t \in MyKinds :
        /\ Orderly(MyMap(t))
        /\ \A c \in Containers \ {Me} : HostIds(Maps[c][t]) \cap HostIds(MyMap(t)) = {}

(* The header of sys_quotactl.rs says that Q_SYNC without `special` is     *)
(* answered -EOPNOTSUPP.                                                   *)
SyncNeedsSpecial ==
    last.req.sub = "sync" /\ last.req.special = "null" => last.reply = "EOPNOTSUPP"
=============================================================================
