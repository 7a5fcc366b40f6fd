------------------------------- MODULE IdMap --------------------------------
(***************************************************************************)
(* src/process/id_map.rs: the uid and gid maps of a user namespace, as     *)
(* PidFd::get_uid_gid_map() reads them from /proc.                         *)
(***************************************************************************)
EXTENDS Integers, Sequences

Entries == [ns : Nat, host : Nat, range : Nat]
NoId == -1                            \* Option::None

(* The first entry that covers the id decides.                             *)
First(S) == CHOOSE i \in S : \A j \in S : i <= j

HostSide(m, id) == {i \in DOMAIN m : m[i].host <= id /\ m[i].host + m[i].range > id}
NsSide(m, id) == {i \in DOMAIN m : m[i].ns <= id /\ m[i].ns + m[i].range > id}

MapInto(m, id) ==
    IF HostSide(m, id) = {} THEN NoId
    ELSE LET e == m[First(HostSide(m, id))] IN e.ns + id - e.host

MapFromOffByOne(m, id) ==    \* mutant: the end of the range belongs to it
    LET S == {i \in DOMAIN m : m[i].ns <= id /\ m[i].ns + m[i].range >= id}
    IN  IF S = {} THEN NoId ELSE LET e == m[First(S)] IN e.host + id - e.ns

MapFrom(m, id) ==
    IF NsSide(m, id) = {} THEN NoId
    ELSE LET e == m[First(NsSide(m, id))] IN e.host + id - e.ns

NsIds(m) == {id \in UNION {m[i].ns .. m[i].ns + m[i].range : i \in DOMAIN m} :
                NsSide(m, id) # {}}
HostIds(m) == {MapFrom(m, id) : id \in NsIds(m)}

(* What the kernel guarantees of a map: no id is covered twice.            *)
WellFormed(m) ==
    /\ m \in Seq(Entries)
    /\ \A i, j \in DOMAIN m : i # j =>
          /\ m[i].ns + m[i].range <= m[j].ns \/ m[j].ns + m[j].range <= m[i].ns
          /\ m[i].host + m[i].range <= m[j].host \/ m[j].host + m[j].range <= m[i].host
=============================================================================
