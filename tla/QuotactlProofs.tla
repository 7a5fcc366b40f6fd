--------------------------- MODULE QuotactlProofs ---------------------------
(***************************************************************************)
(* Proofs about IdMap.tla and Quotactl.tla: for every number of containers, *)
(* every well-formed id map and every width of `int`.                      *)
(***************************************************************************)
EXTENDS Quotactl, WellFoundedInduction, TLAPS

(* A well-formed map covers an id by at most one entry on either side, so  *)
(* the order in which IdMap looks at the entries does not matter.          *)
LEMMA OneEntry ==
    ASSUME NEW m, WellFormed(m), NEW id \in Nat
    PROVE  /\ \A i \in HostSide(m, id) : HostSide(m, id) = {i} /\ First(HostSide(m, id)) = i
           /\ \A i \in NsSide(m, id) : NsSide(m, id) = {i} /\ First(NsSide(m, id)) = i
<1>1. \A i \in DOMAIN m : m[i] \in Entries /\ i \in Nat
  BY DEF WellFormed
<1>2. \A i, j \in HostSide(m, id) : i = j
  <2> SUFFICES ASSUME NEW i \in HostSide(m, id), NEW j \in HostSide(m, id), i # j
               PROVE  FALSE
    BY Zenon
  <2>1. i \in DOMAIN m /\ j \in DOMAIN m /\ m[i] \in Entries /\ m[j] \in Entries
    BY <1>1, Zenon DEF HostSide
  <2>2. m[i].host + m[i].range <= m[j].host \/ m[j].host + m[j].range <= m[i].host
    BY <2>1, Zenon DEF WellFormed
  <2> QED
    BY <2>1, <2>2 DEF HostSide, Entries
<1>3. \A i, j \in NsSide(m, id) : i = j
  <2> SUFFICES ASSUME NEW i \in NsSide(m, id), NEW j \in NsSide(m, id), i # j
               PROVE  FALSE
    BY Zenon
  <2>1. i \in DOMAIN m /\ j \in DOMAIN m /\ m[i] \in Entries /\ m[j] \in Entries
    BY <1>1, Zenon DEF NsSide
  <2>2. m[i].ns + m[i].range <= m[j].ns \/ m[j].ns + m[j].range <= m[i].ns
    BY <2>1, Zenon DEF WellFormed
  <2> QED
    BY <2>1, <2>2 DEF NsSide, Entries
<1>4. \A i \in Nat : First({i}) = i
  BY DEF First
<1>5. ASSUME NEW i \in HostSide(m, id)
      PROVE  HostSide(m, id) = {i} /\ First(HostSide(m, id)) = i
  <2>1. HostSide(m, id) = {i}
    BY <1>2, <1>5, Zenon
  <2> QED
    BY <1>1, <1>4, <2>1, Zenon DEF HostSide
<1>6. ASSUME NEW i \in NsSide(m, id)
      PROVE  NsSide(m, id) = {i} /\ First(NsSide(m, id)) = i
  <2>1. NsSide(m, id) = {i}
    BY <1>3, <1>6, Zenon
  <2> QED
    BY <1>1, <1>4, <2>1, Zenon DEF NsSide
<1> QED
  BY <1>5, <1>6, Zenon

(* Mapping a container's id out and back in gives the id again: map_into() *)
(* undoes map_from(), for every well-formed map.                           *)
THEOREM MapRoundTrip ==
    ASSUME NEW m, WellFormed(m), NEW id \in Nat, MapFrom(m, id) # NoId
    PROVE  MapInto(m, MapFrom(m, id)) = id
<1>1. PICK i \in NsSide(m, id) : TRUE
  BY Zenon DEF MapFrom
<1>2. m[i] \in Entries /\ i \in DOMAIN m
  BY <1>1 DEF WellFormed, NsSide
<1>3. First(NsSide(m, id)) = i
  BY <1>1, OneEntry, Zenon
<1>4. MapFrom(m, id) = m[i].host + id - m[i].ns
  BY <1>1, <1>3, Zenon DEF MapFrom
<1>5. MapFrom(m, id) \in Nat /\ i \in HostSide(m, MapFrom(m, id))
  BY <1>1, <1>2, <1>4 DEF HostSide, NsSide, Entries
<1>6. First(HostSide(m, MapFrom(m, id))) = i
  BY <1>5, OneEntry, Zenon
<1>7. MapInto(m, MapFrom(m, id)) = m[i].ns + MapFrom(m, id) - m[i].host
  BY <1>5, <1>6, Zenon DEF MapInto
<1> QED
  BY <1>2, <1>4, <1>7 DEF Entries

(* And a host id that a container sees is the id it names by it.           *)
THEOREM MapRoundTripHost ==
    ASSUME NEW m, WellFormed(m), NEW id \in Nat, MapInto(m, id) # NoId
    PROVE  MapFrom(m, MapInto(m, id)) = id
<1>1. PICK i \in HostSide(m, id) : TRUE
  BY Zenon DEF MapInto
<1>2. m[i] \in Entries /\ i \in DOMAIN m
  BY <1>1 DEF WellFormed, HostSide
<1>3. First(HostSide(m, id)) = i
  BY <1>1, OneEntry, Zenon
<1>4. MapInto(m, id) = m[i].ns + id - m[i].host
  BY <1>1, <1>3, Zenon DEF MapInto
<1>5. MapInto(m, id) \in Nat /\ i \in NsSide(m, MapInto(m, id))
  BY <1>1, <1>2, <1>4 DEF HostSide, NsSide, Entries
<1>6. First(NsSide(m, MapInto(m, id))) = i
  BY <1>5, OneEntry, Zenon
<1>7. MapFrom(m, MapInto(m, id)) = m[i].host + MapInto(m, id) - m[i].ns
  BY <1>5, <1>6, Zenon DEF MapFrom
<1> QED
  BY <1>2, <1>4, <1>7 DEF Entries

(* What map_from() returns is a host id of the map.                        *)
LEMMA MappedIsOwn ==
    ASSUME NEW m, WellFormed(m), NEW id \in Nat, MapFrom(m, id) # NoId
    PROVE  MapFrom(m, id) \in HostIds(m) /\ MapFrom(m, id) \in Nat
<1>1. PICK i \in NsSide(m, id) : TRUE
  BY Zenon DEF MapFrom
<1>2. m[i] \in Entries /\ i \in DOMAIN m
  BY <1>1 DEF WellFormed, NsSide
<1>3. id \in m[i].ns .. m[i].ns + m[i].range
  BY <1>1, <1>2 DEF NsSide, Entries
<1>4. id \in NsIds(m)
  BY <1>1, <1>2, <1>3, Zenon DEF NsIds
<1>5. MapFrom(m, id) \in Nat
  BY <1>1, <1>2, OneEntry DEF MapFrom, NsSide, Entries
<1> QED
  BY <1>4, <1>5, Zenon DEF HostIds
-----------------------------------------------------------------------------
(* The kernel's quota tables keep their shape.                             *)
QuotaType == quota \in [ReqKinds -> [Uints -> Blks \cup {0}]]

LEMMA KindAndData == \A r \in Sent : r.kind \in ReqKinds /\ r.data \in Blks /\ r.id \in Nat
BY QuotaAssumption, Zenon DEF Requests

(* A request that passes the checks goes to the kernel with an id that is  *)
(* an unsigned int, and for a mapped kind with one of the container's own. *)
LEMMA KernelIdIsOwn ==
    ASSUME NEW c \in Containers, NEW r \in Sent, r.sub \in MapsId, Passes(c, r, 7)
    PROVE  r.kind \in Mapped => KernelId(UidGidArg(c, r)) \in HostIds(Maps[c][r.kind])
<1> SUFFICES ASSUME r.kind \in Mapped
             PROVE  KernelId(UidGidArg(c, r)) \in HostIds(Maps[c][r.kind])
  BY Zenon
<1> DEFINE id == AsU64(AsInt(r.id))
           m == Maps[c][r.kind]
<1>1. UidGidArg(c, r) # NoHost /\ ArgUint(r.id)
  <2>1. ~Checks(c, r)[6][1] /\ ~Checks(c, r)[5][1]
    BY DEF Passes, Checks
  <2> QED
    BY <2>1, Zenon DEF Checks, MapsId
<1>2. id \in Nat
  <2>1. r.id \in 0 .. (Modulus - 1) /\ IntMax \in Nat
    BY <1>1, QuotaAssumption, Zenon DEF ArgUint, Uints
  <2>2. AsInt(r.id) \in Int /\ AsInt(r.id) >= -Modulus /\ Modulus \in Nat /\ Modulus >= 2
    BY <2>1 DEF AsInt, Modulus
  <2>3. Modulus * Modulus \in Nat /\ Modulus * Modulus >= Modulus
    BY <2>2
  <2> QED
    BY <2>2, <2>3 DEF AsU64
<1>3. UidGidArg(c, r) = MapFrom(m, id) /\ MapFrom(m, id) # NoId
  BY <1>1, Zenon DEF UidGidArg
<1>4. WellFormed(m)
  BY QuotaAssumption, Zenon
<1>5. MapFrom(m, id) \in HostIds(m) /\ MapFrom(m, id) \in Nat
  BY <1>2, <1>3, <1>4, MappedIsOwn, Zenon
<1> QED
  BY <1>3, <1>5 DEF KernelId

-----------------------------------------------------------------------------
(* Types.                                                                  *)

Less == {p \in Nat \X Nat : p[1] < p[2]}

LEMMA FirstIsLeast ==
    ASSUME NEW S \in SUBSET Nat, S # {}
    PROVE  First(S) \in S /\ \A y \in S : First(S) <= y
<1>1. OpToRel(<, Nat) = Less
  BY Zenon DEF OpToRel, Less
<1>2. IsWellFoundedOn(Less, Nat)
  BY <1>1, NatLessThanWellFounded, Zenon
<1>3. PICK x \in S : \A y \in S : <<y, x>> \notin Less
  BY <1>2, WFMin, Zenon
<1>4. ASSUME NEW y \in S, y < x
      PROVE  <<y, x>> \in Less
  BY <1>4, Zenon DEF Less
<1>5. \A y \in S : ~(y < x)
  BY <1>3, <1>4, Zenon
<1>6. \A y \in S : x <= y
  BY <1>5
<1> QED
  BY <1>6, Zenon DEF First

LEMMA ModulusType == Modulus \in Nat /\ Modulus >= 2 /\ IntMax \in Nat /\ IntMax < Modulus
BY QuotaAssumption DEF Modulus

(* The id of a request that names one, as the child passes it on.          *)
LEMMA KernelIdType ==
    ASSUME NEW c \in Containers, NEW r \in Sent, r.sub \in MapsId, Passes(c, r, 7)
    PROVE  KernelId(UidGidArg(c, r)) \in Uints
<1>1. CASE r.kind \in Mapped
  BY <1>1, KernelIdIsOwn, QuotaAssumption, Zenon
<1>2. CASE r.kind \notin Mapped
  <2>1. ~Checks(c, r)[5][1]
    BY DEF Passes
  <2>2. r.id \in 0 .. (Modulus - 1)
    BY <2>1, Zenon DEF Checks, MapsId, ArgUint, Uints
  <2>3. UidGidArg(c, r) = AsInt(r.id)
    BY <1>2, Zenon DEF UidGidArg
  <2> QED
    BY <2>2, <2>3, ModulusType DEF KernelId, AsInt, Uints
<1> QED
  BY <1>1, <1>2, Zenon

(* The handler's own refusals: the first check that fails names the reply. *)
LEMMA RefusalIs ==
    ASSUME NEW c, NEW r, ~Passes(c, r, 7)
    PROVE  /\ Refusal(c, r) \in Replies \ {"ok"}
           /\ Refusal(c, r) = "ERANGE" => r.sub \in MapsId /\ UidGidArg(c, r) = NoHost
<1> DEFINE bad == {i \in DOMAIN Checks(c, r) : Checks(c, r)[i][1]}
<1>1. DOMAIN Checks(c, r) = 1..7
  BY DEF Checks
<1>2. bad \in SUBSET Nat /\ bad # {}
  BY <1>1 DEF Passes
<1>3. First(bad) \in bad
  BY <1>2, FirstIsLeast, Zenon
<1>4. Refusal(c, r) = Checks(c, r)[First(bad)][2]
  BY Zenon DEF Refusal
<1>5. PICK i \in 1..7 : i = First(bad) /\ Checks(c, r)[i][1]
  BY <1>1, <1>3, Zenon
<1>6. \A k \in 1..7 : Checks(c, r)[k][2] \in Replies \ {"ok"}
  BY DEF Checks, Replies
<1>7. \A k \in 1..7 : Checks(c, r)[k][2] = "ERANGE" => k = 6
  BY DEF Checks
<1>8. Checks(c, r)[6][1] => r.sub \in MapsId /\ UidGidArg(c, r) = NoHost
  BY Zenon DEF Checks
<1> QED
  BY <1>4, <1>5, <1>6, <1>7, <1>8, Zenon

LEMMA QuotaTypeStep == QuotaType /\ [Next]_vars => QuotaType'
<1> SUFFICES ASSUME QuotaType, [Next]_vars
             PROVE  QuotaType'
  BY Zenon
<1>1. CASE UNCHANGED quota
  BY <1>1, Zenon DEF QuotaType
<1>2. ASSUME NEW c \in Containers, NEW r \in Sent, QSetquota(c, r)
      PROVE  QuotaType'
  BY <1>2, KindAndData, Zenon DEF QSetquota, QuotaType
<1>3. ASSUME NEW t \in ReqKinds, NEW h \in HostSets, NEW v \in Blks \cup {0}, HostSet(t, h, v)
      PROVE  QuotaType'
  BY <1>3, Zenon DEF HostSet, QuotaType
<1> QED
  BY <1>1, <1>2, <1>3 DEF Next, Request, Refuse, KernelFails, QGetinfo, QSetinfo, QGetfmt,
     QQuotaon, QQuotaoff, QSync, QGetquota, QGetnextquota, WriteBack, vars

(* A container's quotactl() changes user and group quotas only of host ids *)
(* that its id map covers, for every map the kernel accepts.               *)
THEOREM QuotaIsolation == Spec => OnlyOwnIds
<1> DEFINE Own == \A t \in Mapped \cap ReqKinds : \A h \in Uints :
                     quota'[t][h] # quota[t][h] /\ last'.by # "host" =>
                         h \in HostIds(Maps[last'.by][t])
<1>1. Init => QuotaType
  BY DEF Init, QuotaType
<1>2. QuotaType /\ [Next]_vars => [Own]_vars
  <2> SUFFICES ASSUME QuotaType, Next
               PROVE  Own
    BY Zenon
  <2>1. CASE UNCHANGED quota
    BY <2>1, Zenon
  <2>2. ASSUME NEW c \in Containers, NEW r \in Sent, QSetquota(c, r)
        PROVE  Own
    <3>1. last'.by = c
      BY <2>2, Zenon DEF QSetquota, Done
    <3>2. \A t \in Mapped \cap ReqKinds : \A h \in Uints : quota'[t][h] # quota[t][h] =>
             t = r.kind /\ h = KernelId(UidGidArg(c, r))
      BY <2>2, Zenon DEF QSetquota, QuotaType
    <3>3. r.kind \in Mapped => KernelId(UidGidArg(c, r)) \in HostIds(Maps[c][r.kind])
      BY <2>2, KernelIdIsOwn, Zenon DEF QSetquota, Called, MapsId
    <3> QED
      BY <3>1, <3>2, <3>3, Zenon
  <2>3. ASSUME NEW t \in ReqKinds, NEW h \in HostSets, NEW v \in Blks \cup {0}, HostSet(t, h, v)
        PROVE  Own
    BY <2>3, Zenon DEF HostSet, Done
  <2> QED
    BY <2>1, <2>2, <2>3 DEF Next, Request, Refuse, KernelFails, QGetinfo, QSetinfo, QGetfmt,
       QQuotaon, QQuotaoff, QSync, QGetquota, QGetnextquota, WriteBack
<1> QED
  BY <1>1, <1>2, QuotaTypeStep, PTL DEF Spec, OnlyOwnIds
-----------------------------------------------------------------------------
(* The replies keep their type too.                                        *)
Answers == [by : Containers \cup {"host"}, req : Sent \cup {NoReq},
            reply : Replies, data : Blks \cup {0}, next : Uints]

LEMMA ZeroIsUint == 0 \in Uints /\ 0 \in Blks \cup {0}
BY ModulusType DEF Uints

LEMMA DoneType ==
    ASSUME NEW c \in Containers, NEW r \in Sent, NEW reply \in Replies,
           NEW data \in Blks \cup {0}, NEW next \in Uints, Done(c, r, reply, data, next)
    PROVE  last' \in Answers
BY Zenon DEF Done, Answers

LEMMA WriteBackType ==
    ASSUME NEW c \in Containers, NEW r \in Sent, NEW data \in Blks \cup {0},
           NEW next \in Uints, WriteBack(c, r, data, next)
    PROVE  last' \in Answers
<1>1. "ok" \in Replies /\ "memory" \in Replies
  BY Zenon DEF Replies
<1>2. CASE r.addr = "bad"
  BY <1>1, <1>2, ZeroIsUint, DoneType, Zenon DEF WriteBack
<1>3. CASE r.addr # "bad"
  BY <1>1, <1>3, DoneType, Zenon DEF WriteBack
<1> QED
  BY <1>2, <1>3, Zenon

(* What Q_GETNEXTQUOTA hands out: the first host id with a quota, mapped.  *)
LEMMA NextIs ==
    ASSUME QuotaType, NEW c \in Containers, NEW r \in Sent, QGetnextquota(c, r)
    PROVE  LET S == NextSet(r.kind, KernelId(UidGidArg(c, r)))
           IN  /\ First(S) \in S /\ \A j \in S : First(S) <= j
               /\ First(S) \in Uints
               /\ quota[r.kind][First(S)] \in Blks \cup {0}
<1> DEFINE S == NextSet(r.kind, KernelId(UidGidArg(c, r)))
<1>1. S # {} /\ S \subseteq Uints
  BY Zenon DEF QGetnextquota, NextSet
<1>2. Uints \subseteq Nat
  BY ModulusType DEF Uints
<1>3. First(S) \in S /\ \A j \in S : First(S) <= j
  BY <1>1, <1>2, FirstIsLeast, Zenon
<1>4. First(S) \in Uints
  BY <1>1, <1>3, Zenon
<1>5. quota[r.kind] \in [Uints -> Blks \cup {0}]
  BY KindAndData, Zenon DEF QuotaType
<1> HIDE DEF S
<1>6. quota[r.kind][First(S)] \in Blks \cup {0}
  BY <1>4, <1>5, Zenon
<1> QED
  BY <1>3, <1>4, <1>6, Zenon DEF S

LEMMA MapIntoType ==
    ASSUME NEW m, WellFormed(m), NEW id \in Nat
    PROVE  MapInto(m, id) \in Int
<1>1. CASE HostSide(m, id) = {}
  BY <1>1 DEF MapInto, NoId
<1>2. CASE HostSide(m, id) # {}
  <2>1. PICK i \in HostSide(m, id) : First(HostSide(m, id)) = i
    BY <1>2, OneEntry, ZenonT(30)
  <2>2. m[i] \in Entries
    BY DEF WellFormed, HostSide
  <2>3. MapInto(m, id) = m[i].ns + id - m[i].host
    BY <1>2, <2>1, Zenon DEF MapInto
  <2> QED
    BY <2>2, <2>3 DEF Entries
<1> QED
  BY <1>1, <1>2, Zenon

LEMMA GetnextType ==
    ASSUME QuotaType, NEW c \in Containers, NEW r \in Sent, QGetnextquota(c, r)
    PROVE  last' \in Answers
<1> DEFINE f == First(NextSet(r.kind, KernelId(UidGidArg(c, r))))
           next == IF r.kind \in Mapped THEN MapInto(Maps[c][r.kind], f) ELSE f
<1>1. f \in Uints /\ quota[r.kind][f] \in Blks \cup {0}
  BY NextIs, Zenon
<1>2. f \in Nat
  BY <1>1, ModulusType DEF Uints
<1> HIDE DEF f
<1>3. next \in Int
  BY <1>2, QuotaAssumption, MapIntoType
<1> HIDE DEF next
<1>4. next % Modulus \in Uints
  BY <1>3, ModulusType DEF Uints
<1>5. \/ WriteBack(c, r, quota[r.kind][f], next % Modulus)
      \/ Done(c, r, "ERANGE", 0, 0)
  BY Zenon DEF QGetnextquota, next, f
<1>6. "ERANGE" \in Replies
  BY Zenon DEF Replies
<1> QED
  BY <1>1, <1>4, <1>5, <1>6, ZeroIsUint, DoneType, WriteBackType, Zenon

LEMMA AnswerType ==
    ASSUME TypeOK, [Next]_vars
    PROVE  last' \in Answers
<1> USE ZeroIsUint
<1>1. QuotaType /\ info \in [ReqKinds -> Blks \cup {0}] /\ last \in Answers
  BY Zenon DEF TypeOK, QuotaType, Answers
<1>2. "ok" \in Replies /\ "kernel" \in Replies
  BY Zenon DEF Replies
<1>3. ASSUME NEW c \in Containers, NEW r \in Sent, Refuse(c, r) \/ KernelFails(c, r)
      PROVE  last' \in Answers
  BY <1>2, <1>3, RefusalIs, DoneType, Zenon DEF Refuse, KernelFails
<1>4. ASSUME NEW c \in Containers, NEW r \in Sent, QGetinfo(c, r) \/ QGetfmt(c, r)
      PROVE  last' \in Answers
  <2>1. info[r.kind] \in Blks \cup {0}
    BY <1>1, KindAndData, Zenon
  <2> QED
    BY <1>4, <2>1, WriteBackType, Zenon DEF QGetinfo, QGetfmt
<1>5. ASSUME NEW c \in Containers, NEW r \in Sent,
             QSetinfo(c, r) \/ QQuotaon(c, r) \/ QQuotaoff(c, r) \/ QSync(c, r) \/ QSetquota(c, r)
      PROVE  last' \in Answers
  BY <1>2, <1>5, DoneType, Zenon DEF QSetinfo, QQuotaon, QQuotaoff, QSync, QSetquota
<1>6. ASSUME NEW c \in Containers, NEW r \in Sent, QGetquota(c, r)
      PROVE  last' \in Answers
  <2>1. KernelId(UidGidArg(c, r)) \in Uints
    BY <1>6, KernelIdType, Zenon DEF QGetquota, Called, MapsId
  <2>2. quota[r.kind] \in [Uints -> Blks \cup {0}]
    BY <1>1, KindAndData, Zenon DEF QuotaType
  <2>3. quota[r.kind][KernelId(UidGidArg(c, r))] \in Blks \cup {0}
    BY <2>1, <2>2, Zenon
  <2> QED
    BY <1>6, <2>3, WriteBackType, Zenon DEF QGetquota
<1>7. ASSUME NEW t, NEW h, NEW v, HostSet(t, h, v)
      PROVE  last' \in Answers
  BY <1>2, <1>7, Zenon DEF HostSet, Done, Answers
<1>8. CASE UNCHANGED vars
  BY <1>1, <1>8, Zenon DEF vars
<1> QED
  BY <1>1, <1>3, <1>4, <1>5, <1>6, <1>7, <1>8, GetnextType, Zenon DEF Next, Request

LEMMA TypeStep == TypeOK /\ [Next]_vars => TypeOK'
<1> SUFFICES ASSUME TypeOK, [Next]_vars
             PROVE  TypeOK'
  BY Zenon
<1>1. QuotaType'
  BY QuotaTypeStep, Zenon DEF TypeOK, QuotaType
<1>2. last' \in Answers
  BY AnswerType, Zenon
<1>3. info' \in [ReqKinds -> Blks \cup {0}] /\ on' \subseteq ReqKinds
  <2>1. CASE UNCHANGED <<info, on>>
    BY <2>1, Zenon DEF TypeOK
  <2>2. ASSUME NEW c \in Containers, NEW r \in Sent,
               QSetinfo(c, r) \/ QQuotaon(c, r) \/ QQuotaoff(c, r)
        PROVE  info' \in [ReqKinds -> Blks \cup {0}] /\ on' \subseteq ReqKinds
    <3>1. r.kind \in ReqKinds /\ r.data \in Blks
      BY KindAndData, Zenon
    <3>2. QSetinfo(c, r) => info' \in [ReqKinds -> Blks \cup {0}] /\ on' = on
      BY <3>1, Zenon DEF QSetinfo, TypeOK
    <3>3. QQuotaon(c, r) \/ QQuotaoff(c, r) => on' \subseteq ReqKinds /\ info' = info
      BY <3>1, Zenon DEF QQuotaon, QQuotaoff, TypeOK
    <3> QED
      BY <2>2, <3>2, <3>3, Zenon DEF TypeOK
  <2>3. ASSUME NEW c \in Containers, NEW r \in Sent, Request(c, r)
        PROVE  \/ UNCHANGED <<info, on>>
               \/ QSetinfo(c, r) \/ QQuotaon(c, r) \/ QQuotaoff(c, r)
    BY <2>3, Zenon DEF Request, Refuse, KernelFails, QGetinfo, QGetfmt, QSync, QGetquota,
       QSetquota, QGetnextquota, WriteBack
  <2> QED
    BY <2>1, <2>2, <2>3, Zenon DEF Next, HostSet, vars
<1> QED
  BY <1>1, <1>2, <1>3, Zenon DEF TypeOK, QuotaType, Answers

(* Every id the kernel is asked for is an unsigned int, every reply is one *)
(* of the handler's, and what mem_write_struct() writes back is a quota of *)
(* the table and an unsigned id (the `as u32` of Q_GETNEXTQUOTA).          *)
THEOREM QuotaTyped == Spec => []TypeOK
<1>1. Init => TypeOK
  BY ZeroIsUint DEF Init, TypeOK, Replies
<1> QED
  BY <1>1, TypeStep, PTL DEF Spec

-----------------------------------------------------------------------------
(* A container's view of the quotas.                                       *)

LEMMA NsIdsAre ==
    ASSUME NEW m, WellFormed(m)
    PROVE  /\ \A id \in NsIds(m) : /\ id \in Nat /\ MapFrom(m, id) # NoId
                                   /\ MapFrom(m, id) \in Nat /\ MapFrom(m, id) \in HostIds(m)
           /\ \A id \in Nat : MapFrom(m, id) # NoId => id \in NsIds(m)
<1>1. \A i \in DOMAIN m : m[i] \in Entries /\ i \in Nat
  BY DEF WellFormed
<1>2. ASSUME NEW id \in NsIds(m)
      PROVE  /\ id \in Nat /\ MapFrom(m, id) # NoId
             /\ MapFrom(m, id) \in Nat /\ MapFrom(m, id) \in HostIds(m)
  <2>1. PICK i \in NsSide(m, id) : TRUE
    BY Zenon DEF NsIds
  <2>2. PICK k \in DOMAIN m : id \in m[k].ns .. m[k].ns + m[k].range
    BY Zenon DEF NsIds
  <2>3. id \in Nat
    BY <1>1, <2>2 DEF Entries
  <2>4. i \in DOMAIN m /\ m[i] \in Entries /\ m[i].ns <= id
    BY <1>1, Zenon DEF NsSide
  <2>5. First(NsSide(m, id)) = i
    BY <2>1, <2>3, OneEntry, Zenon
  <2>6. MapFrom(m, id) = m[i].host + id - m[i].ns
    BY <2>1, <2>5, Zenon DEF MapFrom
  <2>7. MapFrom(m, id) \in Nat /\ MapFrom(m, id) # NoId
    BY <2>3, <2>4, <2>6 DEF Entries, NoId
  <2> QED
    BY <1>2, <2>3, <2>7, Zenon DEF HostIds
<1>3. ASSUME NEW id \in Nat, MapFrom(m, id) # NoId
      PROVE  id \in NsIds(m)
  <2>1. PICK i \in NsSide(m, id) : TRUE
    BY <1>3, Zenon DEF MapFrom
  <2>2. i \in DOMAIN m /\ id \in m[i].ns .. m[i].ns + m[i].range
    BY <1>1, <2>1 DEF NsSide, Entries
  <2> QED
    BY <2>1, <2>2, Zenon DEF NsIds
<1> QED
  BY <1>2, <1>3, Zenon

LEMMA HostIdsAre ==
    ASSUME NEW m, WellFormed(m), NEW h \in Nat
    PROVE  /\ MapInto(m, h) # NoId => MapInto(m, h) \in NsIds(m) /\ MapFrom(m, MapInto(m, h)) = h
           /\ h \in HostIds(m) => MapInto(m, h) # NoId
<1>1. ASSUME MapInto(m, h) # NoId
      PROVE  MapInto(m, h) \in NsIds(m) /\ MapFrom(m, MapInto(m, h)) = h
  <2>1. MapFrom(m, MapInto(m, h)) = h
    BY <1>1, MapRoundTripHost, Zenon
  <2>2. PICK i \in HostSide(m, h) : First(HostSide(m, h)) = i
    BY <1>1, OneEntry, ZenonT(30) DEF MapInto
  <2>3. i \in DOMAIN m /\ m[i] \in Entries /\ m[i].host <= h
    BY DEF WellFormed, HostSide
  <2>4. MapInto(m, h) = m[i].ns + h - m[i].host
    BY <2>2, Zenon DEF MapInto
  <2>5. MapInto(m, h) \in Nat /\ h # NoId
    BY <2>3, <2>4 DEF Entries, NoId
  <2> QED
    BY <2>1, <2>5, NsIdsAre, Zenon
<1>2. ASSUME h \in HostIds(m)
      PROVE  MapInto(m, h) # NoId
  <2>1. PICK id \in NsIds(m) : h = MapFrom(m, id)
    BY <1>2, Zenon DEF HostIds
  <2>2. id \in Nat /\ MapFrom(m, id) # NoId
    BY NsIdsAre, Zenon
  <2>3. MapInto(m, h) = id
    BY <2>1, <2>2, MapRoundTrip, Zenon
  <2> QED
    BY <2>2, <2>3 DEF NoId
<1> QED
  BY <1>1, <1>2, Zenon

(* A request for an id of a mapped kind is passed on for the host's id.    *)
LEMMA PassedIsMapped ==
    ASSUME NEW c \in Containers, NEW r \in Sent, r.sub \in MapsId, r.kind \in Mapped,
           Passes(c, r, 7)
    PROVE  /\ r.id \in NsIds(Maps[c][r.kind])
           /\ KernelId(UidGidArg(c, r)) = MapFrom(Maps[c][r.kind], r.id)
<1> DEFINE m == Maps[c][r.kind]
           id == AsU64(AsInt(r.id))
<1>1. WellFormed(m) /\ NsIds(m) \subseteq Uints
  BY QuotaAssumption, Zenon
<1>2. ~Checks(c, r)[5][1] /\ ~Checks(c, r)[6][1]
  BY DEF Passes
<1>3. UidGidArg(c, r) # NoHost /\ r.id \in 0 .. (Modulus - 1)
  BY <1>2, Zenon DEF Checks, MapsId, ArgUint, Uints
<1>4. UidGidArg(c, r) = MapFrom(m, id) /\ MapFrom(m, id) # NoId
  BY <1>3, Zenon DEF UidGidArg
<1>5. id = IF r.id > IntMax THEN r.id - Modulus + Modulus * Modulus ELSE r.id
  BY <1>3, ModulusType DEF AsU64, AsInt
<1>6. Modulus * Modulus \in Nat /\ Modulus * Modulus >= 2 * Modulus
  BY ModulusType
<1>7. id \in Nat
  BY <1>3, <1>5, <1>6, ModulusType
<1> HIDE DEF m, id
<1>8. id \in NsIds(m)
  BY <1>1, <1>4, <1>7, NsIdsAre, Zenon
<1>9. id < Modulus
  <2>1. id \in Uints
    BY <1>1, <1>8, Zenon
  <2> QED
    BY <2>1, ModulusType DEF Uints
<1>10. id = r.id
  BY <1>3, <1>5, <1>6, <1>9, ModulusType
<1>11. MapFrom(m, id) \in Nat
  BY <1>1, <1>8, NsIdsAre, Zenon
<1>12. KernelId(UidGidArg(c, r)) = MapFrom(m, id)
  BY <1>4, <1>11 DEF KernelId
<1> QED
  BY <1>8, <1>10, <1>12, Zenon DEF m

(* Only an id that does not fit an `int` on either side is out of range.   *)
LEMMA ReachableIsMapped ==
    ASSUME NEW c \in Containers, NEW r \in Sent, r.kind \in Mapped,
           r.id \in NsIds(Maps[c][r.kind]), r.id <= IntMax,
           MapFrom(Maps[c][r.kind], r.id) <= IntMax
    PROVE  UidGidArg(c, r) # NoHost
<1> DEFINE m == Maps[c][r.kind]
<1>1. WellFormed(m)
  BY QuotaAssumption, Zenon
<1>2. MapFrom(m, r.id) \in Nat /\ MapFrom(m, r.id) # NoId /\ r.id \in Nat
  BY <1>1, NsIdsAre, Zenon
<1>3. AsU64(AsInt(r.id)) = r.id
  BY <1>2, ModulusType DEF AsU64, AsInt
<1>4. ~(MapFrom(m, r.id) > IntMax)
  BY <1>2, ModulusType
<1>5. UidGidArg(c, r) = MapFrom(m, r.id)
  BY <1>2, <1>3, <1>4, Zenon DEF UidGidArg
<1> QED
  BY <1>2, <1>5, ModulusType DEF NoHost

LEMMA TableIs ==
    ASSUME NEW t \in MyKinds, NEW i \in NsIds(MyMap(t))
    PROVE  ViewTable[t][i] = quota[t][MapFrom(MyMap(t), i)]
BY Zenon DEF ViewTable

LEMMA MyMapIs ==
    ASSUME NEW t \in MyKinds
    PROVE  MyMap(t) = Maps[Me][t] /\ WellFormed(MyMap(t)) /\ NsIds(MyMap(t)) \subseteq Uints
           /\ t \in Mapped /\ t \in ReqKinds /\ HostIds(MyMap(t)) \subseteq Uints
BY QuotaAssumption, Zenon DEF MyMap, MyKinds

(* What does not change the quotas changes no table.                       *)
LEMMA TableKept ==
    ASSUME \A t \in MyKinds : \A i \in NsIds(MyMap(t)) :
              quota'[t][MapFrom(MyMap(t), i)] = quota[t][MapFrom(MyMap(t), i)]
    PROVE  ViewTable' = ViewTable
BY Zenon DEF ViewTable

LEMMA OnlySetquota ==
    ASSUME NEW c, NEW r, Request(c, r)
    PROVE  QSetquota(c, r) \/ quota' = quota
BY Zenon DEF Request, Refuse, KernelFails, QGetinfo, QSetinfo, QGetfmt, QQuotaon, QQuotaoff,
   QSync, QGetquota, QGetnextquota, WriteBack

LEMMA RequestAnswers ==
    ASSUME NEW c, NEW r, Request(c, r)
    PROVE  /\ last'.by = c /\ last'.req = r
           /\ DOMAIN last' = {"by", "req", "reply", "data", "next"}
BY DEF Done, Request, Refuse, KernelFails, QGetinfo, QSetinfo, QGetfmt, QQuotaon, QQuotaoff,
   QSync, QGetquota, QSetquota, QGetnextquota, WriteBack

(* A request of another container, or for a quota whose ids are not mapped *)
(* leaves the container's tables alone.                                    *)
LEMMA OthersStep ==
    ASSUME QuotaType, PrivateMaps, NEW c \in Containers, NEW r \in Sent, Request(c, r),
           ~(c = Me /\ r.sub \in MapsId /\ r.kind \in Mapped)
    PROVE  ViewTable' = ViewTable
<1>1. CASE quota' = quota
  BY <1>1, TableKept, Zenon
<1>2. CASE QSetquota(c, r)
  <2> DEFINE h == KernelId(UidGidArg(c, r))
  <2>1. r.sub \in MapsId /\ Passes(c, r, 7) /\ quota' = [quota EXCEPT ![r.kind][h] = r.data]
    BY <1>2, Zenon DEF QSetquota, Called, MapsId
  <2> HIDE DEF h
  <2> SUFFICES ASSUME NEW t \in MyKinds, NEW i \in NsIds(MyMap(t))
               PROVE  quota'[t][MapFrom(MyMap(t), i)] = quota[t][MapFrom(MyMap(t), i)]
    BY TableKept, Zenon
  <2>2. t \in ReqKinds /\ MapFrom(MyMap(t), i) \in HostIds(MyMap(t))
    BY MyMapIs, NsIdsAre, Zenon
  <2>3. MapFrom(MyMap(t), i) \in Uints
    BY <2>2, MyMapIs, Zenon
  <2>4. CASE t # r.kind
    BY <2>1, <2>2, <2>4, Zenon DEF QuotaType
  <2>5. CASE t = r.kind
    <3>1. c # Me /\ h \in HostIds(Maps[c][t])
      BY <2>1, <2>5, MyMapIs, KernelIdIsOwn, Zenon DEF h
    <3>2. h # MapFrom(MyMap(t), i)
      BY <2>2, <3>1, Zenon DEF PrivateMaps
    <3> QED
      BY <2>1, <2>2, <2>3, <3>2, Zenon DEF QuotaType
  <2> QED
    BY <2>4, <2>5, Zenon
<1> QED
  BY <1>1, <1>2, OnlySetquota, Zenon

(* The container's own requests.                                           *)
Mine(r) ==
    /\ r \in Sent /\ r.sub \in MapsId /\ r.kind \in Mapped
    /\ ViewAnswer' = last' /\ last'.req = r

LEMMA MineIs ==
    ASSUME NEW r, Mine(r)
    PROVE  /\ Me \in Containers /\ r.kind \in MyKinds /\ r.id \in Nat
           /\ MyMap(r.kind) = Maps[Me][r.kind]
BY KindAndData, QuotaAssumption, Zenon DEF Mine, MyKinds, MyMap

(* Refused by the handler or by the kernel: nothing is set or returned, and *)
(* ERANGE means that the id could not be passed on.                        *)
LEMMA RefusedStep ==
    ASSUME NEW r, Mine(r), Refuse(Me, r) \/ KernelFails(Me, r)
    PROVE  View!Get \/ View!GetNext \/ View!Set
<1>1. quota' = quota /\ last'.reply # "ok"
      /\ (last'.reply = "ERANGE" => UidGidArg(Me, r) = NoHost)
  <2>1. CASE Refuse(Me, r)
    <3>1. last'.reply = Refusal(Me, r) /\ ~Passes(Me, r, 7) /\ quota' = quota
      BY <2>1, Zenon DEF Refuse, Done
    <3> QED
      BY <3>1, RefusalIs, Zenon
  <2>2. CASE KernelFails(Me, r)
    BY <2>2, Zenon DEF KernelFails, Done
  <2> QED
    BY <2>1, <2>2, Zenon
<1>2. ViewTable' = ViewTable
  BY <1>1, TableKept, Zenon
<1>3. /\ ViewAnswer'.req = r /\ ViewAnswer'.reply # "ok"
      /\ ViewAnswer'.reply = "ERANGE" => UidGidArg(Me, r) = NoHost
  BY <1>1, Zenon DEF Mine
<1>4. r.kind \in MyKinds /\ r.id \in Nat /\ MyMap(r.kind) = Maps[Me][r.kind] /\ Me \in Containers
  BY MineIs, Zenon
<1>5. ViewAnswer'.reply = "ERANGE" =>
         r.id \notin [t \in MyKinds |->
            {i \in NsIds(MyMap(t)) : i <= IntMax /\ MapFrom(MyMap(t), i) <= IntMax}][r.kind]
  BY <1>3, <1>4, ReachableIsMapped, Zenon DEF Mine
<1>6. CASE r.sub = "getquota"
  BY <1>2, <1>3, <1>6, Zenon DEF View!Get
<1>7. CASE r.sub = "setquota"
  BY <1>2, <1>3, <1>7, Zenon DEF View!Set
<1>8. CASE r.sub = "getnextquota"
  BY <1>2, <1>3, <1>5, <1>8, Zenon DEF View!GetNext
<1> QED
  BY <1>6, <1>7, <1>8, Zenon DEF Mine, MapsId

(* Q_GETQUOTA reads the container's own entry.                             *)
LEMMA GetStep ==
    ASSUME NEW r, Mine(r), QGetquota(Me, r)
    PROVE  View!Get
<1> DEFINE t == r.kind
<1>1. t \in MyKinds /\ MyMap(t) = Maps[Me][t] /\ Me \in Containers
  BY MineIs, Zenon
<1>2. Passes(Me, r, 7) /\ r.sub = "getquota"
  BY Zenon DEF QGetquota, Called
<1>3. r.id \in NsIds(MyMap(t)) /\ KernelId(UidGidArg(Me, r)) = MapFrom(MyMap(t), r.id)
  BY <1>1, <1>2, PassedIsMapped, Zenon DEF Mine
<1>4. /\ quota' = quota
      /\ last'.reply = "ok" => last'.data = quota[t][KernelId(UidGidArg(Me, r))]
  BY Zenon DEF QGetquota, WriteBack, Done
<1>5. ViewTable' = ViewTable
  BY <1>4, TableKept, Zenon
<1>6. last'.reply = "ok" => last'.data = ViewTable[t][r.id]
  BY <1>1, <1>3, <1>4, TableIs, Zenon
<1>7. r.id \in [k \in MyKinds |-> NsIds(MyMap(k))][t]
  BY <1>1, <1>3, Zenon
<1> QED
  BY <1>2, <1>5, <1>6, <1>7, Zenon DEF View!Get, Mine

(* Q_SETQUOTA sets that entry and no other of the container's.             *)
LEMMA SetStep ==
    ASSUME QuotaType, NEW r, Mine(r), QSetquota(Me, r)
    PROVE  View!Set
<1> DEFINE t == r.kind
           h == MapFrom(MyMap(t), r.id)
<1>1. t \in MyKinds /\ MyMap(t) = Maps[Me][t] /\ Me \in Containers
  BY MineIs, Zenon
<1>2. Passes(Me, r, 7) /\ r.sub = "setquota" /\ last'.reply = "ok"
  BY Zenon DEF QSetquota, Called, Done
<1>3. r.id \in NsIds(MyMap(t)) /\ KernelId(UidGidArg(Me, r)) = h
  BY <1>1, <1>2, PassedIsMapped, Zenon DEF Mine
<1>4. quota' = [quota EXCEPT ![t][h] = r.data]
  BY <1>3, Zenon DEF QSetquota
<1>5. t \in ReqKinds /\ WellFormed(MyMap(t))
  BY <1>1, MyMapIs, Zenon
<1> HIDE DEF t, h
<1>6. ASSUME NEW k \in MyKinds, NEW i \in NsIds(MyMap(k))
      PROVE  ViewTable'[k][i] = IF k = t /\ i = r.id THEN r.data ELSE ViewTable[k][i]
  <2> DEFINE g == MapFrom(MyMap(k), i)
  <2>1. ViewTable'[k][i] = quota'[k][g] /\ ViewTable[k][i] = quota[k][g]
    BY Zenon DEF ViewTable
  <2>2. k \in ReqKinds /\ g \in Uints /\ i \in Nat /\ g # NoId
    BY MyMapIs, NsIdsAre, Zenon
  <2>3. k = t /\ i # r.id => g # h
    <3>1. k = t => MapInto(MyMap(t), g) = i /\ MapInto(MyMap(t), h) = r.id
      BY <1>3, <1>5, <2>2, NsIdsAre, MapRoundTrip, Zenon DEF h
    <3> QED
      BY <3>1, Zenon
  <2>4. k = t /\ i = r.id => g = h
    BY Zenon DEF h
  <2> HIDE DEF g
  <2>5. quota'[k][g] = IF k = t /\ g = h THEN r.data ELSE quota[k][g]
    BY <1>4, <1>5, <2>2, Zenon DEF QuotaType
  <2> QED
    BY <2>1, <2>3, <2>4, <2>5, Zenon
<1>7. ViewTable' = [ViewTable EXCEPT ![t][r.id] = r.data]
  <2> DEFINE new == [ViewTable EXCEPT ![t][r.id] = r.data]
  <2>1. /\ ViewTable = [k \in MyKinds |-> ViewTable[k]]
        /\ ViewTable' = [k \in MyKinds |-> ViewTable'[k]]
        /\ \A k \in MyKinds : /\ ViewTable[k] = [i \in NsIds(MyMap(k)) |-> ViewTable[k][i]]
                              /\ ViewTable'[k] = [i \in NsIds(MyMap(k)) |-> ViewTable'[k][i]]
    BY Zenon DEF ViewTable
  <2>2. \A k \in MyKinds : ViewTable'[k] = new[k]
    <3> SUFFICES ASSUME NEW k \in MyKinds
                 PROVE  ViewTable'[k] = new[k]
      BY Zenon
    <3>1. CASE k # t
      <4>1. new[k] = ViewTable[k]
        BY <1>1, <2>1, <3>1, Zenon DEF t
      <4> QED
        BY <1>6, <2>1, <3>1, <4>1, ZenonT(30)
    <3>2. CASE k = t
      <4>1. new[k] = [ViewTable[k] EXCEPT ![r.id] = r.data]
        BY <2>1, <3>2, Zenon
      <4>2. \A i \in NsIds(MyMap(k)) : new[k][i] = IF i = r.id THEN r.data ELSE ViewTable[k][i]
        BY <2>1, <4>1, Zenon
      <4>3. new[k] = [i \in NsIds(MyMap(k)) |-> new[k][i]]
        BY <2>1, <4>1, Zenon
      <4> QED
        BY <1>6, <2>1, <3>2, <4>2, <4>3, ZenonT(30)
    <3> QED
      BY <3>1, <3>2, Zenon
  <2>3. new = [k \in MyKinds |-> new[k]]
    BY <2>1, Zenon
  <2> QED
    BY <2>1, <2>2, <2>3, Zenon
<1>8. r.id \in [k \in MyKinds |-> NsIds(MyMap(k))][t]
  BY <1>1, <1>3, Zenon DEF t
<1> QED
  BY <1>2, <1>7, <1>8, Zenon DEF View!Set, Mine, t

(* Q_GETNEXTQUOTA: the kernel's next host id is the container's next id.   *)
LEMMA GetNextStep ==
    ASSUME QuotaType, PrivateMaps, NEW r, Mine(r), QGetnextquota(Me, r)
    PROVE  View!GetNext
<1> DEFINE t == r.kind
           m == MyMap(t)
           h == KernelId(UidGidArg(Me, r))
           S == NextSet(t, h)
           f == First(S)
           next == MapInto(m, f)
           Left == {j \in NsIds(m) : j >= r.id /\ ViewTable[t][j] # 0}
<1>1. /\ t \in MyKinds /\ m = Maps[Me][t] /\ Me \in Containers /\ r.id \in Nat
      /\ t \in Mapped /\ WellFormed(m) /\ NsIds(m) \subseteq Uints /\ HostIds(m) \subseteq Uints
  BY MineIs, MyMapIs, Zenon
<1>2. Passes(Me, r, 7) /\ r.sub = "getnextquota"
  BY Zenon DEF QGetnextquota, Called
<1>3. r.id \in NsIds(m) /\ h = MapFrom(m, r.id) /\ h \in Nat
  <2>1. r.id \in NsIds(m) /\ h = MapFrom(m, r.id)
    BY <1>1, <1>2, PassedIsMapped, Zenon DEF Mine
  <2>2. MapFrom(m, r.id) \in Nat
    BY <1>1, <2>1, NsIdsAre, Zenon
  <2> QED
    BY <2>1, <2>2, Zenon
<1>4. f \in S /\ (\A j \in S : f <= j) /\ f \in Uints
  BY <1>1, NextIs, Zenon DEF Mine
<1>5. f \in Nat /\ f >= h /\ quota[t][f] # 0
  <2>1. f \in Nat
    BY <1>4, ModulusType DEF Uints
  <2> QED
    BY <1>4, <2>1, Zenon DEF NextSet
<1>6. \/ /\ next # NoId /\ WriteBack(Me, r, quota[t][f], next % Modulus)
      \/ /\ next = NoId /\ Done(Me, r, "ERANGE", 0, 0) /\ quota' = quota
  BY <1>1, Zenon DEF QGetnextquota
<1>7. ASSUME NEW j \in Left
      PROVE  /\ j \in NsIds(m) /\ j \in Nat /\ j >= r.id /\ MapFrom(m, j) \in S
             /\ MapFrom(m, j) \in Nat /\ f <= MapFrom(m, j)
  <2>1. j \in NsIds(m) /\ j >= r.id /\ ViewTable[t][j] # 0 /\ j \in Nat /\ MapFrom(m, j) \in Nat
    BY <1>1, NsIdsAre, Zenon
  <2>2. quota[t][MapFrom(m, j)] # 0
    BY <1>1, <2>1, TableIs, Zenon
  <2>3. MapFrom(m, j) \in Uints
    BY <1>1, <2>1, NsIdsAre, Zenon
  <2>4. MapFrom(m, j) >= h
    <3>1. CASE j = r.id
      BY <1>3, <3>1
    <3>2. CASE j # r.id
      <4>1. r.id < j
        BY <1>1, <2>1, <3>2
      <4>2. MapFrom(m, r.id) < MapFrom(m, j)
        BY <1>1, <1>3, <2>1, <4>1, Zenon DEF PrivateMaps, Orderly
      <4> QED
        BY <1>3, <2>1, <4>2
    <3> QED
      BY <3>1, <3>2, Zenon
  <2>5. MapFrom(m, j) \in S
    BY <2>2, <2>3, <2>4, Zenon DEF NextSet
  <2> QED
    BY <1>4, <2>1, <2>5, Zenon
<1> HIDE DEF t, m, h, S, f, next, Left
<1>8. quota' = quota /\ ViewTable' = ViewTable
  <2>1. quota' = quota
    BY <1>6, Zenon DEF WriteBack
  <2> QED
    BY <2>1, TableKept, Zenon
<1>9. CASE next # NoId
  <2>1. next \in NsIds(m) /\ MapFrom(m, next) = f /\ next \in Nat
    BY <1>1, <1>5, <1>9, HostIdsAre, NsIdsAre, Zenon DEF next
  <2>2. next % Modulus = next
    <3>1. next \in Uints
      BY <1>1, <2>1, Zenon
    <3> QED
      BY <3>1, ModulusType DEF Uints
  <2>3. next >= r.id
    <3> SUFFICES ASSUME next < r.id
                 PROVE  FALSE
      BY <1>1, <2>1
    <3>1. f < h
      BY <1>1, <1>3, <2>1, Zenon DEF PrivateMaps, Orderly, m
    <3> QED
      BY <1>3, <1>5, <3>1
  <2>4. ViewTable[t][next] = quota[t][f]
    BY <1>1, <2>1, TableIs, Zenon DEF m
  <2>5. next \in Left
    BY <1>5, <2>1, <2>3, <2>4, Zenon DEF Left
  <2>6. ASSUME NEW j \in Left
        PROVE  next <= j
    <3> SUFFICES ASSUME j < next
                 PROVE  FALSE
      BY <1>7, <2>1
    <3>1. MapFrom(m, j) < f
      BY <1>1, <1>7, <2>1, Zenon DEF PrivateMaps, Orderly, m
    <3> QED
      BY <1>5, <1>7, <3>1
  <2>7. last'.reply # "ERANGE"
        /\ (last'.reply = "ok" => last'.next = next /\ last'.data = ViewTable[t][next])
    BY <1>6, <1>9, <2>2, <2>4 DEF WriteBack, Done
  <2> QED
    BY <1>1, <1>2, <1>8, <2>5, <2>6, <2>7, Zenon DEF View!GetNext, Mine, Left, t, m
<1>10. CASE next = NoId
  <2>1. last'.reply = "ERANGE"
    BY <1>6, <1>10 DEF Done
  <2>2. Left = {}
    <3> SUFFICES ASSUME NEW j \in Left
                 PROVE  FALSE
      BY Zenon
    <3>1. f \in MapFrom(m, r.id) .. MapFrom(m, j)
      BY <1>3, <1>5, <1>7
    <3>2. f \in HostIds(m)
      BY <1>1, <1>3, <1>7, <3>1, Zenon DEF PrivateMaps, Orderly, m
    <3> QED
      BY <1>1, <1>5, <1>10, <3>2, HostIdsAre, Zenon DEF next
  <2> QED
    BY <1>1, <1>2, <1>8, <2>1, <2>2, Zenon DEF View!GetNext, Mine, Left, t, m
<1> QED
  BY <1>9, <1>10, Zenon

LEMMA ViewStep ==
    ASSUME QuotaType, PrivateMaps, [Next]_vars
    PROVE  [View!ViewNext]_<<ViewTable, ViewAnswer>>
<1>1. CASE UNCHANGED vars
  BY <1>1, Zenon DEF vars, ViewTable, ViewAnswer
<1>2. ASSUME NEW t, NEW h, NEW v, HostSet(t, h, v)
      PROVE  View!ViewNext
  <2>1. last'.by = "host"
    BY <1>2, Zenon DEF HostSet, Done
  <2> QED
    BY <2>1, Zenon DEF ViewAnswer, View!ViewNext
<1>3. ASSUME NEW c \in Containers, NEW r \in Sent, Request(c, r)
      PROVE  View!ViewNext
  <2>1. last'.by = c /\ last'.req = r /\ DOMAIN last' = {"by", "req", "reply", "data", "next"}
    BY <1>3, RequestAnswers, Zenon
  <2>2. CASE c = "host"
    BY <2>1, <2>2, Zenon DEF ViewAnswer, View!ViewNext
  <2>3. CASE c # "host" /\ ~(c = Me /\ r.sub \in MapsId /\ r.kind \in Mapped)
    <3>1. ViewAnswer' = Elsewhere
      BY <2>1, <2>3, Zenon DEF ViewAnswer
    <3> QED
      BY <1>3, <2>3, <3>1, OthersStep, Zenon DEF View!ViewNext
  <2>4. CASE c # "host" /\ c = Me /\ r.sub \in MapsId /\ r.kind \in Mapped
    <3>1. ViewAnswer' = last' /\ Mine(r)
      BY <2>1, <2>4, Zenon DEF ViewAnswer, Mine
    <3>2. last' \notin {ByHost, Elsewhere}
      BY <2>1 DEF ByHost, Elsewhere
    <3>3. Request(Me, r)
      BY <1>3, <2>4, Zenon
    <3>4. Refuse(Me, r) \/ KernelFails(Me, r) \/ QGetquota(Me, r) \/ QSetquota(Me, r)
          \/ QGetnextquota(Me, r)
      BY <2>4, <3>3, Zenon DEF Request, MapsId, Called, QGetinfo, QSetinfo, QGetfmt,
         QQuotaon, QQuotaoff, QSync
    <3>5. View!Get \/ View!GetNext \/ View!Set
      BY <3>1, <3>4, RefusedStep, GetStep, SetStep, GetNextStep, Zenon
    <3> QED
      BY <3>1, <3>2, <3>5, Zenon DEF View!ViewNext
  <2> QED
    BY <2>2, <2>3, <2>4, Zenon
<1> QED
  BY <1>1, <1>2, <1>3, Zenon DEF Next

(* A map of a single range, which is what a container has by default, is   *)
(* in order.                                                               *)
LEMMA OneRangeIsOrderly ==
    ASSUME NEW e \in Entries
    PROVE  WellFormed(<<e>>) /\ Orderly(<<e>>)
<1> DEFINE m == <<e>>
<1>1. DOMAIN m = {1} /\ m[1] = e /\ m \in Seq(Entries)
  OBVIOUS
<1>2. WellFormed(m)
  BY <1>1, Zenon DEF WellFormed
<1> HIDE DEF m
<1>3. ASSUME NEW id \in NsIds(m)
      PROVE  /\ MapFrom(m, id) = e.host + id - e.ns /\ id \in Nat
             /\ e.ns <= id /\ id < e.ns + e.range
  <2>1. id \in Nat
    BY <1>2, NsIdsAre, Zenon
  <2>2. NsSide(m, id) # {}
    BY Zenon DEF NsIds
  <2>3. 1 \in NsSide(m, id)
    BY <1>1, <2>2, Zenon DEF NsSide
  <2>4. First(NsSide(m, id)) = 1
    BY <1>2, <2>1, <2>3, OneEntry, Zenon
  <2>5. MapFrom(m, id) = e.host + id - e.ns
    BY <1>1, <2>2, <2>4, Zenon DEF MapFrom
  <2>6. e.ns <= id /\ id < e.ns + e.range
    BY <1>1, <2>1, <2>3, Zenon DEF NsSide, Entries
  <2> QED
    BY <2>1, <2>5, <2>6, Zenon
<1>4. ASSUME NEW i \in NsIds(m), NEW j \in NsIds(m), i < j
      PROVE  MapFrom(m, i) < MapFrom(m, j)
  <2>1. MapFrom(m, i) = e.host + i - e.ns /\ MapFrom(m, j) = e.host + j - e.ns
        /\ i \in Nat /\ j \in Nat
    BY <1>3, Zenon
  <2> QED
    BY <1>4, <2>1 DEF Entries
<1>5. ASSUME NEW i \in NsIds(m), NEW j \in NsIds(m), NEW h \in MapFrom(m, i) .. MapFrom(m, j)
      PROVE  h \in HostIds(m)
  <2>1. /\ MapFrom(m, i) = e.host + i - e.ns /\ MapFrom(m, j) = e.host + j - e.ns
        /\ i \in Nat /\ j \in Nat /\ e.ns <= i /\ j < e.ns + e.range
    BY <1>3, Zenon
  <2>2. h \in Nat /\ e.host <= h /\ e.host + e.range > h
    BY <2>1 DEF Entries
  <2>3. 1 \in HostSide(m, h)
    BY <1>1, <2>2, Zenon DEF HostSide
  <2>4. MapInto(m, h) # NoId
    <3>1. MapInto(m, h) = e.ns + h - e.host
      BY <1>1, <1>2, <2>2, <2>3, OneEntry, Zenon DEF MapInto
    <3> QED
      BY <2>2, <3>1 DEF Entries, NoId
  <2>5. MapInto(m, h) \in NsIds(m) /\ MapFrom(m, MapInto(m, h)) = h
    BY <1>2, <2>2, <2>4, HostIdsAre, Zenon
  <2> QED
    BY <2>5, Zenon DEF HostIds
<1> QED
  BY <1>2, <1>4, <1>5, Zenon DEF Orderly, m

(* quotactl() implements the view of QuotaView.tla, for any number of      *)
(* containers, every width of `int` and every map of the container that is *)
(* in order and shared with no other container: what the container sets is *)
(* what it reads and enumerates, and nobody else's requests show.          *)
THEOREM TablesArePrivate ==
    ASSUME PrivateMaps
    PROVE  Spec => PrivateTables
<1>1. Init => QuotaType
  BY DEF Init, QuotaType
<1>2. Init => View!ViewInit
  BY DEF Init, View!ViewInit, ViewAnswer
<1>3. QuotaType /\ [Next]_vars => [View!ViewNext]_<<ViewTable, ViewAnswer>>
  BY ViewStep, Zenon
<1> QED
  BY <1>1, <1>2, <1>3, QuotaTypeStep, PTL DEF Spec, PrivateTables, View!ViewSpec

=============================================================================
