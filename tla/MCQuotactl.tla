----------------------------- MODULE MCQuotactl -----------------------------
(* Quotactl.tla for TLC: an `int` from -4 to 3, two containers with one range each. *)
EXTENDS Quotactl

CONSTANTS a, b

Range(ns, host, range) == <<[ns |-> ns, host |-> host, range |-> range]>>
(* Container b's second id maps to the first host id beyond `int`; the host *)
(* id after it is in no container's map.                                   *)
MCMaps ==
    [c \in {a, b} |-> [t \in {0, 1} |->
        IF c = a THEN Range(0, 2, 1) ELSE Range(t, 3, 2)]]

(* The maps of the instance are private and in order. *)
ASSUME MCPrivate == PrivateMaps

(* `data` is what the setters find behind addr. *)
Tidy == {r \in Requests : r.sub \in {"setquota", "setinfo"} \/ r.data = 1}
(* The commands that name an id, with every id; an address that cannot be  *)
(* accessed and a missing path for one id each.                            *)
IdRequests == {r \in Tidy :
    /\ r.sub \in MapsId
    /\ \/ r.special = "path" /\ (r.addr = "good" \/ r.id = 1)
       \/ r.special = "null" /\ r.addr = "good" /\ r.id = 0}
(* Every command, on one user id and one project id that is negative as an *)
(* `int`.                                                                  *)
AllRequests == {r \in Tidy :
    /\ r.id = IF r.kind = 2 THEN 5 ELSE 0
    /\ r.special = "path" \/ r.addr = "good"}
=============================================================================
