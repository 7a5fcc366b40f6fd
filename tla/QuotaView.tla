----------------------------- MODULE QuotaView ------------------------------
(***************************************************************************)
(* What src/sys_quotactl.rs promises a container: user and group quotas in *)
(* tables of its own, indexed by its own ids, which nobody but the host's  *)
(* administrator and the container itself changes.                         *)
(***************************************************************************)
EXTENDS Integers

CONSTANTS Kinds,       \* the quota kinds whose ids are mapped
          Ids,         \* Ids[t]: the container's ids of kind t
          Reachable,   \* Reachable[t]: those that fit an `int` on both sides
          ByHost, Elsewhere   \* answer, when the last step was not the container's

VARIABLES table,       \* table[t][i]: the quota of id i, 0 when none is set
          answer       \* the container's latest request with its reply

ViewInit == answer = ByHost

Get ==
    /\ answer'.req.sub = "getquota"
    /\ answer'.reply = "ok" =>
          /\ answer'.req.id \in Ids[answer'.req.kind]
          /\ answer'.data = table[answer'.req.kind][answer'.req.id]
    /\ UNCHANGED table

(* The least id with a quota, from the given one on; ERANGE only past the  *)
(* last, or for an id that cannot be passed on.                            *)
GetNext ==
    LET t == answer'.req.kind
        Left == {j \in Ids[t] : j >= answer'.req.id /\ table[t][j] # 0}
    IN  /\ answer'.req.sub = "getnextquota"
        /\ answer'.reply = "ok" =>
              /\ answer'.next \in Left
              /\ \A j \in Left : answer'.next <= j
              /\ answer'.data = table[t][answer'.next]
        /\ answer'.reply = "ERANGE" => Left = {} \/ answer'.req.id \notin Reachable[t]
        /\ UNCHANGED table

Set ==
    LET t == answer'.req.kind
        i == answer'.req.id
    IN  /\ answer'.req.sub = "setquota"
        /\ \/ /\ answer'.reply = "ok"
              /\ i \in Ids[t]
              /\ table' = [table EXCEPT ![t][i] = answer'.req.data]
           \/ answer'.reply # "ok" /\ UNCHANGED table

ViewNext ==
    \/ answer' = ByHost
    \/ answer' = Elsewhere /\ UNCHANGED table
    \/ /\ answer' \notin {ByHost, Elsewhere}
       /\ Get \/ GetNext \/ Set

ViewSpec == ViewInit /\ [][ViewNext]_<<table, answer>>
=============================================================================
