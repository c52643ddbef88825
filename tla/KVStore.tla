------------------------------- MODULE KVStore -------------------------------
(***************************************************************************)
(* What the storage facade promises for one table (spec section 4.7): Put  *)
(* writes or replaces the value of a key, Delete removes it, and Get       *)
(* returns the latest value not removed since.                             *)
(***************************************************************************)
CONSTANTS Keys, Vals, NoValue

ASSUME NoValue \notin Vals

VARIABLE dict

KVTypeOK == dict \in [Keys -> Vals \cup {NoValue}]

KVInit == dict = [k \in Keys |-> NoValue]

KVPut(k, v) == dict' = [dict EXCEPT ![k] = v]

KVDelete(k) == dict' = [dict EXCEPT ![k] = NoValue]

KVNext == \E k \in Keys : KVDelete(k) \/ \E v \in Vals : KVPut(k, v)

KVSpec == KVInit /\ [][KVNext]_dict

=============================================================================
