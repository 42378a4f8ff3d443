----------------------------- MODULE MCOrderMap -----------------------------
(* An instance of OrderMap: thread t1 has bucket 0 to itself and shares      *)
(* bucket 1, which holds two orders, with t2.                                *)
EXTENDS OrderMap

CONSTANTS t1, t2

MCOwnerOf == [i \in Ids |-> IF i <= 4 THEN t1 ELSE t2]
MCBucketOf == [i \in Ids |-> IF i <= 3 THEN 0 ELSE 1]
MCLoaded == <<6, 7>>
MCUses == [i \in Ids |-> CASE i <= 2 -> {"insert", "find", "erase"}
                           [] i = 6 -> {"erase"}
                           [] OTHER -> {"insert"}]
=============================================================================
