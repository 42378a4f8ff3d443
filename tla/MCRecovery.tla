----------------------------- MODULE MCRecovery -----------------------------
(* Model values for Recovery: references are symmetric; the responses, and the    *)
(* local Order once the call has returned, are not looked at.  The locate that no *)
(* snapshot has is traded in by a first order at most.                            *)
EXTENDS Recovery

Symmetry == Permutations(Refs)
InCall == IF phase = "matching" THEN <<cmd.tif, order>> ELSE <<>>
FewElsewhere ==
  \A s \in Slots : wal[s].locate = SnapshotLocate \/ (s = 0 /\ wal[s].type = "NEW" /\ wal[s].side = "BUY")
Seen == <<book, nextSeq, used, phase, InCall, recoveryVars>>
=============================================================================
