--------------------------- MODULE MCReplication ----------------------------
(***************************************************************************)
(* Instances of Replication for TLC: the workloads of the clients and the  *)
(* symmetry of the followers.                                              *)
(***************************************************************************)
EXTENDS Replication, TLC

CONSTANTS k1, v1, v2

Sets    == {Set(k1, v1), Set(k1, v2)}
SetsGet == Sets \cup {Get(k1)}
SetGet  == {Set(k1, v1), Get(k1)}

Followers == Permutations(Server \ {Boot})
=============================================================================
