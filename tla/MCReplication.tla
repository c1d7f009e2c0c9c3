--------------------------- MODULE MCReplication ----------------------------
(* Replication on small instances. *)
EXTENDS Replication, TLC

CONSTANTS p1, p2, r1, r2

Symmetric == Permutations({p1, p2}) \cup Permutations({r1, r2})
=============================================================================
