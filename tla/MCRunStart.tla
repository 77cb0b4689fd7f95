----------------------------- MODULE MCRunStart -----------------------------
(* RunStart on calls of one operation, s1 to s3 or s1 and s2, with s3 of another *)
(* task under the same op-id, and one call without op-id, s4.                  *)
EXTENDS RunStart, TLC

CONSTANTS s1, s2, s3, s4

OneOp == [p \in Attempts |-> IF p = s4 THEN "" ELSE "op"]
OneTask == [p \in Attempts |-> IF p \in {s3, s4} THEN "other" ELSE "task"]
Retries == [p \in Attempts |-> "task"]

\* The calls of the operation are alike, and so are the run ids.
Symmetry == Permutations({s1, s2}) \cup Permutations(Ids)
RetrySymmetry == Permutations({s1, s2, s3}) \cup Permutations(Ids)
=============================================================================
