------------------------------ MODULE MCHashJoin ------------------------------
EXTENDS HashJoin

(* INT join values 1 and 2, whose hashes collide, and a deselected row.    *)
MCRowKinds ==
  { <<[val |-> 1, bits |-> "b1"], TRUE>>,
    <<[val |-> 2, bits |-> "b2"], TRUE>>,
    <<[val |-> 1, bits |-> "b1"], FALSE>> }

MCHash(bits) == "h12"

MCBuckets == {"h12"}
=============================================================================
