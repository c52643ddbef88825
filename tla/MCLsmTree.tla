------------------------------ MODULE MCLsmTree ------------------------------
(* Model-checking instance of LsmTree: two keys, a handful of writes.      *)
EXTENDS LsmTree


MCKeys == {1, 2}
=============================================================================
