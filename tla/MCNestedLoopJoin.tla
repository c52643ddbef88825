--------------------------- MODULE MCNestedLoopJoin ---------------------------
EXTENDS NestedLoopJoin

(* Rows of two join values, and a deselected row; bit patterns are         *)
(* irrelevant to the nested loop.                                          *)
MCRowKinds ==
  { <<[val |-> 1, bits |-> 1], TRUE>>,
    <<[val |-> 2, bits |-> 2], TRUE>>,
    <<[val |-> 1, bits |-> 1], FALSE>> }
=============================================================================
