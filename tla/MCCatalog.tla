------------------------------ MODULE MCCatalog ------------------------------
(* Model-checking instance of Catalog: two tables, two keys, six pages.    *)
EXTENDS Catalog

MCNames == {1, 2}
MCKeys == {1, 2}
MCPages == 1..6
MCBoundVals == {1, 2}
=============================================================================
