--------------------------- MODULE MCCompactionJob ---------------------------
(* Model-checking instance of CompactionJob: two user keys with a gap      *)
(* between them (so a seek can fall between two SSTables), streams of up   *)
(* to six records, values twice the size of tombstones, SSTables of three  *)
(* bytes, so that a cut can fall before, after or between versions.        *)
EXTENDS CompactionJob

MCKeys == {1, 3}
=============================================================================
