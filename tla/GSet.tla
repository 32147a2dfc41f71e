-------------------------------- MODULE GSet --------------------------------
(* crdt-core's GSet: a HashSet that only grows.                             *)

NewSet == {}

InsertValue(s, value) == s \cup {value}

(* Mutant: the other set takes the place of this one. *)
SetMergeReplaces(s, other) == other

SetMerge(s, other) == s \cup other
=============================================================================
