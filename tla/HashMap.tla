------------------------------ MODULE HashMap -------------------------------
(***************************************************************************)
(* The std::collections::HashMap operations the crates use.  A map is a    *)
(* function whose domain is the set of keys present.                       *)
(***************************************************************************)

(* Every map with keys in K and values in V. *)
Maps(K, V) == UNION {[D -> V] : D \in SUBSET K}

EmptyMap == [k \in {} |-> k]

(* get(k).copied().unwrap_or(default) *)
GetOr(m, k, default) == IF k \in DOMAIN m THEN m[k] ELSE default

(* insert(k, v): an entry already present is overwritten. *)
Insert(m, k, v) == [x \in DOMAIN m \cup {k} |-> IF x = k THEN v ELSE m[x]]

(* entry(k).or_insert(other[k]) for every k of other: the entries of m win. *)
OrInsertAll(m, other) ==
  [x \in DOMAIN m \cup DOMAIN other |-> IF x \in DOMAIN m THEN m[x] ELSE other[x]]
=============================================================================
