----------------------------- MODULE TodoState ------------------------------
(***************************************************************************)
(* todo-app's TodoState: the replicated to-do list of one replica and the  *)
(* operations on it.                                                       *)
(*                                                                         *)
(* A value of TodoStates holds the fields a snapshot carries to a peer.    *)
(* peer_id, replica_id and next_local_id are #[serde(skip)] and never read *)
(* by merge, so they stay with the replica and are passed as arguments.    *)
(* A GSet is a set, and its merge is union.                                *)
(***************************************************************************)
EXTENDS VectorClock

CONSTANTS
  Peer,       \* the peer ids (PEER_ID), one for each replica
  ReplicaId,  \* the numeric replica ids the vector clock is keyed by
  Text,       \* todo texts as trim leaves them
  Blank,      \* what trim leaves of a text that is only white space
  MaxLocalId, \* bound on next_local_id (u64::MAX in the code)
  MaxCount    \* bound on a clock entry (u64::MAX in the code)

ASSUME BlankAssumption == Blank \notin Text
ASSUME CounterAssumption == MaxLocalId \in Nat /\ MaxCount \in Nat

Id == Peer \X (1 .. MaxLocalId)

TodoStates ==
  [added     : SUBSET Id,
   removed   : SUBSET Id,
   texts     : Maps(Id, Text),
   completed : Maps(Id, BOOLEAN),
   creators  : Maps(Id, Peer),
   clock     : Maps(ReplicaId, 0 .. MaxCount)]

NewState ==
  [added |-> {}, removed |-> {}, texts |-> EmptyMap, completed |-> EmptyMap,
   creators |-> EmptyMap, clock |-> NewClock]

-----------------------------------------------------------------------------
(* Mutant: the id leaves out the peer. *)
TodoIdLocal(peer, n) == <<CHOOSE p \in Peer : TRUE, n>>

(* "{peer_id}-{n}" with n in decimal: the last dash separates the two, so  *)
(* the string and the pair determine each other.                           *)
TodoId(peer, n) == <<peer, n>>

(* add, for a text that is not blank; n is the local id just drawn. *)
Add(s, peer, replica, n, text) ==
  LET id == TodoId(peer, n)
  IN  [added     |-> s.added \cup {id},
       removed   |-> s.removed,
       texts     |-> Insert(s.texts, id, text),
       completed |-> Insert(s.completed, id, FALSE),
       creators  |-> Insert(s.creators, id, peer),
       clock     |-> Increment(s.clock, replica)]

Toggle(s, replica, id) ==
  IF id \notin s.added \/ id \in s.removed THEN s
  ELSE [s EXCEPT !.clock     = Increment(s.clock, replica),
                 !.completed = Insert(s.completed, id, ~GetOr(s.completed, id, FALSE))]

(* Mutant: a removal is no event of the clock. *)
DeleteUncounted(s, replica, id) ==
  IF id \notin s.added THEN s ELSE [s EXCEPT !.removed = s.removed \cup {id}]

(* Mutant: the item goes instead of getting a tombstone. *)
DeleteForgets(s, replica, id) ==
  IF id \notin s.added THEN s
  ELSE [s EXCEPT !.clock = Increment(s.clock, replica), !.added = s.added \ {id}]

Delete(s, replica, id) ==
  IF id \notin s.added THEN s
  ELSE [s EXCEPT !.clock   = Increment(s.clock, replica),
                 !.removed = s.removed \cup {id}]

-----------------------------------------------------------------------------
(* Mutant: the remote flag wins. *)
MergeCompletedRemote(mine, other) ==
  [id \in DOMAIN mine \cup DOMAIN other |->
     IF id \in DOMAIN other THEN other[id] ELSE mine[id]]

(* Monotonic OR: an absent flag is inserted as FALSE before the OR. *)
MergeCompleted(mine, other) ==
  [id \in DOMAIN mine \cup DOMAIN other |->
     IF id \in DOMAIN other THEN GetOr(mine, id, FALSE) \/ other[id] ELSE mine[id]]

(* Mutant: the creators' loop is missing. *)
MergeForgetsCreators(s, other) ==
  [added     |-> s.added \cup other.added,
   removed   |-> s.removed \cup other.removed,
   texts     |-> OrInsertAll(s.texts, other.texts),
   completed |-> MergeCompleted(s.completed, other.completed),
   creators  |-> s.creators,
   clock     |-> ClockMerge(s.clock, other.clock)]

Merge(s, other) ==
  [added     |-> s.added \cup other.added,
   removed   |-> s.removed \cup other.removed,
   texts     |-> OrInsertAll(s.texts, other.texts),
   completed |-> MergeCompleted(s.completed, other.completed),
   creators  |-> OrInsertAll(s.creators, other.creators),
   clock     |-> ClockMerge(s.clock, other.clock)]

-----------------------------------------------------------------------------
(* The todos of snapshot(): items without a text are skipped, an item      *)
(* without a creator is attributed to the replica itself.                  *)
Todos(s, peer) ==
  {[id         |-> id,
    text       |-> s.texts[id],
    completed  |-> GetOr(s.completed, id, FALSE),
    created_by |-> GetOr(s.creators, id, peer)] :
     id \in {i \in s.added \ s.removed : i \in DOMAIN s.texts}}

-----------------------------------------------------------------------------
(* Every item of a state has its text, its flag and its creator, the       *)
(* creator is the peer its id names, and only added items are removed: so  *)
(* snapshot() never skips a live item nor guesses its creator.             *)
WellFormed(s) ==
  /\ DOMAIN s.texts = s.added
  /\ DOMAIN s.completed = s.added
  /\ DOMAIN s.creators = s.added
  /\ s.removed \subseteq s.added
  /\ \A id \in s.added : s.creators[id] = id[1]
=============================================================================
