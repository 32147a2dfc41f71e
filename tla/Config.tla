------------------------------- MODULE Config -------------------------------
(***************************************************************************)
(* todo-app's Config::from_env.  A PEER_ID is a sequence of characters:    *)
(* the digits 0 .. 9, and NoDigit for any other one.  A port that is not   *)
(* set, or does not parse, is Unset; port 0 is left out.  An entry of      *)
(* SYNC_PEERS is a host with a port.                                       *)
(***************************************************************************)
EXTENDS Naturals, Sequences
LOCAL INSTANCE SequencesExt

CONSTANT MaxReplicaId  \* the largest replica id (u64::MAX in the code)

NoDigit == 10
Unset   == 0
U16     == 65536

(* The decimal number of the digits; one when there are none or too many. *)
ReplicaIdOf(peer_id) ==
  LET digits == SelectSeq(peer_id, LAMBDA c : c # NoDigit)
      number == FoldLeft(LAMBDA n, d : 10 * n + d, 0, digits)
  IN  IF digits = <<>> \/ number > MaxReplicaId THEN 1 ELSE number

PortOf(env) == IF env.port = Unset THEN 8080 ELSE env.port

(* port + 1000 is an argument of unwrap_or, so it is computed even when    *)
(* SYNC_PORT is set: in u16, it panics in a debug build and wraps in a     *)
(* release build.                                                          *)
Panics(env, debug) == debug /\ PortOf(env) + 1000 >= U16

SyncPortOf(env) ==
  IF env.sync_port = Unset THEN (PortOf(env) + 1000) % U16 ELSE env.sync_port

(* An entry that is no SocketAddr, a host name among them, is dropped.     *)
SyncPeersOf(env) == {entry \in env.sync_peers : entry.host # "localhost"}
=============================================================================
