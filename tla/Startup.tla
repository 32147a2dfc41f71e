------------------------------ MODULE Startup -------------------------------
(***************************************************************************)
(* The start of todo-app processes on one host, main from Config::from_env *)
(* to axum::serve: the sync listener is bound and the outgoing tasks are   *)
(* spawned before the HTTP port is bound, and a bind that fails ends the   *)
(* process.  Sync listeners and HTTP listeners share one space of ports,   *)
(* all of 127.0.0.1.                                                       *)
(***************************************************************************)
EXTENDS Config

CONSTANTS
  Process,
  Env,    \* Env[n]: the environment variables n is started with
  Debug   \* whether the build checks arithmetic

VARIABLES
  phase,     \* phase[n]: how far n's main is
  bound,     \* bound[n]: the ports n listens on
  outgoing   \* outgoing[n]: the ports n's outgoing tasks connect to

vars == <<phase, bound, outgoing>>

Init ==
  /\ phase = [n \in Process |-> "off"]
  /\ bound = [n \in Process |-> {}]
  /\ outgoing = [n \in Process |-> {}]

InUse(port) == \E n \in Process : port \in bound[n]

(* main returns or panics: the runtime drops its tasks and sockets. *)
End(n) ==
  /\ phase' = [phase EXCEPT ![n] = "ended"]
  /\ bound' = [bound EXCEPT ![n] = {}]
  /\ outgoing' = [outgoing EXCEPT ![n] = {}]

ReadEnv(n) ==
  /\ phase[n] = "off"
  /\ IF Panics(Env[n], Debug) THEN End(n)
     ELSE phase' = [phase EXCEPT ![n] = "configured"] /\ UNCHANGED <<bound, outgoing>>

(* SyncNode::run *)
RunSync(n) ==
  /\ phase[n] = "configured"
  /\ IF InUse(SyncPortOf(Env[n])) THEN End(n)
     ELSE /\ phase' = [phase EXCEPT ![n] = "syncing"]
          /\ bound' = [bound EXCEPT ![n] = {SyncPortOf(Env[n])}]
          /\ outgoing' = [outgoing EXCEPT ![n] = {entry.port : entry \in SyncPeersOf(Env[n])}]

Serve(n) ==
  /\ phase[n] = "syncing"
  /\ IF InUse(PortOf(Env[n])) THEN End(n)
     ELSE /\ phase' = [phase EXCEPT ![n] = "serving"]
          /\ bound' = [bound EXCEPT ![n] = @ \cup {PortOf(Env[n])}]
          /\ UNCHANGED outgoing

Main(n) == ReadEnv(n) \/ RunSync(n) \/ Serve(n)

Next == \E n \in Process : Main(n)

Spec == Init /\ [][Next]_vars

(* Every process that is started goes on until it serves or ends. *)
FairSpec == Spec /\ \A n \in Process : WF_vars(Main(n))

-----------------------------------------------------------------------------
(* n's SYNC_PEERS has the host and port m is told to listen on. *)
Lists(n, m) == \E entry \in Env[n].sync_peers : entry.port = Env[m].sync_port

Linked(n, m) ==
  phase[m] = "serving" /\ \E port \in outgoing[n] : port \in bound[m]

(* A process comes to keep a link to every peer that is listed in its      *)
(* SYNC_PEERS ("Comma-separated `host:port` list of peer sync ports").     *)
ListedPeersLinked == \A n, m \in Process : Lists(n, m) => <>[]Linked(n, m)
=============================================================================
