----------------------------- MODULE MCStartup ------------------------------
(* The two terminals of README.md, with localhost for 127.0.0.1 in one.    *)
EXTENDS Startup

CONSTANTS a, b

TwoProcesses == {a, b}

Entry(host, port) == [host |-> host, port |-> port]

ByName ==
  [n \in TwoProcesses |->
     IF n = a
     THEN [port |-> 8080, sync_port |-> 9080, peer_id |-> <<NoDigit, 1>>,
           sync_peers |-> {Entry("127.0.0.1", 9081)}]
     ELSE [port |-> 8081, sync_port |-> 9081, peer_id |-> <<NoDigit, 2>>,
           sync_peers |-> {Entry("localhost", 9080)}]]
=============================================================================
