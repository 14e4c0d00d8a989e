------------------------------- MODULE MCPeers -------------------------------
(* The parts of a peer that share no state: its registry of heartbeats, its *)
(* object stores, its model runners, and the gates that answer single       *)
(* requests.  A behaviour is about one of them, part, and the others stay   *)
(* at their start.                                                          *)
(*                                                                          *)
(* Two peers with a key each; a third key no registry knows.  One node is   *)
(* set up with the right peer id, one with somebody else's key.  Three      *)
(* runners, so that there is one that made neither of two records, and a    *)
(* session whose runners also run for themselves.                           *)
EXTENDS PeerSync, ObjectStore, ModelReplay, Gates, TLC

CONSTANTS peerA, peerB, keyA, keyB, keyX

KeyOwners == (keyA :> peerA) @@ (keyB :> peerB) @@ (keyX :> Nobody)
Nodes == {<<peerA, keyA>>, <<peerB, keyA>>, <<peerB, keyB>>}
AheadOrNot == {0, 1}

VARIABLE part

gateVars == <<gate, asked>>

PeersInit ==
    /\ Init /\ StoreInit /\ ReplayInit /\ GatesInit
    /\ part \in {"registry", "stores", "replay", "gates"}
    /\ part # "gates" => gate = "source"
PeersNext ==
    /\ UNCHANGED part
    /\ \/ part = "registry" /\ Next /\ UNCHANGED <<storeVars, replayVars, gateVars>>
       \/ part = "stores" /\ StoreNext /\ UNCHANGED <<vars, replayVars, gateVars>>
       \/ part = "replay" /\ ReplayNext /\ UNCHANGED <<vars, storeVars, gateVars>>
       \/ part = "gates" /\ GatesNext /\ UNCHANGED <<vars, storeVars, replayVars>>
PeersSpec ==
    PeersInit /\ [][PeersNext]_<<vars, storeVars, replayVars, gateVars>>
=============================================================================
