\* Heartbeats in any order, any number of times, from clocks that differ; objects
\* stored again and again, damaged, and lost with restarts; runs, comparisons and sessions
\* in any order, where inference answers as it likes.
SPECIFICATION PeersSpec
CONSTANTS
  peerA = peerA
  peerB = peerB
  keyA = keyA
  keyB = keyB
  keyX = keyX
  Nobody = nobody
  Peer = {peerA, peerB}
  Key = {keyA, keyB, keyX}
  Owner <- KeyOwners
  Node <- Nodes
  MaxAge = 1
  MaxSkew = 0
  Drift <- AheadOrNot
  MaxSeq = 2
  MaxTime = 4
  MaxSent = 3
  Data = {d1}
  Owners = {o1, o2}
  Stores = {plain, sealed}
  Encrypted = {sealed}
  Signing = {}
  Damaged = damaged
  MaxNonce = 3
  MaxLives = 3
  Runners = {r1, r2, r3}
  Sessions = {session1}
  Conditions = {cold, hot}
  Sampled = {hot}
  Inputs = {x1}
  Outputs = {y1, y2}
  NoConditions = none
  NoRunner = noRunner
  NoVerdict = noVerdict
  MaxRuns = 3
  GateNames = {"admission", "authorization", "guardrail", "tool", "server_model",
               "change_record", "source", "manifest", "trusted_key", "saving"}
  MaxChanges = 4
INVARIANTS CountedOnce AvailableIsRetrievable NoSelfVerification
PROPERTIES AliveIsRecent RefusalsStay
