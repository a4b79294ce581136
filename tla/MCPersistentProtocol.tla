------------------------ MODULE MCPersistentProtocol ------------------------
(* Small instances of PersistentProtocol for TLC. *)
EXTENDS PersistentProtocol, TLC

(* How many Regular messages each end sends. *)
ClientTwo == [p \in Peer |-> IF p = "client" THEN 2 ELSE 0]
TwoAndOne == [p \in Peer |-> IF p = "client" THEN 2 ELSE 1]
OneEach == [p \in Peer |-> 1]

PayloadSymmetry == Permutations(Payload)

=============================================================================
