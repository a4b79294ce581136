------------------------- MODULE MCRemoteConnection -------------------------
(* Small instances of RemoteConnection for TLC. *)
EXTENDS RemoteConnection, TLC

(* The sockets after the first are interchangeable in Handshake.cfg. *)
LaterSockets == Permutations(Socket \ {FirstSocket})

=============================================================================
