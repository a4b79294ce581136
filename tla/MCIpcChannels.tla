---------------------------- MODULE MCIpcChannels ---------------------------
(* Instances of IpcChannels for TLC. *)
EXTENDS IpcChannels, TLC

CONSTANTS c1, e1, late

OneChannel == [i \in Id |-> late]

=============================================================================
