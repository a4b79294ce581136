--------------------------- MODULE ReliableChannel ---------------------------
(***************************************************************************)
(* What PersistentProtocol promises to the code above it: each end         *)
(* delivers what the other sent, in order and once, and a message is       *)
(* confirmed to its sender only after it was delivered.                    *)
(***************************************************************************)
EXTENDS Naturals, Sequences

CONSTANT Payload

VARIABLES
    sent,       \* sent[p]: what p was asked to send
    delivered,  \* delivered[p]: what p has delivered
    confirmed   \* confirmed[p]: how many messages of p are known delivered

channel == <<sent, delivered, confirmed>>

Peer == {"client", "server"}
Other(p) == IF p = "client" THEN "server" ELSE "client"

Init ==
    /\ sent = [p \in Peer |-> <<>>]
    /\ delivered = [p \in Peer |-> <<>>]
    /\ confirmed = [p \in Peer |-> 0]

Send(p) ==
    /\ \E d \in Payload : sent' = [sent EXCEPT ![p] = Append(@, d)]
    /\ UNCHANGED <<delivered, confirmed>>

(* p delivers the next message of the other end. *)
Deliver(p) ==
    LET next == Len(delivered[p]) + 1
    IN  /\ next <= Len(sent[Other(p)])
        /\ delivered' = [delivered EXCEPT ![p] = Append(@, sent[Other(p)][next])]

(* p learns that the other end delivered its first n messages. *)
Confirm(p) ==
    \E n \in confirmed[p] + 1 .. Len(delivered[Other(p)]) :
        confirmed' = [confirmed EXCEPT ![p] = n]

(* One arriving message may confirm, deliver, or do both. *)
Arrive(p) ==
    /\ Deliver(p) \/ UNCHANGED delivered
    /\ Confirm(p) \/ UNCHANGED confirmed
    /\ UNCHANGED sent

Next == \E p \in Peer : Send(p) \/ Arrive(p)

Spec == Init /\ [][Next]_channel

=============================================================================
