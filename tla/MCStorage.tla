----------------------------- MODULE MCStorage ------------------------------
(* Small instances of Storage for TLC. *)
EXTENDS Storage, TLC

CONSTANTS w1, w2, a, b, c

(* w1 writes a and b alone, and w2 writes c. *)
TwoAndOne == (a :> {w1}) @@ (b :> {w1}) @@ (c :> {w2})
OnlyOne == (a :> {w1})

(* w1 writes twice, w2 once. *)
TwiceOnce == (w1 :> 2) @@ (w2 :> 1)
Twice == (w1 :> 2)

=============================================================================
