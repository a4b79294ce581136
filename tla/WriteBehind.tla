---------------------------- MODULE WriteBehind -----------------------------
(***************************************************************************)
(* What a Storage promises its window about the keys that nobody else      *)
(* writes: the database holds, at every moment, the whole of what the      *)
(* window had in memory at some earlier moment, never a mixture of two     *)
(* moments, and it only moves forward.  A window that ends loses what was  *)
(* not saved, at most the batch that is just being saved being saved.      *)
(***************************************************************************)
CONSTANT Image    \* what the memory, or the database, can hold

VARIABLES
    newest,  \* what the window has in memory
    batch,   \* what is being saved; equal to saved when nothing is
    saved    \* what the database holds

memory == <<newest, batch, saved>>

Init == saved \in Image /\ batch = saved /\ newest = saved

Write ==
    /\ newest' \in Image
    /\ UNCHANGED <<batch, saved>>

(* Begin to save all that is in memory now. *)
Take ==
    /\ batch = saved
    /\ batch' = newest
    /\ UNCHANGED <<newest, saved>>

Save ==
    /\ saved' = batch
    /\ UNCHANGED <<newest, batch>>

(* The window ends; the next one begins with what was saved. *)
Forget ==
    /\ saved' \in {saved, batch}
    /\ batch' = saved' /\ newest' = saved'

Next == Write \/ Take \/ Save \/ Forget

Spec == Init /\ [][Next]_memory

=============================================================================
