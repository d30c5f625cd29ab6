----------------------------- MODULE Rendezvous -----------------------------
(***************************************************************************)
(* What one use of a blocking operation's start latch promises: nobody     *)
(* gets past the rendezvous before everybody has come to it, and everybody *)
(* gets past it in the end.                                                *)
(***************************************************************************)
CONSTANT Threads

VARIABLES arrived,    \* the threads that have come to the rendezvous
          passed      \* the threads that have got past it

vars == <<arrived, passed>>

Init == arrived = {} /\ passed = {}

Arrive(t) == /\ t \notin arrived
             /\ arrived' = arrived \cup {t}
             /\ UNCHANGED passed

Pass(t) == /\ arrived = Threads
           /\ t \notin passed
           /\ passed' = passed \cup {t}
           /\ UNCHANGED arrived

Next == \E t \in Threads : Arrive(t) \/ Pass(t)

SafeSpec == Init /\ [][Next]_vars

Spec == SafeSpec /\ WF_vars(Next)
=============================================================================
