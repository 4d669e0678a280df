-------------------------------- MODULE Store --------------------------------
(***************************************************************************)
(* What the file promises: it has some pieces whole, and the process says  *)
(* of some of them that it has them.  It says so only of what is whole,    *)
(* nothing it has said so of is damaged, and it says so until it ends.     *)
(***************************************************************************)
EXTENDS FiniteSets

CONSTANT Pieces

VARIABLES whole, claimed

vars == <<whole, claimed>>

Init == whole \subseteq Pieces /\ claimed = {}

Gain(i) == whole' = whole \cup {i}

Damage(i) == i \notin claimed /\ whole' = whole \ {i}

Write(i) == (Gain(i) \/ Damage(i)) /\ UNCHANGED claimed

Claim == /\ claimed' \subseteq whole
         /\ claimed \subseteq claimed'
         /\ UNCHANGED whole

\* The process ends, by itself or not; a last write may be on its way.
End == /\ claimed' = {}
       /\ UNCHANGED whole \/ \E i \in Pieces : Gain(i) \/ Damage(i)

Next == Claim \/ End \/ \E i \in Pieces : Write(i)

Spec == Init /\ [][Next]_vars
=============================================================================
