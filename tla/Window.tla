------------------------------- MODULE Window -------------------------------
(***************************************************************************)
(* What the piece window promises, without counter or mutex: at most       *)
(* WindowCap requests are in flight, plus one for every release that gave  *)
(* back a slot nobody held.                                                *)
(***************************************************************************)
EXTENDS Integers

CONSTANT WindowCap

VARIABLES held,    \* requests in flight: slots taken and not given back
          surplus  \* releases of a slot nobody held

windowVars == <<held, surplus>>

WindowInit == held = 0 /\ surplus = 0

Take == /\ held < WindowCap + surplus
        /\ held' = held + 1
        /\ UNCHANGED surplus

Give == /\ held > 0
        /\ held' = held - 1
        /\ UNCHANGED surplus

GiveAgain == /\ surplus' = surplus + 1
             /\ UNCHANGED held

WindowNext == Take \/ Give \/ GiveAgain

WindowSpec == WindowInit /\ [][WindowNext]_windowVars
=============================================================================
