---------------------------- MODULE NttByLevels ----------------------------
(***************************************************************************)
(* What the in-place transform promises: one whole level after another, in *)
(* exact integers, as the function NttLevel of NTT states it.              *)
(***************************************************************************)
EXTENDS NTT

CONSTANT Sources   \* signed polynomials that are transformed

VARIABLES p,      \* the prime
          level,  \* the next level, up to LOGN + 1
          g       \* the lanes before it

Init == /\ p \in Primes
        /\ level = 1
        /\ \E s \in Sources : g = NttInit(s, p)

Level == /\ level <= LOGN
         /\ g' = NttLevel(g, p, level)
         /\ level' = level + 1
         /\ p' = p

Next == Level

Safe == Init /\ [][Next]_<<p, level, g>>

Spec == Safe /\ WF_<<p, level, g>>(Next)
=============================================================================
