----------------------------- MODULE HostLedger -----------------------------
(***************************************************************************)
(* What the policies use host_free.txt for, seen abstractly: an account of *)
(* host memory.  A policy step resizes one guest within its bounds and     *)
(* pays for it from, or pays it into, the account, which is never          *)
(* overdrawn.                                                              *)
(***************************************************************************)
EXTENDS Integers

CONSTANTS Guests, BalloonMin, BalloonMax

VARIABLES free,   \* memory the host can still hand out
          held    \* memory each guest holds or has been promised

Init == /\ free \in Nat
        /\ held \in [Guests -> BalloonMin .. BalloonMax]

Transfer(g, size) ==
  /\ free' = free - (size - held[g])
  /\ free' >= 0
  /\ held' = [held EXCEPT ![g] = size]

Next == \E g \in Guests, size \in BalloonMin .. BalloonMax : Transfer(g, size)

Spec == Init /\ [][Next]_<<free, held>>
=============================================================================
