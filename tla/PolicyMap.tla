----------------------------- MODULE PolicyMap ------------------------------
(***************************************************************************)
(* What the policy store promises, seen abstractly: a map from names to    *)
(* policy texts and the code compiled from it.  A text that lets the map   *)
(* compile changes map and code together; one that makes the compilation   *)
(* raise anything but PolicyError changes the map only; a refused one      *)
(* changes nothing.                                                        *)
(***************************************************************************)
CONSTANTS Names, Texts, NoText, NoCode,
          Compiles(_),  \* the texts of a map compile together
          Raises(_)     \* their compilation ends in an unforeseen exception

VARIABLES store, code

Empty == [n \in Names |-> NoText]

Init == store = Empty /\ code = NoCode

Clear == store' = Empty /\ code' = NoCode

Set(n, text) ==
  /\ store' = [store EXCEPT ![n] = text]
  /\ \/ Compiles(store') /\ code' = store'
     \/ Raises(store') /\ UNCHANGED code

Next == Clear \/ \E n \in Names, text \in Texts \cup {NoText} : Set(n, text)

Spec == Init /\ [][Next]_<<store, code>>
=============================================================================
