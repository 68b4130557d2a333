--------------------------- MODULE MCPolicyStore ----------------------------
(* Small instances of PolicyStore. *)
EXTENDS PolicyStore, TLC

CONSTANTS good, bad, comment, empty

(* An empty directory, a policy file, a directory with a bad file and one  *)
(* whose first file is nothing but a comment.                              *)
SomeFiles ==
  {<< >>, DefaultName :> good, (1 :> good) @@ (LastName :> bad),
   (1 :> comment) @@ (LastName :> good)}
=============================================================================
