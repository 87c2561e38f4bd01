--------------------------- MODULE MCSharesCheck ---------------------------
(* Instances of SharesCheck for TLC: three header rows, two of which are   *)
(* of one block (recorded twice), and batches of at most two.              *)
EXTENDS SharesCheck, TLC

CONSTANTS r1, r2, r3

MCHeightOf == (r1 :> 7 @@ r2 :> 7 @@ r3 :> 8)

=============================================================================
