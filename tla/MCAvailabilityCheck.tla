------------------------ MODULE MCAvailabilityCheck ------------------------
(* An instance of AvailabilityCheck for TLC.                               *)
EXTENDS AvailabilityCheck, TLC

CONSTANTS r1, r2

\* Two rows of different blocks; AvailTable.cfg has two of one block.
MCHeightOf == (r1 :> 7) @@ (r2 :> 8)

=============================================================================
