---------------------------- MODULE MCAvailTable ----------------------------
(* Instances of AvailTable for TLC.                                        *)
EXTENDS AvailTable, TLC

=============================================================================
