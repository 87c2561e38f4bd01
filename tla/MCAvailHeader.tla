--------------------------- MODULE MCAvailHeader ---------------------------
(* Instances of AvailHeader for TLC.                                       *)
EXTENDS AvailHeader, TLC

=============================================================================
