------------------------------ MODULE MCRetrieve ------------------------------
(* Instances of Retrieve for TLC.                                          *)
EXTENDS Retrieve, TLC

\* Runs do not differ in anything but their name.
WorkerSymmetry == Permutations(Worker)

\* As many buckets as it takes for a slow run to miss the tolerance.
MCBuckets == <<10, 20, 30>>

=============================================================================
