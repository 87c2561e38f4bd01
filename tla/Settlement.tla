----------------------------- MODULE Settlement -----------------------------
(***************************************************************************)
(* What the availability workers promise of a header row, whatever the DA  *)
(* layer: a row appears, it is sampled, and one day it is settled.  A row  *)
(* is settled once and for all, a settled row has at least one sample in   *)
(* block_availability_samples to show for it, and no row stays unsettled.  *)
(*                                                                         *)
(* AvailabilityCheck (Avail: up to three samples, two transactions per     *)
(* sample) and SharesCheck (Celestia: one sample, one transaction) both    *)
(* implement this specification, overlapping cron runs and crashes         *)
(* included.                                                               *)
(***************************************************************************)
EXTENDS Naturals

CONSTANT Row          \* the rows of table headers

VARIABLES stored,     \* rows the header worker has inserted
          sampled,    \* rows with a row in block_availability_samples
          settled     \* rows whose availability_settled_at is not NULL

vars == <<stored, sampled, settled>>

TypeOK ==
    /\ stored \subseteq Row
    /\ sampled \subseteq stored
    /\ settled \subseteq sampled

Init ==
    /\ stored = {}
    /\ sampled = {}
    /\ settled = {}

\* One transaction inserts a row, or those of several blocks.
Appear(new) ==
    /\ new \in SUBSET (Row \ stored)
    /\ stored' = stored \union new
    /\ UNCHANGED <<sampled, settled>>

Sample(r) ==
    /\ r \in stored
    /\ sampled' = sampled \union {r}
    /\ UNCHANGED <<stored, settled>>

\* The row is settled by a sample that is already recorded or that is
\* recorded in the same transaction.
Settle(r) ==
    /\ r \in stored \ settled
    /\ sampled' = sampled \union {r}
    /\ settled' = settled \union {r}
    /\ UNCHANGED stored

Next ==
    \/ \E new \in SUBSET (Row \ stored) : Appear(new)
    \/ \E r \in Row : Sample(r) \/ Settle(r)

Safety == Init /\ [][Next]_vars

\* No row waits for ever.
Settles == \A r \in Row : r \in stored ~> r \in settled

Spec == Safety /\ Settles

=============================================================================
