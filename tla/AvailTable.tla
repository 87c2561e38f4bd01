------------------------------ MODULE AvailTable ------------------------------
(***************************************************************************)
(* workers/avail/header.py and workers/avail/availability_check.py over    *)
(* one table headers: AvailHeader inserts the rows, AvailabilityCheck      *)
(* settles them, and no run of one knows of the runs of the other.  The    *)
(* header job can insert a block more than once, so a row is a height and  *)
(* a number; what readers want to know is whether the block is settled.    *)
(***************************************************************************)
EXTENDS AvailHeader

CONSTANTS
    Checker,                      \* runs of the check that can overlap
    Confidence,
    SETTLE_CONFIDENCE_THRESHOLD,
    MAX_ATTEMPTS,
    MAX_PENDING_PER_RUN,
    MaxCheckCrash                 \* bound: runs of the check that die

ASSUME CheckAssumption ==
    /\ Confidence \subseteq Nat
    /\ SETTLE_CONFIDENCE_THRESHOLD \in Nat \ {0} /\ MAX_ATTEMPTS \in Nat \ {0}
    /\ MAX_PENDING_PER_RUN \in Nat /\ MaxCheckCrash \in Nat

VARIABLES attempts, maxConf, settled, samples, sampleCount, pending, answered, shared, checkCrashes

\* The k-th row of height h, for as many as DuplicatesBounded allows.
Row == Height \X (1 .. Cardinality(Worker))
HeightOf == [r \in Row |-> r[1]]

inserted == {r \in Row : r[2] <= rows[r[1]]}

Check == INSTANCE AvailabilityCheck WITH
    Worker <- Checker, stored <- inserted, crashes <- checkCrashes, MaxCrash <- MaxCheckCrash

checkVars ==
    <<attempts, maxConf, settled, samples, sampleCount, pending, answered, shared, checkCrashes>>
tableVars == <<vars, checkVars>>

-----------------------------------------------------------------------------
TableInit == Init /\ Check!Init

CollectHeaders == Next /\ UNCHANGED checkVars

StartCheck(c) == UNCHANGED vars /\ Check!Start(c)
SampleRow(c) == UNCHANGED vars /\ Check!TakeSample(c)
UpdateRow(c) == UNCHANGED vars /\ Check!UpdateHeader(c)
CheckDies(c) == UNCHANGED vars /\ Check!Die(c)

TableNext ==
    \/ CollectHeaders
    \/ \E c \in Checker : StartCheck(c) \/ SampleRow(c) \/ UpdateRow(c) \/ CheckDies(c)

\* That of the two jobs: see there.
TableFairness ==
    /\ Fairness
    /\ WF_tableVars(\E c \in Checker : StartCheck(c))
    /\ \A c \in Checker : WF_tableVars(SampleRow(c) \/ UpdateRow(c))

TableSpec == TableInit /\ [][TableNext]_tableVars /\ TableFairness

-----------------------------------------------------------------------------
\* What the check takes for granted of the other job holds: rows appear, one at a time, and
\* none ever changes or goes away under a run that has it in its batch.
HeadersOnlyAppear == Check!Init /\ [][Check!Next]_(Check!vars)

\* A block is settled when one of its rows is.  Blocks keep what Settlement promises of rows,
\* though more rows of a block may come after it was settled: it stays settled, it has a
\* sample to show, and no block in the table waits for ever.
Blocks == INSTANCE Settlement WITH
    Row <- Height,
    sampled <- {s.row[1] : s \in samples},
    settled <- {r[1] : r \in settled}

BlocksAreSettled == Blocks!Spec

===============================================================================
