----------------------------- MODULE CelestiaTable -----------------------------
(***************************************************************************)
(* workers/celestia/header.py and workers/celestia/shares_check.py over    *)
(* one table headers, which is empty when the two begin: CelestiaHeader    *)
(* inserts the rows of a run in one transaction, SharesCheck gives every   *)
(* row its verdict.  As in AvailTable a row is a height and a number.      *)
(* This module is there for the theorems of CelestiaHeaderProofs; what     *)
(* must happen in the end is stated, and checked, of the two jobs alone.   *)
(***************************************************************************)
EXTENDS CelestiaHeader

CONSTANTS
    Checker,                      \* runs of the check that can overlap
    MAX_CHECKS_PER_RUN,           \* MAX_BLOCKS_PER_RUN of shares_check.py
    MaxCheckCrash                 \* bound: runs of the check that die

\* What SharesCheck assumes of them.
CheckBounds ==
    IsFiniteSet(Checker) /\ MAX_CHECKS_PER_RUN \in Nat /\ MaxCheckCrash \in Nat

VARIABLES verdict, checkedAt, samples, pending, open, now, checkCrashes

\* The k-th row of height h, for as many as DuplicatesBounded allows.
Row == Height \X (1 .. Cardinality(Worker))
HeightOf == [r \in Row |-> r[1]]

inserted == {r \in Row : r[2] <= rows[r[1]]}

Verdicts == INSTANCE SharesCheck WITH
    Worker <- Checker, stored <- inserted, crashes <- checkCrashes, MaxCrash <- MaxCheckCrash,
    MAX_BLOCKS_PER_RUN <- MAX_CHECKS_PER_RUN

checkVars == <<verdict, checkedAt, samples, pending, open, now, checkCrashes>>
tableVars == <<vars, checkVars>>

-----------------------------------------------------------------------------
TableInit == Init /\ Verdicts!Init

CollectHeaders == Next /\ UNCHANGED checkVars

StartCheck(c) == UNCHANGED vars /\ Verdicts!Start(c)
BeginCheck(c) == UNCHANGED vars /\ Verdicts!Begin(c)
CommitCheck(c) == UNCHANGED vars /\ Verdicts!Commit(c)
CheckDies(c) == UNCHANGED vars /\ Verdicts!Die(c)

TableNext ==
    \/ CollectHeaders
    \/ \E c \in Checker : StartCheck(c) \/ BeginCheck(c) \/ CommitCheck(c) \/ CheckDies(c)

TableSpec == TableInit /\ [][TableNext]_tableVars

-----------------------------------------------------------------------------
\* What the check takes for granted of the other job holds: rows appear, those of a run at
\* once, and none ever changes or goes away under a check that has it in its batch.
HeadersOnlyAppear == Verdicts!Init /\ [][Verdicts!Next]_(Verdicts!vars)

\* A block has a verdict when one of its rows has one.  Blocks keep what Settlement promises
\* of rows, though more rows of a block may come after its first verdict: it keeps it, and it
\* has a sample to show.
OfBlocks == INSTANCE Settlement WITH
    Row <- Height,
    sampled <- {r[1] : r \in {s.row : s \in samples}},
    settled <- {r[1] : r \in {q \in Row : verdict[q] # Verdicts!Null}}

BlocksAreSettled == OfBlocks!Safety

===============================================================================
