-------------------------- MODULE CelestiaAggregates --------------------------
(***************************************************************************)
(* workers/celestia/header.py and share_parser.py together: CelestiaHeader *)
(* says when a row of celestia_block_blobs is written and under which      *)
(* height, ShareParser which counts _collect_block_blobs finds in the      *)
(* square it got for the block.                                            *)
(***************************************************************************)
EXTENDS CelestiaHeader, ShareParser

CONSTANTS
    Block,        \* what the block of a height is made of
    Side          \* the side of its original square

ASSUME BlockAssumption ==
    \A h \in Height \ EmptyBlock : Side[h] \in Nat \ {0} /\ IsBlock(Block[h], Side[h])

VARIABLE counts   \* blob_count, total_blob_bytes, namespace_count of each row

NoCounts == <<0, 0, 0>>

AggregatesInit == Init /\ counts = [h \in Height |-> NoCounts]

\* count_blobs of what share.GetEDS returns for a block
CountsOf(h) == CountBlobs(Extended(Block[h], 2 * Side[h]), 2 * Side[h])

\* The turn of a run that has come to block start[w]: INSERT .. ON CONFLICT (height) DO UPDATE
CollectCounts(w) ==
    /\ Collect(w)
    /\ \E new \in Collected(start[w]) :
        /\ blobs' = blobs \union new
        /\ counts' = [h \in Height |-> IF h \in new THEN CountsOf(start[w]) ELSE counts[h]]

AggregatesNext ==
    \/ Next /\ blobs' = blobs /\ counts' = counts
    \/ \E w \in Worker : CollectCounts(w)

AggregatesSpec == AggregatesInit /\ [][AggregatesNext]_<<vars, counts>> /\ Fairness

-----------------------------------------------------------------------------
\* Whichever runs wrote it, and however often, a row has the number, the total length and
\* the namespaces of the blobs that went into the block of its height.
CountsAgree == \A h \in blobs : counts[h] = Contents(Block[h])

===============================================================================
