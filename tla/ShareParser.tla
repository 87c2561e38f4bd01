----------------------------- MODULE ShareParser -----------------------------
(***************************************************************************)
(* workers/celestia/share_parser.py: count_blobs, which finds the blobs of *)
(* a block in the shares of its extended data square, and the square it    *)
(* reads, as Celestia lays one out: the items of a block one after the     *)
(* other in the original square, row by row, tail padding behind them, and *)
(* parity, which may look like anything, in the other three quadrants.     *)
(*                                                                         *)
(* A share has a namespace, a sequence start bit and a sequence length, in *)
(* units of what a share holds.  A namespace is its version, whether bytes *)
(* 1..26 of the id are zero or not, byte 27 and byte 28.                   *)
(***************************************************************************)
EXTENDS Integers, Sequences, FiniteSets, SequencesExt

\* _is_reserved_namespace: bytes 1..27 decide, the last one can be anything.
IsReserved(ns) == ns[1] = 255 \/ \A i \in 1 .. 3 : ns[i] = 0

\* The indices of the original square in the row-major list of the extended one.
Positions(eds_size) ==
    LET ods_size == eds_size \div 2
    IN  {r * eds_size + c : r, c \in 0 .. ods_size - 1}

\* Mutation: padding counts.
BeginsBlobOrPadding(share) == ~IsReserved(share.ns) /\ share.start

\* The shares that are counted: not reserved, at a sequence start, and not padding.
BeginsBlob(share) == ~IsReserved(share.ns) /\ share.start /\ share.len # 0

\* count_blobs: blob_count, total_bytes (one element per unit) and len(namespaces).
CountBlobs(shares, eds_size) ==
    LET counted == {p \in Positions(eds_size) : BeginsBlob(shares[p + 1])}
        units == UNION {{p} \X (1 .. shares[p + 1].len) : p \in counted}
    IN  <<Cardinality(counted), Cardinality(units), Cardinality({shares[p + 1].ns : p \in counted})>>

-----------------------------------------------------------------------------
(* Squares.                                                                *)

TailPadding == <<0, 0, 0, 255>>

Namespace == (0 .. 255) \X {0, 1} \X (0 .. 255) \X (0 .. 255)

\* What a block is made of: transactions, whose shares have a format of their own, blobs
\* of any number of shares, and the shares of padding in front of a blob.
Items ==
    {item \in [kind : {"transactions", "blob", "padding"}, ns : Namespace, len : Nat \ {0}] :
        /\ item.kind = "transactions" => IsReserved(item.ns)
        /\ item.kind = "blob" => ~IsReserved(item.ns)
        /\ item.kind = "padding" => item.len = 1}

Shares(item) ==
    [i \in 1 .. item.len |->
        [ns |-> item.ns, start |-> i = 1, len |-> IF item.kind = "padding" \/ i > 1 THEN 0 ELSE item.len]]

Tail0 == [ns |-> TailPadding, start |-> TRUE, len |-> 0]
Parity == [ns |-> <<0, 1, 0, 0>>, start |-> TRUE, len |-> 2]

\* A list of items that fits into a square of this side.
IsBlock(items, ods_size) ==
    /\ items \in Seq(Items)
    /\ Len(FlattenSeq([i \in DOMAIN items |-> Shares(items[i])])) <= ods_size * ods_size

\* The list share.GetEDS returns for it.
Extended(items, eds_size) ==
    LET ods_size == eds_size \div 2
        data == FlattenSeq([i \in DOMAIN items |-> Shares(items[i])])
    IN  [k \in 1 .. eds_size * eds_size |->
            LET r == (k - 1) \div eds_size
                c == (k - 1) % eds_size
                i == r * ods_size + c + 1
            IN  IF r >= ods_size \/ c >= ods_size THEN Parity
                ELSE IF i <= Len(data) THEN data[i] ELSE Tail0]

\* How many blobs went into a block, their total length and how many namespaces.
Contents(items) ==
    LET written == {i \in DOMAIN items : items[i].kind = "blob"}
        units == UNION {{i} \X (1 .. items[i].len) : i \in written}
    IN  <<Cardinality(written), Cardinality(units), Cardinality({items[i].ns : i \in written})>>

==============================================================================
