------------------------ MODULE CelestiaHeaderProofs ------------------------
(***************************************************************************)
(* Theorems about CelestiaHeader, for every finite set of overlapping      *)
(* runs, every chain length, batch limit and bootstrap distance.           *)
(*                                                                         *)
(* That the stored heights have no gap rests on two facts: a run that is   *)
(* about to insert starts right above a stored height, which stays stored, *)
(* and it inserts a prefix of the heights above it.  The first needs a     *)
(* table that is not empty when the runs begin to overlap: two runs that   *)
(* both bootstrap can leave a gap.                                         *)
(*                                                                         *)
(* A part of its own is about ShareParser, whose counts the second phase   *)
(* stores: they are right for a block of any size and make.                *)
(*                                                                         *)
(* Another is about CelestiaTable, where the shares check works on the     *)
(* rows the job inserts, as in AvailHeaderProofs.                          *)
(***************************************************************************)
EXTENDS CelestiaAggregates, CelestiaTable, FiniteSetTheorems, TLAPS

USE WorkerAssumption, BoundsAssumption, LimitsAssumption, HeightsAssumption

\* What a run in progress knows.
RunOK(w) ==
    /\ pc[w] = "fetch" => 1 <= start[w] /\ start[w] <= end[w]
    /\ pc[w] = "blobs" => /\ 1 <= start[w] /\ start[w] <= end[w]
                          /\ start[w] .. end[w] \subseteq stored

RunsOK == \A w \in Worker : RunOK(w)

IInv == TypeOK /\ RunsOK /\ BlobsOfStoredBlocks

LEMMA InitEstablishesIInv == Init => IInv
  BY DEF Init, IInv, TypeOK, RunsOK, RunOK, BlobsOfStoredBlocks, Height

\* The range ReadLast gives a run.
LEMMA FirstHeightType ==
    ASSUME NEW last \in Nat, NEW local_head \in Nat
    PROVE  /\ FirstHeight(last, local_head) \in Nat \ {0}
           /\ last # 0 => FirstHeight(last, local_head) = last + 1
<1>1. BootstrapStart(local_head) \in Nat \ {0}
  BY DEF BootstrapStart
<1> QED
  BY <1>1 DEF FirstHeight

LEMMA FinalHeightType ==
    ASSUME NEW first \in Nat, NEW local_head \in Nat, first <= local_head
    PROVE  /\ FinalHeight(first, local_head) \in Nat
           /\ first <= FinalHeight(first, local_head)
           /\ FinalHeight(first, local_head) <= local_head
  BY DEF FinalHeight

\* A run that ends disturbs nothing.
LEMMA FinishPreserves ==
    ASSUME TypeOK, RunsOK, NEW w \in Worker, Finish(w), head' = head, crashes' \in 0 .. MaxCrash,
           rows' \in [Height -> Nat], blobs' \subseteq Height, stored \subseteq stored'
    PROVE  TypeOK' /\ RunsOK'
<1>0. 0 \in 0 .. head
  BY DEF TypeOK, Height
<1>1. TypeOK'
  BY <1>0 DEF TypeOK, Finish
<1>2. RunsOK'
  BY DEF RunsOK, RunOK, Finish, TypeOK
<1> QED
  BY <1>1, <1>2

LEMMA NewHeadPreservesIInv ==
    ASSUME IInv, NewHead
    PROVE  IInv'
<1> USE DEF IInv, NewHead, local
<1>1. head \in Int /\ head' \in Height /\ head' > head
  BY DEF TypeOK, Height
<1>2. TypeOK'
  BY <1>1 DEF TypeOK
<1>3. stored' = stored
  BY DEF stored
<1> QED
  BY <1>2, <1>3 DEF RunsOK, RunOK, BlobsOfStoredBlocks

LEMMA ReadHeadPreservesIInv ==
    ASSUME IInv, NEW w \in Worker, ReadHead(w)
    PROVE  IInv'
<1> USE DEF IInv, ReadHead
<1>1. TypeOK'
  BY DEF TypeOK, Height
<1>2. stored' = stored
  BY DEF stored
<1> QED
  BY <1>1, <1>2 DEF RunsOK, RunOK, BlobsOfStoredBlocks, TypeOK

LEMMA ReadLastPreservesIInv ==
    ASSUME IInv, NEW w \in Worker, ReadLast(w)
    PROVE  IInv'
<1> USE DEF IInv
<1>1. UNCHANGED <<head, rows, blobs, crashes>> /\ stored' = stored
  BY DEF ReadLast, stored
<1>2. PICK last \in Height \union {0} :
        /\ IsLastHeight(last)
        /\ LET first == FirstHeight(last, lh[w])
           IN  IF first > lh[w] THEN Finish(w)
               ELSE /\ pc' = [pc EXCEPT ![w] = "fetch"]
                    /\ start' = [start EXCEPT ![w] = first]
                    /\ end' = [end EXCEPT ![w] = FinalHeight(first, lh[w])]
                    /\ UNCHANGED lh
  BY DEF ReadLast
<1>3. last \in Nat /\ lh[w] \in Nat /\ lh[w] <= head /\ head \in Nat
  BY DEF TypeOK, Height
<1>4. CASE FirstHeight(last, lh[w]) > lh[w]
  BY <1>1, <1>2, <1>4, FinishPreserves DEF TypeOK, BlobsOfStoredBlocks
<1>5. CASE ~(FirstHeight(last, lh[w]) > lh[w])
  <2> DEFINE first == FirstHeight(last, lh[w])
             final == FinalHeight(first, lh[w])
  <2>0. first \in Nat \ {0}
    BY <1>3, FirstHeightType
  <2>1. first \in Nat /\ first >= 1 /\ first <= lh[w]
    BY <1>3, <1>5, <2>0
  <2>2. final \in Nat /\ first <= final /\ final <= lh[w]
    BY <1>3, <2>1, FinalHeightType
  <2>3. /\ pc' = [pc EXCEPT ![w] = "fetch"]
        /\ start' = [start EXCEPT ![w] = first]
        /\ end' = [end EXCEPT ![w] = final]
        /\ UNCHANGED lh
    BY <1>2, <1>5
  <2> HIDE DEF first, final
  <2>4. TypeOK'
    <3>1. first \in 0 .. head /\ final \in 0 .. head
      BY <1>3, <2>1, <2>2
    <3> QED
      BY <1>1, <2>3, <3>1 DEF TypeOK
  <2>5. RunsOK'
    <3> SUFFICES ASSUME NEW v \in Worker PROVE RunOK(v)'
      BY DEF RunsOK
    <3>1. CASE v = w
      BY <2>1, <2>2, <2>3, <3>1 DEF RunOK, TypeOK
    <3>2. CASE v # w
      BY <1>1, <2>3, <3>2 DEF RunsOK, RunOK, TypeOK
    <3> QED
      BY <3>1, <3>2
  <2> QED
    BY <1>1, <2>4, <2>5 DEF BlobsOfStoredBlocks
<1> QED
  BY <1>4, <1>5

\* What an insertion does to the stored heights.
LEMMA InsertStores ==
    ASSUME IInv, NEW w \in Worker, Insert(w)
    PROVE  \E last \in Height :
             /\ start[w] \in Height /\ start[w] <= last /\ last <= end[w]
             /\ end' = [end EXCEPT ![w] = last]
             /\ rows' = [h \in Height |-> IF h \in start[w] .. last
                                          THEN rows[h] + 1 ELSE rows[h]]
             /\ rows' \in [Height -> Nat]
             /\ stored' = stored \union (start[w] .. last)
<1>1. PICK last \in start[w] .. end[w] :
        /\ rows' = [h \in Height |-> IF h \in start[w] .. last
                                     THEN rows[h] + 1 ELSE rows[h]]
        /\ end' = [end EXCEPT ![w] = last]
  BY DEF Insert, Fetched
<1>2. /\ start[w] \in Nat /\ end[w] \in Nat /\ end[w] <= head /\ head \in Height
      /\ 1 <= start[w] /\ rows \in [Height -> Nat]
  BY DEF IInv, TypeOK, RunsOK, RunOK, Insert, Height
<1>3. last \in Height /\ start[w] \in Height /\ start[w] .. last \subseteq Height
  BY <1>2 DEF Height
<1>4. rows' \in [Height -> Nat]
  BY <1>1, <1>2
<1>5. \A h \in Height : rows'[h] > 0 <=> (rows[h] > 0 \/ h \in start[w] .. last)
  BY <1>1, <1>2
<1>6. stored' = stored \union (start[w] .. last)
  BY <1>3, <1>5 DEF stored
<1>7. start[w] <= last /\ last <= end[w]
  BY <1>2
<1> QED
  BY <1>1, <1>3, <1>4, <1>6, <1>7

LEMMA InsertPreservesIInv ==
    ASSUME IInv, NEW w \in Worker, Insert(w)
    PROVE  IInv'
<1> USE DEF IInv
<1>1. PICK last \in Height :
        /\ start[w] \in Height /\ start[w] <= last /\ last <= end[w]
        /\ end' = [end EXCEPT ![w] = last]
        /\ rows' \in [Height -> Nat]
        /\ stored' = stored \union (start[w] .. last)
  BY InsertStores
<1>2. UNCHANGED <<head, blobs, lh, start, crashes>> /\ pc' = [pc EXCEPT ![w] = "blobs"]
  BY DEF Insert
<1>3. TypeOK'
  <2>1. last \in 0 .. head
    BY <1>1 DEF TypeOK, Height
  <2> QED
    BY <1>1, <1>2, <2>1 DEF TypeOK
<1>4. RunsOK'
  <2> SUFFICES ASSUME NEW v \in Worker PROVE RunOK(v)'
    BY DEF RunsOK
  <2>1. CASE v = w
    BY <1>1, <1>2, <2>1 DEF RunOK, TypeOK, Height
  <2>2. CASE v # w
    BY <1>1, <1>2, <2>2 DEF RunsOK, RunOK, TypeOK
  <2> QED
    BY <2>1, <2>2
<1>5. BlobsOfStoredBlocks'
  BY <1>1, <1>2 DEF BlobsOfStoredBlocks
<1> QED
  BY <1>3, <1>4, <1>5

LEMMA CollectPreservesIInv ==
    ASSUME IInv, NEW w \in Worker, Collect(w)
    PROVE  IInv'
<1> USE DEF IInv
<1>1. UNCHANGED <<head, rows, crashes>> /\ stored' = stored
  BY DEF Collect, stored
<1>2. /\ start[w] \in start[w] .. end[w]
      /\ start[w] .. end[w] \subseteq stored /\ start[w] <= end[w] /\ 1 <= start[w]
      /\ start[w] \in Nat /\ end[w] \in Nat /\ end[w] <= head /\ head \in Nat
  BY DEF Collect, RunsOK, RunOK, TypeOK, Height
<1>3. BlobsOfStoredBlocks' /\ blobs' \subseteq Height
  <2>1. blobs' \subseteq blobs \union {start[w]}
    BY DEF Collect, Collected
  <2> QED
    BY <1>1, <1>2, <2>1 DEF BlobsOfStoredBlocks, stored
<1>4. CASE start[w] = end[w]
  BY <1>1, <1>3, <1>4, FinishPreserves DEF Collect, TypeOK
<1>5. CASE start[w] # end[w]
  <2>1. UNCHANGED <<pc, lh, end>> /\ start' = [start EXCEPT ![w] = @ + 1]
    BY <1>5 DEF Collect
  <2>2. TypeOK'
    BY <1>1, <1>2, <1>3, <1>5, <2>1 DEF TypeOK
  <2>3. RunsOK'
    <3> SUFFICES ASSUME NEW v \in Worker PROVE RunOK(v)'
      BY DEF RunsOK
    <3>1. CASE v = w
      <4>1. start'[w] = start[w] + 1 /\ end'[w] = end[w] /\ pc'[w] = "blobs"
        BY <2>1 DEF TypeOK, Collect
      <4>2. start[w] + 1 .. end[w] \subseteq start[w] .. end[w]
        BY <1>2
      <4> QED
        BY <1>1, <1>2, <1>5, <3>1, <4>1, <4>2 DEF RunOK
    <3>2. CASE v # w
      BY <1>1, <2>1, <3>2 DEF RunsOK, RunOK, TypeOK
    <3> QED
      BY <3>1, <3>2
  <2> QED
    BY <1>3, <2>2, <2>3
<1> QED
  BY <1>4, <1>5

LEMMA NextPreservesIInv == IInv /\ [Next]_vars => IInv'
<1> SUFFICES ASSUME IInv, [Next]_vars
             PROVE  IInv'
  OBVIOUS
<1>1. CASE UNCHANGED vars
  BY <1>1 DEF vars, IInv, TypeOK, RunsOK, RunOK, BlobsOfStoredBlocks, stored
<1>2. ASSUME NEW w \in Worker, FetchNothing(w) PROVE IInv'
  <2>1. stored' = stored
    BY <1>2 DEF FetchNothing, stored
  <2> QED
    BY <1>2, <2>1, FinishPreserves DEF FetchNothing, IInv, TypeOK, BlobsOfStoredBlocks
<1>3. ASSUME NEW w \in Worker, Die(w) PROVE IInv'
  <2>1. stored' = stored
    BY <1>3 DEF Die, stored
  <2>2. crashes' \in 0 .. MaxCrash
    BY <1>3 DEF Die, IInv, TypeOK
  <2> QED
    BY <1>3, <2>1, <2>2, FinishPreserves DEF Die, IInv, TypeOK, BlobsOfStoredBlocks
<1> QED
  BY <1>1, <1>2, <1>3, NewHeadPreservesIInv, ReadHeadPreservesIInv,
     ReadLastPreservesIInv, InsertPreservesIInv, CollectPreservesIInv DEF Next

THEOREM Invariance == Spec => []IInv
<1> QED
  BY InitEstablishesIInv, NextPreservesIInv, PTL DEF Spec

\* Every variable keeps its type; no run works above the head it was told.
THEOREM TypeCorrect == Spec => []TypeOK
<1>1. IInv => TypeOK
  BY DEF IInv
<1> QED
  BY <1>1, Invariance, PTL

\* The blob table never has a block the header table does not have.
THEOREM BlobsAreOfStoredBlocks == Spec => []BlobsOfStoredBlocks
<1>1. IInv => BlobsOfStoredBlocks
  BY DEF IInv
<1> QED
  BY <1>1, Invariance, PTL

-----------------------------------------------------------------------------
(* The second phase comes to every block the first one has inserted.       *)

\* A run that still has the aggregate of h to do.
Owes(w, h) == pc[w] = "blobs" /\ h \in start[w] .. end[w]

LEMMA AccountedNext == IInv /\ AggregatesAccountedFor /\ [Next]_vars => AggregatesAccountedFor'
<1> SUFFICES ASSUME IInv, AggregatesAccountedFor, [Next]_vars,
                    NEW h \in stored' \ (blobs' \union missed' \union EmptyBlock \union InitialHeights)
             PROVE  \E w \in Worker : Owes(w, h)'
  BY DEF AggregatesAccountedFor, Owes
<1>0. h \in Height
  BY DEF stored
\* Whoever owed h before a step of another run still does.
<1>1. ASSUME NEW w \in Worker, pc[w] # "blobs", missed' = missed, blobs' = blobs, stored' = stored,
             \A v \in Worker \ {w} : pc'[v] = pc[v] /\ start'[v] = start[v] /\ end'[v] = end[v]
      PROVE  \E v \in Worker : Owes(v, h)'
  <2>1. PICK v \in Worker : Owes(v, h)
    BY <1>1 DEF AggregatesAccountedFor, Owes
  <2> QED
    BY <1>1, <2>1 DEF Owes
<1>2. CASE UNCHANGED vars \/ NewHead
  <2>1. UNCHANGED <<rows, blobs, missed, pc, start, end>> /\ stored' = stored
    BY <1>2 DEF vars, NewHead, local, stored
  <2> QED
    BY <2>1 DEF AggregatesAccountedFor, Owes
<1>3. ASSUME NEW w \in Worker, ReadHead(w) \/ ReadLast(w) \/ FetchNothing(w)
      PROVE  \E v \in Worker : Owes(v, h)'
  <2>1. pc[w] # "blobs" /\ UNCHANGED <<missed, blobs>> /\ stored' = stored
    BY <1>3 DEF ReadHead, ReadLast, FetchNothing, stored
  <2>2. \A v \in Worker \ {w} : pc'[v] = pc[v] /\ start'[v] = start[v] /\ end'[v] = end[v]
    BY <1>3 DEF ReadHead, ReadLast, FetchNothing, Finish, IInv, TypeOK
  <2> QED
    BY <1>1, <2>1, <2>2
<1>4. ASSUME NEW w \in Worker, Insert(w)
      PROVE  \E v \in Worker : Owes(v, h)'
  <2>1. PICK last \in start[w] .. end[w] :
          /\ rows' = [g \in Height |-> IF g \in start[w] .. last THEN rows[g] + 1 ELSE rows[g]]
          /\ end' = [end EXCEPT ![w] = last]
    BY <1>4 DEF Insert, Fetched
  <2>2. UNCHANGED <<blobs, missed, start>> /\ pc[w] = "fetch" /\ pc' = [pc EXCEPT ![w] = "blobs"]
    BY <1>4 DEF Insert
  <2>3. CASE h \in start[w] .. last
    BY <2>1, <2>2, <2>3 DEF Owes, IInv, TypeOK
  <2>4. CASE h \notin start[w] .. last
    <3>1. h \in stored
      BY <1>0, <2>1, <2>4 DEF stored
    <3>2. PICK v \in Worker : Owes(v, h)
      BY <2>2, <3>1 DEF AggregatesAccountedFor, Owes
    <3> QED
      BY <2>1, <2>2, <3>2 DEF Owes, IInv, TypeOK
  <2> QED
    BY <2>3, <2>4
<1>5. ASSUME NEW w \in Worker, Collect(w)
      PROVE  \E v \in Worker : Owes(v, h)'
  <2>1. h # start[w]
    BY <1>5 DEF Collect, Collected
  <2>2. h \in stored \ (blobs \union missed \union EmptyBlock \union InitialHeights)
    BY <1>5 DEF Collect, stored
  <2>3. PICK v \in Worker : Owes(v, h)
    BY <2>2 DEF AggregatesAccountedFor, Owes
  <2>4. CASE v # w
    BY <1>5, <2>3, <2>4 DEF Owes, Collect, Finish, IInv, TypeOK
  <2>5. CASE v = w
    <3>1. start[w] # end[w] /\ h \in start[w] + 1 .. end[w]
      BY <2>1, <2>3, <2>5 DEF Owes, IInv, TypeOK
    <3>2. UNCHANGED <<pc, end>> /\ start' = [start EXCEPT ![w] = @ + 1]
      BY <1>5, <3>1 DEF Collect
    <3> QED
      BY <2>3, <2>5, <3>1, <3>2 DEF Owes, IInv, TypeOK
  <2> QED
    BY <2>4, <2>5
<1>6. ASSUME NEW w \in Worker, Die(w)
      PROVE  \E v \in Worker : Owes(v, h)'
  <2>1. h \in stored \ (blobs \union missed \union EmptyBlock \union InitialHeights)
    BY <1>6 DEF Die, stored
  <2>2. PICK v \in Worker : Owes(v, h)
    BY <2>1 DEF AggregatesAccountedFor, Owes
  <2>3. v # w
    BY <1>6, <2>2 DEF Owes, Die
  <2> QED
    BY <1>6, <2>2, <2>3 DEF Owes, Die, Finish, IInv, TypeOK
<1> QED
  BY <1>2, <1>3, <1>4, <1>5, <1>6 DEF Next

\* However runs overlap, fail and die: a stored block without an aggregate is empty, or its
\* request failed, or the run that inserted it died, or is still at it.
THEOREM AggregatesAreAccountedFor == Spec => []AggregatesAccountedFor
<1>1. Init => AggregatesAccountedFor
  BY DEF Init, AggregatesAccountedFor, stored
<1> QED
  BY <1>1, AccountedNext, Invariance, PTL DEF Spec

-----------------------------------------------------------------------------
(* The stored heights have no gap.                                         *)

\* A run about to insert starts right above a stored height.
Anchored == \A w \in Worker : pc[w] = "fetch" => start[w] - 1 \in stored

ContiguousInv == Contiguous /\ stored # {} /\ Anchored

LEMMA ContiguousInit ==
    ASSUME InitialHeights # {}
    PROVE  Init => ContiguousInv
<1> SUFFICES ASSUME Init
             PROVE  ContiguousInv
  OBVIOUS
<1>1. stored = InitialHeights
  BY DEF Init, stored
<1> QED
  BY <1>1 DEF Init, ContiguousInv, Contiguous, Anchored

\* A gap-free set stays so when the heights right above one of its members are
\* added.
LEMMA ExtendInterval ==
    ASSUME NEW S \in SUBSET Nat, \A l, h \in S : l .. h \subseteq S,
           NEW first \in Nat, NEW last \in Nat, first - 1 \in S
    PROVE  \A l, h \in S \union (first .. last) : l .. h \subseteq S \union (first .. last)
<1> SUFFICES ASSUME NEW l \in S \union (first .. last),
                    NEW h \in S \union (first .. last), NEW g \in l .. h
             PROVE  g \in S \union (first .. last)
  OBVIOUS
<1>1. l \in Nat /\ h \in Nat /\ g \in Nat
  OBVIOUS
<1>2. CASE g < first
  <2>1. g <= first - 1
    BY <1>1, <1>2
  <2>2. l \in S
    BY <1>1, <1>2
  <2>3. g \in l .. first - 1
    BY <1>1, <2>1
  <2> QED
    BY <2>2, <2>3
<1>3. CASE g >= first /\ g > last
  <2>1. h \in S
    BY <1>1, <1>3
  <2>2. g \in first - 1 .. h
    BY <1>1, <1>3
  <2> QED
    BY <2>1, <2>2
<1>4. CASE g >= first /\ g <= last
  BY <1>1, <1>4
<1> QED
  BY <1>1, <1>2, <1>3, <1>4

LEMMA ContiguousReadLast ==
    ASSUME IInv, ContiguousInv, NEW w \in Worker, ReadLast(w)
    PROVE  ContiguousInv'
<1>1. stored' = stored
  BY DEF ReadLast, stored
<1>2. PICK last \in Height \union {0} :
        /\ IsLastHeight(last)
        /\ LET first == FirstHeight(last, lh[w])
           IN  IF first > lh[w] THEN Finish(w)
               ELSE /\ pc' = [pc EXCEPT ![w] = "fetch"]
                    /\ start' = [start EXCEPT ![w] = first]
  BY DEF ReadLast
<1>3. /\ last \in Nat /\ last # 0 /\ last \in stored /\ lh[w] \in Nat
  <2>1. last \in stored
    BY <1>2 DEF IsLastHeight, ContiguousInv
  <2>2. last \in Nat /\ last # 0
    BY <2>1 DEF stored, Height
  <2>3. lh[w] \in Nat
    BY DEF IInv, TypeOK, Height
  <2> QED
    BY <2>1, <2>2, <2>3
<1>4. FirstHeight(last, lh[w]) - 1 \in stored
  <2>1. FirstHeight(last, lh[w]) = last + 1
    BY <1>3, FirstHeightType
  <2> QED
    BY <1>3, <2>1
<1>5. Anchored'
  BY <1>1, <1>2, <1>4 DEF Anchored, ContiguousInv, Finish, IInv, TypeOK
<1> QED
  BY <1>1, <1>5 DEF ContiguousInv, Contiguous

LEMMA ContiguousInsert ==
    ASSUME IInv, ContiguousInv, NEW w \in Worker, Insert(w)
    PROVE  ContiguousInv'
<1>1. PICK last \in Height : /\ start[w] \in Height
                             /\ stored' = stored \union (start[w] .. last)
  BY InsertStores
<1>2. start[w] - 1 \in stored /\ stored \subseteq Nat /\ start[w] \in Nat /\ last \in Nat
  BY <1>1 DEF ContiguousInv, Anchored, Insert, stored, Height
<1>3. Contiguous'
  <2>1. \A l, h \in stored : l .. h \subseteq stored
    BY DEF ContiguousInv, Contiguous
  <2>2. \A l, h \in stored \union (start[w] .. last) :
            l .. h \subseteq stored \union (start[w] .. last)
    BY <1>2, <2>1, ExtendInterval
  <2> QED
    BY <1>1, <2>2 DEF Contiguous
<1>4. Anchored'
  BY <1>1 DEF ContiguousInv, Anchored, Insert, IInv, TypeOK
<1> QED
  BY <1>1, <1>3, <1>4 DEF ContiguousInv

LEMMA ContiguousNext == IInv /\ ContiguousInv /\ [Next]_vars => ContiguousInv'
<1> SUFFICES ASSUME IInv, ContiguousInv, [Next]_vars
             PROVE  ContiguousInv'
  OBVIOUS
<1>1. CASE rows' = rows /\ \A w \in Worker : pc'[w] = "fetch" =>
                               pc[w] = "fetch" /\ start'[w] = start[w]
  BY <1>1 DEF ContiguousInv, Contiguous, Anchored, stored
<1>2. CASE \E w \in Worker : ReadLast(w)
  BY <1>2, ContiguousReadLast
<1>3. CASE \E w \in Worker : Insert(w)
  BY <1>3, ContiguousInsert
<1>4. CASE UNCHANGED vars
  BY <1>1, <1>4 DEF vars
<1>5. CASE NewHead
  BY <1>1, <1>5 DEF NewHead, local
<1>6. ASSUME NEW w \in Worker, ReadHead(w)
      PROVE  rows' = rows /\ \A v \in Worker : pc'[v] = "fetch" =>
                                 pc[v] = "fetch" /\ start'[v] = start[v]
  BY <1>6 DEF ReadHead, IInv, TypeOK
<1>7. ASSUME NEW w \in Worker, FetchNothing(w) \/ Collect(w) \/ Die(w)
      PROVE  rows' = rows /\ \A v \in Worker : pc'[v] = "fetch" =>
                                 pc[v] = "fetch" /\ start'[v] = start[v]
  BY <1>7 DEF FetchNothing, Collect, Die, Finish, IInv, TypeOK
<1> QED
  BY <1>1, <1>2, <1>3, <1>4, <1>5, <1>6, <1>7 DEF Next

\* Once the table has a height, overlapping and dying runs leave no gap in it.
THEOREM StoredHeightsContiguous ==
    ASSUME InitialHeights # {}
    PROVE  Spec => []Contiguous
<1>1. ContiguousInv => Contiguous
  BY DEF ContiguousInv
<1> QED
  BY <1>1, ContiguousInit, ContiguousNext, Invariance, PTL DEF Spec

-----------------------------------------------------------------------------
(* Overlap duplicates a block at most once per run.                        *)

\* The runs that may still insert height h.
Behind(h) == {w \in Worker : pc[w] = "fetch" /\ start[w] <= h}

BehindBounded ==
    \A h \in Height :
        rows[h] > 0 => rows[h] + Cardinality(Behind(h)) <= Cardinality(Worker)

LEMMA BehindFinite ==
    ASSUME NEW h \in Height
    PROVE  /\ IsFiniteSet(Behind(h)) /\ IsFiniteSet(Behind(h)')
           /\ Cardinality(Worker) \in Nat
           /\ Cardinality(Behind(h)) \in Nat
           /\ Cardinality(Behind(h)') \in Nat
<1>1. Behind(h) \subseteq Worker /\ Behind(h)' \subseteq Worker
  BY DEF Behind
<1> QED
  BY <1>1, FS_Subset, FS_CardinalityType

LEMMA BehindInit == Init => BehindBounded
<1> SUFFICES ASSUME Init, NEW h \in Height, rows[h] > 0
             PROVE  rows[h] + Cardinality(Behind(h)) <= Cardinality(Worker)
  BY DEF BehindBounded
<1>1. Behind(h) = {}
  BY DEF Init, Behind
<1>2. rows[h] = 1
  BY DEF Init
<1>3. Cardinality(Behind(h)) = 0 /\ Cardinality(Worker) \in Nat /\ Cardinality(Worker) # 0
  BY <1>1, FS_EmptySet, FS_CardinalityType
<1> QED
  BY <1>2, <1>3

\* A step that inserts nothing and lets no run join those behind h.
LEMMA BehindShrinks ==
    ASSUME IInv, BehindBounded, rows' = rows,
           \A h \in stored : Behind(h)' \subseteq Behind(h)
    PROVE  BehindBounded'
<1> SUFFICES ASSUME NEW h \in Height, rows[h] > 0
             PROVE  rows[h] + Cardinality(Behind(h)') <= Cardinality(Worker)
  BY DEF BehindBounded
<1>1. Cardinality(Behind(h)') <= Cardinality(Behind(h))
  BY BehindFinite, FS_Subset DEF stored
<1> QED
  BY <1>1, BehindFinite DEF BehindBounded, IInv, TypeOK

LEMMA BehindReadLast ==
    ASSUME IInv, BehindBounded, NEW w \in Worker, ReadLast(w)
    PROVE  BehindBounded'
<1>1. rows' = rows
  BY DEF ReadLast
<1>2. PICK last \in Height \union {0} :
        /\ IsLastHeight(last)
        /\ LET first == FirstHeight(last, lh[w])
           IN  IF first > lh[w] THEN Finish(w)
               ELSE /\ pc' = [pc EXCEPT ![w] = "fetch"]
                    /\ start' = [start EXCEPT ![w] = first]
  BY DEF ReadLast
<1>3. \A h \in stored : Behind(h)' \subseteq Behind(h)
  <2> SUFFICES ASSUME NEW h \in stored PROVE Behind(h)' \subseteq Behind(h)
    OBVIOUS
  <2>1. /\ last \in stored /\ h <= last /\ last \in Nat /\ last # 0
        /\ h \in Nat /\ lh[w] \in Nat
    <3>1. last \in stored /\ h <= last
      BY <1>2 DEF IsLastHeight
    <3>2. last \in Nat /\ last # 0 /\ h \in Nat
      BY <3>1 DEF stored, Height
    <3>3. lh[w] \in Nat
      BY DEF IInv, TypeOK, Height
    <3> QED
      BY <3>1, <3>2, <3>3
  <2>2. FirstHeight(last, lh[w]) = last + 1
    BY <2>1, FirstHeightType
  <2> QED
    BY <1>2, <2>1, <2>2 DEF Behind, Finish, IInv, TypeOK
<1> QED
  BY <1>1, <1>3, BehindShrinks

LEMMA BehindInsert ==
    ASSUME IInv, BehindBounded, NEW w \in Worker, Insert(w)
    PROVE  BehindBounded'
<1>1. PICK last \in Height :
        rows' = [h \in Height |-> IF h \in start[w] .. last THEN rows[h] + 1 ELSE rows[h]]
  BY InsertStores
<1>2. /\ pc' = [pc EXCEPT ![w] = "blobs"] /\ start' = start /\ pc[w] = "fetch"
      /\ start[w] \in Nat
  BY DEF Insert, IInv, TypeOK
<1> SUFFICES ASSUME NEW h \in Height, rows'[h] > 0
             PROVE  rows'[h] + Cardinality(Behind(h)') <= Cardinality(Worker)
  BY DEF BehindBounded
<1>3. Behind(h)' = Behind(h) \ {w}
  BY <1>2 DEF Behind, IInv, TypeOK
<1>4. rows[h] \in Nat
  BY DEF IInv, TypeOK
<1>5. CASE h \notin start[w] .. last
  <2>1. rows'[h] = rows[h]
    BY <1>1, <1>5
  <2>2. Cardinality(Behind(h)') <= Cardinality(Behind(h))
    BY <1>3, BehindFinite, FS_Subset
  <2> QED
    BY <1>4, <2>1, <2>2, BehindFinite DEF BehindBounded
<1>6. CASE h \in start[w] .. last
  <2>1. rows'[h] = rows[h] + 1 /\ w \in Behind(h)
    BY <1>1, <1>2, <1>6 DEF Behind
  <2>2. Cardinality(Behind(h)') = Cardinality(Behind(h)) - 1
    <3>1. IsFiniteSet(Behind(h))
      BY BehindFinite
    <3>2. Cardinality(Behind(h) \ {w}) = Cardinality(Behind(h)) - 1
      BY <2>1, <3>1, FS_RemoveElement
    <3> QED
      BY <1>3, <3>2
  <2>3. Cardinality(Behind(h)) <= Cardinality(Worker)
    BY BehindFinite, FS_Subset DEF Behind
  <2>4. CASE rows[h] = 0
    BY <2>1, <2>2, <2>3, <2>4, BehindFinite
  <2>5. CASE rows[h] > 0
    BY <1>4, <2>1, <2>2, <2>5, BehindFinite DEF BehindBounded
  <2> QED
    BY <1>4, <2>4, <2>5
<1> QED
  BY <1>5, <1>6

LEMMA BehindNext == IInv /\ BehindBounded /\ [Next]_vars => BehindBounded'
<1> SUFFICES ASSUME IInv, BehindBounded, [Next]_vars
             PROVE  BehindBounded'
  OBVIOUS
<1>1. CASE rows' = rows /\ \A h \in stored : Behind(h)' \subseteq Behind(h)
  BY <1>1, BehindShrinks
<1>2. CASE UNCHANGED vars
  BY <1>1, <1>2 DEF vars, Behind
<1>3. CASE NewHead
  BY <1>1, <1>3 DEF NewHead, local, Behind
<1>4. ASSUME NEW w \in Worker, ReadHead(w) \/ FetchNothing(w) \/ Collect(w) \/ Die(w)
      PROVE  rows' = rows /\ \A h \in stored : Behind(h)' \subseteq Behind(h)
  BY <1>4 DEF ReadHead, FetchNothing, Collect, Die, Finish, Behind, IInv, TypeOK
<1> QED
  BY <1>1, <1>2, <1>3, <1>4, BehindReadLast, BehindInsert DEF Next

\* A height has at most as many header rows as there are runs that can overlap;
\* without overlap, one.
THEOREM DuplicatesAreBounded == Spec => []DuplicatesBounded
<1>1. IInv /\ BehindBounded => DuplicatesBounded
  <2> SUFFICES ASSUME IInv, BehindBounded, NEW h \in Height
               PROVE  rows[h] <= Cardinality(Worker)
    BY DEF DuplicatesBounded
  <2>1. rows[h] \in Nat
    BY DEF IInv, TypeOK
  <2> QED
    BY <2>1, BehindFinite DEF BehindBounded
<1> QED
  BY <1>1, BehindInit, BehindNext, Invariance, PTL DEF Spec

-----------------------------------------------------------------------------
(* ShareParser: what the rows of the second phase have in them.  Induction *)
(* over the items of a block goes by the least number of a set, as the     *)
(* claim cannot be handed to a theorem.                                    *)


\* Every set of numbers has a least one.
LEMMA LeastNumber ==
    ASSUME NEW S, S \subseteq Nat, S # {}
    PROVE  \E x \in S : \A y \in S : x <= y
<1> DEFINE R == OpToRel(<, Nat)
<1>1. IsWellFoundedOn(R, Nat)
  BY NatLessThanWellFounded
<1>2. PICK x \in S : \A y \in S : ~ (<<y, x>> \in R)
  <2> HIDE DEF R
  <2> QED
    BY <1>1, WFMin
<1>3. \A y \in S : ~(y < x)
  BY <1>2 DEF OpToRel
<1> HIDE DEF R
<1> QED
  BY <1>3

\* Induction up to n, with a set for the claim.
LEMMA Induction ==
    ASSUME NEW n \in Nat, NEW S, 0 \in S, \A m \in 0 .. n - 1 : m \in S => m + 1 \in S
    PROVE  \A m \in 0 .. n : m \in S
<1> DEFINE T == (0 .. n) \ S
<1> SUFFICES ASSUME T # {} PROVE FALSE
  OBVIOUS
<1>1. T \subseteq Nat
  OBVIOUS
<1>2. PICK x \in T : \A y \in T : x <= y
  <2> HIDE DEF T
  <2> QED
    BY <1>1, LeastNumber
<1>3. x \in 1 .. n /\ x - 1 \in 0 .. n - 1 /\ x - 1 \notin T
  BY <1>2
<1> QED
  BY <1>3

-----------------------------------------------------------------------------
(* FlattenSeq, step by step.                                               *)

Join(s, t) == s \o t

\* f is the recursive function of FlattenSeq for the first m elements of s.
Flattens(f, s, m) == f = [i \in 1 .. m |-> IF i = 1 THEN s[i] ELSE Join(f[i - 1], s[i])]

LEMMA FlattensExists ==
    ASSUME NEW n \in Nat, NEW s
    PROVE  \A m \in 0 .. n : \E f : Flattens(f, s, m)
<1> DEFINE S == {m \in 0 .. n : \E f : Flattens(f, s, m)}
<1>1. 0 \in S
  <2>1. Flattens([i \in 1 .. 0 |-> s], s, 0)
    BY DEF Flattens
  <2> QED
    BY <2>1
<1>2. ASSUME NEW m \in 0 .. n - 1, m \in S PROVE m + 1 \in S
  <2>1. PICK f : Flattens(f, s, m)
    BY <1>2
  <2> DEFINE g == [i \in 1 .. m + 1 |-> IF i <= m THEN f[i] ELSE IF i = 1 THEN s[i] ELSE Join(f[i - 1], s[i])]
  <2>2. \A i \in 1 .. m + 1 : g[i] = IF i = 1 THEN s[i] ELSE Join(g[i - 1], s[i])
    <3>1. \A i \in 1 .. m : g[i] = f[i] /\ f[i] = IF i = 1 THEN s[i] ELSE Join(f[i - 1], s[i])
      BY <2>1 DEF Flattens
    <3>2. ASSUME NEW i \in 1 .. m PROVE g[i] = IF i = 1 THEN s[i] ELSE Join(g[i - 1], s[i])
      <4>1. i # 1 => i - 1 \in 1 .. m
        OBVIOUS
      <4>2. i # 1 => g[i - 1] = f[i - 1]
        BY <3>1, <4>1, Zenon
      <4>3. g[i] = f[i] /\ f[i] = IF i = 1 THEN s[i] ELSE Join(f[i - 1], s[i])
        BY <3>1
      <4> HIDE DEF g
      <4> QED
        BY <4>2, <4>3
    <3>3. g[m + 1] = IF m + 1 = 1 THEN s[m + 1] ELSE Join(f[(m + 1) - 1], s[m + 1])
      <4>1. m + 1 \in 1 .. m + 1 /\ ~(m + 1 <= m)
        OBVIOUS
      <4> QED
        BY <4>1, Zenon
    <3>4. m + 1 # 1 => g[(m + 1) - 1] = f[(m + 1) - 1]
      <4>1. m + 1 # 1 => (m + 1) - 1 \in 1 .. m
        OBVIOUS
      <4> QED
        BY <3>1, <4>1, Zenon
    <3>5. \A i \in 1 .. m + 1 : i \in 1 .. m \/ i = m + 1
      OBVIOUS
    <3> HIDE DEF g
    <3> QED
      BY <3>2, <3>3, <3>4, <3>5, Zenon
  <2>3. Flattens(g, s, m + 1)
    <3>1. g = [i \in 1 .. m + 1 |-> g[i]]
      OBVIOUS
    <3> HIDE DEF g
    <3> QED
      BY <2>2, <3>1 DEF Flattens
  <2>4. m + 1 \in 0 .. n
    OBVIOUS
  <2> HIDE DEF g
  <2> QED
    BY <2>3, <2>4
<1> HIDE DEF S
<1>3. \A m \in 0 .. n : m \in S
  BY <1>1, <1>2, Induction
<1> QED
  BY <1>3 DEF S

LEMMA FlattenSeqFlattens ==
    ASSUME NEW X, NEW s \in Seq(X), Len(s) # 0
    PROVE  \E f : Flattens(f, s, Len(s)) /\ FlattenSeq(s) = f[Len(s)]
<1> DEFINE f == CHOOSE f : f = [i \in 1 .. Len(s) |-> IF i = 1 THEN s[i] ELSE f[i - 1] \o s[i]]
<1>1. FlattenSeq(s) = f[Len(s)]
  BY DEF FlattenSeq
<1>2. Len(s) \in Nat
  OBVIOUS
<1>3. \E g : Flattens(g, s, Len(s))
  <2> HIDE DEF f
  <2>1. Len(s) \in 0 .. Len(s)
    BY <1>2
  <2> QED
    BY <1>2, <2>1, FlattensExists
<1>4. Flattens(f, s, Len(s))
  BY <1>3 DEF Flattens, Join
<1> QED
  BY <1>1, <1>4

\* The sequences FlattenSeq goes through: each is the one before and the next element.
LEMMA FlattenSteps ==
    ASSUME NEW X, NEW s \in Seq(Seq(X)), s # <<>>
    PROVE  \E f \in [0 .. Len(s) -> Seq(X)] :
               /\ f[0] = <<>> /\ f[Len(s)] = FlattenSeq(s)
               /\ \A i \in 1 .. Len(s) : f[i] = f[i - 1] \o s[i]
<1>1. Len(s) \in Nat /\ Len(s) > 0 /\ \A i \in 1 .. Len(s) : s[i] \in Seq(X)
  OBVIOUS
<1>2. PICK f : Flattens(f, s, Len(s)) /\ FlattenSeq(s) = f[Len(s)]
  BY <1>1, FlattenSeqFlattens
<1>3. \A i \in 1 .. Len(s) : f[i] = IF i = 1 THEN s[i] ELSE f[i - 1] \o s[i]
  BY <1>2 DEF Flattens, Join
<1> DEFINE g == [i \in 0 .. Len(s) |-> IF i = 0 THEN <<>> ELSE f[i]]
           S == {i \in 0 .. Len(s) : g[i] \in Seq(X)}
<1>4. \A i \in 1 .. Len(s) : g[i] = g[i - 1] \o s[i]
  <2>1. <<>> \o s[1] = s[1]
    BY <1>1
  <2>2. ASSUME NEW i \in 1 .. Len(s), i # 1 PROVE g[i] = g[i - 1] \o s[i]
    <3>1. i - 1 \in 1 .. Len(s)
      BY <1>1, <2>2
    <3>2. g[i] = f[i] /\ g[i - 1] = f[i - 1]
      BY <1>1, <3>1
    <3> QED
      BY <1>3, <2>2, <3>2
  <2>3. g[1] = s[1] /\ g[0] = <<>>
    BY <1>1, <1>3
  <2>4. g[1] = g[1 - 1] \o s[1]
    <3> HIDE DEF g
    <3>1. 1 - 1 = 0
      OBVIOUS
    <3> QED
      BY <2>1, <2>3, <3>1, Zenon
  <2> HIDE DEF g
  <2> QED
    BY <2>2, <2>4, Zenon
<1>5. g[0] = <<>> /\ g[Len(s)] = FlattenSeq(s) /\ DOMAIN g = 0 .. Len(s)
  BY <1>1, <1>2
<1>6. g = [i \in 0 .. Len(s) |-> g[i]]
  OBVIOUS
<1> HIDE DEF g
<1>7. 0 \in S
  <2>1. <<>> \in Seq(X)
    OBVIOUS
  <2>2. 0 \in 0 .. Len(s)
    BY <1>1
  <2> QED
    BY <1>5, <2>1, <2>2, Zenon
<1>8. ASSUME NEW m \in 0 .. Len(s) - 1, m \in S PROVE m + 1 \in S
  <2>1. m + 1 \in 1 .. Len(s) /\ (m + 1) - 1 = m
    BY <1>1
  <2>2. g[m + 1] = g[m] \o s[m + 1]
    BY <1>4, <2>1
  <2>3. g[m] \in Seq(X) /\ s[m + 1] \in Seq(X)
    BY <1>1, <1>8, <2>1
  <2>4. g[m] \o s[m + 1] \in Seq(X)
    <3> HIDE DEF S
    <3> QED
      BY <2>3
  <2>5. m + 1 \in 0 .. Len(s)
    BY <1>1
  <2> QED
    BY <2>2, <2>4, <2>5, Zenon
<1>9. \A m \in 0 .. Len(s) : m \in S
  <2> HIDE DEF S
  <2> QED
    BY <1>1, <1>7, <1>8, Induction
<1> QED
  BY <1>4, <1>5, <1>6, <1>9

-----------------------------------------------------------------------------
(* Where the shares of an item are.                                        *)

\* What a block may be made of, whatever its namespaces and lengths: the items of
\* ShareParser are of this kind.
Item(item) ==
    /\ item.len \in Nat \ {0}
    /\ \/ item.kind = "transactions" /\ IsReserved(item.ns)
       \/ item.kind = "blob" /\ ~IsReserved(item.ns)
       \/ item.kind = "padding"

Parts(items) == [i \in DOMAIN items |-> Shares(items[i])]
Data(items) == FlattenSeq(Parts(items))
Written(items) == {i \in DOMAIN items : items[i].kind = "blob"}

Share(item, u) ==
    [ns |-> item.ns, start |-> u = 1, len |-> IF item.kind = "padding" \/ u > 1 THEN 0 ELSE item.len]

LEMMA SharesOfItem ==
    ASSUME NEW item, Item(item)
    PROVE  /\ DOMAIN Shares(item) = 1 .. item.len
           /\ \A u \in 1 .. item.len : Shares(item)[u] = Share(item, u)
           /\ \A X : (\A u \in 1 .. item.len : Share(item, u) \in X) => Shares(item) \in Seq(X)
           /\ Len(Shares(item)) = item.len
<1>1. Shares(item) = [u \in 1 .. item.len |-> Share(item, u)]
  BY DEF Shares, Share
<1>2. item.len \in Nat
  BY DEF Item
<1> QED
  BY <1>1, <1>2

\* The share of an item that count_blobs counts: the first of a blob.
LEMMA CountedShare ==
    ASSUME NEW item, Item(item), NEW u \in 1 .. item.len
    PROVE  BeginsBlob(Share(item, u)) <=> item.kind = "blob" /\ u = 1
<1>1. /\ Share(item, u).ns = item.ns /\ Share(item, u).start = (u = 1)
      /\ Share(item, u).len = IF item.kind = "padding" \/ u > 1 THEN 0 ELSE item.len
  BY DEF Share
<1>2. item.len \in Nat /\ item.len # 0 /\ u \in Nat
  BY DEF Item
<1>3. CASE item.kind = "blob"
  <2>1. ~IsReserved(item.ns) /\ item.kind # "padding"
    BY <1>3 DEF Item
  <2>2. u = 1 => Share(item, u).len # 0
    BY <1>1, <1>2, <2>1
  <2> QED
    BY <1>1, <1>3, <2>1, <2>2, Zenon DEF BeginsBlob
<1>4. CASE item.kind = "padding"
  <2>1. Share(item, u).len = 0 /\ item.kind # "blob"
    BY <1>1, <1>4
  <2> QED
    BY <2>1, Zenon DEF BeginsBlob
<1>5. CASE item.kind = "transactions"
  <2>1. IsReserved(item.ns) /\ item.kind # "blob"
    BY <1>5 DEF Item
  <2> QED
    BY <1>1, <2>1, Zenon DEF BeginsBlob
<1> QED
  BY <1>3, <1>4, <1>5 DEF Item

LEMMA Concatenation ==
    ASSUME NEW X, NEW s \in Seq(X), NEW t \in Seq(X)
    PROVE  /\ Len(s) \in Nat /\ Len(t) \in Nat /\ Len(s \o t) = Len(s) + Len(t)
           /\ \A j \in 1 .. Len(s) : (s \o t)[j] = s[j]
           /\ \A j \in 1 .. Len(t) : (s \o t)[Len(s) + j] = t[j]
OBVIOUS

LEMMA Within ==
    ASSUME NEW p \in Nat, NEW l \in Nat
    PROVE  /\ \A u \in 1 .. l : p + u \in 1 .. p + l
           /\ \A k \in 1 .. p : k \in 1 .. p + l
           /\ \A j \in 1 .. p + l : j \notin 1 .. p => j - p \in 1 .. l /\ j = p + (j - p)
OBVIOUS

\* The shares of the first m items lie in f[m] one item behind the other.
LaidOut(items, f, m) ==
    /\ \A i \in 1 .. m : \A u \in 1 .. items[i].len :
           /\ Len(f[i - 1]) + u \in 1 .. Len(f[m])
           /\ f[m][Len(f[i - 1]) + u] = Share(items[i], u)
    /\ \A j \in 1 .. Len(f[m]) : \E i \in 1 .. m : \E u \in 1 .. items[i].len : j = Len(f[i - 1]) + u

LEMMA OneBehindTheOther ==
    ASSUME NEW items, NEW n \in Nat, DOMAIN items = 1 .. n,
           \A i \in 1 .. n : Item(items[i]),
           NEW X, NEW f \in [0 .. n -> Seq(X)], f[0] = <<>>,
           \A i \in 1 .. n : Shares(items[i]) \in Seq(X) /\ f[i] = f[i - 1] \o Shares(items[i])
    PROVE  \A m \in 0 .. n : LaidOut(items, f, m)
<1> DEFINE S == {m \in 0 .. n : LaidOut(items, f, m)}
<1>1. 0 \in S
  <2>1. LaidOut(items, f, 0)
    BY DEF LaidOut
  <2> QED
    BY <2>1
<1>2. ASSUME NEW m \in 0 .. n - 1, m \in S PROVE m + 1 \in S
  <2>1. m + 1 \in 1 .. n /\ (m + 1) - 1 = m /\ m \in 0 .. n
    OBVIOUS
  <2> DEFINE it == items[m + 1]
             p == Len(f[m])
             q == Len(f[m + 1])
  <2>2. Item(it) /\ Shares(it) \in Seq(X) /\ f[m + 1] = f[m] \o Shares(it)
    BY <2>1
  <2>3. /\ Len(Shares(it)) = it.len /\ it.len \in Nat
        /\ \A u \in 1 .. it.len : Shares(it)[u] = Share(it, u)
    BY <2>2, SharesOfItem DEF Item
  <2>4. f[m] \in Seq(X) /\ f[m + 1] \in Seq(X)
    BY <2>1
  <2>5. /\ p \in Nat /\ q \in Nat /\ q = p + it.len
        /\ \A j \in 1 .. p : f[m + 1][j] = f[m][j]
        /\ \A j \in 1 .. it.len : f[m + 1][p + j] = Share(it, j)
    <3>1. /\ p \in Nat /\ Len(Shares(it)) \in Nat /\ q = p + Len(Shares(it))
          /\ \A j \in 1 .. p : f[m + 1][j] = f[m][j]
          /\ \A j \in 1 .. Len(Shares(it)) : f[m + 1][p + j] = Shares(it)[j]
      <4> DEFINE a == f[m]
                 b == Shares(it)
      <4>1. a \in Seq(X) /\ b \in Seq(X) /\ f[m + 1] = a \o b /\ p = Len(a) /\ q = Len(a \o b)
        BY <2>2, <2>4
      <4> HIDE DEF a, b, it, p, q
      <4>2. /\ Len(a) \in Nat /\ Len(b) \in Nat /\ Len(a \o b) = Len(a) + Len(b)
            /\ \A j \in 1 .. Len(a) : (a \o b)[j] = a[j]
            /\ \A j \in 1 .. Len(b) : (a \o b)[Len(a) + j] = b[j]
        BY <4>1, Concatenation
      <4> QED
        BY <4>1, <4>2, Zenon DEF a, b
    <3> HIDE DEF it, p, q
    <3>2. q \in Nat
      BY <3>1
    <3> QED
      BY <2>3, <3>1, <3>2, Zenon
  <2>8. LaidOut(items, f, m)
    BY <1>2
  <2>9. ASSUME NEW i \in 1 .. m + 1, NEW u \in 1 .. items[i].len
        PROVE  Len(f[i - 1]) + u \in 1 .. q /\ f[m + 1][Len(f[i - 1]) + u] = Share(items[i], u)
    <3>1. CASE i = m + 1
      <4>1. items[i] = it /\ f[i - 1] = f[m]
        BY <2>1, <3>1
      <4>2. u \in 1 .. it.len /\ Len(f[i - 1]) = p
        BY <4>1
      <4>3. p + u \in 1 .. q
        BY <2>5, <2>3, <4>2, Within
      <4> QED
        BY <2>5, <4>1, <4>2, <4>3, Zenon
    <3>2. CASE i # m + 1
      <4>1. i \in 1 .. m
        BY <3>2
      <4>2. Len(f[i - 1]) + u \in 1 .. p /\ f[m][Len(f[i - 1]) + u] = Share(items[i], u)
        BY <2>8, <4>1 DEF LaidOut
      <4> DEFINE k == Len(f[i - 1]) + u
      <4> HIDE DEF it, p, q, k
      <4>3. k \in 1 .. p /\ f[m][k] = Share(items[i], u)
        BY <4>2 DEF k
      <4>4. k \in 1 .. q
        BY <2>3, <2>5, <4>3, Within
      <4>5. f[m + 1][k] = f[m][k]
        BY <2>5, <4>3
      <4> QED
        BY <4>3, <4>4, <4>5, Zenon DEF k
    <3> QED
      BY <3>1, <3>2
  <2>10. ASSUME NEW j \in 1 .. q
         PROVE  \E i \in 1 .. m + 1 : \E u \in 1 .. items[i].len : j = Len(f[i - 1]) + u
    <3>1. CASE j \in 1 .. p
      <4>1. PICK i \in 1 .. m : \E u \in 1 .. items[i].len : j = Len(f[i - 1]) + u
        BY <2>8, <3>1 DEF LaidOut
      <4>2. i \in 1 .. m + 1
        OBVIOUS
      <4> QED
        BY <4>1, <4>2
    <3>2. CASE j \notin 1 .. p
      <4> HIDE DEF it, p, q
      <4>1. j - p \in 1 .. it.len /\ j = p + (j - p)
        BY <2>3, <2>5, <3>2, Within
      <4>2. items[m + 1] = it /\ Len(f[(m + 1) - 1]) = p /\ m + 1 \in 1 .. m + 1
        BY <2>1 DEF it, p
      <4> QED
        BY <4>1, <4>2, Zenon
    <3> QED
      BY <3>1, <3>2
  <2>11. LaidOut(items, f, m + 1)
    BY <2>9, <2>10 DEF LaidOut
  <2> QED
    BY <2>1, <2>11
<1> HIDE DEF S
<1>3. \A m \in 0 .. n : m \in S
  BY <1>1, <1>2, Induction
<1> QED
  BY <1>3 DEF S

\* Where the first share of each item is in the shares of a block.
FirstShares(items, n, pos) ==
    /\ pos \in [1 .. n -> 1 .. Len(Data(items))] /\ Len(Data(items)) \in Nat
    /\ \A i, k \in 1 .. n : pos[i] = pos[k] => i = k
    /\ \A i \in 1 .. n : Data(items)[pos[i]] = Share(items[i], 1) /\ items[i].len <= Len(Data(items))
    /\ \A j \in 1 .. Len(Data(items)) :
           BeginsBlob(Data(items)[j]) => \E i \in Written(items) : j = pos[i]

LEMMA FirstSharesExist ==
    ASSUME NEW items, NEW n \in Nat, DOMAIN items = 1 .. n, \A i \in 1 .. n : Item(items[i])
    PROVE  \E pos : FirstShares(items, n, pos)
<1>1. CASE n = 0
  <2>1. Data(items) = Parts(items) /\ Len(Parts(items)) = 0
    <3>1. Parts(items) = [i \in 1 .. 0 |-> Shares(items[i])]
      BY <1>1 DEF Parts
    <3>2. Len(Parts(items)) = 0
      BY <3>1
    <3> QED
      BY <3>2 DEF Data, FlattenSeq
  <2>2. FirstShares(items, n, [i \in 1 .. 0 |-> 0])
    BY <1>1, <2>1 DEF FirstShares
  <2> QED
    BY <2>2
<1>2. CASE n # 0
  <2> DEFINE X == UNION {{Share(items[i], u) : u \in 1 .. items[i].len} : i \in 1 .. n}
             parts == Parts(items)
  <2>1. \A i \in 1 .. n : \A u \in 1 .. items[i].len : Share(items[i], u) \in X
    OBVIOUS
  <2>2. \A i \in 1 .. n : Shares(items[i]) \in Seq(X)
    <3> HIDE DEF X
    <3> QED
      BY <2>1, SharesOfItem, Zenon
  <2>3. parts = [i \in 1 .. n |-> Shares(items[i])]
    BY DEF Parts
  <2> HIDE DEF X, parts
  <2>4. parts \in Seq(Seq(X)) /\ Len(parts) = n
    BY <2>2, <2>3
  <2>5. parts # <<>>
    BY <1>2, <2>4
  <2>6. PICK f \in [0 .. n -> Seq(X)] :
            /\ f[0] = <<>> /\ f[n] = FlattenSeq(parts)
            /\ \A i \in 1 .. n : f[i] = f[i - 1] \o parts[i]
    BY <2>4, <2>5, FlattenSteps
  <2>7. \A i \in 1 .. n : f[i] = f[i - 1] \o Shares(items[i])
    BY <2>3, <2>6
  <2>8. \A m \in 0 .. n : LaidOut(items, f, m)
    BY <2>2, <2>6, <2>7, OneBehindTheOther
  <2>9. Data(items) = f[n] /\ Len(f[n]) \in Nat
    <3>1. Data(items) = f[n]
      BY <2>6 DEF Data, parts
    <3> QED
      BY <2>6, <3>1
  <2>10. \A i \in 1 .. n : items[i].len \in Nat \ {0} /\ Len(f[i - 1]) \in Nat
    <3>1. \A i \in 1 .. n : items[i].len \in Nat \ {0}
      BY DEF Item
    <3>2. \A i \in 1 .. n : i - 1 \in 0 .. n
      OBVIOUS
    <3>3. \A i \in 1 .. n : f[i - 1] \in Seq(X)
      BY <2>6, <3>2
    <3>4. \A i \in 1 .. n : Len(f[i - 1]) \in Nat
      BY <3>3
    <3> QED
      BY <3>1, <3>4
  <2> DEFINE pos == [i \in 1 .. n |-> Len(f[i - 1]) + 1]
  <2>11. ASSUME NEW i \in 1 .. n
         PROVE  pos[i] \in 1 .. Len(f[n]) /\ f[n][pos[i]] = Share(items[i], 1) /\ items[i].len <= Len(f[n])
    <3>1. n \in 0 .. n /\ 1 \in 1 .. items[i].len /\ items[i].len \in 1 .. items[i].len
      BY <2>10
    <3>2. \A u \in 1 .. items[i].len :
              Len(f[i - 1]) + u \in 1 .. Len(f[n]) /\ f[n][Len(f[i - 1]) + u] = Share(items[i], u)
      BY <2>8, <3>1 DEF LaidOut
    <3>3. Len(f[i - 1]) + items[i].len <= Len(f[n])
      BY <3>1, <3>2
    <3>4. items[i].len <= Len(f[n])
      BY <2>9, <2>10, <3>3
    <3> QED
      BY <3>1, <3>2, <3>4
  <2>12. ASSUME NEW i \in 1 .. n, NEW k \in 1 .. n, i < k PROVE pos[i] < pos[k]
    <3>1. i \in 1 .. k - 1 /\ k - 1 \in 0 .. n /\ 1 \in 1 .. items[i].len
      BY <2>10, <2>12
    <3>2. Len(f[i - 1]) + 1 \in 1 .. Len(f[k - 1])
      BY <2>8, <3>1 DEF LaidOut
    <3>3. pos[i] = Len(f[i - 1]) + 1 /\ pos[k] = Len(f[k - 1]) + 1
      OBVIOUS
    <3> HIDE DEF pos
    <3> QED
      BY <2>10, <3>2, <3>3
  <2>13. ASSUME NEW i \in 1 .. n, NEW k \in 1 .. n, pos[i] = pos[k] PROVE i = k
    <3>1. pos[i] \in Int /\ pos[k] \in Int
      BY <2>10
    <3> HIDE DEF pos
    <3> QED
      BY <2>12, <2>13, <3>1
  <2>17. LaidOut(items, f, n)
    BY <2>8
  <2>14. ASSUME NEW j \in 1 .. Len(f[n]), BeginsBlob(f[n][j]) PROVE \E i \in Written(items) : j = pos[i]
    <3>1. PICK i \in 1 .. n : \E u \in 1 .. items[i].len : j = Len(f[i - 1]) + u
      BY <2>17, Zenon DEF LaidOut
    <3>2. PICK u \in 1 .. items[i].len : j = Len(f[i - 1]) + u
      BY <3>1
    <3>3. f[n][j] = Share(items[i], u)
      BY <2>17, <3>2, Zenon DEF LaidOut
    <3>4. items[i].kind = "blob" /\ u = 1
      BY <2>14, <3>3, CountedShare
    <3>5. i \in Written(items)
      BY <3>4 DEF Written
    <3> QED
      BY <3>2, <3>4, <3>5
  <2>15. pos \in [1 .. n -> 1 .. Len(f[n])]
    BY <2>11
  <2> HIDE DEF pos
  <2>16. FirstShares(items, n, pos)
    BY <2>9, <2>11, <2>13, <2>14, <2>15, Zenon DEF FirstShares
  <2> QED
    BY <2>16
<1> QED
  BY <1>1, <1>2

-----------------------------------------------------------------------------
(* Where the shares of a block are in the extended square.                 *)

\* The index of the j-th share.
Index(j, n) == ((j - 1) \div n) * (2 * n) + ((j - 1) % n)

LEMMA Digits ==
    ASSUME NEW b \in Nat \ {0}, NEW x \in Nat
    PROVE  x \div b \in Nat /\ x % b \in 0 .. b - 1 /\ x = (x \div b) * b + (x % b)
OBVIOUS

LEMMA DigitsUnique ==
    ASSUME NEW b \in Nat \ {0}, NEW r \in Nat, NEW c \in 0 .. b - 1
    PROVE  (r * b + c) \div b = r /\ (r * b + c) % b = c
<1> DEFINE x == r * b + c
           d == x \div b
           e == x % b
<1>1. x \in Nat
  <2>1. r * b \in Nat
    OBVIOUS
  <2> QED
    BY <2>1
<1>2. d \in Nat /\ e \in 0 .. b - 1 /\ x = d * b + e
  <2> HIDE DEF x
  <2> QED
    BY <1>1, Digits
<1>3. (d - r) * b = c - e
  <2>1. r * b + c = d * b + e
    BY <1>2
  <2> HIDE DEF d, e
  <2>2. (d - r) * b = d * b - r * b
    BY <1>2
  <2>3. d * b \in Int /\ r * b \in Int
    BY <1>2
  <2> QED
    BY <1>2, <2>1, <2>2, <2>3
<1> HIDE DEF x, d, e
<1> DEFINE k == d - r
<1>4. k \in Int /\ k * b = c - e
  BY <1>2, <1>3
<1> HIDE DEF k
<1>5. k > 0 => k * b >= b
  <2>1. k > 0 => k - 1 \in Nat /\ (k - 1) * b \in Nat
    BY <1>4
  <2>2. k * b = (k - 1) * b + b
    BY <1>4
  <2> QED
    BY <1>4, <2>1, <2>2
<1>6. k < 0 => k * b <= -b
  <2>1. k < 0 => (-k) - 1 \in Nat /\ ((-k) - 1) * b \in Nat
    BY <1>4
  <2>2. k * b = -(((-k) - 1) * b) - b
    BY <1>4
  <2> QED
    BY <1>4, <2>1, <2>2
<1>7. k = 0
  BY <1>2, <1>4, <1>5, <1>6
<1>8. d = r /\ c = e
  <2>1. c - e = 0
    BY <1>4, <1>7
  <2> QED
    BY <1>2, <1>7, <2>1 DEF k
<1> QED
  BY <1>8 DEF d, e, x

LEMMA InSquare ==
    ASSUME NEW b \in Nat \ {0}, NEW r \in 0 .. b - 1, NEW c \in 0 .. b - 1
    PROVE  r * b + c \in 0 .. b * b - 1
<1>1. (b - 1 - r) * b = b * b - b - r * b
  OBVIOUS
<1>2. (b - 1 - r) * b \in Nat /\ r * b \in Nat /\ b * b \in Nat
  OBVIOUS
<1> QED
  BY <1>1, <1>2

LEMMA RowsOfSquare ==
    ASSUME NEW n \in Nat \ {0}, NEW j \in 1 .. n * n
    PROVE  /\ (j - 1) \div n \in 0 .. n - 1 /\ (j - 1) % n \in 0 .. n - 1
           /\ j - 1 = ((j - 1) \div n) * n + ((j - 1) % n)
<1> DEFINE r == (j - 1) \div n
           c == (j - 1) % n
<1>1. n * n \in Nat
  OBVIOUS
<1>2. j - 1 \in Nat /\ j - 1 < n * n
  BY <1>1
<1>3. r \in Nat /\ c \in 0 .. n - 1 /\ j - 1 = r * n + c
  BY <1>2, Digits
<1> HIDE DEF r, c
<1>4. r >= n => (r - n) * n \in Nat
  BY <1>3
<1>5. (r - n) * n = r * n - n * n /\ r * n \in Nat
  BY <1>3
<1>6. r < n
  BY <1>1, <1>2, <1>3, <1>4, <1>5
<1>7. r \in 0 .. n - 1
  BY <1>3, <1>6
<1> QED
  BY <1>3, <1>7 DEF r, c

\* The row and the column of a share in the extended square are those in the original one.
LEMMA IndexDigits ==
    ASSUME NEW n \in Nat \ {0}, NEW j \in 1 .. n * n
    PROVE  /\ Index(j, n) \in 0 .. (2 * n) * (2 * n) - 1
           /\ Index(j, n) \div (2 * n) = (j - 1) \div n
           /\ Index(j, n) % (2 * n) = (j - 1) % n
<1> DEFINE r == (j - 1) \div n
           c == (j - 1) % n
           b == 2 * n
<1>1. r \in 0 .. n - 1 /\ c \in 0 .. n - 1
  BY RowsOfSquare
<1>2. Index(j, n) = r * b + c
  BY DEF Index
<1> HIDE DEF r, c
<1>3. b \in Nat \ {0} /\ r \in 0 .. b - 1 /\ c \in 0 .. b - 1 /\ r \in Nat
  BY <1>1
<1> HIDE DEF b
<1>4. r * b + c \in 0 .. b * b - 1
  BY <1>3, InSquare
<1>5. (r * b + c) \div b = r /\ (r * b + c) % b = c
  BY <1>3, DigitsUnique
<1> QED
  BY <1>2, <1>4, <1>5, Zenon DEF r, c, b

LEMMA PositionsAreIndices ==
    ASSUME NEW n \in Nat \ {0}
    PROVE  /\ Positions(2 * n) = {Index(j, n) : j \in 1 .. n * n}
           /\ \A j, k \in 1 .. n * n : Index(j, n) = Index(k, n) => j = k
<1>1. (2 * n) \div 2 = n
  OBVIOUS
<1>2. \A p : p \in Positions(2 * n) <=> \E r, c \in 0 .. n - 1 : p = r * (2 * n) + c
  BY <1>1 DEF Positions
<1>3. ASSUME NEW j \in 1 .. n * n PROVE Index(j, n) \in Positions(2 * n)
  <2> DEFINE r == (j - 1) \div n
             c == (j - 1) % n
  <2>1. r \in 0 .. n - 1 /\ c \in 0 .. n - 1
    BY RowsOfSquare
  <2>2. Index(j, n) = r * (2 * n) + c
    BY DEF Index
  <2> HIDE DEF r, c
  <2> QED
    BY <1>2, <2>1, <2>2
<1>4. ASSUME NEW p \in Positions(2 * n) PROVE \E j \in 1 .. n * n : p = Index(j, n)
  <2>1. PICK r \in 0 .. n - 1, c \in 0 .. n - 1 : p = r * (2 * n) + c
    BY <1>2, Zenon
  <2> DEFINE x == r * n + c
  <2>2. x \in 0 .. n * n - 1
    BY InSquare
  <2>3. x \div n = r /\ x % n = c
    BY DigitsUnique
  <2> HIDE DEF x
  <2>4. n * n \in Nat
    OBVIOUS
  <2>5. x + 1 \in 1 .. n * n /\ (x + 1) - 1 = x
    BY <2>2, <2>4
  <2>6. Index(x + 1, n) = r * (2 * n) + c
    BY <2>3, <2>5, Zenon DEF Index
  <2> QED
    BY <2>1, <2>5, <2>6, Zenon
<1>5. ASSUME NEW j \in 1 .. n * n, NEW k \in 1 .. n * n, Index(j, n) = Index(k, n) PROVE j = k
  <2>1. (j - 1) \div n = (k - 1) \div n /\ (j - 1) % n = (k - 1) % n
    BY <1>5, IndexDigits, Zenon
  <2>2. j - 1 = k - 1
    BY <2>1, RowsOfSquare, Zenon
  <2>3. n * n \in Nat
    OBVIOUS
  <2> QED
    BY <2>2, <2>3
<1> QED
  BY <1>3, <1>4, <1>5

\* The shares of a block are in the original square in their order, tail padding behind.
LEMMA ExtendedAt ==
    ASSUME NEW items, NEW n \in Nat \ {0}, NEW j \in 1 .. n * n
    PROVE  Extended(items, 2 * n)[Index(j, n) + 1] =
               IF j <= Len(Data(items)) THEN Data(items)[j] ELSE Tail0
<1> DEFINE p == Index(j, n)
           b == 2 * n
           r == (j - 1) \div n
           c == (j - 1) % n
           D == Data(items)
<1>1. b \div 2 = n
  OBVIOUS
<1>2. p \in 0 .. b * b - 1 /\ p \div b = r /\ p % b = c
  BY IndexDigits
<1>3. r \in 0 .. n - 1 /\ c \in 0 .. n - 1 /\ j - 1 = r * n + c
  BY RowsOfSquare
<1>4. D = FlattenSeq([i \in DOMAIN items |-> Shares(items[i])])
  BY DEF Data, Parts
<1>5. b \in Nat
  OBVIOUS
<1> HIDE DEF p, b, r, c, D
<1>6. p + 1 \in 1 .. b * b /\ (p + 1) - 1 = p
  <2>1. b * b \in Nat
    BY <1>5
  <2> QED
    BY <1>2, <2>1
<1>7. ~(r >= n) /\ ~(c >= n)
  BY <1>3
<1>8. r * n + c + 1 = j
  <2>1. r * n \in Nat /\ n * n \in Nat
    BY <1>3
  <2> QED
    BY <1>3, <2>1
<1> DEFINE at(k) == LET rr == (k - 1) \div b
                        cc == (k - 1) % b
                        i == rr * n + cc + 1
                    IN  IF rr >= n \/ cc >= n THEN Parity
                        ELSE IF i <= Len(D) THEN D[i] ELSE Tail0
<1>9. Extended(items, b) = [k \in 1 .. b * b |-> at(k)]
  BY <1>1, <1>4, Zenon DEF Extended
<1>10. at(p + 1) = IF j <= Len(D) THEN D[j] ELSE Tail0
  BY <1>2, <1>6, <1>7, <1>8, Zenon
<1> HIDE DEF at
<1>11. Extended(items, b)[p + 1] = at(p + 1)
  BY <1>6, <1>9, Zenon
<1> QED
  BY <1>10, <1>11, Zenon DEF p, b, D

-----------------------------------------------------------------------------
(* What is counted.                                                        *)

LEMMA SameCardinality ==
    ASSUME NEW S, NEW T, NEW f \in [S -> T], IsFiniteSet(S),
           \A x, y \in S : f[x] = f[y] => x = y,
           \A y \in T : \E x \in S : f[x] = y
    PROVE  Cardinality(T) = Cardinality(S)
<1>1. f \in Bijection(S, T)
  BY DEF Bijection, Injection, Surjection, IsInjective
<1> QED
  BY <1>1, FS_Bijection DEF ExistsBijection

LEMMA TailPaddingIsNotCounted == ~BeginsBlob(Tail0)
  BY DEF Tail0, TailPadding, BeginsBlob, IsReserved

\* count_blobs finds what a block is made of, whatever the namespaces and the lengths of
\* its blobs, in a square of any size it fits into: every blob once, none in the
\* padding, the transactions or the parity.
THEOREM CountBlobsIsExact ==
    ASSUME NEW items, NEW l \in Nat, DOMAIN items = 1 .. l, \A i \in 1 .. l : Item(items[i]),
           NEW n \in Nat \ {0}, Len(Data(items)) <= n * n
    PROVE  CountBlobs(Extended(items, 2 * n), 2 * n) = Contents(items)
<1>1. PICK pos : FirstShares(items, l, pos)
  BY FirstSharesExist
<1> DEFINE D == Data(items)
           E == Extended(items, 2 * n)
           W == Written(items)
           at == [i \in W |-> Index(pos[i], n)]
           counted == {p \in Positions(2 * n) : BeginsBlob(E[p + 1])}
<1>2. W \subseteq 1 .. l /\ \A i \in W : i \in 1 .. l /\ items[i].kind = "blob" /\ Item(items[i])
  BY DEF Written
<1>3. n * n \in Nat /\ Len(D) \in Nat /\ Len(D) <= n * n
  BY <1>1 DEF FirstShares
<1>4. \A i \in W : pos[i] \in 1 .. Len(D) /\ pos[i] \in 1 .. n * n /\ D[pos[i]] = Share(items[i], 1)
  <2>1. \A i \in W : pos[i] \in 1 .. Len(D) /\ D[pos[i]] = Share(items[i], 1)
    BY <1>1, <1>2 DEF FirstShares
  <2> HIDE DEF D, W
  <2> QED
    BY <1>3, <2>1
<1>5. \A i \in W : E[at[i] + 1] = Share(items[i], 1)
  <2>1. ASSUME NEW i \in W PROVE E[Index(pos[i], n) + 1] = Share(items[i], 1)
    <3>1. pos[i] <= Len(D)
      BY <1>4
    <3> QED
      BY <1>4, <3>1, ExtendedAt, Zenon
  <2> QED
    BY <2>1, Zenon
<1>6. \A i \in W : Share(items[i], 1).ns = items[i].ns /\ Share(items[i], 1).len = items[i].len
  <2>1. \A i \in W : items[i].kind # "padding"
    BY <1>2
  <2> QED
    BY <2>1 DEF Share
<1>7. ASSUME NEW i \in W PROVE at[i] \in counted
  <2>1. at[i] = Index(pos[i], n) /\ at[i] \in Positions(2 * n)
    BY <1>4, PositionsAreIndices
  <2>2. 1 \in 1 .. items[i].len
    BY <1>2 DEF Item
  <2>3. BeginsBlob(Share(items[i], 1))
    BY <1>2, <2>2, CountedShare
  <2> QED
    BY <1>5, <2>1, <2>3, Zenon
<1>8. ASSUME NEW p \in counted PROVE \E i \in W : at[i] = p
  <2>1. PICK j \in 1 .. n * n : p = Index(j, n)
    BY PositionsAreIndices
  <2>2. E[p + 1] = IF j <= Len(D) THEN D[j] ELSE Tail0
    BY <2>1, ExtendedAt, Zenon
  <2>3. BeginsBlob(E[p + 1])
    OBVIOUS
  <2>4. j <= Len(D) /\ BeginsBlob(D[j])
    BY <2>2, <2>3, TailPaddingIsNotCounted, Zenon
  <2>5. j \in 1 .. Len(D)
    BY <1>3, <2>4
  <2>6. PICK i \in W : j = pos[i]
    BY <1>1, <2>4, <2>5, Zenon DEF FirstShares
  <2> QED
    BY <2>1, <2>6, Zenon
<1>9. ASSUME NEW i \in W, NEW k \in W, at[i] = at[k] PROVE i = k
  <2>1. pos[i] = pos[k]
    BY <1>4, <1>9, PositionsAreIndices
  <2> QED
    BY <1>1, <1>2, <2>1 DEF FirstShares
<1>10. at \in [W -> counted]
  <2>1. at = [i \in W |-> at[i]]
    OBVIOUS
  <2> HIDE DEF at, W, counted
  <2> QED
    BY <1>7, <2>1
<1>11. IsFiniteSet(W)
  <2>1. IsFiniteSet(1 .. l)
    BY FS_Interval
  <2> HIDE DEF W
  <2> QED
    BY <1>2, <2>1, FS_Subset
<1> HIDE DEF at, W, counted, D, E
<1>12. Cardinality(counted) = Cardinality(W)
  BY <1>8, <1>9, <1>10, <1>11, SameCardinality, Zenon
<1>13. \A i \in W : E[at[i] + 1].ns = items[i].ns /\ E[at[i] + 1].len = items[i].len
  BY <1>5, <1>6, Zenon
<1>14. {E[p + 1].ns : p \in counted} = {items[i].ns : i \in W}
  BY <1>7, <1>8, <1>13
<1> DEFINE units == UNION {{p} \X (1 .. E[p + 1].len) : p \in counted}
           written == UNION {{i} \X (1 .. items[i].len) : i \in W}
           move == [x \in written |-> <<at[x[1]], x[2]>>]
<1>15. Cardinality(units) = Cardinality(written)
  <2>1. \A x : x \in written <=> \E i \in W : \E u \in 1 .. items[i].len : x = <<i, u>>
    OBVIOUS
  <2>2. \A x : x \in units <=> \E p \in counted : \E u \in 1 .. E[p + 1].len : x = <<p, u>>
    OBVIOUS
  <2>3. IsFiniteSet(written)
    <3>1. IsFiniteSet(1 .. l) /\ IsFiniteSet(1 .. Len(D))
      BY <1>3, FS_Interval
    <3>2. IsFiniteSet((1 .. l) \X (1 .. Len(D)))
      BY <3>1, FS_Product
    <3>3. ASSUME NEW i \in W, NEW u \in 1 .. items[i].len PROVE <<i, u>> \in (1 .. l) \X (1 .. Len(D))
      <4>1. i \in 1 .. l /\ items[i].len \in Nat
        BY <1>2 DEF Item
      <4>2. items[i].len <= Len(D)
        BY <1>1, <4>1, Zenon DEF FirstShares, D
      <4>3. u \in 1 .. Len(D)
        BY <1>3, <4>1, <4>2
      <4> QED
        BY <4>1, <4>3
    <3>4. written \subseteq (1 .. l) \X (1 .. Len(D))
      <4> HIDE DEF written
      <4> QED
        BY <2>1, <3>3
    <3> HIDE DEF written
    <3> QED
      BY <3>2, <3>4, FS_Subset
  <2> HIDE DEF units, written
  <2>4. ASSUME NEW i \in W, NEW u \in 1 .. items[i].len
        PROVE  <<i, u>> \in written /\ move[<<i, u>>] = <<at[i], u>> /\ <<at[i], u>> \in units
    <3>1. <<i, u>> \in written
      BY <2>1
    <3>2. move[<<i, u>>] = <<at[i], u>>
      BY <3>1
    <3>3. u \in 1 .. E[at[i] + 1].len
      BY <1>13
    <3>4. <<at[i], u>> \in units
      BY <1>7, <2>2, <3>3
    <3> QED
      BY <3>1, <3>2, <3>4
  <2>5. move = [x \in written |-> move[x]]
    OBVIOUS
  <2> HIDE DEF move
  <2>6. move \in [written -> units]
    <3>1. ASSUME NEW x \in written PROVE move[x] \in units
      <4>1. PICK i \in W : \E u \in 1 .. items[i].len : x = <<i, u>>
        BY <2>1
      <4>2. PICK u \in 1 .. items[i].len : x = <<i, u>>
        BY <4>1
      <4> QED
        BY <2>4, <4>2
    <3> QED
      BY <2>5, <3>1
  <2>7. ASSUME NEW x \in written, NEW y \in written, move[x] = move[y] PROVE x = y
    <3>1. PICK i \in W : \E u \in 1 .. items[i].len : x = <<i, u>>
      BY <2>1
    <3>2. PICK u \in 1 .. items[i].len : x = <<i, u>>
      BY <3>1
    <3>3. PICK k \in W : \E v \in 1 .. items[k].len : y = <<k, v>>
      BY <2>1
    <3>4. PICK v \in 1 .. items[k].len : y = <<k, v>>
      BY <3>3
    <3>5. <<at[i], u>> = <<at[k], v>>
      BY <2>4, <2>7, <3>2, <3>4, Zenon
    <3>6. i = k /\ u = v
      BY <1>9, <3>5
    <3> QED
      BY <3>2, <3>4, <3>6
  <2>8. ASSUME NEW y \in units PROVE \E x \in written : move[x] = y
    <3>1. PICK p \in counted : \E u \in 1 .. E[p + 1].len : y = <<p, u>>
      BY <2>2
    <3>2. PICK u \in 1 .. E[p + 1].len : y = <<p, u>>
      BY <3>1
    <3>3. PICK i \in W : at[i] = p
      BY <1>8
    <3>4. u \in 1 .. items[i].len
      BY <1>13, <3>3
    <3> QED
      BY <2>4, <3>2, <3>3, <3>4, Zenon
  <2> QED
    BY <2>3, <2>6, <2>7, <2>8, SameCardinality, Zenon
<1>16. W = {i \in DOMAIN items : items[i].kind = "blob"}
  BY DEF W, Written
<1>17. Contents(items) = <<Cardinality(W), Cardinality(written), Cardinality({items[i].ns : i \in W})>>
  BY <1>16, Zenon DEF Contents
<1>18. CountBlobs(E, 2 * n) = <<Cardinality(counted), Cardinality(units), Cardinality({E[p + 1].ns : p \in counted})>>
  BY Zenon DEF CountBlobs, counted
<1> HIDE DEF units, written
<1> QED
  BY <1>12, <1>14, <1>15, <1>17, <1>18, Zenon DEF E

LEMMA ItemsOfBlocks == \A item \in Items : Item(item)
<1> SUFFICES ASSUME NEW item \in Items PROVE Item(item)
  OBVIOUS
<1>1. /\ item.len \in Nat \ {0}
      /\ item.kind \in {"transactions", "blob", "padding"}
      /\ item.kind = "transactions" => IsReserved(item.ns)
      /\ item.kind = "blob" => ~IsReserved(item.ns)
  BY DEF Items
<1> QED
  BY <1>1, Zenon DEF Item

\* What is counted for a block is what the block is made of.
LEMMA BlocksAreCounted ==
    ASSUME NEW h \in Height \ EmptyBlock
    PROVE  CountsOf(h) = Contents(Block[h])
<1> DEFINE items == Block[h]
<1>1. Side[h] \in Nat \ {0} /\ IsBlock(items, Side[h])
  BY BlockAssumption
<1>2. items \in Seq(Items) /\ Len(Data(items)) <= Side[h] * Side[h]
  BY <1>1 DEF IsBlock, Data, Parts
<1>3. /\ Len(items) \in Nat /\ DOMAIN items = 1 .. Len(items)
      /\ \A i \in 1 .. Len(items) : items[i] \in Items
  BY <1>2
<1>4. \A i \in 1 .. Len(items) : Item(items[i])
  BY <1>3, ItemsOfBlocks
<1> HIDE DEF items
<1>5. CountBlobs(Extended(items, 2 * Side[h]), 2 * Side[h]) = Contents(items)
  BY <1>1, <1>2, <1>3, <1>4, CountBlobsIsExact
<1> QED
  BY <1>5 DEF CountsOf, items

\* The header job does with aggregates what it does without.
LEMMA AggregatesStep == [AggregatesNext]_<<vars, counts>> => [Next]_vars
BY DEF AggregatesNext, CollectCounts, Next

\* CountsAgree: an aggregate has the counts of the block of its height.  The squares may be of
\* any size, with any blobs in them; the runs may overlap and write it again.
THEOREM CountsAreRight == AggregatesSpec => []CountsAgree
<1> DEFINE Inv == IInv /\ CountsAgree
<1>1. AggregatesInit => Inv
  BY InitEstablishesIInv DEF AggregatesInit, Init, CountsAgree
<1>2. ASSUME Inv, [AggregatesNext]_<<vars, counts>>
      PROVE  Inv'
  <2>1. IInv'
    BY <1>2, AggregatesStep, NextPreservesIInv
  <2>2. CASE blobs' = blobs /\ counts' = counts
    BY <1>2, <2>1, <2>2 DEF CountsAgree
  <2>3. ASSUME NEW w \in Worker, CollectCounts(w)
        PROVE  CountsAgree'
    <3>1. PICK new \in Collected(start[w]) :
            /\ blobs' = blobs \union new
            /\ counts' = [h \in Height |-> IF h \in new THEN CountsOf(start[w]) ELSE counts[h]]
      BY <2>3 DEF CollectCounts
    <3>2. \A h \in new : h = start[w] /\ h \notin EmptyBlock
      BY <3>1 DEF Collected
    <3>3. blobs' \subseteq Height
      BY <2>1 DEF IInv, TypeOK
    <3> SUFFICES ASSUME NEW h \in blobs'
                 PROVE  counts'[h] = Contents(Block[h])
      BY DEF CountsAgree
    <3>4. CASE h \in new
      BY <3>1, <3>2, <3>3, <3>4, BlocksAreCounted
    <3>5. CASE h \notin new
      BY <1>2, <3>1, <3>3, <3>5 DEF CountsAgree
    <3> QED
      BY <3>4, <3>5
  <2>4. CASE UNCHANGED <<vars, counts>>
    BY <2>2, <2>4 DEF vars
  <2> QED
    BY <1>2, <2>1, <2>2, <2>3, <2>4 DEF AggregatesNext
<1>3. Inv => CountsAgree
  OBVIOUS
<1> QED
  BY <1>1, <1>2, <1>3, PTL DEF AggregatesSpec

-----------------------------------------------------------------------------
(* CelestiaTable: the header job and the shares check together.            *)

CheckProofs == INSTANCE SharesCheckProofs WITH
    Worker <- Checker, stored <- inserted, crashes <- checkCrashes, MaxCrash <- MaxCheckCrash,
    MAX_BLOCKS_PER_RUN <- MAX_CHECKS_PER_RUN

HeaderInv == IInv /\ BehindBounded

\* The check leaves the header job alone.
LEMMA HeaderStep == [TableNext]_tableVars => [Next]_vars
BY DEF TableNext, CollectHeaders, StartCheck, BeginCheck, CommitCheck, CheckDies, tableVars

LEMMA HeaderInvariance == TableInit /\ [][TableNext]_tableVars => []HeaderInv
<1>1. TableInit => HeaderInv
  BY InitEstablishesIInv, BehindInit DEF TableInit, HeaderInv
<1>2. HeaderInv /\ [TableNext]_tableVars => HeaderInv'
  BY HeaderStep, NextPreservesIInv, BehindNext DEF HeaderInv
<1> QED
  BY <1>1, <1>2, PTL

\* Only Insert changes table headers.
LEMMA RowsChange == [Next]_vars => rows' = rows \/ \E w \in Worker : Insert(w)
BY DEF Next, NewHead, ReadHead, ReadLast, FetchNothing, Collect, Die, vars

\* It adds one row to each height from the first to the last that was fetched.
LEMMA InsertAddsRows ==
    ASSUME IInv, DuplicatesBounded', NEW w \in Worker, Insert(w)
    PROVE  \E new \in (SUBSET (Row \ inserted)) \ {{}} : inserted' = inserted \union new
<1>1. PICK last \in Height :
        /\ start[w] \in Height /\ start[w] <= last
        /\ rows' = [h \in Height |-> IF h \in start[w] .. last THEN rows[h] + 1 ELSE rows[h]]
  BY InsertStores
<1>2. rows \in [Height -> Nat] /\ Cardinality(Worker) \in Nat
  BY FS_CardinalityType DEF IInv, TypeOK
<1> DEFINE new == {r \in Row : r[1] \in start[w] .. last /\ r[2] = rows[r[1]] + 1}
           first == <<start[w], rows[start[w]] + 1>>
<1>3. ASSUME NEW r \in Row
      PROVE  /\ r[1] \in Height /\ r[2] \in Nat /\ rows[r[1]] \in Nat
             /\ rows'[r[1]] = IF r[1] \in start[w] .. last THEN rows[r[1]] + 1 ELSE rows[r[1]]
  BY <1>1, <1>2 DEF Row
<1>4. first \in new
  <2>1. rows[start[w]] \in Nat /\ start[w] \in start[w] .. last
    BY <1>1, <1>2 DEF Height
  <2>2. rows'[start[w]] = rows[start[w]] + 1
    BY <1>1, <2>1
  <2>3. rows'[start[w]] <= Cardinality(Worker)
    BY <1>1 DEF DuplicatesBounded
  <2> QED
    BY <1>1, <1>2, <2>1, <2>2, <2>3 DEF Row
<1>5. new \in SUBSET (Row \ inserted)
  <2>1. \A r \in new : ~(r[2] <= rows[r[1]])
    BY <1>3
  <2> QED
    BY <2>1 DEF inserted
<1>6. ASSUME NEW r \in Row
      PROVE  r[2] <= rows'[r[1]] <=> r[2] <= rows[r[1]] \/ r \in new
  <2>1. CASE r[1] \in start[w] .. last
    BY <1>3, <2>1
  <2>2. CASE r[1] \notin start[w] .. last
    BY <1>3, <2>2
  <2> QED
    BY <2>1, <2>2
<1> HIDE DEF new, first
<1>7. inserted' = inserted \union new
  <2>1. new \subseteq Row /\ inserted' = {r \in Row : r[2] <= rows'[r[1]]}
    BY <1>5 DEF inserted
  <2> QED
    BY <1>6, <2>1 DEF inserted
<1>8. new \in (SUBSET (Row \ inserted)) \ {{}}
  BY <1>4, <1>5
<1> QED
  BY <1>7, <1>8, Zenon

LEMMA CheckStep ==
    ASSUME HeaderInv, HeaderInv', [TableNext]_tableVars
    PROVE  Verdicts!Next \/ UNCHANGED Verdicts!vars
<1>1. ASSUME rows' = rows, UNCHANGED checkVars
      PROVE  UNCHANGED Verdicts!vars
  <2>1. inserted' = inserted
    BY <1>1 DEF inserted
  <2> QED
    BY <1>1, <2>1 DEF Verdicts!vars, Verdicts!columns, checkVars
<1>2. ASSUME NEW w \in Worker, Insert(w), UNCHANGED checkVars, DuplicatesBounded'
      PROVE  Verdicts!Next
  <2>1. PICK new \in (SUBSET (Row \ inserted)) \ {{}} : inserted' = inserted \union new
    BY <1>2, InsertAddsRows DEF HeaderInv
  <2>2. Verdicts!InsertHeaders(new)
    BY <1>2, <2>1 DEF Verdicts!InsertHeaders, Verdicts!columns, checkVars
  <2> QED
    BY <2>1, <2>2 DEF Verdicts!Next
<1>3. DuplicatesBounded'
  <2> SUFFICES ASSUME NEW h \in Height
               PROVE  rows'[h] <= Cardinality(Worker)
    BY DEF DuplicatesBounded
  <2>1. rows'[h] \in Nat
    BY DEF HeaderInv, IInv, TypeOK
  <2>2. rows'[h] > 0 => rows'[h] + Cardinality(Behind(h)') <= Cardinality(Worker)
    BY DEF HeaderInv, BehindBounded
  <2> QED
    BY <2>1, <2>2, BehindFinite
<1>4. CASE CollectHeaders \/ UNCHANGED tableVars
  <2>1. [Next]_vars /\ UNCHANGED checkVars
    BY <1>4 DEF CollectHeaders, tableVars
  <2> QED
    BY <1>1, <1>2, <1>3, <2>1, RowsChange
<1>5. ASSUME NEW c \in Checker, StartCheck(c) \/ BeginCheck(c) \/ CommitCheck(c) \/ CheckDies(c)
      PROVE  Verdicts!Next
  BY <1>5 DEF StartCheck, BeginCheck, CommitCheck, CheckDies, Verdicts!Next
<1> QED
  BY <1>4, <1>5 DEF TableNext

\* SharesCheck takes the header job for an action that inserts rows.  Together with the job
\* itself that is what it is, however many of its runs overlap: rows appear, none is changed,
\* and there are never more of one block than the model has.
THEOREM CheckAssumesRightly == TableSpec => HeadersOnlyAppear
<1>1. TableInit => Verdicts!Init
  BY DEF TableInit
<1>2. HeaderInv /\ HeaderInv' /\ [TableNext]_tableVars => [Verdicts!Next]_(Verdicts!vars)
  BY CheckStep
<1> QED
  BY <1>1, <1>2, HeaderInvariance, PTL DEF TableSpec, HeadersOnlyAppear

\* The table is an instance SharesCheckProofs is about.
LEMMA CheckConstants ==
    ASSUME CheckBounds
    PROVE  /\ HeightOf \in [Row -> Nat]
           /\ CheckProofs!IsFiniteSet(Checker)
           /\ MAX_CHECKS_PER_RUN \in Nat /\ MaxCheckCrash \in Nat
<1>1. HeightOf \in [Row -> Nat]
  BY DEF HeightOf, Row, Height
<1>2. CheckProofs!IsFiniteSet(Checker)
  BY DEF CheckBounds, IsFiniteSet, CheckProofs!IsFiniteSet
<1> QED
  BY <1>1, <1>2 DEF CheckBounds

LEMMA CheckInitially ==
    ASSUME CheckBounds
    PROVE  Verdicts!Init => CheckProofs!IInv
<1>1. Verdicts!Init => CheckProofs!Init
  BY DEF Verdicts!Init, CheckProofs!Init, Verdicts!Null, CheckProofs!Null
<1> QED
  BY <1>1, CheckConstants, CheckProofs!InitEstablishesIInv

\* The actions of the two instances are the same, and so are their steps.
LEMMA CheckNextIsTheirs ==
    [Verdicts!Next]_(Verdicts!vars) => [CheckProofs!Next]_(CheckProofs!vars)
<1>1. UNCHANGED Verdicts!vars => UNCHANGED CheckProofs!vars
  BY DEF Verdicts!vars, CheckProofs!vars, Verdicts!columns, CheckProofs!columns
<1>2. ASSUME NEW new, Verdicts!InsertHeaders(new) PROVE CheckProofs!InsertHeaders(new)
  BY <1>2 DEF Verdicts!InsertHeaders, CheckProofs!InsertHeaders,
              Verdicts!columns, CheckProofs!columns
<1>3. ASSUME NEW c \in Checker, Verdicts!Start(c) PROVE CheckProofs!Start(c)
  <2>1. Verdicts!Null = CheckProofs!Null
    BY DEF Verdicts!Null, CheckProofs!Null
  <2>2. \A r : Verdicts!Selectable(r) <=> CheckProofs!Selectable(r)
    BY <2>1 DEF Verdicts!Selectable, CheckProofs!Selectable
  <2>3. Verdicts!Batches = CheckProofs!Batches
    BY <2>2 DEF Verdicts!Batches, CheckProofs!Batches,
                Verdicts!Cardinality, CheckProofs!Cardinality
  <2> QED
    BY <1>3, <2>3 DEF Verdicts!Start, CheckProofs!Start, Verdicts!Idle, CheckProofs!Idle,
                      Verdicts!columns, CheckProofs!columns
<1>4. ASSUME NEW c \in Checker, Verdicts!Begin(c) PROVE CheckProofs!Begin(c)
  BY <1>4 DEF Verdicts!Begin, CheckProofs!Begin, Verdicts!Answer, CheckProofs!Answer,
              Verdicts!columns, CheckProofs!columns
<1>5. ASSUME NEW c \in Checker, Verdicts!Commit(c) PROVE CheckProofs!Commit(c)
  BY <1>5 DEF Verdicts!Commit, CheckProofs!Commit, Verdicts!Updated, CheckProofs!Updated,
              Verdicts!VerdictAfter, CheckProofs!VerdictAfter,
              Verdicts!CheckTime, CheckProofs!CheckTime
<1>6. ASSUME NEW c \in Checker, Verdicts!Die(c) PROVE CheckProofs!Die(c)
  BY <1>6 DEF Verdicts!Die, CheckProofs!Die, Verdicts!Idle, CheckProofs!Idle,
              Verdicts!columns, CheckProofs!columns
<1>7. Verdicts!Next => CheckProofs!Next
  BY <1>2, <1>3, <1>4, <1>5, <1>6 DEF Verdicts!Next, CheckProofs!Next
<1> QED
  BY <1>1, <1>7

LEMMA CheckInvariance ==
    ASSUME CheckBounds
    PROVE  HeadersOnlyAppear => []CheckProofs!IInv
<1>1. CheckProofs!IInv /\ [Verdicts!Next]_(Verdicts!vars) => CheckProofs!IInv'
  BY CheckNextIsTheirs, CheckConstants, CheckProofs!NextPreservesIInv
<1> QED
  BY <1>1, CheckInitially, PTL DEF HeadersOnlyAppear

\* The invariant of the check holds of the rows the header job inserts, however many runs of
\* either job overlap or die.
LEMMA TableInvariance ==
    ASSUME CheckBounds
    PROVE  TableSpec => [](HeaderInv /\ CheckProofs!IInv)
<1> QED
  BY HeaderInvariance, CheckAssumesRightly, CheckInvariance, PTL DEF TableSpec

\* What is proved of the check alone is true of the check on this table: a verdict has its
\* sample, found by height and time, a row has at most one sample per overlapping run, and a
\* row that is done is never written again.
THEOREM TableKeepsCheckPromises ==
    ASSUME CheckBounds
    PROVE  TableSpec => /\ []Verdicts!VerdictHasItsSample
                        /\ []Verdicts!SamplesBoundedByOverlap
                        /\ Verdicts!DoneIsFinal
<1>1. CheckProofs!IInv => Verdicts!VerdictHasItsSample
  <2>1. Verdicts!VerdictHasItsSample <=> CheckProofs!VerdictHasItsSample
    BY DEF CheckProofs!VerdictHasItsSample, Verdicts!VerdictHasItsSample,
           CheckProofs!Null, Verdicts!Null
  <2> QED
    BY <2>1 DEF CheckProofs!IInv
<1>2. CheckProofs!IInv => Verdicts!SamplesBoundedByOverlap
  BY CheckConstants, CheckProofs!SamplesWithinOverlap
     DEF CheckProofs!SamplesBoundedByOverlap, Verdicts!SamplesBoundedByOverlap,
         CheckProofs!SamplesOf, Verdicts!SamplesOf,
         CheckProofs!Cardinality, Verdicts!Cardinality
<1>3. CheckProofs!IInv /\ [Verdicts!Next]_(Verdicts!vars) =>
        [\A r \in Row : Verdicts!Done(r) =>
            /\ Verdicts!Done(r)' /\ verdict'[r] = verdict[r]
            /\ checkedAt'[r] = checkedAt[r] /\ Verdicts!SamplesOf(r)' = Verdicts!SamplesOf(r)]_(Verdicts!vars)
  <2> SUFFICES ASSUME CheckProofs!IInv, Verdicts!Next, NEW r \in Row, Verdicts!Done(r)
               PROVE  /\ Verdicts!Done(r)' /\ verdict'[r] = verdict[r]
                      /\ checkedAt'[r] = checkedAt[r]
                      /\ Verdicts!SamplesOf(r)' = Verdicts!SamplesOf(r)
    OBVIOUS
  <2>1. [CheckProofs!Next]_(CheckProofs!vars)
    BY CheckNextIsTheirs
  <2>2. CheckProofs!Done(r)
    BY DEF Verdicts!Done, CheckProofs!Done, Verdicts!Null, CheckProofs!Null
  <2>3. CASE CheckProofs!Next
    <3>1. CheckProofs!Final(r)
      BY <2>3, CheckConstants, CheckProofs!DoneStaysDone
    <3> QED
      BY <2>2, <3>1 DEF CheckProofs!Final, CheckProofs!Done, Verdicts!Done,
         CheckProofs!SamplesOf, Verdicts!SamplesOf, Verdicts!Null, CheckProofs!Null
  <2>4. CASE UNCHANGED CheckProofs!vars
    BY <2>2, <2>4 DEF CheckProofs!vars, CheckProofs!columns, Verdicts!Done, Verdicts!SamplesOf
  <2> QED
    BY <2>1, <2>3, <2>4
<1> QED
  BY <1>1, <1>2, <1>3, TableInvariance, CheckAssumesRightly, PTL
     DEF HeadersOnlyAppear, Verdicts!DoneIsFinal

\* The blocks of a set of rows.
BlocksOf(S) == {r[1] : r \in S}

\* A block is stored when one of its rows is: its first.
LEMMA BlocksWithRows ==
    ASSUME NEW count \in [Height -> Nat]
    PROVE  {h \in Height : count[h] > 0} = BlocksOf({r \in Row : r[2] <= count[r[1]]})
<1>1. Cardinality(Worker) \in Nat /\ Cardinality(Worker) # 0
  BY WorkerAssumption, FS_CardinalityType, FS_EmptySet
<1>2. ASSUME NEW h \in Height, count[h] > 0
      PROVE  h \in BlocksOf({r \in Row : r[2] <= count[r[1]]})
  <2>1. <<h, 1>> \in Row /\ <<h, 1>>[1] = h /\ <<h, 1>>[2] = 1
    BY <1>1 DEF Row
  <2> QED
    BY <1>2, <2>1 DEF BlocksOf
<1>3. ASSUME NEW r \in Row, r[2] <= count[r[1]]
      PROVE  r[1] \in Height /\ count[r[1]] > 0
  BY <1>1, <1>3 DEF Row
<1> QED
  BY <1>2, <1>3 DEF BlocksOf

\* The two readings of stored, that of the header job and that of the check, agree.
BlocksKnown == stored = BlocksOf(inserted)

LEMMA StoredBlocks == IInv => BlocksKnown
BY BlocksWithRows DEF BlocksKnown, IInv, TypeOK, stored, inserted

SampledRows == {s.row : s \in samples}
SettledRows == {q \in Row : verdict[q] # CheckProofs!Null}

\* What the rows do, their blocks do: the steps of Settlement on the rows are steps of
\* Settlement on the blocks, or change nothing there.  A block can have its verdict before,
\* by another of its rows: then it is only sampled.
LEMMA RowsToBlocks ==
    ASSUME BlocksKnown, BlocksKnown', [CheckProofs!Abstract!Next]_(CheckProofs!Abstract!vars)
    PROVE  OfBlocks!Next \/ UNCHANGED OfBlocks!vars
<1> DEFINE sampledBlocks == BlocksOf(SampledRows)
           settledBlocks == BlocksOf(SettledRows)
<1>1. /\ sampledBlocks = {r[1] : r \in {s.row : s \in samples}}
      /\ settledBlocks = {r[1] : r \in {q \in Row : verdict[q] # Verdicts!Null}}
      /\ sampledBlocks' = {r[1] : r \in {s.row : s \in samples'}}
      /\ settledBlocks' = {r[1] : r \in {q \in Row : verdict'[q] # Verdicts!Null}}
  BY DEF BlocksOf, SampledRows, SettledRows, CheckProofs!Null, Verdicts!Null
<1>2. CASE UNCHANGED CheckProofs!Abstract!vars
  <2>1. UNCHANGED <<inserted, SampledRows, SettledRows>>
    BY <1>2 DEF CheckProofs!Abstract!vars, SampledRows, SettledRows
  <2>2. UNCHANGED <<stored, sampledBlocks, settledBlocks>>
    BY <2>1 DEF BlocksKnown, BlocksOf
  <2> QED
    BY <1>1, <2>2 DEF OfBlocks!vars
<1>3. ASSUME NEW new \in SUBSET (Row \ inserted), CheckProofs!Abstract!Appear(new)
      PROVE  OfBlocks!Next
  <2>1. inserted' = inserted \union new /\ UNCHANGED <<SampledRows, SettledRows>>
    BY <1>3 DEF CheckProofs!Abstract!Appear, SampledRows, SettledRows
  <2>2. stored' = stored \union BlocksOf(new) /\ UNCHANGED <<sampledBlocks, settledBlocks>>
    BY <2>1 DEF BlocksKnown, BlocksOf
  <2>3. BlocksOf(new) \ stored \in SUBSET (Height \ stored)
    BY DEF BlocksOf, Row
  <2>4. OfBlocks!Appear(BlocksOf(new) \ stored)
    BY <1>1, <2>2, <2>3 DEF OfBlocks!Appear
  <2> QED
    BY <2>3, <2>4 DEF OfBlocks!Next
<1>4. ASSUME NEW r \in Row, CheckProofs!Abstract!Sample(r) \/ CheckProofs!Abstract!Settle(r)
      PROVE  OfBlocks!Next
  <2>1. /\ r \in inserted /\ inserted' = inserted
        /\ SampledRows' = SampledRows \union {r}
        /\ SettledRows' \in {SettledRows, SettledRows \union {r}}
    BY <1>4 DEF CheckProofs!Abstract!Sample, CheckProofs!Abstract!Settle,
                SampledRows, SettledRows
  <2>2. r[1] \in stored /\ stored' = stored /\ r[1] \in Height
    BY <2>1 DEF BlocksKnown, BlocksOf, Row
  <2>3. /\ sampledBlocks' = sampledBlocks \union {r[1]}
        /\ settledBlocks' \in {settledBlocks, settledBlocks \union {r[1]}}
    BY <2>1 DEF BlocksOf
  <2>4. CASE settledBlocks' = settledBlocks
    <3>1. OfBlocks!Sample(r[1])
      BY <1>1, <2>2, <2>3, <2>4 DEF OfBlocks!Sample
    <3> QED
      BY <2>2, <3>1 DEF OfBlocks!Next
  <2>5. CASE settledBlocks' # settledBlocks
    <3>1. r[1] \notin settledBlocks
      BY <2>3, <2>5
    <3>2. OfBlocks!Settle(r[1])
      BY <1>1, <2>2, <2>3, <2>5, <3>1 DEF OfBlocks!Settle
    <3> QED
      BY <2>2, <3>2 DEF OfBlocks!Next
  <2> QED
    BY <2>4, <2>5
<1> QED
  BY <1>2, <1>3, <1>4 DEF CheckProofs!Abstract!Next

\* What Settlement promises of rows, the two jobs together promise of blocks, although the
\* header job may add a row to a block that has its verdict: a block keeps it, it has a sample
\* to show, and only blocks in the table are sampled.
THEOREM BlocksImplementSettlement ==
    ASSUME CheckBounds
    PROVE  TableSpec => BlocksAreSettled
<1>1. TableInit => OfBlocks!Init
  <2> SUFFICES ASSUME TableInit PROVE OfBlocks!Init
    OBVIOUS
  <2>1. /\ inserted = {} /\ samples = {}
        /\ verdict = [r \in Row |-> Verdicts!Null]
    BY DEF TableInit, Verdicts!Init
  <2>2. stored = {}
    BY <2>1, InitEstablishesIInv, StoredBlocks DEF TableInit, BlocksKnown, BlocksOf
  <2> QED
    BY <2>1, <2>2 DEF OfBlocks!Init
<1>2. HeaderInv => BlocksKnown
  BY StoredBlocks DEF HeaderInv
<1>3. ASSUME BlocksKnown, BlocksKnown', CheckProofs!IInv, [Verdicts!Next]_(Verdicts!vars)
      PROVE  OfBlocks!Next \/ UNCHANGED OfBlocks!vars
  <2>1. [CheckProofs!Abstract!Next]_(CheckProofs!Abstract!vars)
    BY <1>3, CheckNextIsTheirs, CheckConstants, CheckProofs!NextRefines
  <2> QED
    BY <1>3, <2>1, RowsToBlocks
<1> QED
  BY <1>1, <1>2, <1>3, TableInvariance, CheckAssumesRightly, PTL
     DEF TableSpec, HeadersOnlyAppear, BlocksAreSettled, OfBlocks!Safety

=============================================================================
