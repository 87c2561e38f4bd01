---------------------------- MODULE RetrieveProofs ----------------------------
(***************************************************************************)
(* Proofs about Retrieve, for any buckets, periods and timeouts with the   *)
(* margins of MarginAssumption.  Everything hangs together: probes are so  *)
(* far apart that a window holds one at most, so a run makes one request   *)
(* per bucket at most, so it is over before the next one starts, so nobody *)
(* else retrieves the candidate it holds.                                  *)
(***************************************************************************)
EXTENDS Retrieve, TLAPS

\* When things can be due, by the phase.
Schedule ==
    /\ due => phase = 0
    /\ submitting => phase <= SUBMIT_MAX

\* Probes are at least PERIOD - SUBMIT_MAX apart, the one still to come included.
Spacing ==
    /\ \A p \in probes : p.age >= phase - SUBMIT_MAX
    /\ submitting => \A p \in probes : p.age >= phase + PERIOD - SUBMIT_MAX
    /\ \A p, q \in probes :
        p.age <= q.age => p = q \/ q.age >= p.age + PERIOD - SUBMIT_MAX

\* What the requests of the buckets before b take at most.
Spent(b) == (b - 1) * HTTP_TIMEOUT

\* A run is alone, and has spent at most one timeout on each bucket before its own.
Progress ==
    \A w \in Worker :
        /\ bucket[w] = 0 => todo[w] = {}
        /\ todo[w] = {} => waited[w] = 0
        /\ bucket[w] # 0 => ~due
        /\ bucket[w] # 0 => phase <= Spent(bucket[w]) + waited[w]
        /\ \A v \in Worker : bucket[v] # 0 /\ bucket[w] # 0 => v = w

\* A run has one candidate at most, found in the window and not retrieved since.
Candidates ==
    \A w \in Worker : \A a \in todo[w] :
        /\ \A c \in todo[w] : c = a
        /\ a >= Buckets[bucket[w]] - TOLERANCE + waited[w]
        /\ a <= Buckets[bucket[w]] + TOLERANCE + waited[w]
        /\ \A p \in probes : p.age = a => bucket[w] \notin p.got

IInv == TypeOK /\ Schedule /\ Spacing /\ Progress /\ Candidates

-----------------------------------------------------------------------------
(* The constants.                                                          *)

\* Types, and no bucket's window reaches the horizon.
LEMMA Constants ==
    /\ PERIOD \in Nat /\ PERIOD > 0 /\ TOLERANCE \in Nat /\ HTTP_TIMEOUT \in Nat
    /\ HTTP_TIMEOUT > 0 /\ SUBMIT_MAX \in Nat /\ MaxLost \in Nat
    /\ SUBMIT_MAX + 2 * TOLERANCE < PERIOD /\ TOLERANCE + HTTP_TIMEOUT <= PERIOD
    /\ Bucket = 1 .. Len(Buckets) /\ Len(Buckets) \in Nat /\ 1 \in Bucket /\ 0 \notin Bucket
    /\ Horizon \in Nat
    /\ \A b \in Bucket : Buckets[b] \in Nat /\ Buckets[b] + PERIOD <= Horizon
<1>1. /\ PERIOD \in Nat /\ PERIOD > 0 /\ TOLERANCE \in Nat /\ HTTP_TIMEOUT \in Nat
      /\ HTTP_TIMEOUT > 0 /\ SUBMIT_MAX \in Nat /\ MaxLost \in Nat
  BY TimeAssumption
<1>2. SUBMIT_MAX + 2 * TOLERANCE < PERIOD /\ TOLERANCE + HTTP_TIMEOUT <= PERIOD
  BY MarginAssumption
<1>3. Bucket = 1 .. Len(Buckets) /\ Len(Buckets) \in Nat /\ Len(Buckets) > 0
  BY BucketsAssumption DEF Bucket
<1>4. \A b \in Bucket : Buckets[b] \in Nat
  BY BucketsAssumption, <1>3
<1>5. \A b \in Bucket : Buckets[b] <= Buckets[Len(Buckets)]
  BY BucketsAssumption, <1>3
<1>6. Len(Buckets) \in Bucket
  BY <1>3
<1>7. Buckets[Len(Buckets)] \in Nat
  BY <1>4, <1>6
<1>8. Horizon \in Nat
  BY <1>1, <1>7 DEF Horizon
<1>9. \A b \in Bucket : Buckets[b] + PERIOD <= Horizon
  BY <1>1, <1>4, <1>5, <1>7 DEF Horizon
<1> QED
  BY <1>1, <1>2, <1>3, <1>4, <1>8, <1>9

\* The time a run has for its buckets: one timeout each, less than a period in all.
LEMMA SpentTime ==
    /\ Spent(1) = 0
    /\ \A b \in Bucket :
        /\ Spent(b) \in Nat
        /\ Spent(b) + HTTP_TIMEOUT < PERIOD
        /\ After(b) \in Bucket \union {0}
        /\ After(b) # 0 => Spent(After(b)) = Spent(b) + HTTP_TIMEOUT
<1>1. Spent(1) = 0
  BY Constants DEF Spent
<1>2. ASSUME NEW b \in Bucket
      PROVE  /\ Spent(b) \in Nat
             /\ Spent(b) + HTTP_TIMEOUT < PERIOD
             /\ After(b) \in Bucket \union {0}
             /\ After(b) # 0 => Spent(After(b)) = Spent(b) + HTTP_TIMEOUT
  <2>1. b \in 1 .. Len(Buckets) /\ HTTP_TIMEOUT \in Nat /\ PERIOD \in Nat /\ Len(Buckets) \in Nat
    BY Constants
  <2>2. Spent(b) \in Nat
    BY <2>1 DEF Spent
  <2>3. Spent(b) + HTTP_TIMEOUT = b * HTTP_TIMEOUT
    BY <2>1 DEF Spent
  <2>4. \A m, n, t \in Nat : m <= n => m * t <= n * t
    <3>1. ASSUME NEW m \in Nat, NEW n \in Nat, NEW t \in Nat, m <= n
          PROVE  m * t <= n * t
      <4>1. n - m \in Nat
        BY <3>1
      <4>2. (n - m) * t \in Nat
        BY <4>1
      <4>3. n * t = m * t + (n - m) * t
        BY <3>1
      <4> QED
        BY <4>2, <4>3
    <3> QED
      BY <3>1
  <2>5. b * HTTP_TIMEOUT <= Len(Buckets) * HTTP_TIMEOUT
    BY <2>1, <2>4
  <2>6. Spent(b) + HTTP_TIMEOUT < PERIOD
    BY <2>1, <2>3, <2>5, MarginAssumption
  <2>7. After(b) \in Bucket \union {0}
    BY <2>1, Constants DEF After
  <2>8. After(b) # 0 => After(b) = b + 1
    BY DEF After
  <2>9. Spent(b + 1) = Spent(b) + HTTP_TIMEOUT
    BY <2>1 DEF Spent
  <2> QED
    BY <2>2, <2>6, <2>7, <2>8, <2>9
<1> QED
  BY <1>1, <1>2

-----------------------------------------------------------------------------
(* The invariant.                                                          *)

LEMMA Initially == Init => IInv
<1> SUFFICES ASSUME Init PROVE IInv
  OBVIOUS
<1>1. TypeOK
  BY Constants DEF Init, TypeOK, Unread
<1>2. Schedule
  BY Constants DEF Init, Schedule
<1>3. Spacing
  BY DEF Init, Spacing
<1>4. Progress
  BY DEF Init, Progress
<1>5. Candidates
  BY DEF Init, Candidates
<1> QED
  BY <1>1, <1>2, <1>3, <1>4, <1>5 DEF IInv

\* The types of what the steps below compute with.
LEMMA Types ==
    ASSUME TypeOK
    PROVE  /\ phase \in Nat /\ phase < PERIOD
           /\ \A p \in probes : p \in Probe /\ p.age \in Nat /\ p.age <= Horizon /\ p.got \subseteq Bucket
           /\ \A w \in Worker : /\ bucket[w] \in Bucket \union {0}
                                /\ waited[w] \in Nat /\ waited[w] <= HTTP_TIMEOUT
                                /\ todo[w] \subseteq Nat
<1>1. phase \in Nat /\ phase < PERIOD
  BY Constants DEF TypeOK
<1>2. \A p \in probes : p \in Probe /\ p.age \in Nat /\ p.age <= Horizon /\ p.got \subseteq Bucket
  BY Constants DEF TypeOK, Probe, Age
<1>3. \A w \in Worker : /\ bucket[w] \in Bucket \union {0}
                        /\ waited[w] \in Nat /\ waited[w] <= HTTP_TIMEOUT
                        /\ todo[w] \subseteq Nat
  BY Constants DEF TypeOK, Age
<1> QED
  BY <1>1, <1>2, <1>3

\* A submission whose run goes on is not past the horizon.
LEMMA StillAnAge ==
    ASSUME NEW a \in Nat, NEW B \in Nat, NEW t \in Nat, t < HTTP_TIMEOUT,
           a <= B + TOLERANCE + t, B + PERIOD <= Horizon
    PROVE  a + 1 \in Age
<1>1. /\ TOLERANCE \in Nat /\ HTTP_TIMEOUT \in Nat /\ PERIOD \in Nat /\ Horizon \in Nat
      /\ TOLERANCE + HTTP_TIMEOUT <= PERIOD
  BY Constants
<1>2. a + 1 <= Horizon
  BY <1>1
<1> QED
  BY <1>1, <1>2 DEF Age

\* A probe short of the horizon ages by one and keeps everything else.
LEMMA AgedProbe ==
    ASSUME NEW p \in Probe, p.age < Horizon
    PROVE  LET aged == [p EXCEPT !.age = @ + 1]
           IN  aged \in Probe /\ aged.age = p.age + 1 /\ aged.got = p.got
<1>1. p.age + 1 \in Age
  BY Constants DEF Probe, Age
<1> QED
  BY <1>1 DEF Probe

\* A run in progress always ends within the period.
LEMMA TickStep == IInv /\ Tick => IInv'
<1> SUFFICES ASSUME IInv, Tick PROVE IInv'
  OBVIOUS
<1> DEFINE aged(p) == [p EXCEPT !.age = @ + 1]
           kept == {q \in probes : q.age < Horizon}
<1>0. TypeOK /\ Schedule /\ Spacing /\ Progress /\ Candidates
  BY DEF IInv
<1>c. /\ PERIOD \in Nat /\ PERIOD > 0 /\ SUBMIT_MAX \in Nat /\ SUBMIT_MAX < PERIOD
      /\ TOLERANCE \in Nat /\ HTTP_TIMEOUT \in Nat
  BY Constants
<1>1. phase \in Nat /\ phase < PERIOD
  BY <1>0, Types
<1>2. phase' = IF phase + 1 = PERIOD THEN 0 ELSE phase + 1
  BY DEF Tick
<1>3. \A w \in Worker : bucket[w] # 0 => todo[w] # {} /\ waited[w] < HTTP_TIMEOUT
  BY DEF Tick, InTime
<1>4. \A w \in Worker : bucket[w] # 0 => phase + 1 < PERIOD
  <2>1. SUFFICES ASSUME NEW w \in Worker, bucket[w] # 0 PROVE phase + 1 < PERIOD
    OBVIOUS
  <2>2. bucket[w] \in Bucket /\ waited[w] \in Nat
    BY <1>0, <2>1, Types
  <2>3. phase <= Spent(bucket[w]) + waited[w]
    BY <1>0, <2>1 DEF Progress
  <2>4. Spent(bucket[w]) \in Nat /\ Spent(bucket[w]) + HTTP_TIMEOUT < PERIOD
    BY <2>2, SpentTime
  <2> QED
    BY <1>1, <1>3, <2>1, <2>2, <2>3, <2>4, Constants
<1>5. /\ probes' = {aged(p) : p \in kept}
      /\ todo' = [w \in Worker |-> {a + 1 : a \in todo[w]}]
      /\ waited' = [w \in Worker |-> IF todo[w] = {} THEN 0 ELSE waited[w] + 1]
      /\ bucket' = bucket /\ lost' = lost /\ ~due
  BY DEF Tick
<1>6. \A p \in kept : /\ aged(p) \in Probe /\ aged(p).age = p.age + 1 /\ aged(p).got = p.got
                      /\ p \in probes /\ p.age \in Nat
  <2>1. \A p \in kept : p \in Probe /\ p \in probes /\ p.age \in Nat /\ p.age < Horizon
    BY <1>0, Types
  <2> QED
    BY <2>1, AgedProbe
<1>7. \A w \in Worker : \A a \in todo[w] :
        /\ bucket[w] \in Bucket /\ waited[w] \in Nat /\ waited[w] < HTTP_TIMEOUT
        /\ a \in Nat /\ Buckets[bucket[w]] \in Nat
  BY <1>0, <1>3, Types, Constants DEF Progress
<1>8. TypeOK'
  <2>1. phase' \in 0 .. PERIOD - 1
    BY <1>1, <1>2, <1>c
  <2>2. submitting' \in BOOLEAN /\ due' \in BOOLEAN /\ readAt' \in [Bucket -> 0 .. Unread]
    <3>1. Unread \in 0 .. Unread
      BY <1>c DEF Unread
    <3>2. [b \in Bucket |-> Unread] \in [Bucket -> 0 .. Unread]
      BY <3>1
    <3>3. submitting \in BOOLEAN /\ due \in BOOLEAN /\ readAt \in [Bucket -> 0 .. Unread]
      BY <1>0 DEF TypeOK
    <3>4. CASE phase' = 0
      BY <3>2, <3>4 DEF Tick
    <3>5. CASE phase' # 0
      BY <3>3, <3>5 DEF Tick
    <3> QED
      BY <3>4, <3>5
  <2>3. probes' \subseteq Probe
    BY <1>5, <1>6
  <2>4. bucket' \in [Worker -> Bucket \union {0}] /\ lost' \in 0 .. MaxLost
    BY <1>0, <1>5 DEF TypeOK
  <2>5. \A w \in Worker : \A a \in todo[w] : a + 1 \in Age
    <3> SUFFICES ASSUME NEW w \in Worker, NEW a \in todo[w] PROVE a + 1 \in Age
      OBVIOUS
    <3>1. a <= Buckets[bucket[w]] + TOLERANCE + waited[w]
      BY <1>0 DEF Candidates
    <3>2. Buckets[bucket[w]] + PERIOD <= Horizon
      BY <1>7, Constants
    <3>3. waited[w] \in Nat /\ waited[w] < HTTP_TIMEOUT /\ a \in Nat /\ Buckets[bucket[w]] \in Nat
      BY <1>7
    <3> QED
      BY <3>1, <3>2, <3>3, StillAnAge
  <2>6. todo' \in [Worker -> SUBSET Age]
    BY <1>5, <2>5
  <2>7. \A w \in Worker : (IF todo[w] = {} THEN 0 ELSE waited[w] + 1) \in 0 .. HTTP_TIMEOUT
    BY <1>0, <1>7, Constants
  <2>8. waited' \in [Worker -> 0 .. HTTP_TIMEOUT]
    BY <1>5, <2>7
  <2> QED
    BY <2>1, <2>2, <2>3, <2>4, <2>6, <2>8 DEF TypeOK
<1>9. Schedule'
  <2>1. due' => phase' = 0
    BY <1>5 DEF Tick
  <2>2. submitting' => phase' <= SUBMIT_MAX
    <3>1. CASE phase' = 0
      BY <3>1, Constants
    <3>2. CASE phase' # 0
      <4>1. submitting' => submitting
        BY <3>2 DEF Tick
      <4>2. submitting => phase < SUBMIT_MAX
        BY DEF Tick
      <4> QED
        BY <1>1, <1>2, <4>1, <4>2, Constants
    <3> QED
      BY <3>1, <3>2
  <2> QED
    BY <2>1, <2>2 DEF Schedule
<1>10. Spacing'
  <2>1. \A p \in probes : p.age >= phase - SUBMIT_MAX /\ p.age \in Nat
    BY <1>0, Types DEF Spacing
  <2>2. submitting => \A p \in probes : p.age >= phase + PERIOD - SUBMIT_MAX
    BY <1>0 DEF Spacing
  <2>3. \A p, q \in probes : p.age <= q.age => p = q \/ q.age >= p.age + PERIOD - SUBMIT_MAX
    BY <1>0 DEF Spacing
  <2>4. phase' # 0 => (submitting' => submitting)
    BY DEF Tick
  <2>5. \A p \in kept : p \in probes /\ aged(p).age = p.age + 1
    BY <1>6
  <2>6. \A p \in probes' : \E q \in kept : p = aged(q)
    BY <1>5
  <2> HIDE DEF aged, kept
  <2>7. \A p \in probes' : p.age >= phase' - SUBMIT_MAX
    BY <1>1, <1>2, <1>c, <2>1, <2>5, <2>6
  <2>8. ASSUME submitting', NEW p \in probes' PROVE p.age >= phase' + PERIOD - SUBMIT_MAX
    <3>1. PICK q \in kept : p = aged(q)
      BY <2>6
    <3>2. q \in probes /\ p.age = q.age + 1 /\ q.age \in Nat /\ q.age >= phase - SUBMIT_MAX
      BY <2>1, <2>5, <3>1
    <3>3. CASE phase' = 0
      BY <1>1, <1>2, <1>c, <3>2, <3>3
    <3>4. CASE phase' # 0
      <4>1. q.age >= phase + PERIOD - SUBMIT_MAX
        BY <2>2, <2>4, <2>8, <3>2, <3>4
      <4> QED
        BY <1>1, <1>2, <1>c, <3>2, <3>4, <4>1
    <3> QED
      BY <3>3, <3>4
  <2>9. ASSUME NEW p \in probes', NEW q \in probes', p.age <= q.age
        PROVE  p = q \/ q.age >= p.age + PERIOD - SUBMIT_MAX
    <3>1. PICK r \in kept : p = aged(r)
      BY <2>6
    <3>2. PICK t \in kept : q = aged(t)
      BY <2>6
    <3>3. r \in probes /\ p.age = r.age + 1 /\ r.age \in Nat
      BY <2>1, <2>5, <3>1
    <3>4. t \in probes /\ q.age = t.age + 1 /\ t.age \in Nat
      BY <2>1, <2>5, <3>2
    <3>5. r.age <= t.age
      BY <2>9, <3>3, <3>4
    <3>6. r = t \/ t.age >= r.age + PERIOD - SUBMIT_MAX
      BY <2>3, <3>3, <3>4, <3>5
    <3> QED
      BY <1>c, <3>1, <3>2, <3>3, <3>4, <3>6
  <2> QED
    BY <2>7, <2>8, <2>9 DEF Spacing
<1>11. Progress'
  <2> SUFFICES ASSUME NEW w \in Worker
               PROVE  /\ bucket'[w] = 0 => todo'[w] = {}
                      /\ todo'[w] = {} => waited'[w] = 0
                      /\ bucket'[w] # 0 => ~due'
                      /\ bucket'[w] # 0 => phase' <= Spent(bucket'[w]) + waited'[w]
                      /\ \A v \in Worker : bucket'[v] # 0 /\ bucket'[w] # 0 => v = w
    BY DEF Progress
  <2>1. bucket'[w] = 0 => todo'[w] = {}
    BY <1>0, <1>5 DEF Progress
  <2>2. todo'[w] = {} => waited'[w] = 0
    BY <1>5
  <2>3. bucket'[w] # 0 => phase' = phase + 1 /\ phase' # 0
    BY <1>1, <1>2, <1>4, <1>5, Constants
  <2>4. bucket'[w] # 0 => ~due'
    BY <1>5, <2>3 DEF Tick
  <2>5. bucket'[w] # 0 => phase' <= Spent(bucket'[w]) + waited'[w]
    <3> SUFFICES ASSUME bucket[w] # 0 PROVE phase' <= Spent(bucket[w]) + waited'[w]
      BY <1>5
    <3>1. waited'[w] = waited[w] + 1
      BY <1>3, <1>5
    <3>2. phase <= Spent(bucket[w]) + waited[w]
      BY <1>0 DEF Progress
    <3>3. Spent(bucket[w]) \in Nat /\ waited[w] \in Nat
      BY <1>0, Types, SpentTime
    <3> QED
      BY <1>1, <1>5, <2>3, <3>1, <3>2, <3>3
  <2>6. \A v \in Worker : bucket'[v] # 0 /\ bucket'[w] # 0 => v = w
    BY <1>0, <1>5 DEF Progress
  <2> QED
    BY <2>1, <2>2, <2>4, <2>5, <2>6
<1>12. Candidates'
  <2> SUFFICES ASSUME NEW w \in Worker, NEW a \in todo'[w]
               PROVE  /\ \A c \in todo'[w] : c = a
                      /\ a >= Buckets[bucket'[w]] - TOLERANCE + waited'[w]
                      /\ a <= Buckets[bucket'[w]] + TOLERANCE + waited'[w]
                      /\ \A p \in probes' : p.age = a => bucket'[w] \notin p.got
    BY DEF Candidates
  <2>1. PICK b \in todo[w] : a = b + 1
    BY <1>5
  <2>2. waited'[w] = waited[w] + 1 /\ bucket'[w] = bucket[w]
    BY <1>5, <2>1
  <2>3. \A c \in todo'[w] : c = a
    BY <1>0, <1>5, <2>1 DEF Candidates
  <2>4. a >= Buckets[bucket[w]] - TOLERANCE + waited'[w] /\ a <= Buckets[bucket[w]] + TOLERANCE + waited'[w]
    <3>1. b >= Buckets[bucket[w]] - TOLERANCE + waited[w] /\ b <= Buckets[bucket[w]] + TOLERANCE + waited[w]
      BY <1>0 DEF Candidates
    <3>2. b \in Nat /\ waited[w] \in Nat /\ Buckets[bucket[w]] \in Nat
      BY <1>7
    <3> HIDE DEF aged, kept
    <3> QED
      BY <1>c, <2>1, <2>2, <3>1, <3>2
  <2>5. ASSUME NEW p \in probes', p.age = a PROVE bucket[w] \notin p.got
    <3>1. PICK q \in kept : p = aged(q)
      BY <1>5
    <3>2. q \in probes /\ p.age = q.age + 1 /\ q.age \in Nat /\ p.got = q.got
      BY <1>6, <3>1
    <3>3. b \in Nat
      BY <1>7
    <3> HIDE DEF aged, kept
    <3>4. q.age = b
      BY <2>1, <2>5, <3>2, <3>3
    <3> QED
      BY <1>0, <3>2, <3>4 DEF Candidates
  <2> QED
    BY <2>2, <2>3, <2>4, <2>5
<1> QED
  BY <1>8, <1>9, <1>10, <1>11, <1>12 DEF IInv

\* The new probe is a period younger than the youngest, less what it may come late.
LEMMA SubmitStep == IInv /\ Submit => IInv'
<1> SUFFICES ASSUME IInv, Submit PROVE IInv'
  OBVIOUS
<1> DEFINE new == [age |-> 0, got |-> {}]
<1>0. TypeOK /\ Schedule /\ Spacing /\ Progress /\ Candidates
  BY DEF IInv
<1>1. UNCHANGED <<phase, due, bucket, todo, waited, readAt, lost>> /\ submitting /\ submitting' = FALSE
  BY DEF Submit
<1>2. CASE UNCHANGED probes
  <2>1. TypeOK'
    BY <1>0, <1>1, <1>2 DEF TypeOK
  <2>2. Schedule' /\ Spacing'
    BY <1>0, <1>1, <1>2 DEF Schedule, Spacing
  <2>3. Progress' /\ Candidates'
    BY <1>0, <1>1, <1>2 DEF Progress, Candidates
  <2> QED
    BY <2>1, <2>2, <2>3 DEF IInv
<1>3. CASE probes' = probes \union {new}
  <2>1. new \in Probe /\ new.age = 0 /\ new.got = {}
    BY Constants DEF Probe, Age
  <2> HIDE DEF new
  <2>2. TypeOK'
    BY <1>0, <1>1, <1>3, <2>1 DEF TypeOK
  <2>3. Schedule'
    BY <1>0, <1>1 DEF Schedule
  <2>4. /\ phase \in Nat /\ phase <= SUBMIT_MAX /\ SUBMIT_MAX \in Nat /\ SUBMIT_MAX < PERIOD
        /\ PERIOD \in Nat
    BY <1>0, <1>1, Types, Constants DEF Schedule
  <2>5. \A p \in probes : /\ p.age \in Nat /\ p.age >= phase - SUBMIT_MAX
                          /\ p.age >= phase + PERIOD - SUBMIT_MAX
    BY <1>0, <1>1, Types DEF Spacing
  <2>6. \A p, q \in probes : p.age <= q.age => p = q \/ q.age >= p.age + PERIOD - SUBMIT_MAX
    BY <1>0 DEF Spacing
  <2>7. \A p \in probes' : p.age >= phase - SUBMIT_MAX
    BY <1>3, <2>1, <2>4, <2>5
  <2>8. ASSUME NEW p \in probes', NEW q \in probes', p.age <= q.age
        PROVE  p = q \/ q.age >= p.age + PERIOD - SUBMIT_MAX
    <3>1. CASE p \in probes /\ q \in probes
      BY <2>6, <2>8, <3>1
    <3>2. CASE p = new /\ q \in probes
      BY <2>1, <2>4, <2>5, <3>2
    <3>3. CASE q = new /\ p \in probes
      BY <2>1, <2>4, <2>5, <2>8, <3>3
    <3> QED
      BY <1>3, <3>1, <3>2, <3>3
  <2>9. Spacing'
    BY <1>1, <2>7, <2>8 DEF Spacing
  <2>10. Progress'
    BY <1>0, <1>1 DEF Progress
  <2>11. Candidates'
    BY <1>0, <1>1, <1>3, <2>1 DEF Candidates
  <2> QED
    BY <2>2, <2>3, <2>9, <2>10, <2>11 DEF IInv
<1> QED
  BY <1>2, <1>3 DEF Submit

\* A run starts alone.
LEMMA StartStep == ASSUME NEW w \in Worker PROVE IInv /\ Start(w) => IInv'
<1> SUFFICES ASSUME IInv, Start(w) PROVE IInv'
  OBVIOUS
<1>0. TypeOK /\ Schedule /\ Spacing /\ Progress /\ Candidates
  BY DEF IInv
<1>1. /\ UNCHANGED <<phase, submitting, probes, todo, waited, readAt, lost>>
      /\ due /\ due' = FALSE /\ bucket' = [bucket EXCEPT ![w] = 1]
  BY DEF Start
<1>2. \A v \in Worker : bucket[v] = 0 /\ todo[v] = {} /\ waited[v] = 0
  BY <1>0, <1>1 DEF Progress
<1>3. \A v \in Worker : bucket'[v] = IF v = w THEN 1 ELSE 0
  BY <1>0, <1>1, <1>2 DEF TypeOK
<1>4. TypeOK'
  BY <1>0, <1>1, Constants DEF TypeOK
<1>5. Schedule' /\ Spacing'
  BY <1>0, <1>1 DEF Schedule, Spacing
<1>6. Progress'
  BY <1>0, <1>1, <1>2, <1>3, SpentTime DEF Progress, Schedule
<1>7. Candidates'
  BY <1>1, <1>2 DEF Candidates
<1> QED
  BY <1>4, <1>5, <1>6, <1>7 DEF IInv

\* What the query returns lies within one window, which holds one probe at most.
LEMMA OneCandidate ==
    ASSUME IInv, NEW b \in Bucket, NEW s \in Window(b),
           NEW p \in s, NEW q \in s
    PROVE  /\ p \in probes /\ p = q
           /\ p.age >= Buckets[b] - TOLERANCE /\ p.age <= Buckets[b] + TOLERANCE
<1>0. TypeOK /\ Spacing
  BY DEF IInv
<1>1. s \subseteq probes
  BY DEF Window
<1>2. p.age - Buckets[b] \in -TOLERANCE .. TOLERANCE /\ q.age - Buckets[b] \in -TOLERANCE .. TOLERANCE
  BY <1>1 DEF Window
<1>3. /\ p.age \in Nat /\ q.age \in Nat /\ Buckets[b] \in Nat /\ TOLERANCE \in Nat
      /\ SUBMIT_MAX \in Nat /\ PERIOD \in Nat /\ SUBMIT_MAX + 2 * TOLERANCE < PERIOD
  BY <1>0, <1>1, Types, Constants
<1>4. p.age >= Buckets[b] - TOLERANCE /\ p.age <= Buckets[b] + TOLERANCE
  BY <1>2, <1>3
<1>5. q.age >= Buckets[b] - TOLERANCE /\ q.age <= Buckets[b] + TOLERANCE
  BY <1>2, <1>3
<1>6. p.age <= q.age => p = q
  <2>1. p.age <= q.age => p = q \/ q.age >= p.age + PERIOD - SUBMIT_MAX
    BY <1>0, <1>1 DEF Spacing
  <2> QED
    BY <1>3, <1>4, <1>5, <2>1
<1>7. q.age <= p.age => p = q
  <2>1. q.age <= p.age => q = p \/ p.age >= q.age + PERIOD - SUBMIT_MAX
    BY <1>0, <1>1 DEF Spacing
  <2> QED
    BY <1>3, <1>4, <1>5, <2>1
<1> QED
  BY <1>1, <1>3, <1>4, <1>6, <1>7

LEMMA FindStep == ASSUME NEW w \in Worker PROVE IInv /\ FindCandidates(w) => IInv'
<1> SUFFICES ASSUME IInv, FindCandidates(w) PROVE IInv'
  OBVIOUS
<1>0. TypeOK /\ Schedule /\ Spacing /\ Progress /\ Candidates
  BY DEF IInv
<1> DEFINE b == bucket[w]
<1>1. PICK s \in Window(b) :
        LET candidates == {p.age : p \in Unretrieved(s, b)}
        IN  /\ todo' = [todo EXCEPT ![w] = candidates]
            /\ bucket' = IF candidates = {} THEN [bucket EXCEPT ![w] = After(@)] ELSE bucket
  BY DEF FindCandidates
<1> DEFINE candidates == {p.age : p \in Unretrieved(s, b)}
<1>2. /\ UNCHANGED <<phase, submitting, due, probes, lost>>
      /\ b # 0 /\ todo[w] = {}
      /\ readAt' = [readAt EXCEPT ![b] = phase] /\ waited' = [waited EXCEPT ![w] = 0]
      /\ todo' = [todo EXCEPT ![w] = candidates]
      /\ bucket' = IF candidates = {} THEN [bucket EXCEPT ![w] = After(@)] ELSE bucket
  BY <1>1 DEF FindCandidates
<1>3. b \in Bucket
  BY <1>0, <1>2, Types
<1>4. \A p \in Unretrieved(s, b) : p \in s /\ b \notin p.got
  BY DEF Unretrieved
<1>5. \A a \in candidates : \E p \in Unretrieved(s, b) : a = p.age
  OBVIOUS
<1>6. \A p, q \in s : /\ p \in probes /\ p = q
                      /\ p.age >= Buckets[b] - TOLERANCE /\ p.age <= Buckets[b] + TOLERANCE
  BY <1>3, OneCandidate
<1> HIDE DEF candidates, b
<1>7. \A a \in candidates :
        /\ a \in Age
        /\ \A c \in candidates : c = a
        /\ a >= Buckets[b] - TOLERANCE /\ a <= Buckets[b] + TOLERANCE
        /\ \A p \in probes : p.age = a => b \notin p.got
  <2> SUFFICES ASSUME NEW a \in candidates
               PROVE  /\ a \in Age
                      /\ \A c \in candidates : c = a
                      /\ a >= Buckets[b] - TOLERANCE /\ a <= Buckets[b] + TOLERANCE
                      /\ \A p \in probes : p.age = a => b \notin p.got
    OBVIOUS
  <2>1. PICK p \in Unretrieved(s, b) : a = p.age
    BY <1>5
  <2>2. p \in s /\ p \in probes /\ b \notin p.got
    BY <1>4, <1>6
  <2>3. a \in Age
    BY <1>0, <2>1, <2>2 DEF TypeOK, Probe
  <2>4. \A c \in candidates : c = a
    BY <1>4, <1>5, <1>6, <2>1
  <2>5. a >= Buckets[b] - TOLERANCE /\ a <= Buckets[b] + TOLERANCE
    BY <1>6, <2>1, <2>2
  <2>6. ASSUME NEW q \in probes, q.age = a PROVE b \notin q.got
    <3>1. q = p \/ q.age >= p.age + PERIOD - SUBMIT_MAX
      <4>1. q.age \in Nat /\ p.age \in Nat
        BY <1>0, <2>2, Types
      <4>2. p.age <= q.age
        BY <2>1, <2>6, <4>1
      <4> QED
        BY <1>0, <2>2, <4>2 DEF Spacing
    <3>2. q = p
      BY <1>0, <2>1, <2>2, <2>6, <3>1, Types, Constants
    <3> QED
      BY <2>2, <3>2
  <2> QED
    BY <2>3, <2>4, <2>5, <2>6
<1>8. /\ bucket'[w] = (IF candidates = {} THEN After(b) ELSE b)
      /\ \A v \in Worker \ {w} : bucket'[v] = bucket[v]
  BY <1>0, <1>2 DEF TypeOK, b
<1>9. /\ todo'[w] = candidates /\ waited'[w] = 0
      /\ \A v \in Worker \ {w} : todo'[v] = todo[v] /\ waited'[v] = waited[v]
  BY <1>0, <1>2 DEF TypeOK
<1>10. After(b) \in Bucket \union {0}
  BY <1>3, SpentTime
<1>11. \A v \in Worker \ {w} : bucket[v] = 0 /\ todo[v] = {}
  BY <1>0, <1>2 DEF Progress, b
<1>12. TypeOK'
  <2>1. readAt' \in [Bucket -> 0 .. Unread]
    <3>1. phase \in 0 .. Unread
      BY <1>0, Types, Constants DEF Unread
    <3> QED
      BY <1>0, <1>2, <3>1 DEF TypeOK
  <2>2. bucket' \in [Worker -> Bucket \union {0}]
    BY <1>0, <1>2, <1>10 DEF TypeOK, b
  <2>3. todo' \in [Worker -> SUBSET Age]
    BY <1>0, <1>2, <1>7 DEF TypeOK
  <2>4. waited' \in [Worker -> 0 .. HTTP_TIMEOUT]
    BY <1>0, <1>2, Constants DEF TypeOK
  <2> QED
    BY <1>0, <1>2, <2>1, <2>2, <2>3, <2>4 DEF TypeOK
<1>13. Schedule' /\ Spacing'
  BY <1>0, <1>2 DEF Schedule, Spacing
<1>14. Progress'
  <2>1. phase <= Spent(b) /\ Spent(b) \in Nat /\ HTTP_TIMEOUT \in Nat /\ phase \in Nat
    <3>1. waited[w] = 0 /\ phase <= Spent(b) + waited[w]
      BY <1>0, <1>2 DEF Progress, b
    <3>2. Spent(b) \in Nat /\ HTTP_TIMEOUT \in Nat /\ phase \in Nat
      BY <1>0, <1>3, SpentTime, Constants, Types
    <3> QED
      BY <3>1, <3>2
  <2>2. bucket'[w] # 0 => phase <= Spent(bucket'[w])
    <3>1. After(b) # 0 => Spent(After(b)) = Spent(b) + HTTP_TIMEOUT
      BY <1>3, SpentTime
    <3>2. CASE candidates = {}
      <4>1. bucket'[w] = After(b)
        BY <1>8, <3>2
      <4> QED
        BY <2>1, <3>1, <4>1
    <3>3. CASE candidates # {}
      BY <1>8, <2>1, <3>3
    <3> QED
      BY <3>2, <3>3
  <2>3. bucket'[w] # 0 => phase <= Spent(bucket'[w]) + 0
    <3>1. bucket'[w] # 0 => Spent(bucket'[w]) \in Nat
      BY <1>3, <1>8, <1>10, SpentTime
    <3> QED
      BY <2>2, <3>1
  <2>4. ~due
    BY <1>0, <1>2 DEF Progress, b
  <2>5. b # 0
    BY <1>2
  <2> QED
    BY <1>0, <1>2, <1>8, <1>9, <1>11, <2>3, <2>4, <2>5 DEF Progress
<1>15. Candidates'
  <2> SUFFICES ASSUME NEW v \in Worker, NEW a \in todo'[v]
               PROVE  /\ \A c \in todo'[v] : c = a
                      /\ a >= Buckets[bucket'[v]] - TOLERANCE + waited'[v]
                      /\ a <= Buckets[bucket'[v]] + TOLERANCE + waited'[v]
                      /\ \A p \in probes' : p.age = a => bucket'[v] \notin p.got
    BY DEF Candidates
  <2>1. v = w /\ a \in candidates
    BY <1>9, <1>11
  <2>2. bucket'[v] = b /\ waited'[v] = 0 /\ todo'[v] = candidates /\ probes' = probes
    BY <1>2, <1>8, <1>9, <2>1
  <2>3. Buckets[b] \in Nat /\ TOLERANCE \in Nat
    BY <1>3, Constants
  <2>4. Buckets[b] - TOLERANCE + 0 = Buckets[b] - TOLERANCE /\ Buckets[b] + TOLERANCE + 0 = Buckets[b] + TOLERANCE
    BY <2>3
  <2> QED
    BY <1>7, <2>1, <2>2, <2>4
<1> QED
  BY <1>12, <1>13, <1>14, <1>15 DEF IInv

\* The one candidate is done, so the bucket is, within its timeout.
LEMMA RetrieveStep == ASSUME NEW w \in Worker PROVE IInv /\ Retrieve(w) => IInv'
<1> SUFFICES ASSUME IInv, Retrieve(w) PROVE IInv'
  OBVIOUS
<1>0. TypeOK /\ Schedule /\ Spacing /\ Progress /\ Candidates
  BY DEF IInv
<1> DEFINE b == bucket[w]
<1>1. PICK age \in Oldest(todo[w]), found \in BOOLEAN :
        /\ probes' = {IF p.age = age /\ Recorded(found)
                        THEN [p EXCEPT !.got = @ \union {b}] ELSE p : p \in probes}
        /\ todo' = [todo EXCEPT ![w] = @ \ {age}]
  BY DEF Retrieve
<1> DEFINE after(p) == IF p.age = age /\ Recorded(found)
                         THEN [p EXCEPT !.got = @ \union {b}] ELSE p
<1>6. age \in todo[w]
  BY DEF Oldest
<1>2. /\ UNCHANGED <<phase, submitting, due, readAt, lost>>
      /\ todo[w] # {}
      /\ todo' = [todo EXCEPT ![w] = @ \ {age}]
      /\ bucket' = IF todo'[w] = {} THEN [bucket EXCEPT ![w] = After(@)] ELSE bucket
      /\ waited' = [waited EXCEPT ![w] = 0]
      /\ probes' = {after(p) : p \in probes}
  BY <1>1, <1>6 DEF Retrieve
<1>3. b # 0 /\ b \in Bucket
  BY <1>0, <1>2, Types DEF Progress
<1>4. \A p \in probes : after(p) \in Probe /\ after(p).age = p.age
  BY <1>0, <1>3 DEF TypeOK, Probe
<1>5. \A p \in probes' : \E q \in probes : p = after(q)
  BY <1>2
<1> HIDE DEF after, b
<1>7. todo'[w] = {}
  BY <1>0, <1>2, <1>6 DEF TypeOK, Candidates
<1>8. /\ bucket'[w] = After(b) /\ waited'[w] = 0
      /\ \A v \in Worker \ {w} : bucket'[v] = bucket[v] /\ todo'[v] = todo[v] /\ waited'[v] = waited[v]
  BY <1>0, <1>2, <1>7 DEF TypeOK, b
<1>9. \A v \in Worker \ {w} : bucket[v] = 0 /\ todo[v] = {}
  BY <1>0, <1>3 DEF Progress, b
<1>10. After(b) \in Bucket \union {0}
  BY <1>3, SpentTime
<1>11. TypeOK'
  <2>1. probes' \subseteq Probe
    BY <1>4, <1>5
  <2>2. bucket' \in [Worker -> Bucket \union {0}]
    BY <1>0, <1>2, <1>10 DEF TypeOK, b
  <2>3. todo' \in [Worker -> SUBSET Age]
    BY <1>0, <1>2 DEF TypeOK
  <2>4. waited' \in [Worker -> 0 .. HTTP_TIMEOUT]
    BY <1>0, <1>2, Constants DEF TypeOK
  <2> QED
    BY <1>0, <1>2, <2>1, <2>2, <2>3, <2>4 DEF TypeOK
<1>12. Schedule'
  BY <1>0, <1>2 DEF Schedule
<1>13. Spacing'
  <2>1. \A p \in probes' : p.age >= phase - SUBMIT_MAX
    BY <1>0, <1>4, <1>5 DEF Spacing
  <2>2. submitting => \A p \in probes' : p.age >= phase + PERIOD - SUBMIT_MAX
    BY <1>0, <1>4, <1>5 DEF Spacing
  <2>3. \A p, q \in probes' : p.age <= q.age => p = q \/ q.age >= p.age + PERIOD - SUBMIT_MAX
    BY <1>0, <1>4, <1>5 DEF Spacing
  <2> QED
    BY <1>2, <2>1, <2>2, <2>3 DEF Spacing
<1>14. Progress'
  <2>1. After(b) # 0 => phase <= Spent(After(b)) + 0
    <3>1. phase <= Spent(b) + waited[w]
      BY <1>0, <1>3 DEF Progress, b
    <3>2. phase \in Nat /\ waited[w] \in Nat /\ waited[w] <= HTTP_TIMEOUT /\ HTTP_TIMEOUT \in Nat
      BY <1>0, Types, Constants
    <3>3. Spent(b) \in Nat /\ (After(b) # 0 => Spent(After(b)) = Spent(b) + HTTP_TIMEOUT)
      BY <1>3, SpentTime
    <3> QED
      BY <3>1, <3>2, <3>3
  <2>2. ~due
    BY <1>0, <1>3 DEF Progress, b
  <2> QED
    BY <1>0, <1>2, <1>7, <1>8, <1>9, <2>1, <2>2 DEF Progress
<1>15. Candidates'
  BY <1>7, <1>8, <1>9 DEF Candidates
<1> QED
  BY <1>11, <1>12, <1>13, <1>14, <1>15 DEF IInv

LEMMA DieStep == ASSUME NEW w \in Worker PROVE IInv /\ Die(w) => IInv'
<1> SUFFICES ASSUME IInv, Die(w) PROVE IInv'
  OBVIOUS
<1>0. TypeOK /\ Schedule /\ Spacing /\ Progress /\ Candidates
  BY DEF IInv
<1>1. /\ UNCHANGED <<phase, submitting, due, probes>>
      /\ lost < MaxLost /\ lost' = lost + 1
      /\ readAt' = [b \in Bucket |-> IF b < bucket[w] THEN readAt[b] ELSE Unread]
      /\ bucket' = [bucket EXCEPT ![w] = 0]
      /\ todo' = [todo EXCEPT ![w] = {}]
      /\ waited' = [waited EXCEPT ![w] = 0]
  BY DEF Die
<1>2. /\ bucket'[w] = 0 /\ todo'[w] = {} /\ waited'[w] = 0
      /\ \A v \in Worker \ {w} : bucket'[v] = bucket[v] /\ todo'[v] = todo[v] /\ waited'[v] = waited[v]
  BY <1>0, <1>1 DEF TypeOK
<1>3. TypeOK'
  <2>1. lost' \in 0 .. MaxLost
    BY <1>0, <1>1, Constants DEF TypeOK
  <2>2. readAt' \in [Bucket -> 0 .. Unread]
    BY <1>0, <1>1, Constants DEF TypeOK, Unread
  <2>3. bucket' \in [Worker -> Bucket \union {0}] /\ todo' \in [Worker -> SUBSET Age]
    BY <1>0, <1>1 DEF TypeOK
  <2>4. waited' \in [Worker -> 0 .. HTTP_TIMEOUT]
    BY <1>0, <1>1, Constants DEF TypeOK
  <2> QED
    BY <1>0, <1>1, <2>1, <2>2, <2>3, <2>4 DEF TypeOK
<1>4. Schedule' /\ Spacing'
  BY <1>0, <1>1 DEF Schedule, Spacing
<1>5. Progress'
  BY <1>0, <1>1, <1>2 DEF Progress
<1>6. Candidates'
  BY <1>0, <1>1, <1>2 DEF Candidates
<1> QED
  BY <1>3, <1>4, <1>5, <1>6 DEF IInv

THEOREM Invariance == Spec => []IInv
<1>1. Init => IInv
  BY Initially
<1>2. IInv /\ [Next]_vars => IInv'
  <2> SUFFICES ASSUME IInv, [Next]_vars PROVE IInv'
    OBVIOUS
  <2>1. CASE Tick
    BY <2>1, TickStep
  <2>2. CASE Submit
    BY <2>2, SubmitStep
  <2>3. ASSUME NEW w \in Worker, Start(w) PROVE IInv'
    BY <2>3, StartStep
  <2>4. ASSUME NEW w \in Worker, FindCandidates(w) PROVE IInv'
    BY <2>4, FindStep
  <2>5. ASSUME NEW w \in Worker, Retrieve(w) PROVE IInv'
    BY <2>5, RetrieveStep
  <2>6. ASSUME NEW w \in Worker, Die(w) PROVE IInv'
    BY <2>6, DieStep
  <2>7. CASE UNCHANGED vars
    BY <2>7 DEF vars, IInv, TypeOK, Schedule, Spacing, Progress, Candidates
  <2> QED
    BY <2>1, <2>2, <2>3, <2>4, <2>5, <2>6, <2>7 DEF Next
<1> QED
  BY <1>1, <1>2, PTL DEF Spec

\* TypeOK: the types of all variables, in particular the time limit of requests.
THEOREM TypeCorrect == Spec => []TypeOK
<1>1. IInv => TypeOK
  BY DEF IInv
<1> QED
  BY <1>1, Invariance, PTL

\* RunsDoNotOverlap: no retrieve run is in progress when cron starts the next one.
THEOREM NoOverlap == Spec => []RunsDoNotOverlap
<1>1. IInv => RunsDoNotOverlap
  BY DEF IInv, Progress, RunsDoNotOverlap
<1> QED
  BY <1>1, Invariance, PTL

\* OncePerBucket: no retrieve run records a probe a second time under one label.
THEOREM RetrievedOnce == Spec => OncePerBucket
<1>1. ASSUME IInv, NEW w \in Worker, Retrieve(w), NEW p \in probes, p.age \in Oldest(todo[w])
      PROVE  bucket[w] \notin p.got
  BY <1>1 DEF IInv, Candidates, Oldest
<1>2. IInv /\ [Next]_vars =>
        [\A w \in Worker : Retrieve(w) =>
            \A p \in probes : p.age \in Oldest(todo[w]) => bucket[w] \notin p.got]_vars
  BY <1>1
<1> QED
  BY <1>2, Invariance, PTL DEF Spec, OncePerBucket

\* LabelIsHonest: at the record, a probe's age is within the tolerance and one timeout
\* of what the label says.
THEOREM LabelsAreHonest == Spec => LabelIsHonest
<1>1. ASSUME IInv, NEW w \in Worker, Retrieve(w), NEW age \in Oldest(todo[w])
      PROVE  age - Buckets[bucket[w]] \in -TOLERANCE .. TOLERANCE + HTTP_TIMEOUT
  <2>0. TypeOK /\ Progress /\ Candidates
    BY <1>1 DEF IInv
  <2>1. age \in todo[w]
    BY DEF Oldest
  <2>2. /\ age >= Buckets[bucket[w]] - TOLERANCE + waited[w]
        /\ age <= Buckets[bucket[w]] + TOLERANCE + waited[w]
    BY <2>0, <2>1 DEF Candidates
  <2>3. bucket[w] \in Bucket
    BY <2>0, <2>1, Types DEF Progress
  <2>4. /\ age \in Nat /\ Buckets[bucket[w]] \in Nat /\ TOLERANCE \in Nat
        /\ HTTP_TIMEOUT \in Nat /\ waited[w] \in Nat /\ waited[w] <= HTTP_TIMEOUT
    BY <2>0, <2>1, <2>3, Types, Constants
  <2> QED
    BY <2>2, <2>4
<1>2. IInv /\ [Next]_vars =>
        [\A w \in Worker : Retrieve(w) =>
            \A age \in Oldest(todo[w]) :
                age - Buckets[bucket[w]] \in -TOLERANCE .. TOLERANCE + HTTP_TIMEOUT]_vars
  BY <1>1
<1> QED
  BY <1>2, Invariance, PTL DEF Spec, LabelIsHonest

-----------------------------------------------------------------------------
(* Who is passed over.                                                     *)

\* Where in the period the probe was recorded that reaches the age of bucket b in this one.
At(p, b) == Buckets[b] + phase - p.age

\* A run of this period has read the bucket when the probe was well in its window.
InReach(p, b) ==
    /\ At(p, b) \in 0 .. SUBMIT_MAX
    /\ readAt[b] - At(p, b) \in 1 - TOLERANCE .. TOLERANCE - 1

\* The probe has its retrieval, or a run is about to make it.
Found(p, b) ==
    \/ b \in p.got
    \/ \E w \in Worker : bucket[w] = b /\ p.age \in todo[w]

FoundWhenRead == \A p \in probes, b \in Bucket : InReach(p, b) => Found(p, b)

\* Probes are recorded at most SUBMIT_MAX ticks after the firing of cron.
RecordedInTime ==
    \A p \in probes : \E k \in Int : phase - p.age + k * PERIOD \in 0 .. SUBMIT_MAX

\* A bucket that was not read is no excuse: it counts as read too late for any probe.
LEMMA UnreadIsLate ==
    \A o \in 0 .. SUBMIT_MAX : Unread - o \notin 1 - TOLERANCE .. TOLERANCE - 1
BY Constants DEF Unread

LEMMA TickFinds == IInv /\ FoundWhenRead /\ Tick => FoundWhenRead'
<1> SUFFICES ASSUME IInv, FoundWhenRead, Tick, NEW p \in probes', NEW b \in Bucket, InReach(p, b)'
             PROVE  Found(p, b)'
  BY DEF FoundWhenRead
<1>0. TypeOK
  BY DEF IInv
<1> DEFINE aged(q) == [q EXCEPT !.age = @ + 1]
<1>1. PICK q \in probes : p = aged(q)
  BY DEF Tick
<1>2. q \in Probe /\ q.age \in Nat /\ p.age = q.age + 1 /\ p.got = q.got
  BY <1>0, <1>1, Types DEF Probe
<1> HIDE DEF aged
<1>3. phase' # 0
  <2>1. At(p, b)' \in 0 .. SUBMIT_MAX /\ readAt'[b] - At(p, b)' \in 1 - TOLERANCE .. TOLERANCE - 1
    BY DEF InReach
  <2>2. phase' = 0 => readAt'[b] = Unread
    BY DEF Tick
  <2> QED
    BY <2>1, <2>2, UnreadIsLate
<1>4. phase' = phase + 1 /\ readAt' = readAt /\ phase \in Nat
  BY <1>0, <1>3, Types DEF Tick
<1>5. At(p, b)' = At(q, b)
  <2>1. Buckets[b] \in Int
    BY Constants
  <2>2. \A x \in Int, y \in Nat, z \in Nat : x + (y + 1) - (z + 1) = x + y - z
    OBVIOUS
  <2>3. Buckets[b] + (phase + 1) - (q.age + 1) = Buckets[b] + phase - q.age
    BY <1>2, <1>4, <2>1, <2>2
  <2> QED
    BY <1>2, <1>4, <2>3, Zenon DEF At
<1>6. InReach(q, b)
  BY <1>4, <1>5 DEF InReach
<1>7. CASE b \in q.got
  BY <1>2, <1>7 DEF Found
<1>8. ASSUME NEW w \in Worker, bucket[w] = b, q.age \in todo[w] PROVE Found(p, b)'
  <2>1. bucket' = bucket /\ todo'[w] = {age + 1 : age \in todo[w]}
    BY DEF Tick
  <2>2. p.age \in todo'[w]
    BY <1>2, <1>8, <2>1
  <2> QED
    BY <1>8, <2>1, <2>2 DEF Found
<1> QED
  BY <1>6, <1>7, <1>8 DEF FoundWhenRead, Found

\* A new probe has a period to go until its first bucket.
LEMMA SubmitFinds == IInv /\ FoundWhenRead /\ Submit => FoundWhenRead'
<1> SUFFICES ASSUME IInv, FoundWhenRead, Submit, NEW p \in probes', NEW b \in Bucket, InReach(p, b)'
             PROVE  Found(p, b)'
  BY DEF FoundWhenRead
<1>1. UNCHANGED <<phase, bucket, todo, readAt>>
  BY DEF Submit
<1>2. p \in probes \/ p.age = 0
  BY DEF Submit
<1>3. p \in probes
  <2>1. Buckets[b] >= PERIOD
    <3>1. Buckets[b] \in Nat \ {0} /\ Buckets[b] % PERIOD = 0
      BY BucketsAssumption DEF Bucket
    <3>2. \A m, n \in Nat : 0 < m /\ m < n => m % n = m
      OBVIOUS
    <3>3. ~(Buckets[b] < PERIOD)
      BY <3>1, <3>2, Constants
    <3> QED
      BY <3>1, <3>3, Constants
  <2>2. At(p, b)' \in 0 .. SUBMIT_MAX /\ phase \in Nat
    BY Types DEF IInv, InReach
  <2>3. p.age # 0
    BY <1>1, <2>1, <2>2, Constants DEF At
  <2> QED
    BY <1>2, <2>3
<1>4. InReach(p, b)
  BY <1>1 DEF InReach, At
<1> QED
  BY <1>1, <1>3, <1>4 DEF FoundWhenRead, Found

\* A run that reads a bucket gets every probe that is well in the window.
LEMMA FindFinds ==
    ASSUME NEW w \in Worker, IInv, FoundWhenRead, FindCandidates(w)
    PROVE  FoundWhenRead'
<1> SUFFICES ASSUME NEW p \in probes', NEW b \in Bucket, InReach(p, b)'
             PROVE  Found(p, b)'
  BY DEF FoundWhenRead
<1>0. TypeOK
  BY DEF IInv
<1>1. PICK s \in Window(bucket[w]) :
        LET candidates == {q.age : q \in Unretrieved(s, bucket[w])}
        IN  /\ todo' = [todo EXCEPT ![w] = candidates]
            /\ bucket' = IF candidates = {} THEN [bucket EXCEPT ![w] = After(@)] ELSE bucket
  BY DEF FindCandidates
<1> DEFINE candidates == {q.age : q \in Unretrieved(s, bucket[w])}
<1>2. /\ phase' = phase /\ probes' = probes /\ readAt' = [readAt EXCEPT ![bucket[w]] = phase]
      /\ bucket[w] # 0 /\ todo[w] = {}
      /\ todo' = [todo EXCEPT ![w] = candidates]
      /\ bucket' = IF candidates = {} THEN [bucket EXCEPT ![w] = After(@)] ELSE bucket
  BY <1>1 DEF FindCandidates
<1>3. CASE b = bucket[w]
  <2>1. readAt'[b] = phase
    BY <1>0, <1>2, <1>3 DEF TypeOK
  <2>2. phase - At(p, b) \in 1 - TOLERANCE .. TOLERANCE - 1
    BY <1>2, <2>1 DEF InReach, At
  <2>3. p \in probes /\ p.age \in Nat /\ phase \in Nat
    BY <1>0, <1>2, Types
  <2>4. p.age - Buckets[b] \in 1 - TOLERANCE .. TOLERANCE - 1
    BY <2>2, <2>3, Constants DEF At
  <2>5. p \in s
    BY <1>3, <2>3, <2>4 DEF Window
  <2>6. CASE b \in p.got
    BY <2>6 DEF Found
  <2>7. CASE b \notin p.got
    <3>1. p.age \in candidates
      BY <1>3, <2>5, <2>7 DEF Unretrieved
    <3> HIDE DEF candidates
    <3>2. bucket'[w] = b /\ p.age \in todo'[w]
      BY <1>0, <1>2, <1>3, <3>1 DEF TypeOK
    <3> QED
      BY <3>2 DEF Found
  <2> QED
    BY <2>6, <2>7
<1>4. CASE b # bucket[w]
  <2> HIDE DEF candidates
  <2>1. readAt'[b] = readAt[b]
    BY <1>0, <1>2, <1>4 DEF TypeOK
  <2>2. InReach(p, b)
    BY <1>2, <2>1 DEF InReach, At
  <2>3. CASE b \in p.got
    BY <2>3 DEF Found
  <2>4. ASSUME NEW v \in Worker, bucket[v] = b, p.age \in todo[v] PROVE Found(p, b)'
    <3>1. bucket'[v] = b /\ todo'[v] = todo[v]
      BY <1>0, <1>2, <1>4, <2>4 DEF TypeOK
    <3> QED
      BY <2>4, <3>1 DEF Found
  <2> QED
    BY <1>2, <2>2, <2>3, <2>4 DEF FoundWhenRead, Found
<1> QED
  BY <1>3, <1>4

\* A candidate that is done with has its retrieval, whatever the request gave.
LEMMA RetrieveFinds ==
    ASSUME NEW w \in Worker, IInv, FoundWhenRead, Retrieve(w)
    PROVE  FoundWhenRead'
<1> SUFFICES ASSUME NEW p \in probes', NEW b \in Bucket, InReach(p, b)'
             PROVE  Found(p, b)'
  BY DEF FoundWhenRead
<1>0. TypeOK
  BY DEF IInv
<1>1. PICK age \in Oldest(todo[w]) :
        /\ probes' = {IF q.age = age
                        THEN [q EXCEPT !.got = @ \union {bucket[w]}] ELSE q : q \in probes}
        /\ todo' = [todo EXCEPT ![w] = @ \ {age}]
  BY DEF Retrieve, Recorded
<1>2. /\ phase' = phase /\ readAt' = readAt
      /\ bucket' = IF todo'[w] = {} THEN [bucket EXCEPT ![w] = After(@)] ELSE bucket
  BY DEF Retrieve
<1>3. PICK q \in probes : p = IF q.age = age THEN [q EXCEPT !.got = @ \union {bucket[w]}] ELSE q
  BY <1>1
<1>4. p.age = q.age /\ q.got \subseteq p.got /\ (q.age = age => bucket[w] \in p.got)
  <2>1. q \in Probe
    BY <1>0, Types
  <2>2. CASE q.age = age
    BY <1>3, <2>1, <2>2 DEF Probe
  <2>3. CASE q.age # age
    BY <1>3, <2>3
  <2> QED
    BY <2>2, <2>3
<1>5. InReach(q, b)
  BY <1>2, <1>4 DEF InReach, At
<1>6. CASE b \in q.got
  BY <1>4, <1>6 DEF Found
<1>7. ASSUME NEW v \in Worker, bucket[v] = b, q.age \in todo[v] PROVE Found(p, b)'
  <2>1. CASE v = w /\ q.age = age
    BY <1>4, <1>7, <2>1 DEF Found
  <2>2. CASE v = w /\ q.age # age
    <3>1. q.age \in todo'[w]
      BY <1>0, <1>1, <1>7, <2>2 DEF TypeOK
    <3>2. bucket' = bucket
      BY <1>2, <3>1
    <3> QED
      BY <1>4, <1>7, <2>2, <3>1, <3>2 DEF Found
  <2>3. CASE v # w
    <3>1. bucket'[v] = b /\ todo'[v] = todo[v]
      BY <1>0, <1>1, <1>2, <1>7, <2>3 DEF TypeOK
    <3> QED
      BY <1>4, <1>7, <3>1 DEF Found
  <2> QED
    BY <2>1, <2>2, <2>3
<1> QED
  BY <1>5, <1>6, <1>7 DEF FoundWhenRead, Found

\* A run that dies gives up the buckets it has not finished, and only those.
LEMMA DieFinds ==
    ASSUME NEW w \in Worker, IInv, FoundWhenRead, Die(w)
    PROVE  FoundWhenRead'
<1> SUFFICES ASSUME NEW p \in probes', NEW b \in Bucket, InReach(p, b)'
             PROVE  Found(p, b)'
  BY DEF FoundWhenRead
<1>0. TypeOK
  BY DEF IInv
<1>1. /\ phase' = phase /\ probes' = probes /\ bucket[w] \in Bucket
      /\ readAt' = [c \in Bucket |-> IF c < bucket[w] THEN readAt[c] ELSE Unread]
      /\ bucket' = [bucket EXCEPT ![w] = 0] /\ todo' = [todo EXCEPT ![w] = {}]
  BY <1>0, Types DEF Die
<1>2. b < bucket[w] /\ readAt'[b] = readAt[b]
  <2>1. /\ At(p, b)' \in 0 .. SUBMIT_MAX
        /\ readAt'[b] - At(p, b)' \in 1 - TOLERANCE .. TOLERANCE - 1
    BY DEF InReach
  <2>2. ~(b < bucket[w]) => readAt'[b] = Unread
    BY <1>1
  <2> QED
    BY <1>1, <2>1, <2>2, UnreadIsLate
<1>3. InReach(p, b)
  BY <1>1, <1>2 DEF InReach, At
<1>4. CASE b \in p.got
  BY <1>4 DEF Found
<1>5. ASSUME NEW v \in Worker, bucket[v] = b, p.age \in todo[v] PROVE Found(p, b)'
  <2>1. v # w
    BY <1>1, <1>2, <1>5, Constants
  <2>2. bucket'[v] = b /\ todo'[v] = todo[v]
    BY <1>0, <1>1, <1>5, <2>1 DEF TypeOK
  <2> QED
    BY <1>5, <2>2 DEF Found
<1> QED
  BY <1>1, <1>3, <1>4, <1>5 DEF FoundWhenRead, Found

LEMMA FindsNext == IInv /\ FoundWhenRead /\ [Next]_vars => FoundWhenRead'
<1> SUFFICES ASSUME IInv, FoundWhenRead, [Next]_vars PROVE FoundWhenRead'
  OBVIOUS
<1>1. ASSUME NEW w \in Worker, Start(w) PROVE FoundWhenRead'
  <2>1. /\ UNCHANGED <<phase, probes, todo, readAt>>
        /\ bucket[w] = 0 /\ bucket' = [bucket EXCEPT ![w] = 1] /\ TypeOK
    BY <1>1 DEF Start, IInv
  <2>2. \A v \in Worker : bucket[v] # 0 => bucket'[v] = bucket[v]
    BY <2>1 DEF TypeOK
  <2> SUFFICES ASSUME NEW p \in probes, NEW b \in Bucket, InReach(p, b)'
               PROVE  Found(p, b)'
    BY <2>1 DEF FoundWhenRead
  <2>3. InReach(p, b)
    BY <2>1 DEF InReach, At
  <2>4. b # 0
    BY Constants
  <2> QED
    BY <2>1, <2>2, <2>3, <2>4 DEF FoundWhenRead, Found
<1>2. CASE UNCHANGED vars
  BY <1>2 DEF vars, FoundWhenRead, InReach, At, Found
<1> QED
  BY <1>1, <1>2, TickFinds, SubmitFinds, FindFinds, RetrieveFinds, DieFinds DEF Next

LEMMA RecordedInTimeNext == IInv /\ RecordedInTime /\ [Next]_vars => RecordedInTime'
<1> SUFFICES ASSUME IInv, RecordedInTime, [Next]_vars, NEW p \in probes'
             PROVE  \E k \in Int : phase' - p.age + k * PERIOD \in 0 .. SUBMIT_MAX
  BY DEF RecordedInTime
<1>0. TypeOK /\ Schedule
  BY DEF IInv
<1>1. phase \in Nat /\ \A q \in probes : q \in Probe /\ q.age \in Nat
  BY <1>0, Types
<1>2. CASE Tick
  <2> DEFINE aged(q) == [q EXCEPT !.age = @ + 1]
  <2>1. PICK q \in probes : p = aged(q)
    BY <1>2 DEF Tick
  <2>2. p.age = q.age + 1 /\ q.age \in Nat
    BY <1>1, <2>1 DEF Probe
  <2> HIDE DEF aged
  <2>3. PICK k \in Int : phase - q.age + k * PERIOD \in 0 .. SUBMIT_MAX
    BY DEF RecordedInTime
  <2>4. CASE phase + 1 = PERIOD
    <3>1. phase' = 0
      BY <1>2, <2>4 DEF Tick
    <3> DEFINE now == (k + 1) * PERIOD
               was == k * PERIOD
    <3>2. now = was + PERIOD /\ was \in Int
      BY Constants
    <3> HIDE DEF now, was
    <3>3. phase' - p.age + now = phase - q.age + was
      <4>1. PERIOD \in Nat /\ phase = PERIOD - 1 /\ phase' = 0
        BY <1>1, <2>4, <3>1, Constants
      <4> QED
        BY <2>2, <3>2, <4>1
    <3> QED
      BY <2>3, <3>3 DEF now, was
  <2>5. CASE phase + 1 # PERIOD
    <3>1. phase' = phase + 1 /\ k * PERIOD \in Int
      BY <1>2, <2>5, Constants DEF Tick
    <3>2. phase' - p.age + k * PERIOD = phase - q.age + k * PERIOD
      BY <1>1, <2>2, <3>1
    <3> QED
      BY <2>3, <3>2
  <2> QED
    BY <2>4, <2>5
<1>3. CASE Submit
  <2>1. phase' = phase /\ (p \in probes \/ p.age = 0) /\ phase <= SUBMIT_MAX
    BY <1>0, <1>3 DEF Submit, Schedule
  <2>2. CASE p \in probes
    BY <2>1, <2>2 DEF RecordedInTime
  <2>3. CASE p.age = 0
    <3>1. phase' - p.age + 0 * PERIOD \in 0 .. SUBMIT_MAX
      BY <1>1, <2>1, <2>3, Constants
    <3> QED
      BY <3>1
  <2> QED
    BY <2>1, <2>2, <2>3
<1>4. ASSUME NEW w \in Worker, Retrieve(w)
      PROVE  phase' = phase /\ \E q \in probes : p.age = q.age
  <2> DEFINE after(q, age) == IF q.age = age THEN [q EXCEPT !.got = @ \union {bucket[w]}] ELSE q
  <2>1. phase' = phase
    BY <1>4 DEF Retrieve
  <2>2. PICK age \in Oldest(todo[w]) : probes' = {after(q, age) : q \in probes}
    BY <1>4 DEF Retrieve, Recorded
  <2>3. \A q \in probes : after(q, age).age = q.age
    BY <1>1 DEF Probe
  <2> QED
    BY <2>1, <2>2, <2>3
<1>5. ASSUME UNCHANGED <<phase, probes>>
      PROVE  phase' = phase /\ \E q \in probes : p.age = q.age
  BY <1>5
<1>6. ASSUME phase' = phase, \E q \in probes : p.age = q.age
      PROVE  \E k \in Int : phase' - p.age + k * PERIOD \in 0 .. SUBMIT_MAX
  BY <1>6 DEF RecordedInTime
<1> QED
  BY <1>2, <1>3, <1>4, <1>5, <1>6 DEF Next, Start, FindCandidates, Die, vars

LEMMA Division ==
    ASSUME NEW x \in Int, NEW P \in Nat, P > 0
    PROVE  /\ x % P \in Nat /\ x % P < P
           /\ \E j \in Int : x = j * P + (x % P)
OBVIOUS

\* What is left when all periods are taken off.
LEMMA Remainder ==
    ASSUME NEW x \in Int, NEW k \in Int, NEW r \in Nat, NEW P \in Nat, P > 0,
           r < P, r = x + k * P
    PROVE  x % P = r
<1>1. PICK j \in Int : x = j * P + (x % P)
  BY Division
<1>2. x % P \in Nat /\ x % P < P
  BY Division
<1>3. r = (j + k) * P + (x % P)
  BY <1>1
<1> DEFINE m == x % P
           d == j + k
<1>4. d \in Int /\ m \in Nat /\ m < P /\ r = d * P + m
  BY <1>2, <1>3
<1> HIDE DEF m, d
<1>5. d > 0 => d * P >= P
  <2>1. d > 0 => d - 1 \in Nat /\ (d - 1) * P \in Nat
    BY <1>4
  <2>2. d * P = (d - 1) * P + P
    BY <1>4
  <2> QED
    BY <1>4, <2>1, <2>2
<1>6. d < 0 => d * P <= -P
  <2>1. d < 0 => (-d) - 1 \in Nat /\ ((-d) - 1) * P \in Nat
    BY <1>4
  <2>2. d * P = -(((-d) - 1) * P) - P
    BY <1>4
  <2> QED
    BY <1>4, <2>1, <2>2
<1>7. d * P \in Int
  BY <1>4
<1>8. d = 0
  BY <1>4, <1>5, <1>6, <1>7
<1>9. m = r
  BY <1>4, <1>8
<1> QED
  BY <1>9 DEF m

\* PassedOverOnlyWhenLate: at the end of the period in which a probe reached the age of a
\* bucket it has its retrieval, unless a run is still at it, or was lost or read the
\* bucket too late, or the probe was recorded too late, by the tolerance.
THEOREM PassedOverForLackOfMargin == Spec => []PassedOverOnlyWhenLate
<1>1. Init => FoundWhenRead /\ RecordedInTime
  BY DEF Init, FoundWhenRead, RecordedInTime
<1>2. IInv /\ FoundWhenRead /\ RecordedInTime => PassedOverOnlyWhenLate
  <2> SUFFICES ASSUME IInv, FoundWhenRead, RecordedInTime, phase = PERIOD - 1,
                      NEW p \in probes, NEW b \in Bucket,
                      p.age = Buckets[b] - Offset(p) + PERIOD - 1,
                      readAt[b] - Offset(p) \in 1 - TOLERANCE .. TOLERANCE - 1
               PROVE  b \in p.got \/ \E w \in Worker : bucket[w] # 0
    BY DEF PassedOverOnlyWhenLate
  <2>1. phase \in Nat /\ p.age \in Nat /\ Buckets[b] \in Nat /\ PERIOD \in Nat /\ PERIOD > 0
        /\ SUBMIT_MAX \in Nat /\ SUBMIT_MAX < PERIOD
    BY Types, Constants DEF IInv
  <2>2. Offset(p) \in 0 .. SUBMIT_MAX
    <3>1. PICK k \in Int : phase - p.age + k * PERIOD \in 0 .. SUBMIT_MAX
      BY DEF RecordedInTime
    <3> DEFINE r == phase - p.age + k * PERIOD
               x == phase - p.age
    <3>2. x \in Int /\ r \in Nat /\ r < PERIOD /\ r = x + k * PERIOD
      BY <2>1, <3>1
    <3> HIDE DEF r, x
    <3>3. x % PERIOD = r
      BY <2>1, <3>2, Remainder
    <3> QED
      BY <3>1, <3>3 DEF Offset, r, x
  <2>3. At(p, b) = Offset(p)
    <3> DEFINE o == Offset(p)
    <3>1. o \in Nat /\ p.age = Buckets[b] - o + PERIOD - 1
      BY <2>1, <2>2
    <3> HIDE DEF o
    <3>2. Buckets[b] + phase - p.age = o
      BY <2>1, <3>1
    <3> QED
      BY <3>2 DEF At, o
  <2>4. InReach(p, b)
    BY <2>2, <2>3 DEF InReach
  <2> QED
    BY <2>4, Constants DEF FoundWhenRead, Found
<1> QED
  BY <1>1, <1>2, FindsNext, RecordedInTimeNext, Invariance, PTL DEF Spec

=============================================================================
