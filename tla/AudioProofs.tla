----------------------------- MODULE AudioProofs -----------------------------
(***************************************************************************)
(* Proofs about AudioRegulator, for every capacity, target, size of frame  *)
(* and size of request: the ring buffer needs no lock as long as each      *)
(* thread only moves its own cursor, and the lock is enough where the      *)
(* decoder moves both.                                                     *)
(***************************************************************************)
EXTENDS AudioRegulator, SequenceTheorems, TLAPS

-------------------------------------------------------------------------------
(* Arithmetic of the cursors.                                              *)

LEMMA ModSmall ==
  ASSUME NEW a \in Nat \ {0}, NEW x \in 0 .. a - 1 PROVE x % a = x
  BY SMT

LEMMA ModWrap ==
  ASSUME NEW a \in Nat \ {0}, NEW x \in a .. 2 * a - 1 PROVE x % a = x - a
  BY SMT

LEMMA ModRange ==
  ASSUME NEW a \in Nat \ {0}, NEW x \in Int PROVE x % a \in 0 .. a - 1
  BY SMT

LEMMA AllocValue == Alloc = Capacity + 1 /\ Alloc \in Nat \ {0} /\ Capacity \in Nat
  BY AudioAssumption DEF AudioAssumption, Alloc

(* The cursor after k steps, k at most the capacity. *)
LEMMA Step ==
  ASSUME NEW c \in 0 .. Capacity, NEW k \in 0 .. Capacity
  PROVE  /\ (c + k) % Alloc = IF c + k <= Capacity THEN c + k ELSE c + k - Alloc
         /\ (c + k) % Alloc \in 0 .. Capacity
<1> USE AllocValue
<1>1. CASE c + k <= Capacity
  <2>1. c + k \in 0 .. Alloc - 1
    BY <1>1
  <2>2. (c + k) % Alloc = c + k
    BY <2>1, ModSmall
  <2> QED BY <1>1, <2>2
<1>2. CASE c + k > Capacity
  <2>1. c + k \in Alloc .. 2 * Alloc - 1
    BY <1>2
  <2>2. (c + k) % Alloc = c + k - Alloc
    <3>1. PICK a \in Nat \ {0} : a = Alloc
      OBVIOUS
    <3>2. (c + k) % a = c + k - a
      BY <2>1, <3>1, ModWrap
    <3> QED BY <3>1, <3>2
  <2> QED BY <1>2, <2>2
<1> QED BY <1>1, <1>2

(* The number of slots from the cursor t to the cursor h. *)
Distance(h, t) == (Alloc + h - t) % Alloc

LEMMA DistanceValue ==
  ASSUME NEW h \in 0 .. Capacity, NEW t \in 0 .. Capacity
  PROVE  /\ Distance(h, t) = IF h >= t THEN h - t ELSE Alloc + h - t
         /\ Distance(h, t) \in 0 .. Capacity
<1> USE AllocValue DEF Distance
<1>1. CASE h >= t
  <2>1. Alloc + h - t \in Alloc .. 2 * Alloc - 1
    BY <1>1
  <2>2. Distance(h, t) = (Alloc + h - t) - Alloc
    BY <2>1, ModWrap
  <2> QED BY <1>1, <2>2
<1>2. CASE h < t
  <2>1. Alloc + h - t \in 0 .. Alloc - 1
    BY <1>2
  <2>2. Distance(h, t) = Alloc + h - t
    BY <2>1, ModSmall
  <2> QED BY <1>2, <2>2
<1> QED BY <1>1, <1>2

(* The samples and the free slots fill the ring, except for one slot. *)
LEMMA FreeSlots ==
  ASSUME NEW h \in 0 .. Capacity, NEW t \in 0 .. Capacity
  PROVE  (Alloc + t - h - 1) % Alloc = Capacity - Distance(h, t)
<1> USE AllocValue
<1>1. CASE h >= t
  <2>1. Alloc + t - h - 1 \in 0 .. Alloc - 1
    BY <1>1
  <2>2. (Alloc + t - h - 1) % Alloc = Alloc + t - h - 1
    BY <2>1, ModSmall
  <2> QED BY <1>1, <2>2, DistanceValue
<1>2. CASE h < t
  <2>1. Alloc + t - h - 1 \in Alloc .. 2 * Alloc - 1
    BY <1>2
  <2>2. (Alloc + t - h - 1) % Alloc = (Alloc + t - h - 1) - Alloc
    BY <2>1, ModWrap
  <2> QED BY <1>2, <2>2, DistanceValue
<1> QED BY <1>1, <1>2

(* A cursor moves by k slots. *)
Advance(c, k) == (c + k) % Alloc

(* Writing adds to the distance. *)
LEMMA HeadMoves ==
  ASSUME NEW h \in 0 .. Capacity, NEW t \in 0 .. Capacity,
         NEW k \in 0 .. Capacity, Distance(h, t) + k <= Capacity
  PROVE  /\ Advance(h, k) \in 0 .. Capacity
         /\ Distance(Advance(h, k), t) = Distance(h, t) + k
<1> DEFINE g == Advance(h, k)
<1>1. g = (IF h + k <= Capacity THEN h + k ELSE h + k - Alloc)
      /\ g \in 0 .. Capacity
  BY Step DEF Advance
<1>2. Distance(g, t) = IF g >= t THEN g - t ELSE Alloc + g - t
  BY <1>1, DistanceValue
<1>3. Distance(h, t) = IF h >= t THEN h - t ELSE Alloc + h - t
  BY DistanceValue
<1> QED BY <1>1, <1>2, <1>3, AllocValue

(* Reading or dropping subtracts from it. *)
LEMMA TailMoves ==
  ASSUME NEW h \in 0 .. Capacity, NEW t \in 0 .. Capacity,
         NEW k \in 0 .. Capacity, k <= Distance(h, t)
  PROVE  /\ Advance(t, k) \in 0 .. Capacity
         /\ Distance(h, Advance(t, k)) = Distance(h, t) - k
<1> DEFINE u == Advance(t, k)
<1>1. u = (IF t + k <= Capacity THEN t + k ELSE t + k - Alloc)
      /\ u \in 0 .. Capacity
  BY Step DEF Advance
<1>2. Distance(h, u) = IF h >= u THEN h - u ELSE Alloc + h - u
  BY <1>1, DistanceValue
<1>3. Distance(h, t) = IF h >= t THEN h - t ELSE Alloc + h - t
  BY DistanceValue
<1> QED BY <1>1, <1>2, <1>3, AllocValue

(* The slots from the writer's cursor on are not among those which can be  *)
(* read.                                                                   *)
LEMMA SlotsApart ==
  ASSUME NEW h \in 0 .. Capacity, NEW t \in 0 .. Capacity,
         NEW i \in 0 .. Capacity, NEW j \in 0 .. Capacity,
         j < Distance(h, t), Distance(h, t) + i <= Capacity
  PROVE  (h + i) % Alloc # (t + j) % Alloc
<1>1. (h + i) % Alloc = IF h + i <= Capacity THEN h + i ELSE h + i - Alloc
  BY Step
<1>2. (t + j) % Alloc = IF t + j <= Capacity THEN t + j ELSE t + j - Alloc
  BY Step
<1>3. Distance(h, t) = IF h >= t THEN h - t ELSE Alloc + h - t
  BY DistanceValue
<1> QED BY <1>1, <1>2, <1>3, AllocValue

-------------------------------------------------------------------------------
(* The inductive invariant.                                                *)

(* What is being written starts at the cursor of the writer and fits. *)
WritingInv ==
  IF decoder \in {"silence", "writing", "rewriting"}
    THEN writing.at = head /\ CanRead + writing.n <= Capacity
    ELSE writing = NoSlots

(* What is being read starts at the cursor of the reader and is there. *)
ReadingInv ==
  IF callback = "reading"
    THEN reading.at = tail /\ reading.n <= CanRead
    ELSE reading = NoSlots

(* What remains to be written, once space was made, fits. *)
TodoInv ==
  /\ decoder = "rewrite" => CanRead + todo <= Capacity
  /\ decoder = "writing" => writing.n <= todo
  /\ decoder = "rewriting" => writing.n = todo

(* The limit was computed with a value of played that may be old. *)
LimitInv ==
  decoder = "skip" => limit \in {MaxInitial, MaxPlayed}
                      /\ (~played => limit = MaxInitial)

AudioInv ==
  /\ AudioTypeOK /\ WritingInv /\ ReadingInv /\ TodoInv /\ LimitInv
  /\ LatencyBounded

(* What the two counts are, in the current state. *)
LEMMA Cursors ==
  ASSUME AudioTypeOK
  PROVE  /\ CanRead = Distance(head, tail) /\ CanRead \in 0 .. Capacity
         /\ CanWrite = Capacity - CanRead /\ CanWrite \in 0 .. Capacity
<1>1. head \in 0 .. Capacity /\ tail \in 0 .. Capacity
  BY DEF AudioTypeOK
<1>2. CanRead = Distance(head, tail)
  BY DEF CanRead, Distance
<1>3. CanWrite = Capacity - Distance(head, tail)
  BY <1>1, FreeSlots DEF CanWrite
<1>4. Distance(head, tail) \in 0 .. Capacity
  BY <1>1, DistanceValue
<1> QED BY <1>2, <1>3, <1>4, AllocValue

LEMMA SampleType ==
  ASSUME next \in 1 .. Serials, NEW i \in Int
  PROVE  Sample(i) \in 1 .. Serials
<1>1. Serials \in Nat \ {0} /\ next + i - 1 \in Int
  BY AudioAssumption DEF AudioAssumption
<1>2. (next + i - 1) % Serials \in 0 .. Serials - 1
  BY <1>1, ModRange
<1> QED BY <1>1, <1>2 DEF Sample

LEMMA FilledType ==
  ASSUME AudioTypeOK, NEW k, NEW samples \in [0 .. Capacity -> 0 .. Serials]
  PROVE  Filled(k, samples) \in [0 .. Capacity -> 0 .. Serials]
<1>1. SUFFICES ASSUME NEW slot \in 0 .. Capacity
               PROVE  (LET i == (Alloc + slot - head) % Alloc
                       IN  IF i < k THEN samples[i] ELSE data[slot])
                        \in 0 .. Serials
  BY DEF Filled
<1>2. Alloc \in Nat \ {0} /\ Alloc - 1 = Capacity /\ Alloc + slot - head \in Int
  BY AllocValue, AudioAssumption DEF AudioTypeOK, AudioAssumption
<1>3. (Alloc + slot - head) % Alloc \in 0 .. Capacity
  BY <1>2, ModRange
<1>4. data[slot] \in 0 .. Serials
  BY DEF AudioTypeOK
<1> QED BY <1>3, <1>4

LEMMA SamplesType ==
  ASSUME next \in 1 .. Serials
  PROVE  /\ Samples \in [0 .. Capacity -> 0 .. Serials]
         /\ Silence \in [0 .. Capacity -> 0 .. Serials]
<1>1. Serials \in Nat /\ Capacity \in Nat
  BY AudioAssumption DEF AudioAssumption
<1>2. \A i \in 0 .. Capacity : i \in Int /\ Sample(i) \in 1 .. Serials
  BY <1>1, SampleType
<1> QED BY <1>1, <1>2 DEF Samples, Silence

-------------------------------------------------------------------------------
(* The regulator keeps its invariant: types, cursors, the assertions of    *)
(* sc_audio_regulator_push(), the bound of the latency.                    *)
THEOREM AudioInvariant == Spec => []AudioInv
<1> USE AllocValue
<1>c. /\ Capacity \in Nat \ {0} /\ Target \in 0 .. Capacity
      /\ MaxInitial \in Nat /\ MaxPlayed \in Nat /\ MaxInitial <= MaxPlayed
      /\ Frames \subseteq Nat /\ Pulls \subseteq Nat /\ Serials \in Nat \ {0}
  BY AudioAssumption DEF AudioAssumption
<1>s. NoSlots \in Span
  BY DEF NoSlots, Span
<1>1. Init => AudioInv
  <2> SUFFICES ASSUME Init PROVE AudioInv
    OBVIOUS
  <2>1. Distance(0, 0) = 0
    BY DistanceValue, <1>c
  <2>2. CanRead = 0
    BY <2>1 DEF Init, CanRead, Distance
  <2>3. AudioTypeOK
    BY <1>c, <1>s DEF Init, AudioTypeOK
  <2>4. WritingInv /\ ReadingInv /\ TodoInv /\ LimitInv /\ LatencyBounded
    BY <1>c, <2>2 DEF Init, WritingInv, ReadingInv, TodoInv, LimitInv,
       LatencyBounded
  <2> QED BY <2>3, <2>4 DEF AudioInv
<1>2. AudioInv /\ [Next]_vars => AudioInv'
  <2> SUFFICES ASSUME AudioInv, [Next]_vars PROVE AudioInv'
    OBVIOUS
  <2>t. AudioTypeOK
    BY DEF AudioInv
  <2>d. /\ CanRead = Distance(head, tail) /\ CanRead \in 0 .. Capacity
        /\ CanWrite = Capacity - CanRead /\ CanWrite \in 0 .. Capacity
    BY <2>t, Cursors
  <2>e. CanRead' = Distance(head', tail')
    BY DEF CanRead, Distance
  <2>f. ASSUME head' \in 0 .. Capacity, tail' \in 0 .. Capacity
        PROVE  CanWrite' = Capacity - CanRead'
    BY <2>e, <2>f, FreeSlots DEF CanWrite
  <2>r. reading.n \in 0 .. Capacity /\ reading.at \in 0 .. Capacity
        /\ writing.n \in 0 .. Capacity
    BY <2>t DEF AudioTypeOK, Span
  <2>h. head \in 0 .. Capacity /\ tail \in 0 .. Capacity
    BY <2>t DEF AudioTypeOK
  <2>n. todo \in 0 .. Capacity /\ next \in 1 .. Serials
    BY <2>t DEF AudioTypeOK
  <2>p. /\ Samples \in [0 .. Capacity -> 0 .. Serials]
        /\ Silence \in [0 .. Capacity -> 0 .. Serials]
    BY <2>n, SamplesType
  <2>u. ASSUME UNCHANGED <<head, tail>>
        PROVE  CanRead' = CanRead /\ CanWrite' = CanWrite
    BY <2>u DEF CanRead, CanWrite
  <2>1. CASE \E n \in Frames : Discontinuity(n)
    <3>1. PICK n \in Frames : Discontinuity(n)
      BY <2>1
    <3>a. UNCHANGED <<head, tail>> /\ CanRead' = CanRead /\ CanWrite' = CanWrite
      BY <3>1, <2>u DEF Discontinuity
    <3>2. PICK k \in 0 .. Capacity :
             k <= CanWrite /\ writing' = [at |-> head, n |-> k]
      <4>a. Missing(n) > 0
        BY <3>1 DEF Discontinuity
      <4>b. n \in Nat /\ Target \in Nat
        BY <1>c
      <4>1. Missing(n) \in Nat
        BY <4>a, <4>b, <2>d DEF Missing
      <4>2. Lesser(Missing(n), CanWrite) \in 0 .. Capacity
            /\ Lesser(Missing(n), CanWrite) <= CanWrite
        BY <4>1, <2>d DEF Lesser
      <4> QED BY <3>1, <4>2 DEF Discontinuity
    <3>3. data' \in [0 .. Capacity -> 0 .. Serials]
      BY <3>1, <2>t, <2>p, FilledType DEF Discontinuity
    <3>w. writing' \in Span
      BY <3>2, <2>h DEF Span
    <3>4. AudioTypeOK'
      BY <3>1, <3>3, <3>w, <3>a, <2>t DEF Discontinuity, consumer, AudioTypeOK
    <3>5. WritingInv'
      <4>1. writing'.at = head /\ writing'.n = k /\ head' = head
        BY <3>2, <3>a
      <4>2. CanRead' + k <= Capacity
        BY <3>2, <3>a, <2>d
      <4> QED BY <4>1, <4>2, <3>1 DEF Discontinuity, WritingInv
    <3>6. ReadingInv' /\ TodoInv' /\ LimitInv' /\ LatencyBounded'
      BY <3>1, <3>a DEF Discontinuity, consumer, AudioInv, ReadingInv, TodoInv,
         LimitInv, LatencyBounded, NoSlots
    <3> QED BY <3>4, <3>5, <3>6 DEF AudioInv
  <2>2. CASE EndSilence
    <3>1. writing.at = head /\ CanRead + writing.n <= Capacity
          /\ writing.n \in 0 .. Capacity
      BY <2>2, <2>t DEF EndSilence, AudioInv, WritingInv, AudioTypeOK, Span
    <3>a. head' = (head + writing.n) % Alloc /\ tail' = tail
      BY <2>2 DEF EndSilence
    <3>2. head' \in 0 .. Capacity /\ CanRead' = CanRead + writing.n
      BY <2>d, <2>e, <2>h, <3>1, <3>a, HeadMoves DEF Advance
    <3>3. AudioTypeOK'
      BY <2>2, <2>t, <3>2, <1>c, <1>s DEF EndSilence, consumer, AudioTypeOK
    <3>4. WritingInv' /\ TodoInv' /\ LimitInv' /\ LatencyBounded'
      BY <2>2 DEF EndSilence, WritingInv, TodoInv, LimitInv, LatencyBounded
    <3>5. ReadingInv'
      BY <2>2, <2>d, <2>r, <3>1, <3>2
      DEF EndSilence, consumer, AudioInv, ReadingInv, NoSlots
    <3> QED BY <3>3, <3>4, <3>5 DEF AudioInv
  <2>3. CASE \E n \in Frames : Resample(n)
    <3>1. PICK n \in Frames : Resample(n)
      BY <2>3
    <3>a. UNCHANGED ring /\ CanRead' = CanRead /\ CanWrite' = CanWrite
      BY <3>1, <2>u DEF Resample, ring
    <3>2. todo' \in 0 .. Capacity /\ next' \in 1 .. Serials
      <4>1. Lesser(n, Capacity) \in 0 .. Capacity /\ n - Lesser(n, Capacity) \in Int
        BY <1>c DEF Lesser
      <4>2. Sample(n - Lesser(n, Capacity)) \in 1 .. Serials
        BY <4>1, <2>t, SampleType DEF AudioTypeOK
      <4> QED BY <3>1, <4>1, <4>2 DEF Resample
    <3>3. AudioTypeOK'
      BY <3>1, <3>2, <3>a, <2>t DEF Resample, ring, consumer, AudioTypeOK
    <3>4. WritingInv' /\ ReadingInv' /\ TodoInv' /\ LimitInv' /\ LatencyBounded'
      BY <3>1, <3>a DEF Resample, ring, consumer, AudioInv, WritingInv, ReadingInv,
         TodoInv, LimitInv, LatencyBounded, NoSlots
    <3> QED BY <3>3, <3>4 DEF AudioInv
  <2>4. CASE ResampleFails
    <3>1. UNCHANGED ring /\ CanRead' = CanRead /\ CanWrite' = CanWrite
      BY <2>4, <2>u DEF ResampleFails, ring
    <3> QED
      BY <2>4, <3>1 DEF ResampleFails, ring, consumer, AudioInv, AudioTypeOK,
         WritingInv, ReadingInv, TodoInv, LimitInv, LatencyBounded, NoSlots
  <2>5. CASE BeginWrite
    <3>a. UNCHANGED <<head, tail>> /\ CanRead' = CanRead /\ CanWrite' = CanWrite
      BY <2>5, <2>u DEF BeginWrite
    <3>1. PICK k \in 0 .. Capacity :
             /\ k <= CanWrite /\ k <= todo /\ (CanWrite >= todo => k = todo)
             /\ writing' = [at |-> head, n |-> k]
             /\ data' = Filled(k, Samples)
      <4>1. todo \in 0 .. Capacity
        BY <2>t DEF AudioTypeOK
      <4>2. Lesser(todo, CanWrite) \in 0 .. Capacity
            /\ Lesser(todo, CanWrite) <= CanWrite /\ Lesser(todo, CanWrite) <= todo
            /\ (CanWrite >= todo => Lesser(todo, CanWrite) = todo)
        BY <4>1, <2>d DEF Lesser
      <4> QED BY <2>5, <4>2 DEF BeginWrite
    <3>2. data' \in [0 .. Capacity -> 0 .. Serials]
      BY <3>1, <2>t, <2>p, FilledType
    <3>w. writing' \in Span
      BY <3>1, <2>h DEF Span
    <3>3. AudioTypeOK'
      BY <2>5, <3>2, <3>w, <3>a, <2>t DEF BeginWrite, consumer, AudioTypeOK
    <3>b. /\ decoder \in {"write", "rewrite"}
          /\ decoder' = IF decoder = "write" THEN "writing" ELSE "rewriting"
          /\ todo' = todo
      BY <2>5 DEF BeginWrite
    <3>6. writing'.at = head /\ writing'.n = k /\ head' = head
      BY <3>1, <3>a
    <3>7. WritingInv'
      <4>1. CanRead' + k <= Capacity
        BY <3>1, <3>a, <2>d
      <4> QED BY <4>1, <3>b, <3>6 DEF WritingInv
    <3>8. TodoInv'
      <4>1. decoder = "rewrite" => k = todo
        BY <3>1, <2>t DEF AudioTypeOK
      <4> QED BY <4>1, <3>1, <3>b, <3>6 DEF TodoInv
    <3>5. ReadingInv' /\ LimitInv' /\ LatencyBounded'
      BY <2>5, <3>a DEF BeginWrite, consumer, AudioInv, ReadingInv, LimitInv,
         LatencyBounded, NoSlots
    <3> QED BY <3>3, <3>5, <3>7, <3>8 DEF AudioInv
  <2>6. CASE EndWrite
    <3>1. writing.at = head /\ CanRead + writing.n <= Capacity
      BY <2>6 DEF EndWrite, AudioInv, WritingInv
    <3>a. head' = (head + writing.n) % Alloc /\ tail' = tail
      BY <2>6 DEF EndWrite
    <3>2. head' \in 0 .. Capacity /\ CanRead' = CanRead + writing.n
      BY <2>d, <2>e, <2>h, <2>r, <3>1, <3>a, HeadMoves DEF Advance
    <3>3. todo' \in 0 .. Capacity /\ next' \in 1 .. Serials
      <4>1. Sample(writing.n) \in 1 .. Serials
        BY <2>r, <2>n, SampleType
      <4>2. next' = Sample(writing.n) /\ todo' = todo - writing.n
        BY <2>6 DEF EndWrite
      <4>3. writing.n <= todo
        BY <2>6, <2>n DEF EndWrite, AudioInv, TodoInv
      <4> QED BY <2>r, <2>n, <4>1, <4>2, <4>3
    <3>4. decoder' \in {"full", "limit"} /\ (decoder' = "limit" => todo' = 0)
      <4>1. CASE decoder = "writing"
        BY <2>6, <3>3, <4>1 DEF EndWrite
      <4>2. CASE decoder = "rewriting"
        <5>1. todo' = 0
          BY <2>6, <2>n, <4>2 DEF EndWrite, AudioInv, TodoInv
        <5> QED BY <2>6, <4>2, <5>1 DEF EndWrite
      <4> QED BY <2>6, <4>1, <4>2 DEF EndWrite
    <3>5. AudioTypeOK'
      BY <2>6, <3>2, <3>3, <3>4, <3>a, <2>t, <1>s DEF EndWrite, consumer, AudioTypeOK
    <3>6. WritingInv' /\ TodoInv' /\ LimitInv' /\ LatencyBounded'
      BY <2>6, <3>4 DEF EndWrite, WritingInv, TodoInv, LimitInv, LatencyBounded
    <3>7. ReadingInv'
      BY <2>6, <2>d, <2>r, <3>2, <3>a DEF EndWrite, consumer, AudioInv, ReadingInv, NoSlots
    <3> QED BY <3>5, <3>6, <3>7 DEF AudioInv
  <2>7. CASE MakeSpace
    <3> DEFINE k == Lesser(todo, CanWrite)
    <3> DEFINE d == Lesser(todo', CanRead + k)
    <3>1. /\ head' = (head + k) % Alloc /\ tail' = (tail + d) % Alloc
          /\ todo' = todo - k /\ next' = Sample(k) /\ data' = Filled(k, Samples)
          /\ decoder' = IF todo' > 0 THEN "rewrite" ELSE "limit"
      BY <2>7 DEF MakeSpace
    <3>2. /\ k \in 0 .. Capacity /\ k <= CanWrite /\ k <= todo
          /\ (k < todo => k = CanWrite)
      BY <2>n, <2>d DEF Lesser
    <3>3. todo' \in 0 .. Capacity /\ CanRead + k \in 0 .. Capacity
      BY <3>1, <3>2, <2>n, <2>d
    <3>4. d = todo'
      <4>1. CASE todo' = 0
        BY <4>1, <3>3 DEF Lesser
      <4>2. CASE todo' > 0
        <5>1. CanRead + k = Capacity
          BY <4>2, <3>1, <3>2, <2>n, <2>d
        <5> QED BY <5>1, <3>3 DEF Lesser
      <4> QED BY <4>1, <4>2, <3>3
    <3>5. head' \in 0 .. Capacity /\ Distance(head', tail) = CanRead + k
      BY <3>1, <3>2, <3>3, <2>d, <2>h, HeadMoves DEF Advance
    <3>6. todo' <= CanRead + k
      BY <3>1, <3>2, <3>3, <2>n, <2>d
    <3> HIDE DEF k, d
    <3>7. tail' \in 0 .. Capacity /\ CanRead' = CanRead + k - todo'
      <4>1. /\ Advance(tail, todo') \in 0 .. Capacity
            /\ Distance(head', Advance(tail, todo'))
                 = Distance(head', tail) - todo'
        BY <3>3, <3>5, <3>6, <2>h, TailMoves
      <4>2. tail' = Advance(tail, todo')
        BY <3>1, <3>4 DEF Advance
      <4> QED BY <4>1, <4>2, <3>2, <3>3, <3>5, <2>d, <2>e
    <3>8. CanRead' + todo' <= Capacity /\ CanWrite' >= todo'
      <4>1. CanWrite' = Capacity - CanRead'
        BY <3>5, <3>7, <2>f
      <4>2. CanRead' + todo' = CanRead + k
        BY <3>3, <3>7, <2>d, <3>2
      <4> QED BY <4>1, <4>2, <3>3, <3>7, <2>d, <3>2
    <3>9. next' \in 1 .. Serials
      BY <3>1, <3>2, <2>n, SampleType
    <3>10. data' \in [0 .. Capacity -> 0 .. Serials]
      BY <3>1, <2>t, <2>p, FilledType
    <3>15. decoder' \in {"rewrite", "limit"} /\ (decoder' = "limit" => todo' = 0)
      BY <3>1, <3>3
    <3>11. AudioTypeOK'
      BY <2>7, <3>15, <3>3, <3>5, <3>7, <3>8, <3>9, <3>10, <2>t
      DEF MakeSpace, consumer, AudioTypeOK
    <3>12. callback # "reading" /\ UNCHANGED <<callback, reading, writing>>
      BY <2>7 DEF MakeSpace, MayLock, consumer
    <3>13. WritingInv' /\ ReadingInv'
      BY <2>7, <3>1, <3>12 DEF MakeSpace, AudioInv, WritingInv, ReadingInv, NoSlots
    <3>14. TodoInv' /\ LimitInv' /\ LatencyBounded'
      BY <3>1, <3>8 DEF TodoInv, LimitInv, LatencyBounded
    <3> QED BY <3>11, <3>13, <3>14 DEF AudioInv
  <2>8. CASE CheckLimit
    <3>a. UNCHANGED ring /\ CanRead' = CanRead /\ CanWrite' = CanWrite
      BY <2>8, <2>u DEF CheckLimit, ring
    <3>1. /\ limit' \in {MaxInitial, MaxPlayed} /\ (~played => limit' = MaxInitial)
          /\ limit' <= MaxPlayed /\ limit' \in Nat
      BY <2>8, <1>c, <2>t DEF CheckLimit, MaxBuffered, AudioTypeOK
    <3>2. /\ decoder' \in {"skip", "idle"} /\ received' \in BOOLEAN
          /\ (decoder' = "idle" => CanRead <= limit')
      <4>1. CASE CanRead > limit'
        BY <2>8, <2>t, <4>1 DEF CheckLimit, AudioTypeOK
      <4>2. CASE ~(CanRead > limit')
        BY <2>8, <2>d, <3>1, <4>2 DEF CheckLimit
      <4> QED BY <4>1, <4>2
    <3>3. AudioTypeOK'
      BY <2>8, <2>t, <3>a, <3>1, <3>2 DEF CheckLimit, ring, consumer, AudioTypeOK
    <3>4. UNCHANGED <<writing, played, callback, reading>>
      BY <2>8 DEF CheckLimit, consumer
    <3>5. WritingInv' /\ ReadingInv' /\ TodoInv' /\ LimitInv'
      BY <2>8, <3>a, <3>1, <3>2, <3>4 DEF CheckLimit, ring, AudioInv, WritingInv,
         ReadingInv, TodoInv, LimitInv, NoSlots
    <3>6. LatencyBounded'
      BY <3>a, <3>1, <3>2, <3>4, <2>d, <1>c DEF LatencyBounded
    <3> QED BY <3>3, <3>5, <3>6 DEF AudioInv
  <2>9. CASE SkipExcess
    <3>1. limit \in {MaxInitial, MaxPlayed} /\ (~played => limit = MaxInitial)
          /\ limit \in Nat /\ limit <= MaxPlayed
      BY <2>9, <1>c DEF SkipExcess, AudioInv, LimitInv
    <3>2. Skipped \in 0 .. Capacity /\ Skipped <= CanRead
          /\ CanRead - Skipped <= limit
      BY <3>1, <2>d DEF Skipped
    <3>a. head' = head /\ tail' = (tail + Skipped) % Alloc
      BY <2>9 DEF SkipExcess
    <3>3. tail' \in 0 .. Capacity /\ CanRead' = CanRead - Skipped
      BY <3>2, <3>a, <2>d, <2>e, <2>h, TailMoves DEF Advance
    <3>4. AudioTypeOK'
      BY <2>9, <2>t, <3>a, <3>3 DEF SkipExcess, consumer, AudioTypeOK
    <3>5. WritingInv' /\ ReadingInv' /\ TodoInv' /\ LimitInv'
      BY <2>9 DEF SkipExcess, MayLock, consumer, AudioInv, WritingInv, ReadingInv,
         TodoInv, LimitInv, NoSlots
    <3>6. LatencyBounded'
      BY <2>9, <3>1, <3>2, <3>3, <2>d, <1>c DEF SkipExcess, consumer, LatencyBounded
    <3> QED BY <3>4, <3>5, <3>6 DEF AudioInv
  <2>10. CASE \E n \in Pulls : PullSilence(n)
    <3>1. UNCHANGED <<ring, producer, played, callback, reading, wanted>>
          /\ CanRead' = CanRead /\ CanWrite' = CanWrite
      BY <2>10, <2>u DEF PullSilence, ring
    <3> QED
      BY <3>1 DEF ring, producer, AudioInv, AudioTypeOK, WritingInv, ReadingInv,
         TodoInv, LimitInv, LatencyBounded, NoSlots
  <2>11. CASE \E n \in Pulls : BeginRead(n)
    <3>1. PICK n \in Pulls : BeginRead(n)
      BY <2>11
    <3>a. UNCHANGED <<ring, producer, played>>
          /\ CanRead' = CanRead /\ CanWrite' = CanWrite
      BY <3>1, <2>u DEF BeginRead, ring
    <3>2. Lesser(n, CanRead) \in 0 .. Capacity /\ Lesser(n, CanRead) <= CanRead
          /\ n \in Nat
      BY <1>c, <2>d DEF Lesser
    <3>3. reading' = [at |-> tail, n |-> Lesser(n, CanRead)] /\ wanted' = n
          /\ callback' = "reading"
      BY <3>1 DEF BeginRead
    <3>4. reading' \in Span
      BY <3>2, <3>3, <2>h DEF Span
    <3>5. AudioTypeOK'
      BY <3>2, <3>3, <3>4, <3>a, <2>t DEF ring, producer, AudioTypeOK
    <3>6. ReadingInv'
      <4>1. reading'.at = tail /\ reading'.n = Lesser(n, CanRead) /\ tail' = tail
        BY <3>3, <3>a DEF ring
      <4> QED BY <4>1, <3>2, <3>3, <3>a DEF ReadingInv
    <3>7. WritingInv' /\ TodoInv' /\ LimitInv' /\ LatencyBounded'
      BY <3>a DEF ring, producer, AudioInv, WritingInv, TodoInv, LimitInv,
         LatencyBounded, NoSlots
    <3> QED BY <3>5, <3>6, <3>7 DEF AudioInv
  <2>12. CASE EndRead
    <3>1. reading.at = tail /\ reading.n <= CanRead
      BY <2>12 DEF EndRead, AudioInv, ReadingInv
    <3>a. /\ head' = head /\ tail' = (tail + reading.n) % Alloc
          /\ UNCHANGED <<data, producer, played>>
          /\ reading' = NoSlots /\ wanted' = 0 /\ callback' = "unlocked"
      BY <2>12, <3>1 DEF EndRead
    <3>2. tail' \in 0 .. Capacity /\ CanRead' = CanRead - reading.n
      <4>1. /\ Advance(tail, reading.n) \in 0 .. Capacity
            /\ Distance(head, Advance(tail, reading.n))
                 = Distance(head, tail) - reading.n
        BY <3>1, <2>d, <2>h, <2>r, TailMoves
      <4>2. tail' = Advance(tail, reading.n)
        BY <3>a DEF Advance
      <4> QED BY <4>1, <4>2, <3>a, <2>d, <2>e
    <3>3. CanRead' <= CanRead /\ CanWrite' >= CanWrite
      BY <3>2, <3>a, <2>d, <2>f, <2>h, <2>r
    <3>4. decoder = "rewrite" => CanWrite' >= todo
      <4>1. CanWrite' = Capacity - CanRead'
        BY <3>2, <3>a, <2>f, <2>h
      <4>2. decoder = "rewrite" => CanWrite >= todo
        BY <2>t DEF AudioTypeOK
      <4> QED BY <4>1, <4>2, <3>2, <2>d, <2>n, <2>r
    <3>5. AudioTypeOK'
      BY <3>2, <3>4, <3>a, <2>t, <1>s DEF producer, AudioTypeOK
    <3>6. WritingInv'
      BY <3>2, <3>a, <2>d, <2>r DEF producer, AudioInv, WritingInv, NoSlots
    <3>7. TodoInv' /\ LimitInv' /\ LatencyBounded'
      BY <3>2, <3>a, <2>d, <2>n, <2>r, <1>c DEF producer, AudioInv, TodoInv, LimitInv,
         LatencyBounded
    <3>8. ReadingInv'
      BY <3>a DEF ReadingInv, NoSlots
    <3> QED BY <3>5, <3>6, <3>7, <3>8 DEF AudioInv
  <2>13. CASE SetPlayed
    <3>1. UNCHANGED <<ring, producer, reading, wanted>> /\ played' = TRUE
          /\ callback = "unlocked" /\ callback' = "idle"
          /\ CanRead' = CanRead /\ CanWrite' = CanWrite
      BY <2>13, <2>u DEF SetPlayed, ring
    <3> QED
      BY <3>1 DEF ring, producer, AudioInv, AudioTypeOK, WritingInv, ReadingInv,
         TodoInv, LimitInv, LatencyBounded, NoSlots
  <2>14. CASE UNCHANGED vars
    <3>1. CanRead' = CanRead /\ CanWrite' = CanWrite
      BY <2>14, <2>u DEF vars, ring
    <3> QED
      BY <2>14, <3>1 DEF vars, ring, producer, consumer, AudioInv, AudioTypeOK,
         WritingInv, ReadingInv, TodoInv, LimitInv, LatencyBounded, NoSlots
  <2> QED
    BY <2>1, <2>2, <2>3, <2>4, <2>5, <2>6, <2>7, <2>8, <2>9, <2>10, <2>11,
       <2>12, <2>13, <2>14 DEF Next, Decoder, Callback
<1> QED BY <1>1, <1>2, PTL DEF Spec

(* Types, and the assertions of sc_audio_regulator_push(): after dropping  *)
(* with the lock, what remains always fits without it.                     *)
THEOREM AudioTyping == Spec => []AudioTypeOK
BY AudioInvariant, PTL DEF AudioInv

(* Latency, although played is read before the count and may change at any *)
(* time (audio_regulator.c:240-284).                                       *)
THEOREM LatencyIsBounded == Spec => []LatencyBounded
BY AudioInvariant, PTL DEF AudioInv

(* The two threads never touch the same slot (audiobuf.c:35-118).          *)
THEOREM RingIsSafe == Spec => []NoDataRace
<1>1. AudioInv => NoDataRace
  <2> SUFFICES ASSUME AudioInv, NEW slot \in Slots(writing), slot \in Slots(reading)
               PROVE  FALSE
    BY DEF NoDataRace
  <2> USE AllocValue
  <2>t. AudioTypeOK
    BY DEF AudioInv
  <2>d. CanRead = Distance(head, tail) /\ CanRead \in 0 .. Capacity
    BY <2>t, Cursors
  <2>h. /\ head \in 0 .. Capacity /\ tail \in 0 .. Capacity
        /\ writing.n \in 0 .. Capacity /\ reading.n \in 0 .. Capacity
    BY <2>t DEF AudioTypeOK, Span
  <2>1. PICK i \in 0 .. writing.n - 1 : slot = (writing.at + i) % Alloc
    BY DEF Slots
  <2>2. PICK j \in 0 .. reading.n - 1 : slot = (reading.at + j) % Alloc
    BY DEF Slots
  <2>3. writing # NoSlots /\ reading # NoSlots
    BY <2>1, <2>2 DEF NoSlots
  <2>4. writing.at = head /\ CanRead + writing.n <= Capacity
    BY <2>3 DEF AudioInv, WritingInv
  <2>5. reading.at = tail /\ reading.n <= CanRead
    BY <2>3 DEF AudioInv, ReadingInv
  <2>6. i \in 0 .. Capacity /\ j \in 0 .. Capacity
        /\ j < Distance(head, tail) /\ Distance(head, tail) + i <= Capacity
    BY <2>1, <2>2, <2>4, <2>5, <2>d, <2>h
  <2>7. (head + i) % Alloc # (tail + j) % Alloc
    BY <2>6, <2>h, SlotsApart
  <2> QED BY <2>1, <2>2, <2>4, <2>5, <2>7
<1> QED BY <1>1, AudioInvariant, PTL

-------------------------------------------------------------------------------
(* The contents of the ring.                                               *)

Contents == [0 .. Capacity -> 0 .. Serials]
Number == 0 .. Serials

(* The m samples from the cursor u on. *)
Window(d, u, m) == [i \in 1 .. m |-> d[Advance(u, i - 1)]]

LEMMA AdvanceTwice ==
  ASSUME NEW c \in 0 .. Capacity, NEW k \in 0 .. Capacity, NEW i \in 0 .. Capacity,
         k + i <= Capacity
  PROVE  /\ Advance(c, k) \in 0 .. Capacity
         /\ Advance(Advance(c, k), i) = Advance(c, k + i)
<1> DEFINE u == Advance(c, k)
<1>1. u = (IF c + k <= Capacity THEN c + k ELSE c + k - Alloc)
      /\ u \in 0 .. Capacity
  BY Step DEF Advance
<1>2. Advance(u, i) = IF u + i <= Capacity THEN u + i ELSE u + i - Alloc
  BY <1>1, Step DEF Advance
<1>3. k + i \in 0 .. Capacity
  BY AllocValue
<1>4. Advance(c, k + i)
        = IF c + (k + i) <= Capacity THEN c + (k + i) ELSE c + (k + i) - Alloc
  BY <1>3, Step DEF Advance
<1> QED BY <1>1, <1>2, <1>4, AllocValue

LEMMA AdvanceNone == ASSUME NEW c \in 0 .. Capacity PROVE Advance(c, 0) = c
<1>1. 0 \in 0 .. Capacity
  BY AllocValue
<1>2. (c + 0) % Alloc = IF c + 0 <= Capacity THEN c + 0 ELSE c + 0 - Alloc
  BY <1>1, Step
<1> QED BY <1>2 DEF Advance

(* The writer's cursor is as far from the reader's as there are samples. *)
LEMMA AdvanceToHead ==
  ASSUME NEW h \in 0 .. Capacity, NEW t \in 0 .. Capacity
  PROVE  Advance(t, Distance(h, t)) = h
<1>1. Distance(h, t) \in 0 .. Capacity
      /\ Distance(h, t) = IF h >= t THEN h - t ELSE Alloc + h - t
  BY DistanceValue
<1>2. Advance(t, Distance(h, t))
        = IF t + Distance(h, t) <= Capacity THEN t + Distance(h, t)
                                            ELSE t + Distance(h, t) - Alloc
  BY <1>1, Step DEF Advance
<1> QED BY <1>1, <1>2, AllocValue

LEMMA DistanceOfAdvance ==
  ASSUME NEW c \in 0 .. Capacity, NEW k \in 0 .. Capacity
  PROVE  Advance(c, k) \in 0 .. Capacity /\ Distance(Advance(c, k), c) = k
<1>1. Distance(c, c) = 0
  BY DistanceValue, AllocValue
<1>2. Distance(c, c) + k <= Capacity
  BY <1>1
<1>3. Advance(c, k) \in 0 .. Capacity
      /\ Distance(Advance(c, k), c) = Distance(c, c) + k
  BY <1>2, HeadMoves
<1> QED BY <1>1, <1>3

LEMMA WindowIsASeq ==
  ASSUME NEW d \in Contents, NEW u \in 0 .. Capacity,
         NEW m \in 0 .. Capacity
  PROVE  /\ Window(d, u, m) \in Seq(Number) /\ Len(Window(d, u, m)) = m
         /\ \A i \in 1 .. m : Window(d, u, m)[i] = d[Advance(u, i - 1)]
<1>1. ASSUME NEW i \in 1 .. m PROVE d[Advance(u, i - 1)] \in Number
  <2>1. i - 1 \in 0 .. Capacity
    BY AllocValue
  <2>2. Advance(u, i - 1) \in 0 .. Capacity
    BY <2>1, Step DEF Advance
  <2> QED BY <2>2 DEF Contents, Number
<1>2. m \in Nat
  BY AllocValue
<1>3. Window(d, u, m) \in [1 .. m -> Number]
  BY <1>1 DEF Window
<1> QED BY <1>2, <1>3 DEF Window

(* Named, so that the provers do not take it apart. *)
Followed(s, t) == s \o t

(* What is written follows what was there. *)
LEMMA WindowGrows ==
  ASSUME NEW d \in Contents, NEW u \in 0 .. Capacity,
         NEW m \in 0 .. Capacity, NEW k \in 0 .. Capacity, m + k <= Capacity
  PROVE  Window(d, u, m + k) = Followed(Window(d, u, m), Window(d, Advance(u, m), k))
<1>a. PICK v \in 0 .. Capacity : v = Advance(u, m)
  BY Step DEF Advance
<1>b. PICK n \in 0 .. Capacity : n = m + k
  BY AllocValue
<1> DEFINE w == Window(d, u, m)
<1> DEFINE x == Window(d, v, k)
<1> DEFINE y == Window(d, u, n)
<1>2. /\ w \in Seq(Number) /\ Len(w) = m
      /\ \A i \in 1 .. m : w[i] = d[Advance(u, i - 1)]
  BY WindowIsASeq
<1>3. /\ x \in Seq(Number) /\ Len(x) = k
      /\ \A i \in 1 .. k : x[i] = d[Advance(v, i - 1)]
  BY WindowIsASeq
<1>4. /\ y \in Seq(Number) /\ Len(y) = n
      /\ \A i \in 1 .. n : y[i] = d[Advance(u, i - 1)]
  BY WindowIsASeq
<1> HIDE DEF w, x, y
<1>5. /\ w \o x \in Seq(Number) /\ Len(w \o x) = n
      /\ \A i \in 1 .. n : (w \o x)[i] = IF i <= m THEN w[i] ELSE x[i - m]
  BY <1>2, <1>3, <1>b, ConcatProperties
<1> DEFINE z == w \o x
<1>z. z \in Seq(Number) /\ Len(z) = n
      /\ \A i \in 1 .. n : z[i] = IF i <= m THEN w[i] ELSE x[i - m]
  BY <1>5
<1> HIDE DEF z
<1>6. ASSUME NEW i \in 1 .. n PROVE y[i] = z[i]
  <2>1. CASE i <= m
    <3>1. i \in 1 .. m
      BY <2>1, AllocValue
    <3> QED BY <3>1, <2>1, <1>2, <1>4, <1>z
  <2>2. CASE i > m
    <3>1. PICK j \in 1 .. k : j = i - m
      BY <2>2, <1>b, AllocValue
    <3>2. j - 1 \in 0 .. Capacity /\ m + (j - 1) <= Capacity /\ m + (j - 1) = i - 1
      BY <3>1, AllocValue
    <3>3. Advance(v, j - 1) = Advance(u, m + (j - 1))
      BY <3>2, <1>a, AdvanceTwice
    <3>4. x[j] = d[Advance(u, i - 1)]
      BY <3>2, <3>3, <1>3
    <3>5. z[i] = x[j]
      BY <2>2, <3>1, <1>z, AllocValue
    <3> QED BY <3>4, <3>5, <1>4
  <2> QED BY <2>1, <2>2, AllocValue
<1>7. y = z
  BY <1>4, <1>z, <1>6, SeqEqual
<1> QED BY <1>7, <1>a, <1>b DEF w, x, y, z, Followed

(* What is read or dropped are the first samples. *)
LEMMA WindowShrinks ==
  ASSUME NEW d \in Contents, NEW u \in 0 .. Capacity,
         NEW m \in 0 .. Capacity, NEW j \in 0 .. Capacity, j <= m
  PROVE  Window(d, Advance(u, j), m - j) = SubSeq(Window(d, u, m), j + 1, m)
<1>a. PICK v \in 0 .. Capacity : v = Advance(u, j)
  BY Step DEF Advance
<1>b. PICK n \in 0 .. Capacity : n = m - j
  BY AllocValue
<1> DEFINE w == Window(d, u, m)
<1> DEFINE x == Window(d, v, n)
<1>2. /\ w \in Seq(Number) /\ Len(w) = m
      /\ \A i \in 1 .. m : w[i] = d[Advance(u, i - 1)]
  BY WindowIsASeq
<1>3. /\ x \in Seq(Number) /\ Len(x) = n
      /\ \A i \in 1 .. n : x[i] = d[Advance(v, i - 1)]
  BY WindowIsASeq
<1> HIDE DEF w, x
<1>4. \A i \in j + 1 .. m : w[i] \in Number
  BY <1>2, ElementOfSeq, AllocValue
<1>5. j + 1 \in Int /\ m \in Int /\ m - (j + 1) + 1 = n
      /\ (j + 1 <= m \/ n = 0)
  BY <1>b, AllocValue
<1>6. /\ SubSeq(w, j + 1, m) \in Seq(Number)
      /\ Len(SubSeq(w, j + 1, m)) = IF j + 1 <= m THEN m - (j + 1) + 1 ELSE 0
      /\ \A i \in 1 .. m - (j + 1) + 1 :
            SubSeq(w, j + 1, m)[i] = w[(j + 1) + i - 1]
  BY <1>4, <1>5, SubSeqProperties
<1>7. Len(SubSeq(w, j + 1, m)) = n
  BY <1>5, <1>6
<1>8. ASSUME NEW i \in 1 .. n PROVE x[i] = SubSeq(w, j + 1, m)[i]
  <2>1. /\ i - 1 \in 0 .. Capacity /\ j + (i - 1) <= Capacity
        /\ (j + 1) + i - 1 \in 1 .. m /\ ((j + 1) + i - 1) - 1 = j + (i - 1)
    BY <1>b, AllocValue
  <2>2. Advance(v, i - 1) = Advance(u, j + (i - 1))
    BY <2>1, <1>a, AdvanceTwice
  <2>3. w[(j + 1) + i - 1] = d[Advance(u, j + (i - 1))]
    BY <2>1, <1>2
  <2> QED BY <2>2, <2>3, <1>3, <1>5, <1>6
<1>9. x = SubSeq(w, j + 1, m)
  BY <1>3, <1>6, <1>7, <1>8, SeqEqual
<1> QED BY <1>9, <1>a, <1>b DEF w, x

LEMMA WindowKept ==
  ASSUME NEW d, NEW e, NEW u \in 0 .. Capacity, NEW m \in 0 .. Capacity,
         \A i \in 0 .. m - 1 : d[Advance(u, i)] = e[Advance(u, i)]
  PROVE  Window(d, u, m) = Window(e, u, m)
<1>1. \A i \in 1 .. m : i - 1 \in 0 .. m - 1
  BY AllocValue
<1> QED BY <1>1 DEF Window

(* A copy from the writer's cursor on leaves what can be read alone, and   *)
(* puts the samples in order.                                              *)
LEMMA FilledSlots ==
  ASSUME AudioTypeOK, NEW samples, NEW k \in 0 .. Capacity, CanRead + k <= Capacity
  PROVE  /\ \A j \in 0 .. CanRead - 1 :
              Filled(k, samples)[Advance(tail, j)] = data[Advance(tail, j)]
         /\ \A i \in 0 .. k - 1 :
              Filled(k, samples)[Advance(head, i)] = samples[i]
<1>1. /\ head \in 0 .. Capacity /\ tail \in 0 .. Capacity
      /\ CanRead = Distance(head, tail) /\ CanRead \in 0 .. Capacity
  BY Cursors DEF AudioTypeOK
<1>2. \A slot \in 0 .. Capacity :
         Filled(k, samples)[slot] = IF Distance(slot, head) < k
                                      THEN samples[Distance(slot, head)]
                                      ELSE data[slot]
  BY DEF Filled, Distance
<1>3. ASSUME NEW j \in 0 .. CanRead - 1
      PROVE  Filled(k, samples)[Advance(tail, j)] = data[Advance(tail, j)]
  <2> DEFINE slot == Advance(tail, j)
  <2>1. j \in 0 .. Capacity /\ j < Distance(head, tail)
    BY <1>1, AllocValue
  <2>2. slot \in 0 .. Capacity
    BY <1>1, <2>1, Step DEF Advance
  <2>3. Advance(head, Distance(slot, head)) = slot
        /\ Distance(slot, head) \in 0 .. Capacity
    BY <1>1, <2>2, AdvanceToHead, DistanceValue
  <2> HIDE DEF slot
  <2>4. ~(Distance(slot, head) < k)
    <3> SUFFICES ASSUME Distance(slot, head) < k PROVE FALSE
      OBVIOUS
    <3>1. Distance(head, tail) + Distance(slot, head) <= Capacity
      BY <1>1, <2>3, AllocValue
    <3>2. (head + Distance(slot, head)) % Alloc # (tail + j) % Alloc
      BY <1>1, <2>1, <2>3, <3>1, SlotsApart
    <3> QED BY <2>3, <3>2 DEF Advance, slot
  <2>5. Filled(k, samples)[slot] = data[slot]
    BY <1>2, <2>2, <2>4
  <2> QED BY <2>5 DEF slot
<1>4. ASSUME NEW i \in 0 .. k - 1
      PROVE  Filled(k, samples)[Advance(head, i)] = samples[i]
  <2>1. i \in 0 .. Capacity /\ i < k
    BY AllocValue
  <2>2. Advance(head, i) \in 0 .. Capacity /\ Distance(Advance(head, i), head) = i
    BY <1>1, <2>1, DistanceOfAdvance
  <2> QED BY <1>2, <2>1, <2>2
<1> QED BY <1>3, <1>4

-------------------------------------------------------------------------------
(* The ring implements a FIFO (SampleFifo), in which a frame is written    *)
(* when the cursor of the writer is stored and a request is read when the  *)
(* cursors are loaded.                                                     *)

(* What is copied is what will be readable: silence, up to the target, or  *)
(* the next samples of the frame.                                          *)
WrittenInv ==
  /\ decoder = "silence" =>
       /\ CanRead + writing.n <= Target
       /\ \A i \in 0 .. writing.n - 1 : data[Advance(head, i)] = 0
  /\ decoder \in {"writing", "rewriting"} =>
       \A i \in 0 .. writing.n - 1 : data[Advance(head, i)] = Sample(i)

(* The samples that can be read, but for the r first ones. *)
Readable(d, h, t, r) ==
  [i \in 1 .. Distance(h, t) - r |-> d[(t + r + i - 1) % Alloc]]

LEMMA ReadableIsAWindow ==
  ASSUME NEW d, NEW h \in 0 .. Capacity, NEW t \in 0 .. Capacity,
         NEW r \in 0 .. Capacity, r <= Distance(h, t)
  PROVE  /\ Readable(d, h, t, r) = Window(d, Advance(t, r), Distance(h, t) - r)
         /\ Advance(t, r) \in 0 .. Capacity
         /\ Distance(h, t) - r \in 0 .. Capacity
         /\ Advance(Advance(t, r), Distance(h, t) - r) = h
<1>0. Distance(h, t) \in 0 .. Capacity
  BY DistanceValue
<1>1. PICK m \in 0 .. Capacity : m = Distance(h, t) - r /\ r + m <= Capacity
                                 /\ r + m = Distance(h, t)
  BY <1>0, AllocValue
<1>2. PICK u \in 0 .. Capacity : u = Advance(t, r)
  BY Step DEF Advance
<1>3. Advance(u, m) = h
  <2>1. Advance(u, m) = Advance(t, r + m)
    BY <1>1, <1>2, AdvanceTwice
  <2> QED BY <2>1, <1>1, AdvanceToHead
<1>4. ASSUME NEW i \in 1 .. m
      PROVE  d[(t + r + i - 1) % Alloc] = d[Advance(u, i - 1)]
  <2>1. i - 1 \in 0 .. Capacity /\ r + (i - 1) <= Capacity
    BY <1>1, AllocValue
  <2>2. Advance(u, i - 1) = Advance(t, r + (i - 1))
    BY <2>1, <1>2, AdvanceTwice
  <2>3. t + (r + (i - 1)) = t + r + i - 1
    BY AllocValue
  <2>4. Advance(t, r + (i - 1)) = (t + r + i - 1) % Alloc
    BY <2>3 DEF Advance
  <2> QED BY <2>2, <2>4
<1>5. Readable(d, h, t, r) = Window(d, u, m)
  BY <1>1, <1>4 DEF Readable, Window
<1> QED BY <1>1, <1>2, <1>3, <1>5

LEMMA BufferedIsReadable ==
  /\ Buffered = Readable(data, head, tail, reading.n)
  /\ Buffered' = Readable(data', head', tail', reading'.n)
BY DEF Buffered, Readable, CanRead, Distance

(* What the invariant says of the FIFO. *)
LEMMA BufferedWindow ==
  ASSUME AudioInv
  PROVE  /\ data \in Contents /\ head \in 0 .. Capacity /\ tail \in 0 .. Capacity
         /\ CanRead = Distance(head, tail) /\ CanRead \in 0 .. Capacity
         /\ reading.n \in 0 .. Capacity /\ reading.n <= CanRead
         /\ Advance(tail, reading.n) \in 0 .. Capacity
         /\ CanRead - reading.n \in 0 .. Capacity
         /\ Buffered = Window(data, Advance(tail, reading.n), CanRead - reading.n)
         /\ Advance(Advance(tail, reading.n), CanRead - reading.n) = head
         /\ Buffered \in Seq(Number) /\ Len(Buffered) = CanRead - reading.n
<1>1. /\ AudioTypeOK /\ data \in Contents /\ head \in 0 .. Capacity
      /\ tail \in 0 .. Capacity /\ reading.n \in 0 .. Capacity
  BY DEF AudioInv, AudioTypeOK, Contents, Span
<1>2. CanRead = Distance(head, tail) /\ CanRead \in 0 .. Capacity
  BY <1>1, Cursors
<1>3. reading.n <= CanRead
  BY <1>2, AllocValue DEF AudioInv, ReadingInv, NoSlots
<1>4. /\ Buffered = Window(data, Advance(tail, reading.n), CanRead - reading.n)
      /\ Advance(tail, reading.n) \in 0 .. Capacity
      /\ CanRead - reading.n \in 0 .. Capacity
      /\ Advance(Advance(tail, reading.n), CanRead - reading.n) = head
  BY <1>1, <1>2, <1>3, ReadableIsAWindow, BufferedIsReadable
<1>5. Buffered \in Seq(Number) /\ Len(Buffered) = CanRead - reading.n
  BY <1>1, <1>4, WindowIsASeq
<1> QED BY <1>1, <1>2, <1>3, <1>4, <1>5

(* A copy changes neither what can be read nor what is being read. *)
LEMMA CopyIsInvisible ==
  ASSUME AudioInv, NEW samples, NEW k \in 0 .. Capacity, CanRead + k <= Capacity,
         data' = Filled(k, samples), UNCHANGED <<head, tail, consumer>>
  PROVE  /\ Buffered' = Buffered /\ Given' = Given
         /\ \A i \in 0 .. k - 1 : data'[Advance(head, i)] = samples[i]
<1>1. /\ AudioTypeOK /\ head \in 0 .. Capacity /\ tail \in 0 .. Capacity
      /\ CanRead = Distance(head, tail) /\ CanRead \in 0 .. Capacity
      /\ reading.n \in 0 .. Capacity /\ reading.n <= CanRead
  BY BufferedWindow DEF AudioInv
<1>2. /\ \A j \in 0 .. CanRead - 1 : data'[Advance(tail, j)] = data[Advance(tail, j)]
      /\ \A i \in 0 .. k - 1 : data'[Advance(head, i)] = samples[i]
  BY <1>1, FilledSlots
<1>3. UNCHANGED <<head, tail, callback, reading, wanted, out>>
  BY DEF consumer
<1>4. ASSUME NEW i \in 1 .. CanRead - reading.n
      PROVE  data'[(tail + reading.n + i - 1) % Alloc]
               = data[(tail + reading.n + i - 1) % Alloc]
  <2>1. PICK j \in 0 .. CanRead - 1 : j = reading.n + i - 1
    BY <1>1, AllocValue
  <2>2. tail + reading.n + i - 1 = tail + j
    BY <2>1, <1>1, AllocValue
  <2> QED BY <2>1, <2>2, <1>2 DEF Advance
<1>5. Buffered' = Buffered
  <2>1. Readable(data', head, tail, reading.n) = Readable(data, head, tail, reading.n)
    BY <1>1, <1>4 DEF Readable
  <2> QED BY <2>1, <1>3, BufferedIsReadable
<1>6. Given' = Given
  <2>1. CASE callback = "reading"
    <3>1. reading.at = tail
      BY <2>1 DEF AudioInv, ReadingInv
    <3>2. ASSUME NEW i \in 1 .. wanted, i <= reading.n
          PROVE  data'[(tail + i - 1) % Alloc] = data[(tail + i - 1) % Alloc]
      <4>1. wanted \in Nat
        BY <1>1 DEF AudioTypeOK
      <4>2. PICK j \in 0 .. CanRead - 1 : j = i - 1
        BY <3>2, <4>1, <1>1, AllocValue
      <4>3. tail + i - 1 = tail + j
        BY <4>2, <4>1, <1>1, AllocValue
      <4> QED BY <4>2, <4>3, <1>2 DEF Advance
    <3>3. Pulled' = Pulled
      BY <3>1, <3>2, <1>3 DEF Pulled
    <3> QED BY <2>1, <3>3, <1>3 DEF Given
  <2>2. CASE callback # "reading"
    BY <2>2, <1>3 DEF Given
  <2> QED BY <2>1, <2>2
<1> QED BY <1>2, <1>5, <1>6

(* Where the cursor of the writer is stored, what was copied is added. *)
LEMMA CopyIsStored ==
  ASSUME AudioInv, decoder \in {"silence", "writing", "rewriting"},
         head' = (head + writing.n) % Alloc, UNCHANGED <<data, tail, consumer>>
  PROVE  /\ Buffered' = Followed(Buffered, Window(data, head, writing.n))
         /\ Given' = Given
         /\ writing.n \in 0 .. Capacity
         /\ Len(Buffered) + writing.n <= CanRead + writing.n
         /\ CanRead + writing.n <= Capacity
<1>1. /\ data \in Contents /\ head \in 0 .. Capacity /\ tail \in 0 .. Capacity
      /\ CanRead = Distance(head, tail) /\ CanRead \in 0 .. Capacity
      /\ reading.n \in 0 .. Capacity /\ reading.n <= CanRead
      /\ Buffered = Window(data, Advance(tail, reading.n), CanRead - reading.n)
      /\ Advance(Advance(tail, reading.n), CanRead - reading.n) = head
      /\ Len(Buffered) = CanRead - reading.n
  BY BufferedWindow
<1>2. writing.n \in 0 .. Capacity /\ CanRead + writing.n <= Capacity
  BY DEF AudioInv, WritingInv, AudioTypeOK, Span
<1>k. PICK k \in 0 .. Capacity, c \in 0 .. Capacity, r \in 0 .. Capacity :
             /\ k = writing.n /\ c = CanRead /\ r = reading.n
             /\ c + k <= Capacity /\ r <= c
  BY <1>1, <1>2
<1>3. head' \in 0 .. Capacity /\ Distance(head', tail) = CanRead + writing.n
  BY <1>1, <1>2, HeadMoves DEF Advance
<1>4. PICK m \in 0 .. Capacity :
             m = c - r /\ m + k <= Capacity /\ c + k - r = m + k /\ r <= c + k
  BY <1>k, AllocValue
<1>m. CanRead - reading.n = m
  BY <1>4, <1>k
<1>5. PICK u \in 0 .. Capacity : u = Advance(tail, reading.n)
  BY <1>1, Step DEF Advance
<1>6. Buffered' = Window(data, u, m + k)
  <2>1. UNCHANGED <<data, tail, reading>>
    BY DEF consumer
  <2>2. Buffered' = Readable(data, head', tail, reading.n)
    BY <2>1, BufferedIsReadable
  <2>3. Readable(data, head', tail, reading.n)
          = Window(data, Advance(tail, reading.n), Distance(head', tail) - reading.n)
    BY <1>1, <1>3, <1>4, <1>k, ReadableIsAWindow
  <2>4. Distance(head', tail) - reading.n = m + k
    BY <1>3, <1>4, <1>k
  <2> QED BY <2>2, <2>3, <2>4, <1>5
<1>7. Window(data, u, m + k) = Followed(Window(data, u, m), Window(data, head, k))
  <2>1. Advance(u, m) = head
    BY <1>1, <1>5, <1>m
  <2>2. data \in Contents /\ m + k <= Capacity
    BY <1>1, <1>4
  <2>3. Window(data, u, m + k)
          = Followed(Window(data, u, m), Window(data, Advance(u, m), k))
    BY <2>2, WindowGrows
  <2> QED BY <2>1, <2>3
<1>8. Given' = Given
  BY DEF consumer, Given, Pulled
<1>9. m + k <= c + k /\ Len(Buffered) = m
  <2>1. m <= c
    BY <1>4, AllocValue
  <2>2. Len(Buffered) = m
    BY <1>1, <1>m
  <2> QED BY <2>1, <2>2, AllocValue
<1>10. Buffered = Window(data, u, m)
  BY <1>1, <1>5, <1>m
<1>11. Buffered' = Followed(Buffered, Window(data, head, writing.n))
  BY <1>6, <1>7, <1>10, <1>k
<1> QED BY <1>2, <1>8, <1>9, <1>11, <1>k

LEMMA ReadIsStored ==
  ASSUME AudioInv, EndRead
  PROVE  /\ Advance(tail, reading.n) = tail'
         /\ CanRead' = CanRead - reading.n /\ CanRead' <= CanRead
<1>1. /\ head \in 0 .. Capacity /\ tail \in 0 .. Capacity
      /\ CanRead = Distance(head, tail) /\ CanRead \in 0 .. Capacity
      /\ reading.n \in 0 .. Capacity /\ reading.n <= CanRead
  BY BufferedWindow
<1>2. reading.at = tail /\ head' = head /\ tail' = (reading.at + reading.n) % Alloc
  BY DEF EndRead, AudioInv, ReadingInv
<1>3. tail' = Advance(tail, reading.n)
  BY <1>2 DEF Advance
<1>4. Distance(head, Advance(tail, reading.n)) = Distance(head, tail) - reading.n
  BY <1>1, TailMoves
<1>5. CanRead' = Distance(head', tail')
  BY DEF CanRead, Distance
<1>6. CanRead' = CanRead - reading.n
  BY <1>1, <1>2, <1>3, <1>4, <1>5
<1> QED BY <1>1, <1>3, <1>6, AllocValue

LEMMA WrittenStep ==
  ASSUME AudioInv, WrittenInv, [Next]_vars
  PROVE  WrittenInv'
<1>c. Target \in 0 .. Capacity /\ Frames \subseteq Nat /\ Capacity \in Nat
  BY AudioAssumption DEF AudioAssumption
<1>d. AudioTypeOK /\ CanRead \in 0 .. Capacity /\ CanWrite = Capacity - CanRead
  BY Cursors DEF AudioInv
<1>n. todo \in 0 .. Capacity
  BY <1>d DEF AudioTypeOK
<1>1. CASE \E n \in Frames : Discontinuity(n)
  <2>1. PICK n \in Frames : Discontinuity(n)
    BY <1>1
  <2>2. PICK k \in 0 .. Capacity :
           /\ k = Lesser(Missing(n), CanWrite)
           /\ k <= Capacity - CanRead /\ CanRead + k <= Target
    <3>1. Missing(n) > 0 /\ Missing(n) = Target - CanRead - n /\ n \in Nat
      BY <2>1, <1>c DEF Discontinuity, Missing
    <3> QED BY <3>1, <1>c, <1>d DEF Lesser
  <2>3. /\ writing' = [at |-> head, n |-> k] /\ data' = Filled(k, Silence)
        /\ UNCHANGED <<head, tail, consumer>> /\ decoder' = "silence"
    BY <2>1, <2>2 DEF Discontinuity
  <2>4. CanRead + k <= Capacity
    BY <2>2, <1>d, <1>c
  <2>5. \A i \in 0 .. k - 1 : data'[Advance(head, i)] = Silence[i]
    BY <2>3, <2>4, CopyIsInvisible
  <2>6. \A i \in 0 .. k - 1 : data'[Advance(head', i)] = 0
    BY <2>3, <2>5, <1>c DEF Silence
  <2>7. CanRead' = CanRead /\ writing'.n = k
    BY <2>3 DEF CanRead
  <2> QED BY <2>2, <2>3, <2>6, <2>7 DEF WrittenInv
<1>2. CASE BeginWrite
  <2>1. PICK k \in 0 .. Capacity : k = Lesser(todo, CanWrite) /\ CanRead + k <= Capacity
    BY <1>d, <1>n, <1>c DEF Lesser
  <2>2. /\ writing' = [at |-> head, n |-> k] /\ data' = Filled(k, Samples)
        /\ UNCHANGED <<head, tail, next, consumer>>
        /\ decoder' \in {"writing", "rewriting"}
    BY <1>2, <2>1 DEF BeginWrite
  <2>3. \A i \in 0 .. k - 1 : data'[Advance(head, i)] = Samples[i]
    BY <2>1, <2>2, CopyIsInvisible
  <2>4. \A i \in 0 .. k - 1 : data'[Advance(head', i)] = Sample(i)
    BY <2>2, <2>3, <1>c DEF Samples
  <2>5. \A i \in 0 .. writing'.n - 1 : data'[Advance(head', i)] = Sample(i)'
    BY <2>2, <2>4 DEF Sample
  <2> QED BY <2>2, <2>5 DEF WrittenInv
<1>3. CASE \/ EndSilence \/ (\E n \in Frames : Resample(n)) \/ ResampleFails
           \/ EndWrite \/ MakeSpace \/ CheckLimit \/ SkipExcess
  <2>1. decoder' \notin {"silence", "writing", "rewriting"}
    BY <1>3 DEF EndSilence, Resample, ResampleFails, EndWrite, MakeSpace,
       CheckLimit, SkipExcess
  <2> QED BY <2>1 DEF WrittenInv
<1>4. CASE Callback \/ UNCHANGED vars
  <2>1. UNCHANGED <<data, head, decoder, writing, next>>
    BY <1>4 DEF Callback, PullSilence, BeginRead, EndRead, SetPlayed, vars, ring,
       producer
  <2>2. CanRead' <= CanRead /\ CanRead' \in Int
    <3>1. CASE EndRead
      BY <3>1, <1>d, BufferedWindow, ReadIsStored
    <3>2. CASE ~EndRead
      <4>1. UNCHANGED <<head, tail>>
        BY <1>4, <3>2 DEF Callback, PullSilence, BeginRead, SetPlayed, vars, ring
      <4> QED BY <4>1, <1>d DEF CanRead
    <3> QED BY <3>1, <3>2
  <2>3. writing.n \in 0 .. Capacity
    BY <1>d DEF AudioTypeOK, Span
  <2>4. ASSUME decoder' = "silence"
        PROVE  /\ CanRead' + writing'.n <= Target
               /\ \A i \in 0 .. writing'.n - 1 : data'[Advance(head', i)] = 0
    <3>1. CanRead + writing.n <= Target
      BY <2>1, <2>4 DEF WrittenInv
    <3>2. CanRead' + writing.n <= Target
      BY <3>1, <2>2, <2>3, <1>d, <1>c
    <3> QED BY <3>2, <2>1, <2>4 DEF WrittenInv
  <2>5. ASSUME decoder' \in {"writing", "rewriting"}
        PROVE  \A i \in 0 .. writing'.n - 1 : data'[Advance(head', i)] = Sample(i)'
    BY <2>1, <2>5 DEF WrittenInv, Sample
  <2> QED BY <2>4, <2>5 DEF WrittenInv
<1> QED BY <1>1, <1>2, <1>3, <1>4 DEF Next, Decoder

LEMMA NothingDropped ==
  ASSUME NEW s \in Seq(Number)
  PROVE  Fifo!Without(s, 0) = s
<1>1. SubSeq(s, 1, Len(s)) = s
  BY SubSeqFull
<1>2. 0 + 1 = 1
  OBVIOUS
<1> QED BY <1>1, <1>2 DEF Fifo!Without

LEMMA DroppedSamples ==
  ASSUME NEW d \in Contents, NEW u \in 0 .. Capacity, NEW m \in 0 .. Capacity,
         NEW j \in 0 .. Capacity, j <= m
  PROVE  Window(d, Advance(u, j), m - j) = Fifo!Without(Window(d, u, m), j)
<1>1. Len(Window(d, u, m)) = m
  BY WindowIsASeq
<1>2. Window(d, Advance(u, j), m - j) = SubSeq(Window(d, u, m), j + 1, m)
  BY WindowShrinks
<1> QED BY <1>1, <1>2 DEF Fifo!Without

(* While the callback does not read, all that is there can be read. *)
LEMMA NotReading ==
  ASSUME AudioInv, callback # "reading"
  PROVE  /\ reading.n = 0 /\ Buffered = Window(data, tail, CanRead)
         /\ Advance(tail, CanRead) = head /\ Len(Buffered) = CanRead
<1>1. reading.n = 0
  BY DEF AudioInv, ReadingInv, NoSlots
<1>2. /\ tail \in 0 .. Capacity /\ CanRead \in 0 .. Capacity
      /\ Buffered = Window(data, Advance(tail, reading.n), CanRead - reading.n)
      /\ Advance(Advance(tail, reading.n), CanRead - reading.n) = head
      /\ Len(Buffered) = CanRead - reading.n
  BY BufferedWindow
<1>3. Advance(tail, 0) = tail /\ CanRead - 0 = CanRead
  BY <1>2, AdvanceNone, AllocValue
<1> QED BY <1>1, <1>2, <1>3

LEMMA NotReadingNext ==
  ASSUME AudioInv, AudioInv', callback' # "reading"
  PROVE  Buffered' = Window(data', tail', Distance(head', tail'))
<1>1. reading'.n = 0
  BY DEF AudioInv, ReadingInv, NoSlots
<1>2. head' \in 0 .. Capacity /\ tail' \in 0 .. Capacity /\ 0 \in 0 .. Capacity
  BY AllocValue DEF AudioInv, AudioTypeOK
<1>3. 0 <= Distance(head', tail') /\ Distance(head', tail') - 0 = Distance(head', tail')
  BY <1>2, DistanceValue, AllocValue
<1>4. Readable(data', head', tail', 0)
        = Window(data', Advance(tail', 0), Distance(head', tail') - 0)
  BY <1>2, <1>3, ReadableIsAWindow
<1>5. Advance(tail', 0) = tail'
  BY <1>2, AdvanceNone
<1> QED BY <1>1, <1>3, <1>4, <1>5, BufferedIsReadable

(* What the device is given: the oldest samples, then silence. *)
Served(d, u, k, n) ==
  [i \in 1 .. n |-> IF i <= k THEN d[(u + i - 1) % Alloc] ELSE 0]

LEMMA PulledSamples ==
  ASSUME NEW d \in Contents, NEW u \in 0 .. Capacity, NEW m \in 0 .. Capacity,
         NEW k \in 0 .. Capacity, NEW n \in Nat, k <= m, k <= n
  PROVE  Served(d, u, k, n)
           = Followed(SubSeq(Window(d, u, m), 1, k), Fifo!Silence(n - k))
<1> DEFINE w == Window(d, u, m)
<1> DEFINE x == SubSeq(w, 1, k)
<1> DEFINE y == Fifo!Silence(n - k)
<1> DEFINE z == x \o y
<1> DEFINE g == [i \in 1 .. n |-> IF i <= k THEN d[(u + i - 1) % Alloc] ELSE 0]
<1>1. Serials \in Nat /\ Capacity \in Nat /\ 0 \in Number
  BY AudioAssumption DEF AudioAssumption, Number
<1>2. /\ w \in Seq(Number) /\ Len(w) = m
      /\ \A i \in 1 .. m : w[i] = d[Advance(u, i - 1)]
  BY WindowIsASeq
<1>3. y \in Seq(Number) /\ Len(y) = n - k /\ \A i \in 1 .. n - k : y[i] = 0
  <2>1. n - k \in Nat
    BY <1>1
  <2>2. y \in [1 .. n - k -> Number]
    BY <1>1 DEF Fifo!Silence
  <2> QED BY <2>1, <2>2 DEF Fifo!Silence
<1> HIDE DEF w, y
<1>4. x \in Seq(Number) /\ Len(x) = k /\ \A i \in 1 .. k : x[i] = w[i]
  <2>1. \A i \in 1 .. k : w[i] \in Number
    BY <1>1, <1>2, ElementOfSeq
  <2>2. 1 \in Int /\ k \in Int
    BY <1>1
  <2>3. /\ SubSeq(w, 1, k) \in Seq(Number)
        /\ Len(SubSeq(w, 1, k)) = IF 1 <= k THEN k - 1 + 1 ELSE 0
        /\ \A i \in 1 .. k - 1 + 1 : SubSeq(w, 1, k)[i] = w[1 + i - 1]
    BY <2>1, <2>2, SubSeqProperties
  <2>4. k - 1 + 1 = k /\ \A i \in 1 .. k : 1 + i - 1 = i
    BY <1>1
  <2>5. (IF 1 <= k THEN k - 1 + 1 ELSE 0) = k
    BY <1>1
  <2> QED BY <2>3, <2>4, <2>5
<1> HIDE DEF x
<1>5. /\ z \in Seq(Number) /\ Len(z) = Len(x) + Len(y)
      /\ \A i \in 1 .. Len(x) + Len(y) :
           z[i] = IF i <= Len(x) THEN x[i] ELSE y[i - Len(x)]
  BY <1>3, <1>4, ConcatProperties
<1>6. k + (n - k) = n
  BY <1>1
<1>7. /\ Len(z) = n
      /\ \A i \in 1 .. n : z[i] = IF i <= k THEN x[i] ELSE y[i - k]
  BY <1>3, <1>4, <1>5, <1>6
<1> HIDE DEF z
<1>8. ASSUME NEW i \in 1 .. n PROVE z[i] = g[i]
  <2>1. CASE i <= k
    <3>1. i \in 1 .. k /\ i \in 1 .. m
      BY <2>1, <1>1
    <3>2. u + (i - 1) = u + i - 1
      BY <1>1
    <3>3. w[i] = d[(u + i - 1) % Alloc]
      BY <3>1, <3>2, <1>2 DEF Advance
    <3> QED BY <3>1, <3>3, <2>1, <1>4, <1>7
  <2>2. CASE ~(i <= k)
    <3>1. PICK j \in 1 .. n - k : j = i - k
      BY <2>2, <1>1
    <3>2. z[i] = 0
      BY <3>1, <2>2, <1>3, <1>7
    <3> QED BY <3>2, <2>2
  <2> QED BY <2>1, <2>2
<1>9. g \in Seq(Number)
  <2>1. ASSUME NEW i \in 1 .. n PROVE g[i] \in Number
    <3>1. z[i] \in Number
      BY <1>5, <1>7, ElementOfSeq DEF z
    <3> QED BY <3>1, <1>8
  <2>2. g \in [1 .. n -> Number]
    BY <2>1
  <2> HIDE DEF g
  <2> QED BY <2>2, SeqDef
<1>10. Len(g) = n
  OBVIOUS
<1> HIDE DEF g
<1>11. z = g
  BY <1>5, <1>7, <1>8, <1>9, <1>10, SeqEqual DEF z
<1> QED BY <1>11 DEF g, z, x, y, w, Followed, Served

(* Each step of the regulator is a step of the FIFO, or is invisible. *)
LEMMA FifoStep ==
  ASSUME AudioInv, AudioInv', WrittenInv, [Next]_vars
  PROVE  [Fifo!Next]_(Fifo!vars)
<1>c. /\ Target \in 0 .. Capacity /\ Frames \subseteq Nat /\ Capacity \in Nat
      /\ Pulls \subseteq Nat /\ Serials \in Nat \ {0}
      /\ MaxInitial \in Nat /\ MaxPlayed \in Nat
      /\ Target <= MaxInitial /\ MaxInitial <= MaxPlayed
  BY AudioAssumption DEF AudioAssumption
<1>d. AudioTypeOK /\ CanRead \in 0 .. Capacity /\ CanWrite = Capacity - CanRead
  BY Cursors DEF AudioInv
<1>n. todo \in 0 .. Capacity /\ next \in 1 .. Serials
  BY <1>d DEF AudioTypeOK
<1>s. ASSUME UNCHANGED <<Buffered, next, Given, played, callback>>
      PROVE  UNCHANGED Fifo!vars
  BY <1>s DEF Fifo!vars
<1>1. CASE \E n \in Frames : Discontinuity(n)
  <2>1. PICK n \in Frames : Discontinuity(n)
    BY <1>1
  <2>2. PICK k \in 0 .. Capacity :
           k = Lesser(Missing(n), CanWrite) /\ CanRead + k <= Capacity
    <3>1. Missing(n) > 0 /\ Missing(n) = Target - CanRead - n /\ n \in Nat
      BY <2>1, <1>c DEF Discontinuity, Missing
    <3> QED BY <3>1, <1>c, <1>d DEF Lesser
  <2>3. data' = Filled(k, Silence) /\ UNCHANGED <<head, tail, consumer>>
        /\ UNCHANGED <<next, played, callback>>
    BY <2>1, <2>2 DEF Discontinuity, consumer
  <2> QED BY <2>2, <2>3, <1>s, CopyIsInvisible
<1>2. CASE BeginWrite
  <2>1. PICK k \in 0 .. Capacity : k = Lesser(todo, CanWrite) /\ CanRead + k <= Capacity
    BY <1>d, <1>n, <1>c DEF Lesser
  <2>2. data' = Filled(k, Samples) /\ UNCHANGED <<head, tail, consumer>>
        /\ UNCHANGED <<next, played, callback>>
    BY <1>2, <2>1 DEF BeginWrite, consumer
  <2> QED BY <2>1, <2>2, <1>s, CopyIsInvisible
<1>3. CASE EndSilence
  <2>1. /\ decoder = "silence" /\ head' = (head + writing.n) % Alloc
        /\ UNCHANGED <<data, tail, consumer>> /\ UNCHANGED <<next, played, callback>>
    BY <1>3 DEF EndSilence, consumer
  <2>2. PICK k \in 0 .. Capacity : k = writing.n
    BY <1>d DEF AudioTypeOK, Span
  <2>3. /\ Buffered' = Followed(Buffered, Window(data, head, k)) /\ Given' = Given
        /\ Len(Buffered) + k <= CanRead + k
    BY <2>1, <2>2, CopyIsStored
  <2>4. CanRead + k <= Target /\ \A i \in 0 .. k - 1 : data[Advance(head, i)] = 0
    BY <2>1, <2>2 DEF WrittenInv
  <2>5. Window(data, head, k) = Fifo!Silence(k)
    <3>1. \A i \in 1 .. k : i - 1 \in 0 .. k - 1
      BY <1>c
    <3> QED BY <3>1, <2>4 DEF Window, Fifo!Silence
  <2>6. Len(Buffered) \in 0 .. Capacity
    BY BufferedWindow
  <2>7. CASE k = 0
    <3>1. CanRead' = CanRead /\ UNCHANGED <<head, tail, reading>>
      BY <2>1, <2>2, <2>7, AdvanceNone, <1>d DEF consumer, CanRead, AudioTypeOK, Advance
    <3>2. Buffered' = Buffered
      BY <3>1, <2>1 DEF Buffered
    <3>3. UNCHANGED <<next, played, callback>>
      BY <2>1
    <3>4. Given' = Given
      BY <2>3
    <3> QED BY <3>2, <3>3, <3>4, <1>s
  <2>8. CASE k # 0
    <3>1. k \in 1 .. Target /\ Len(Buffered) + k <= Target
      BY <2>8, <2>3, <2>4, <2>6, <1>c, <1>d
    <3>2. Fifo!Fill(k)
      BY <3>1, <2>1, <2>3, <2>5 DEF Fifo!Fill, Followed
    <3> QED BY <3>1, <3>2 DEF Fifo!Next
  <2> QED BY <2>7, <2>8
<1>4. CASE EndWrite
  <2>1. /\ decoder \in {"writing", "rewriting"} /\ head' = (head + writing.n) % Alloc
        /\ UNCHANGED <<data, tail, consumer>> /\ UNCHANGED <<played, callback>>
        /\ next' = Sample(writing.n)
    BY <1>4 DEF EndWrite, consumer
  <2>2. PICK k \in 0 .. Capacity : k = writing.n
    BY <1>d DEF AudioTypeOK, Span
  <2>3. /\ Buffered' = Followed(Buffered, Window(data, head, k)) /\ Given' = Given
        /\ Len(Buffered) + k <= Capacity
    <3>1. /\ Buffered' = Followed(Buffered, Window(data, head, writing.n))
          /\ Given' = Given /\ Len(Buffered) + writing.n <= CanRead + writing.n
          /\ CanRead + writing.n <= Capacity
      BY <2>1, CopyIsStored
    <3>2. Len(Buffered) \in 0 .. Capacity
      BY BufferedWindow
    <3> QED BY <3>1, <3>2, <2>2, <1>c, <1>d
  <2>4. Window(data, head, k) = [i \in 1 .. k |-> Fifo!Shift(next, i - 1)]
    <3>1. \A i \in 0 .. k - 1 : data[Advance(head, i)] = Sample(i)
      BY <2>1, <2>2 DEF WrittenInv
    <3>2. \A i \in 1 .. k : i - 1 \in 0 .. k - 1
      BY <1>c
    <3>3. \A i \in 1 .. k : data[Advance(head, i - 1)] = Fifo!Shift(next, i - 1)
      BY <3>1, <3>2 DEF Sample, Fifo!Shift
    <3> QED BY <3>3 DEF Window
  <2>5. Fifo!Without(Followed(Buffered, Window(data, head, k)), 0)
          = Followed(Buffered, Window(data, head, k))
    <3>1. Buffered \in Seq(Number) /\ Window(data, head, k) \in Seq(Number)
      BY BufferedWindow, WindowIsASeq
    <3>2. Buffered \o Window(data, head, k) \in Seq(Number)
      BY <3>1, ConcatProperties
    <3> QED BY <3>2, NothingDropped DEF Followed
  <2>6. next' = Fifo!Shift(next, k)
    BY <2>1, <2>2 DEF Sample, Fifo!Shift
  <2>7. Fifo!Write(k, 0)
    <3>1. Buffered'
            = Fifo!Without(Buffered \o [i \in 1 .. k |-> Fifo!Shift(next, i - 1)], 0)
      BY <2>3, <2>4, <2>5 DEF Followed
    <3> QED BY <3>1, <2>1, <2>3, <2>6 DEF Fifo!Write
  <2> QED BY <2>7, <1>c DEF Fifo!Next
<1>5. CASE MakeSpace
  <2>1. PICK k \in 0 .. Capacity : k = Lesser(todo, CanWrite) /\ CanRead + k <= Capacity
    BY <1>d, <1>n, <1>c DEF Lesser
  <2>2. /\ data' = Filled(k, Samples) /\ head' = Advance(head, k)
        /\ todo' = todo - k /\ next' = Sample(k)
        /\ tail' = Advance(tail, Lesser(todo', CanRead + k))
        /\ UNCHANGED <<played, callback, reading, wanted, out>>
        /\ callback # "reading"
    BY <1>5, <2>1 DEF MakeSpace, MayLock, consumer, Advance
  <2>3. PICK d \in 0 .. Capacity :
           /\ d = Lesser(todo', CanRead + k) /\ d <= CanRead + k
           /\ (d > 0 => CanRead + k = Capacity)
    <3>1. /\ todo' \in 0 .. Capacity /\ CanRead + k \in 0 .. Capacity
          /\ (todo' > 0 => CanRead + k = Capacity)
      BY <2>1, <2>2, <1>d, <1>n, <1>c DEF Lesser
    <3> QED BY <3>1, <1>c DEF Lesser
  <2>4. PICK m \in 0 .. Capacity : m = CanRead + k
    BY <2>1, <1>d, <1>c
  <2>5. /\ data \in Contents /\ head \in 0 .. Capacity /\ tail \in 0 .. Capacity
        /\ CanRead = Distance(head, tail) /\ Buffered \in Seq(Number)
    BY BufferedWindow
  <2>6. /\ Buffered = Window(data, tail, CanRead) /\ Advance(tail, CanRead) = head
        /\ Len(Buffered) = CanRead
    BY <2>2, NotReading
  <2>7. data' \in Contents
    BY DEF AudioInv, AudioTypeOK, Contents
  <2>8. /\ head' \in 0 .. Capacity /\ Distance(head', tail) = m
        /\ tail' = Advance(tail, d) /\ Distance(head', tail') = m - d
    <3>1. head' \in 0 .. Capacity /\ Distance(head', tail) = m
      BY <2>1, <2>2, <2>4, <2>5, HeadMoves
    <3>2. tail' = Advance(tail, d) /\ d <= Distance(head', tail)
      BY <2>2, <2>3, <2>4, <3>1
    <3>3. Distance(head', Advance(tail, d)) = Distance(head', tail) - d
      BY <2>5, <3>1, <3>2, TailMoves
    <3> QED BY <3>1, <3>2, <3>3
  <2>9. Buffered' = Fifo!Without(Window(data', tail, m), d)
    <3>1. Buffered' = Window(data', tail', Distance(head', tail'))
      BY <2>2, NotReadingNext
    <3>2. Window(data', Advance(tail, d), m - d)
            = Fifo!Without(Window(data', tail, m), d)
      BY <2>3, <2>4, <2>5, <2>7, DroppedSamples
    <3> QED BY <3>1, <3>2, <2>8
  <2>10. \A j \in 0 .. CanRead - 1 : data[Advance(tail, j)] = data'[Advance(tail, j)]
    BY <2>1, <2>2, <1>d, FilledSlots
  <2>11. \A i \in 0 .. k - 1 : data'[Advance(head, i)] = Samples[i]
    BY <2>1, <2>2, <1>d, FilledSlots
  <2>12. Window(data', tail, m) = Followed(Buffered, Window(data', head, k))
    <3>1. Window(data', tail, CanRead + k)
            = Followed(Window(data', tail, CanRead),
                       Window(data', Advance(tail, CanRead), k))
      BY <2>1, <2>5, <2>7, <1>d, WindowGrows
    <3>2. Window(data, tail, CanRead) = Window(data', tail, CanRead)
      BY <2>5, <2>10, <1>d, WindowKept
    <3> QED BY <3>1, <3>2, <2>4, <2>6
  <2>13. Window(data', head, k) = [i \in 1 .. k |-> Fifo!Shift(next, i - 1)]
    <3>1. \A i \in 0 .. k - 1 : i \in 0 .. Capacity
      BY <1>c
    <3>2. \A i \in 0 .. k - 1 : data'[Advance(head, i)] = Sample(i)
      BY <3>1, <2>11 DEF Samples
    <3>3. \A i \in 1 .. k : i - 1 \in 0 .. k - 1
      BY <1>c
    <3>4. \A i \in 1 .. k : data'[Advance(head, i - 1)] = Fifo!Shift(next, i - 1)
      BY <3>2, <3>3 DEF Sample, Fifo!Shift
    <3> QED BY <3>4 DEF Window
  <2>14. Given' = Given
    BY <2>2 DEF Given
  <2>15. Fifo!Write(k, d)
    <3>1. Buffered'
            = Fifo!Without(Buffered \o [i \in 1 .. k |-> Fifo!Shift(next, i - 1)], d)
      BY <2>9, <2>12, <2>13 DEF Followed
    <3>2. next' = Fifo!Shift(next, k)
      BY <2>2 DEF Sample, Fifo!Shift
    <3>3. Len(Buffered) + k <= Capacity /\ (d > 0 => Len(Buffered) + k = Capacity)
      BY <2>1, <2>3, <2>6
    <3> QED BY <3>1, <3>2, <3>3, <2>2, <2>14 DEF Fifo!Write
  <2> QED BY <2>15 DEF Fifo!Next
<1>6. CASE \E n \in Frames : Resample(n)
  <2>1. PICK n \in Frames : Resample(n)
    BY <1>6
  <2>2. /\ UNCHANGED <<data, head, tail, played, callback, reading, wanted, out>>
        /\ next' = Sample(n - Lesser(n, Capacity)) /\ n \in Nat
    BY <2>1, <1>c DEF Resample, ring, consumer
  <2>3. Buffered' = Buffered /\ Given' = Given
    BY <2>2 DEF Buffered, Given, Pulled, CanRead
  <2>4. CASE n > Capacity
    <3>1. next' = Fifo!Shift(next, n - Capacity)
      BY <2>2, <2>4, <1>c DEF Lesser, Sample, Fifo!Shift
    <3>2. Fifo!Ignore(n - Capacity)
      BY <3>1, <2>2, <2>3 DEF Fifo!Ignore
    <3> QED BY <3>2, <2>1, <2>4 DEF Fifo!Next
  <2>5. CASE ~(n > Capacity)
    <3>1. n - Lesser(n, Capacity) = 0
      BY <2>2, <2>5, <1>c DEF Lesser
    <3>2. next - 1 \in 0 .. Serials - 1
      BY <1>n, <1>c
    <3>3. (next - 1) % Serials = next - 1
      BY <3>2, <1>c, ModSmall
    <3>4. next + 0 - 1 = next - 1 /\ (next - 1) + 1 = next
      BY <1>n, <1>c
    <3>5. next' = next
      BY <3>1, <3>3, <3>4, <2>2 DEF Sample
    <3> QED BY <3>5, <2>2, <2>3, <1>s
  <2> QED BY <2>4, <2>5
<1>7. CASE ResampleFails \/ CheckLimit \/ UNCHANGED vars
  <2>1. UNCHANGED <<data, head, tail, next, played, callback, reading, wanted, out>>
    BY <1>7 DEF ResampleFails, CheckLimit, vars, ring, producer, consumer
  <2>2. Buffered' = Buffered /\ Given' = Given
    BY <2>1 DEF Buffered, Given, Pulled, CanRead
  <2> QED BY <2>1, <2>2, <1>s
<1>8. CASE SkipExcess
  <2>1. /\ UNCHANGED <<data, head, next, played, callback, reading, wanted, out>>
        /\ tail' = Advance(tail, Skipped) /\ callback # "reading"
    BY <1>8 DEF SkipExcess, MayLock, consumer, Advance
  <2>2. limit \in Nat /\ limit >= Target
    BY <1>8, <1>c DEF SkipExcess, AudioInv, LimitInv
  <2>3. PICK d \in 0 .. Capacity :
           d = Skipped /\ d <= CanRead /\ (d > 0 => CanRead - d >= Target)
    <3>1. CASE CanRead > limit
      <4>1. Skipped = CanRead - limit
        BY <3>1 DEF Skipped
      <4>2. /\ CanRead - limit \in 0 .. Capacity /\ CanRead - limit <= CanRead
            /\ CanRead - (CanRead - limit) >= Target
        BY <3>1, <2>2, <1>d, <1>c
      <4> QED BY <4>1, <4>2
    <3>2. CASE ~(CanRead > limit)
      BY <3>2, <1>d, <1>c DEF Skipped
    <3> QED BY <3>1, <3>2
  <2>4. /\ data \in Contents /\ head \in 0 .. Capacity /\ tail \in 0 .. Capacity
        /\ CanRead = Distance(head, tail)
    BY BufferedWindow
  <2>5. Buffered = Window(data, tail, CanRead) /\ Len(Buffered) = CanRead
    BY <2>1, NotReading
  <2>6. Buffered' = Fifo!Without(Buffered, d)
    <3>1. Buffered' = Window(data', tail', Distance(head', tail'))
      BY <2>1, NotReadingNext
    <3>2. Distance(head, Advance(tail, d)) = Distance(head, tail) - d
      BY <2>3, <2>4, TailMoves
    <3>3. Window(data, Advance(tail, d), CanRead - d)
            = Fifo!Without(Window(data, tail, CanRead), d)
      BY <2>3, <2>4, <1>d, DroppedSamples
    <3> QED BY <3>1, <3>2, <3>3, <2>1, <2>3, <2>4, <2>5
  <2>7. Given' = Given
    BY <2>1 DEF Given
  <2>8. CASE d = 0
    <3>1. Buffered' = Buffered
      BY <2>6, <2>8, NothingDropped, BufferedWindow
    <3>2. UNCHANGED <<Buffered, next, Given, played, callback>>
      BY <3>1, <2>1, <2>7
    <3> QED BY <3>2, <1>s
  <2>9. CASE d # 0
    <3>1. d \in 1 .. Capacity /\ Len(Buffered) - d >= Target
      BY <2>3, <2>5, <2>9, <1>c
    <3>2. Fifo!Skip(d)
      BY <3>1, <2>1, <2>6, <2>7 DEF Fifo!Skip
    <3> QED BY <3>1, <3>2 DEF Fifo!Next
  <2> QED BY <2>8, <2>9
<1>9. CASE \E n \in Pulls : PullSilence(n)
  <2>1. PICK n \in Pulls : PullSilence(n)
    BY <1>9
  <2>2. /\ UNCHANGED <<data, head, tail, next, played, callback, reading>>
        /\ out' = [i \in 1 .. n |-> 0] /\ callback = "idle"
        /\ ~played /\ ~(CanRead >= Target)
    BY <2>1 DEF PullSilence, MayPlay, ring, producer
  <2>3. Buffered' = Buffered /\ Given' = [i \in 1 .. n |-> 0]
    BY <2>2 DEF Buffered, Given, CanRead
  <2>4. Len(Buffered) < Target
    <3>1. Len(Buffered) = CanRead - reading.n /\ reading.n \in 0 .. Capacity
      BY BufferedWindow
    <3> QED BY <3>1, <2>2, <1>d, <1>c
  <2>5. Fifo!Mute(n)
    BY <2>2, <2>3, <2>4 DEF Fifo!Mute, Fifo!Silence
  <2> QED BY <2>1, <2>5 DEF Fifo!Next
<1>10. CASE \E n \in Pulls : BeginRead(n)
  <2>1. PICK n \in Pulls : BeginRead(n)
    BY <1>10
  <2>2. PICK k \in 0 .. Capacity : k = Lesser(n, CanRead) /\ k <= CanRead /\ k <= n
    BY <1>d, <1>c DEF Lesser
  <2>3. /\ UNCHANGED <<data, head, tail, next, played, out>>
        /\ reading' = [at |-> tail, n |-> k] /\ wanted' = n
        /\ callback = "idle" /\ callback' = "reading" /\ n \in Nat
        /\ (played \/ CanRead >= Target)
    BY <2>1, <2>2, <1>c DEF BeginRead, MayPlay, ring, producer
  <2>4. /\ data \in Contents /\ head \in 0 .. Capacity /\ tail \in 0 .. Capacity
        /\ CanRead = Distance(head, tail)
    BY BufferedWindow
  <2>5. Buffered = Window(data, tail, CanRead) /\ Len(Buffered) = CanRead
    BY <2>3, NotReading
  <2>6. Buffered' = Fifo!Without(Buffered, k)
    <3>1. Buffered' = Readable(data, head, tail, k)
      BY <2>3, BufferedIsReadable
    <3>2. Readable(data, head, tail, k)
            = Window(data, Advance(tail, k), Distance(head, tail) - k)
      BY <2>2, <2>4, ReadableIsAWindow
    <3>3. Window(data, Advance(tail, k), CanRead - k)
            = Fifo!Without(Window(data, tail, CanRead), k)
      BY <2>2, <2>4, <1>d, DroppedSamples
    <3> QED BY <3>1, <3>2, <3>3, <2>4, <2>5
  <2>7. Given' = Followed(SubSeq(Buffered, 1, k), Fifo!Silence(n - k))
    <3>1. Given' = Served(data, tail, k, n)
      BY <2>3 DEF Given, Pulled, Served
    <3>2. Served(data, tail, k, n)
            = Followed(SubSeq(Window(data, tail, CanRead), 1, k), Fifo!Silence(n - k))
      BY <2>2, <2>3, <2>4, <1>d, PulledSamples
    <3> QED BY <3>1, <3>2, <2>5
  <2>8. Fifo!Read(n)
    <3>1. Fifo!Least(n, Len(Buffered)) = k
      BY <2>2, <2>5 DEF Lesser, Fifo!Least
    <3> QED BY <3>1, <2>3, <2>5, <2>6, <2>7 DEF Fifo!Read, Followed
  <2> QED BY <2>1, <2>8 DEF Fifo!Next
<1>11. CASE EndRead
  <2>1. /\ UNCHANGED <<data, head, next, played>> /\ out' = Pulled
        /\ callback = "reading" /\ callback' = "unlocked"
    BY <1>11 DEF EndRead, producer
  <2>2. /\ head \in 0 .. Capacity /\ tail \in 0 .. Capacity
        /\ CanRead = Distance(head, tail) /\ reading.n \in 0 .. Capacity
        /\ reading.n <= CanRead
        /\ Buffered = Window(data, Advance(tail, reading.n), CanRead - reading.n)
    BY BufferedWindow
  <2>3. Buffered' = Buffered
    <3>1. Buffered' = Window(data', tail', Distance(head', tail'))
      BY <2>1, NotReadingNext
    <3>2. Advance(tail, reading.n) = tail'
      BY <1>11, ReadIsStored
    <3>3. Distance(head, Advance(tail, reading.n)) = Distance(head, tail) - reading.n
      BY <2>2, TailMoves
    <3> QED BY <3>1, <3>2, <3>3, <2>1, <2>2
  <2>4. Given' = Given
    BY <2>1 DEF Given
  <2> QED BY <2>1, <2>3, <2>4 DEF Fifo!vars
<1>12. CASE SetPlayed
  <2>1. /\ UNCHANGED <<data, head, tail, next, reading, wanted, out>>
        /\ played' = TRUE /\ callback = "unlocked" /\ callback' = "idle"
    BY <1>12 DEF SetPlayed, ring, producer
  <2>2. Buffered' = Buffered /\ Given' = Given
    BY <2>1 DEF Buffered, Given, CanRead
  <2> QED BY <2>1, <2>2 DEF Fifo!vars
<1> QED
  BY <1>1, <1>2, <1>3, <1>4, <1>5, <1>6, <1>7, <1>8, <1>9, <1>10, <1>11, <1>12
  DEF Next, Decoder, Callback

(* No sample is lost, repeated, reordered or torn between the decoder and  *)
(* the audio device, whatever the interleaving of the two threads: the     *)
(* regulator implements the FIFO (audiobuf.c:35-118,                       *)
(* audio_regulator.c:63-284).                                              *)
THEOREM RegulatorIsAFifo == Spec => ImplementsFifo
<1>1. Init /\ AudioInv => WrittenInv /\ Fifo!Init
  <2> SUFFICES ASSUME Init, AudioInv PROVE WrittenInv /\ Fifo!Init
    OBVIOUS
  <2>1. WrittenInv
    BY DEF Init, WrittenInv
  <2>2. CanRead = 0
    <3>1. Distance(0, 0) = 0
      BY DistanceValue, AllocValue
    <3> QED BY <3>1 DEF Init, CanRead, Distance
  <2>3. Len(Buffered) = 0 /\ Buffered \in Seq(Number)
    BY <2>2, NotReading, BufferedWindow DEF Init
  <2>4. Buffered = <<>>
    BY <2>3, EmptySeq
  <2> QED BY <2>1, <2>4 DEF Init, Fifo!Init, Given
<1>2. AudioInv /\ WrittenInv /\ [Next]_vars => WrittenInv'
  BY WrittenStep
<1>3. AudioInv /\ AudioInv' /\ WrittenInv /\ [Next]_vars => [Fifo!Next]_(Fifo!vars)
  BY FifoStep
<1> QED BY <1>1, <1>2, <1>3, AudioInvariant, PTL DEF Spec, ImplementsFifo, Fifo!Spec

===============================================================================
