----------------------------- MODULE RecorderProofs ----------------------------
(***************************************************************************)
(* Proofs about Recorder, for any timestamps, any tick and any number of   *)
(* packets: a recording that succeeds holds every packet accepted, once    *)
(* and in order, and its timestamps increase.                              *)
(***************************************************************************)
EXTENDS Recorder, SequenceTheorems, TLAPS

-------------------------------------------------------------------------------
(* The inductive invariant.                                                *)

(* The packets of a stream that left its queue: those that are written,    *)
(* the previous one, and the one that is held.                             *)
Media(s) == held[s] # <<>> /\ held[s][1].n # 0
Previous(s) == IF s = "video" THEN Len(previous) ELSE 0
Holding(s) == IF Media(s) THEN 1 ELSE 0
Left(s) == Len(file[s]) + Previous(s) + Holding(s)

(* The types that RecorderTypeOK does not give. *)
TypeInv ==
  /\ RecorderTypeOK
  /\ lost \in BOOLEAN
  /\ last \in [Streams -> Int]
  /\ frames \in [Streams -> 0 .. MaxFrames]
  /\ configs \in [Streams -> Nat]
  /\ previous \in Seq(Written)

(* Config packets, and only them, have no number. *)
PacketInv ==
  \A s \in Streams :
    /\ \A i \in 1 .. Len(queue[s]) : queue[s][i].n = 0 <=> Config(queue[s][i])
    /\ held[s] # <<>> => (held[s][1].n = 0 <=> Config(held[s][1]))

(* Where the thread may hold packets, and what it holds. *)
HeldInv ==
  /\ rec \in {"start", "header", "trailer"} => held = All(<<>>)
  /\ rec \in {"take", "origin", "write"} => \A s \in Streams : held[s] # <<>> => Media(s)
  /\ rec \in {"start", "header", "write_header"} => origin = NoPts
  /\ rec = "write" => origin # NoPts

(* The asserts of the code: a disabled stream has no packet.               *)
DisabledInv ==
  /\ \A s \in Streams \ enabled : demux[s] = "ended"
  /\ \A s \in Streams : s \notin enabled \/ demux[s] = "start" =>
       queue[s] = <<>> /\ held[s] = <<>>

Running == {"start", "header", "write_header", "take", "origin", "write", "trailer"}

(* Of the media packets 1 .. total, the first done ones left the queue q,  *)
(* which holds the next ones, in order, between config packets.            *)
Chained(q, done, total) ==
  /\ done <= total
  /\ \A i \in 1 .. Len(q) : q[i].n # 0 => q[i].n \in done + 1 .. total
  /\ \A i, j \in 1 .. Len(q) : i < j /\ q[i].n # 0 /\ q[j].n # 0 => q[i].n < q[j].n
  /\ \A k \in done + 1 .. total : \E i \in 1 .. Len(q) : q[i].n = k

(* Nothing was lost yet. *)
ChainInv ==
  rec \in Running =>
    /\ ~success /\ ~lost
    /\ previous # <<>> => previous[1].n = Len(file["video"]) + 1
    /\ \A s \in Streams :
         /\ Chained(queue[s], Left(s), frames[s])
         /\ Media(s) => held[s][1].n = Left(s)

(* The file itself: its numbers, its timestamps and the last of them. *)
FileInv ==
  \A s \in Streams :
    /\ \A i \in 1 .. Len(file[s]) : file[s][i].n = i
    /\ \A i \in 2 .. Len(file[s]) : file[s][i - 1].pts < file[s][i].pts
    /\ last[s] = IF file[s] = <<>> THEN NoPts ELSE file[s][Len(file[s])].pts

(* The end: nothing is accepted any more, and a success is complete. *)
EndInv ==
  /\ rec = "trailer" \/ success => stopped
  /\ rec = "trailer" => queue = All(<<>>)
  /\ success =>
       /\ Len(file["video"]) = frames["video"] - (IF lost THEN 1 ELSE 0)
       /\ Len(file["audio"]) = frames["audio"]

RecorderInv ==
  /\ TypeInv /\ PacketInv /\ HeldInv /\ DisabledInv /\ ChainInv /\ FileInv /\ EndInv

-------------------------------------------------------------------------------
(* What is written.                                                        *)

LEMMA NoPtsNegative == Pts # {} => NoPts < 0 /\ NoPts \notin Pts
<1>. SUFFICES ASSUME NEW p \in Pts PROVE NoPts < 0 /\ NoPts \notin Pts
  OBVIOUS
<1>1. p \in Nat /\ Pts \subseteq Nat /\ NoPts \in Int /\ NoPts < p - p
  BY RecorderAssumption DEF RecorderAssumption
<1>. QED
  BY <1>1

LEMMA RescaledBound ==
  ASSUME NEW x \in Int, NoPts < x, NoPts < 0
  PROVE  Rescaled(x) \in Int /\ NoPts < Rescaled(x)
<1>. DEFINE h == Tick \div 2
<1>1. Tick \in Nat \ {0} /\ NoPts \in Int /\ h \in Nat /\ h < Tick
  BY RecorderAssumption DEF RecorderAssumption
<1>. HIDE DEF h
<1>2. CASE x >= 0
  <2>1. (x + h) \div Tick \in Nat
    BY <1>1, <1>2
  <2>. QED
    BY <1>1, <1>2, <2>1 DEF Rescaled, h
<1>3. CASE x < 0
  <2>. DEFINE a == -x
              q == (a + h) \div Tick
  <2>1. a \in Nat \ {0} /\ a + h \in Nat
    BY <1>1, <1>3
  <2>. HIDE DEF a
  <2>2. q \in Nat /\ q * Tick <= a + h
    BY <1>1, <2>1
  <2>. HIDE DEF q
  <2>3. q <= a
    <3>. SUFFICES ASSUME q >= a + 1 PROVE FALSE
      BY <2>1, <2>2
    <3>1. q * Tick >= (a + 1) * Tick
      BY <1>1, <2>1, <2>2
    <3>2. (a + 1) * Tick = a * Tick + Tick /\ a * Tick >= a
      BY <1>1, <2>1
    <3>. QED
      BY <1>1, <2>1, <2>2, <3>1, <3>2
  <2>4. Rescaled(x) = -q
    BY <1>3 DEF Rescaled, q, a, h
  <2>. QED
    BY <1>1, <1>3, <2>1, <2>2, <2>3, <2>4 DEF a
<1>. QED
  BY <1>2, <1>3

LEMMA FixedBound ==
  ASSUME NEW pts \in Int, NEW prev \in Int, NoPts < pts, NoPts <= prev
  PROVE  /\ FixedIncreasing(pts, prev) \in Int
         /\ NoPts < FixedIncreasing(pts, prev)
         /\ prev # NoPts => prev < FixedIncreasing(pts, prev)
  BY RecorderAssumption DEF RecorderAssumption, FixedIncreasing

LEMMA WriteKeeps ==
  ASSUME TypeInv, FileInv, NoPts < 0,
         NEW s \in Streams, NEW p, p.pts \in Int, NoPts < p.pts,
         p.n = Len(file[s]) + 1, p.n \in 1 .. MaxFrames, WriteStream(s, p)
  PROVE  /\ FileInv'
         /\ last' \in [Streams -> Int] /\ file' \in [Streams -> Seq(Written)]
         /\ Len(file'[s]) = Len(file[s]) + 1
         /\ \A t \in Streams \ {s} : file'[t] = file[t]
<1>. DEFINE pts == FixedIncreasing(Rescaled(p.pts), last[s])
            w == [n |-> p.n, pts |-> pts]
<1>0. file \in [Streams -> Seq(Written)] /\ last \in [Streams -> Int] /\ NoPts \in Int
  BY RecorderAssumption DEF RecorderAssumption, TypeInv, RecorderTypeOK
<1>1. IF file[s] = <<>> THEN last[s] = NoPts ELSE NoPts < last[s]
  <2>1. file[s] # <<>> => file[s][Len(file[s])] \in Written
    BY <1>0
  <2>. QED
    BY <2>1 DEF FileInv, Written
<1>2. pts \in Int /\ NoPts < pts /\ (file[s] # <<>> => last[s] < pts)
  <2>1. Rescaled(p.pts) \in Int /\ NoPts < Rescaled(p.pts)
    BY RescaledBound
  <2>2. last[s] \in Int /\ NoPts <= last[s] /\ (file[s] # <<>> => last[s] # NoPts)
    BY <1>0, <1>1
  <2>. QED
    BY <1>1, <2>1, <2>2, FixedBound
<1>. HIDE DEF pts
<1>3. w \in Written
  BY <1>2 DEF Written
<1>4. last' = [last EXCEPT ![s] = pts] /\ file' = [file EXCEPT ![s] = Append(@, w)]
  BY DEF WriteStream, pts
<1>5. /\ last' \in [Streams -> Int] /\ file' \in [Streams -> Seq(Written)]
      /\ Len(file'[s]) = Len(file[s]) + 1
      /\ \A t \in Streams \ {s} : file'[t] = file[t] /\ last'[t] = last[t]
      /\ file'[s] = Append(file[s], w) /\ last'[s] = pts
  BY <1>0, <1>2, <1>3, <1>4
<1>6. FileInv'
  <2>. SUFFICES ASSUME NEW t \in Streams
                PROVE  /\ \A i \in 1 .. Len(file'[t]) : file'[t][i].n = i
                       /\ \A i \in 2 .. Len(file'[t]) : file'[t][i - 1].pts < file'[t][i].pts
                       /\ last'[t] = IF file'[t] = <<>> THEN NoPts ELSE file'[t][Len(file'[t])].pts
    BY DEF FileInv
  <2>1. CASE t # s
    BY <2>1, <1>5 DEF FileInv
  <2>2. CASE t = s
    BY <2>2, <1>0, <1>2, <1>5 DEF FileInv
  <2>. QED BY <2>1, <2>2
<1>. QED
  BY <1>5, <1>6

-------------------------------------------------------------------------------
(* The queues.                                                             *)

Held == {<<>>} \cup {<<p>> : p \in Packet}

LEMMA ChainedPop ==
  ASSUME NEW q \in Seq(Packet), q # <<>>, NEW done \in Nat, NEW total \in Nat,
         Chained(q, done, total)
  PROVE  IF Head(q).n = 0
         THEN Chained(Tail(q), done, total)
         ELSE Head(q).n = done + 1 /\ Chained(Tail(q), done + 1, total)
<1>. DEFINE r == Tail(q)
<1>1. /\ Head(q) = q[1] /\ Len(q) \in Nat \ {0} /\ Len(r) = Len(q) - 1
      /\ \A i \in 1 .. Len(q) : q[i] \in Packet
      /\ \A i \in 1 .. Len(r) : r[i] = q[i + 1]
  OBVIOUS
<1>. HIDE DEF r
<1>2. ASSUME NEW i \in 1 .. Len(r)
      PROVE  i + 1 \in 1 .. Len(q) /\ r[i] = q[i + 1] /\ r[i].n \in Nat
  <2>1. i + 1 \in 1 .. Len(q)
    BY <1>1
  <2>. QED
    BY <1>1, <2>1 DEF Packet
<1>3. ASSUME NEW i \in 1 .. Len(q), i # 1
      PROVE  i - 1 \in 1 .. Len(r) /\ r[i - 1] = q[i]
  <2>1. i - 1 \in 1 .. Len(r) /\ (i - 1) + 1 = i
    BY <1>1, <1>3
  <2>. QED
    BY <1>1, <2>1
<1>4. ASSUME NEW i \in 1 .. Len(r), NEW j \in 1 .. Len(r), i < j, r[i].n # 0, r[j].n # 0
      PROVE  r[i].n < r[j].n
  <2>1. /\ i + 1 \in 1 .. Len(q) /\ r[i] = q[i + 1]
        /\ j + 1 \in 1 .. Len(q) /\ r[j] = q[j + 1]
    BY <1>2
  <2>2. i + 1 < j + 1
    BY <1>4
  <2>. QED
    BY <1>4, <2>1, <2>2 DEF Chained
<1>5. CASE q[1].n = 0
  <2>1. ASSUME NEW i \in 1 .. Len(r), r[i].n # 0 PROVE r[i].n \in done + 1 .. total
    BY <1>2, <2>1 DEF Chained
  <2>2. ASSUME NEW k \in done + 1 .. total PROVE \E i \in 1 .. Len(r) : r[i].n = k
    <3>1. PICK i \in 1 .. Len(q) : q[i].n = k
      BY DEF Chained
    <3>2. i # 1
      BY <1>5, <3>1
    <3>. QED
      BY <1>3, <3>1, <3>2
  <2>. QED
    BY <1>1, <1>4, <1>5, <2>1, <2>2 DEF Chained, r
<1>6. CASE q[1].n # 0
  <2>1. q[1].n = done + 1 /\ done + 1 <= total
    <3>1. q[1].n \in done + 1 .. total
      BY <1>1, <1>6 DEF Chained
    <3>2. PICK i \in 1 .. Len(q) : q[i].n = done + 1
      BY <3>1 DEF Chained
    <3>3. CASE i = 1
      BY <3>1, <3>2, <3>3
    <3>4. CASE i # 1
      <4>1. 1 \in 1 .. Len(q) /\ 1 < i
        BY <1>1, <3>4
      <4>2. q[1].n < q[i].n
        BY <1>6, <3>2, <4>1 DEF Chained
      <4>. QED
        BY <3>1, <3>2, <4>2
    <3>. QED
      BY <3>3, <3>4
  <2>2. ASSUME NEW i \in 1 .. Len(r), r[i].n # 0 PROVE r[i].n \in (done + 1) + 1 .. total
    <3>1. r[i].n \in done + 1 .. total
      BY <1>2, <2>2 DEF Chained
    <3>2. q[1].n < r[i].n
      <4>1. 1 \in 1 .. Len(q) /\ 1 < i + 1
        BY <1>1
      <4>. QED
        BY <1>2, <1>6, <2>2, <4>1 DEF Chained
    <3>. QED
      BY <2>1, <3>1, <3>2
  <2>3. ASSUME NEW k \in (done + 1) + 1 .. total PROVE \E i \in 1 .. Len(r) : r[i].n = k
    <3>1. k \in done + 1 .. total
      OBVIOUS
    <3>2. PICK i \in 1 .. Len(q) : q[i].n = k
      BY <3>1 DEF Chained
    <3>3. i # 1
      BY <2>1, <3>2
    <3>. QED
      BY <1>3, <3>2, <3>3
  <2>. QED
    BY <1>1, <1>4, <1>6, <2>1, <2>2, <2>3 DEF Chained, r
<1>. QED
  BY <1>5, <1>6

LEMMA ChainedPush ==
  ASSUME NEW q \in Seq(Packet), NEW p \in Packet, NEW done \in Nat, NEW total \in Nat,
         NEW new \in Nat, Chained(q, done, total),
         IF p.n = 0 THEN new = total ELSE p.n = total + 1 /\ new = total + 1
  PROVE  Chained(Append(q, p), done, new)
<1>. DEFINE r == Append(q, p)
<1>1. /\ Len(q) \in Nat /\ Len(r) = Len(q) + 1 /\ r[Len(q) + 1] = p
      /\ \A i \in 1 .. Len(q) : q[i] \in Packet /\ r[i] = q[i]
  OBVIOUS
<1>. HIDE DEF r
<1>2. p.n \in Nat
  BY DEF Packet
<1>3. ASSUME NEW i \in 1 .. Len(r)
      PROVE  \/ i \in 1 .. Len(q) /\ r[i] = q[i] /\ r[i].n \in Nat
             \/ i = Len(q) + 1 /\ r[i] = p
  <2>1. CASE i \in 1 .. Len(q)
    BY <1>1, <2>1 DEF Packet
  <2>2. CASE i = Len(q) + 1
    BY <1>1, <2>2
  <2>. QED
    BY <1>1, <2>1, <2>2
<1>4. ASSUME NEW i \in 1 .. Len(r), r[i].n # 0 PROVE r[i].n \in done + 1 .. new
  <2>1. CASE i \in 1 .. Len(q) /\ r[i] = q[i]
    <3>1. r[i].n \in done + 1 .. total
      BY <1>4, <2>1 DEF Chained
    <3>. QED
      BY <3>1
  <2>2. CASE r[i] = p
    BY <1>2, <1>4, <2>2 DEF Chained
  <2>. QED
    BY <1>3, <2>1, <2>2
<1>5. ASSUME NEW i \in 1 .. Len(r), NEW j \in 1 .. Len(r), i < j, r[i].n # 0, r[j].n # 0
      PROVE  r[i].n < r[j].n
  <2>1. i \in 1 .. Len(q) /\ r[i] = q[i]
    BY <1>1, <1>3, <1>5
  <2>2. CASE j \in 1 .. Len(q) /\ r[j] = q[j]
    BY <1>5, <2>1, <2>2 DEF Chained
  <2>3. CASE r[j] = p
    <3>1. q[i].n \in done + 1 .. total
      BY <1>5, <2>1 DEF Chained
    <3>. QED
      BY <1>5, <2>1, <2>3, <3>1
  <2>. QED
    BY <1>3, <2>2, <2>3
<1>6. ASSUME NEW k \in done + 1 .. new PROVE \E i \in 1 .. Len(r) : r[i].n = k
  <2>1. CASE k \in done + 1 .. total
    <3>1. PICK i \in 1 .. Len(q) : q[i].n = k
      BY <2>1 DEF Chained
    <3>2. i \in 1 .. Len(r) /\ r[i].n = k
      BY <1>1, <3>1
    <3>. QED
      BY <3>2
  <2>2. CASE k \notin done + 1 .. total
    <3>1. p.n = k /\ Len(q) + 1 \in 1 .. Len(r)
      BY <1>1, <2>2
    <3>. QED
      BY <1>1, <3>1
  <2>. QED
    BY <2>1, <2>2
<1>. QED
  BY <1>4, <1>5, <1>6 DEF Chained, r

LEMMA ChainedEmpty ==
  ASSUME NEW done \in Nat, NEW total \in Nat, Chained(<<>>, done, total)
  PROVE  done = total
  BY DEF Chained

(* What a critical section takes from the queue of a stream: nothing, a    *)
(* packet that is held, or a config packet that is ignored.                *)
Kept(s) == held'[s] = held[s] /\ queue'[s] = queue[s]
Took(s) ==
  /\ held[s] = <<>> /\ queue[s] # <<>>
  /\ held'[s] = <<Head(queue[s])>> /\ queue'[s] = Tail(queue[s])
Skipped(s) ==
  /\ held[s] = <<>> /\ queue[s] # <<>> /\ Config(Head(queue[s]))
  /\ held'[s] = <<>> /\ queue'[s] = Tail(queue[s])

LEMMA TakesConfig ==
  ASSUME TypeInv, HeldInv, TakeConfigs, rec' = "write_header"
  PROVE  /\ \A s \in Streams : Kept(s) \/ Took(s)
         /\ queue' = [s \in Streams |-> queue'[s]] /\ held' = [s \in Streams |-> held'[s]]
<1>1. /\ held' = [s \in Streams |-> PopOf(s, s \in expects)]
      /\ queue' = [s \in Streams |-> IF held'[s] # <<>> THEN Tail(queue[s]) ELSE queue[s]]
      /\ \A s \in Streams : held[s] = <<>>
  BY DEF TakeConfigs, HeldInv, All
<1>. QED
  BY <1>1 DEF PopOf, Kept, Took

LEMMA TakesPackets ==
  ASSUME TypeInv, HeldInv, PacketInv, TakePackets
  PROVE  /\ \A s \in Streams : /\ Kept(s) \/ Took(s) \/ Skipped(s)
                               /\ held'[s] # <<>> => ~Config(held'[s][1])
         /\ queue' = [s \in Streams |-> queue'[s]] /\ held' = [s \in Streams |-> held'[s]]
<1>1. /\ rec = "take"
      /\ queue' = [s \in Streams |-> IF held[s] = <<>> /\ Taken(s) # <<>> THEN Tail(queue[s])
                                                                          ELSE queue[s]]
      /\ held' = [s \in Streams |-> IF Taken(s) # <<>> /\ Config(Taken(s)[1]) THEN <<>>
                                                                              ELSE Taken(s)]
  BY DEF TakePackets
<1>2. \A s \in Streams : held[s] # <<>> => ~Config(held[s][1])
  BY <1>1 DEF HeldInv, PacketInv, Media
<1>. QED
  BY <1>1, <1>2 DEF Taken, PopOf, Kept, Took, Skipped

(* Whatever is taken, the packets keep their types, and their order.       *)
LEMMA TakeTypes ==
  ASSUME TypeInv, PacketInv, \A s \in Streams : Kept(s) \/ Took(s) \/ Skipped(s),
         queue' = [s \in Streams |-> queue'[s]], held' = [s \in Streams |-> held'[s]]
  PROVE  queue' \in [Streams -> Seq(Packet)] /\ held' \in [Streams -> Held] /\ PacketInv'
<1>. SUFFICES ASSUME NEW s \in Streams
              PROVE  /\ queue'[s] \in Seq(Packet) /\ held'[s] \in Held
                     /\ \A i \in 1 .. Len(queue'[s]) :
                          queue'[s][i].n = 0 <=> Config(queue'[s][i])
                     /\ held'[s] # <<>> => (held'[s][1].n = 0 <=> Config(held'[s][1]))
  BY DEF PacketInv, Config
<1>1. queue[s] \in Seq(Packet) /\ held[s] \in Held
  BY DEF TypeInv, RecorderTypeOK, Held
<1>2. CASE Kept(s)
  BY <1>1, <1>2 DEF Kept, PacketInv
<1>3. CASE Took(s) \/ Skipped(s)
  <2>1. /\ Head(queue[s]) = queue[s][1] /\ Head(queue[s]) \in Packet
        /\ 1 \in 1 .. Len(queue[s]) /\ Tail(queue[s]) \in Seq(Packet)
        /\ \A i \in 1 .. Len(Tail(queue[s])) :
             i + 1 \in 1 .. Len(queue[s]) /\ Tail(queue[s])[i] = queue[s][i + 1]
    BY <1>1, <1>3 DEF Took, Skipped
  <2>2. queue'[s] = Tail(queue[s])
    BY <1>3 DEF Took, Skipped
  <2>3. held'[s] = <<>> \/ held'[s] = <<Head(queue[s])>>
    BY <1>3 DEF Took, Skipped
  <2>4. \A i \in 1 .. Len(queue[s]) : queue[s][i].n = 0 <=> Config(queue[s][i])
    BY DEF PacketInv
  <2>5. held'[s] \in Held /\ (held'[s] # <<>> => (held'[s][1].n = 0 <=> Config(held'[s][1])))
    <3>1. CASE held'[s] = <<>>
      BY <3>1 DEF Held
    <3>2. CASE held'[s] = <<Head(queue[s])>>
      <4>1. held'[s][1] = Head(queue[s]) /\ held'[s] \in Held
        BY <2>1, <3>2 DEF Held
      <4>. QED
        BY <2>1, <2>4, <4>1
    <3>. QED
      BY <2>3, <3>1, <3>2
  <2>. QED
    BY <2>1, <2>2, <2>4, <2>5
<1>. QED
  BY <1>2, <1>3

LEMMA TakeChains ==
  ASSUME RecorderInv, rec \in Running, UNCHANGED <<file, previous, frames>>,
         NEW s \in Streams, Kept(s) \/ Took(s) \/ Skipped(s)
  PROVE  /\ Chained(queue'[s], Left(s)', frames'[s])
         /\ Media(s)' => held'[s][1].n = Left(s)'
<1>1. /\ queue[s] \in Seq(Packet) /\ held[s] \in Held /\ frames[s] \in Nat
      /\ Len(file[s]) \in Nat /\ Len(previous) \in Nat
  BY RecorderAssumption DEF RecorderAssumption, RecorderInv, TypeInv,
    RecorderTypeOK, Held
<1>2. Chained(queue[s], Left(s), frames[s]) /\ (Media(s) => held[s][1].n = Left(s))
  BY DEF RecorderInv, ChainInv
<1>3. Left(s) \in Nat /\ Previous(s) \in Nat /\ Holding(s) \in Nat
  <2>1. Previous(s) \in Nat /\ Holding(s) \in Nat
    BY <1>1 DEF Previous, Holding
  <2>. QED
    BY <1>1, <2>1 DEF Left
<1>4. CASE Kept(s)
  BY <1>2, <1>4 DEF Kept, Left, Previous, Holding, Media
<1>5. CASE Took(s)
  <2>1. /\ queue'[s] = Tail(queue[s]) /\ held'[s][1] = Head(queue[s])
        /\ Media(s)' <=> Head(queue[s]).n # 0
        /\ Left(s)' = IF Head(queue[s]).n = 0 THEN Left(s) ELSE Left(s) + 1
    <3>1. ~Media(s) /\ (Media(s)' <=> Head(queue[s]).n # 0)
      BY <1>5 DEF Took, Media
    <3>2. /\ Holding(s) = 0 /\ Previous(s)' = Previous(s)
          /\ Holding(s)' = IF Head(queue[s]).n = 0 THEN 0 ELSE 1
      BY <3>1 DEF Holding, Previous
    <3>. QED
      BY <1>1, <1>3, <1>5, <3>1, <3>2 DEF Took, Left
  <2>. QED
    BY <1>1, <1>2, <1>3, <1>5, <2>1, ChainedPop DEF Took
<1>6. CASE Skipped(s)
  <2>1. Head(queue[s]).n = 0
    <3>1. Head(queue[s]) = queue[s][1] /\ 1 \in 1 .. Len(queue[s])
      BY <1>1, <1>6 DEF Skipped
    <3>. QED
      BY <1>6, <3>1 DEF Skipped, RecorderInv, PacketInv
  <2>2. queue'[s] = Tail(queue[s]) /\ ~Media(s)' /\ Left(s)' = Left(s)
    BY <1>1, <1>6 DEF Skipped, Left, Previous, Holding, Media
  <2>. QED
    BY <1>1, <1>2, <1>3, <1>6, <2>1, <2>2, ChainedPop DEF Skipped
<1>. QED
  BY <1>4, <1>5, <1>6

-------------------------------------------------------------------------------
(* The actions that move packets, one lemma each.                          *)

LEMMA Numbered ==
  ASSUME TypeInv, NEW s \in Streams
  PROVE  /\ Len(file[s]) \in Nat /\ Previous(s) \in Nat /\ Holding(s) \in Nat
         /\ Left(s) \in Nat /\ frames[s] \in 0 .. MaxFrames
         /\ queue[s] \in Seq(Packet) /\ held[s] \in Held
         /\ file[s] \in Seq(Written)
         /\ held[s] # <<>> => held[s][1] \in Packet /\ held[s] = <<held[s][1]>>
<1>1. /\ file[s] \in Seq(Written) /\ queue[s] \in Seq(Packet) /\ held[s] \in Held
      /\ Len(previous) \in Nat /\ frames[s] \in 0 .. MaxFrames
  BY DEF TypeInv, RecorderTypeOK, Held
<1>2. Previous(s) \in Nat /\ Holding(s) \in Nat
  BY <1>1 DEF Previous, Holding
<1>. QED
  BY <1>1, <1>2 DEF Left, Held

LEMMA ChainIdle ==
  ASSUME ChainInv, UNCHANGED <<queue, held, previous, file, frames, success, lost>>,
         rec' \in Running => rec \in Running
  PROVE  ChainInv'
  BY DEF ChainInv, Left, Previous, Holding, Media

LEMMA TakeConfigsKeeps ==
  ASSUME RecorderInv, TakeConfigs
  PROVE  RecorderInv'
<1>. USE DEF RecorderInv, sinks, demuxers
<1>0. /\ rec = "header" /\ rec' \in {"close", "write_header"}
      /\ UNCHANGED <<ctx, sinks, previous, origin, last, stopped, success, file,
                     lost, demuxers, main>>
      /\ rec' = "close" => UNCHANGED <<queue, held>>
  BY DEF TakeConfigs
<1>1. \A s \in Streams : Kept(s) \/ Took(s)
  <2>1. CASE rec' = "close"
    BY <1>0, <2>1 DEF Kept
  <2>2. CASE rec' = "write_header"
    BY <2>2, TakesConfig
  <2>. QED
    BY <1>0, <2>1, <2>2
<1>2. queue' = [s \in Streams |-> queue'[s]] /\ held' = [s \in Streams |-> held'[s]]
  <2>1. CASE rec' = "close"
    BY <1>0, <2>1 DEF TypeInv, RecorderTypeOK
  <2>2. CASE rec' = "write_header"
    BY <2>2, TakesConfig
  <2>. QED
    BY <1>0, <2>1, <2>2
<1>3. queue' \in [Streams -> Seq(Packet)] /\ held' \in [Streams -> Held] /\ PacketInv'
  BY <1>1, <1>2, TakeTypes
<1>4. TypeInv'
  BY <1>0, <1>3 DEF TypeInv, RecorderTypeOK, Held
<1>5. HeldInv' /\ FileInv'
  BY <1>0 DEF HeldInv, FileInv
<1>6. DisabledInv'
  BY <1>0, <1>1 DEF DisabledInv, Kept, Took
<1>7. ChainInv' /\ EndInv'
  <2>1. \A s \in Streams : /\ Chained(queue'[s], Left(s)', frames'[s])
                           /\ Media(s)' => held'[s][1].n = Left(s)'
    BY <1>0, <1>1, TakeChains DEF Running
  <2>. QED
    BY <1>0, <2>1 DEF ChainInv, EndInv, Running
<1>. QED
  BY <1>3, <1>4, <1>5, <1>6, <1>7

LEMMA WriteHeaderKeeps ==
  ASSUME RecorderInv, WriteHeader
  PROVE  RecorderInv'
<1>. USE DEF RecorderInv, sinks, demuxers
<1>0. /\ rec = "write_header" /\ rec' \in {"close", "take"}
      /\ UNCHANGED <<ctx, sinks, queue, previous, origin, last, stopped, success, file,
                     lost, demuxers, main>>
      /\ held' = All(<<>>)
      /\ rec' = "take" => \A s \in Streams : held[s] # <<>> => Config(held[s][1])
  BY DEF WriteHeader
<1>1. \A s \in Streams : held'[s] = <<>>
  BY <1>0 DEF All
<1>2. TypeInv' /\ PacketInv' /\ HeldInv' /\ DisabledInv' /\ FileInv' /\ EndInv'
  <2>1. held' \in [Streams -> Held]
    BY <1>0 DEF All, Held
  <2>. QED
    BY <1>0, <1>1, <2>1 DEF TypeInv, RecorderTypeOK, PacketInv, Config, HeldInv,
      DisabledInv,
      FileInv, EndInv, ChainInv, Running, Held
<1>3. ChainInv'
  <2>1. CASE rec' = "take"
    <3>1. \A s \in Streams : ~Media(s) /\ ~Media(s)'
      BY <1>0, <1>1, <2>1 DEF Media, PacketInv
    <3>2. \A s \in Streams : Left(s)' = Left(s)
      BY <1>0, <3>1 DEF Left, Previous, Holding
    <3>. QED
      BY <1>0, <3>1, <3>2 DEF ChainInv, Running
  <2>2. CASE rec' = "close"
    BY <2>2 DEF ChainInv, Running
  <2>. QED
    BY <1>0, <2>1, <2>2
<1>. QED
  BY <1>2, <1>3

LEMMA TakePacketsKeeps ==
  ASSUME RecorderInv, TakePackets
  PROVE  RecorderInv'
<1>. USE DEF RecorderInv, sinks, demuxers
<1>0. /\ rec = "take" /\ rec' \in {"trailer", "origin"}
      /\ UNCHANGED <<ctx, sinks, previous, origin, last, stopped, success, file,
                     lost, demuxers, main>>
  BY DEF TakePackets
<1>1. /\ \A s \in Streams : /\ Kept(s) \/ Took(s) \/ Skipped(s)
                            /\ held'[s] # <<>> => ~Config(held'[s][1])
      /\ queue' = [s \in Streams |-> queue'[s]] /\ held' = [s \in Streams |-> held'[s]]
  BY TakesPackets
<1>2. rec' = "trailer" => stopped /\ \A s \in Streams : queue'[s] = <<>> /\ held'[s] = <<>>
  BY DEF TakePackets, EndsDrained, Taken, PopOf
<1>3. queue' \in [Streams -> Seq(Packet)] /\ held' \in [Streams -> Held] /\ PacketInv'
  BY <1>1, TakeTypes
<1>4. TypeInv'
  BY <1>0, <1>3 DEF TypeInv, RecorderTypeOK, Held
<1>5. HeldInv'
  <2>1. \A s \in Streams : held'[s] # <<>> => Media(s)'
    BY <1>1, <1>3 DEF PacketInv, Media
  <2>2. rec' = "trailer" => held' = All(<<>>)
    BY <1>1, <1>2 DEF All
  <2>. QED
    BY <1>0, <2>1, <2>2 DEF HeldInv
<1>6. FileInv'
  BY <1>0 DEF FileInv
<1>7. DisabledInv'
  BY <1>0, <1>1 DEF DisabledInv, Kept, Took, Skipped
<1>8. ChainInv' /\ EndInv'
  <2>1. \A s \in Streams : /\ Chained(queue'[s], Left(s)', frames'[s])
                           /\ Media(s)' => held'[s][1].n = Left(s)'
    BY <1>0, <1>1, TakeChains DEF Running
  <2>2. rec' = "trailer" => queue' = All(<<>>)
    BY <1>1, <1>2 DEF All
  <2>. QED
    BY <1>0, <1>2, <2>1, <2>2 DEF ChainInv, EndInv, Running
<1>. QED
  BY <1>3, <1>4, <1>5, <1>6, <1>7, <1>8

(* The origin is a timestamp of a packet that is held. *)
LEMMA SetOriginKeeps ==
  ASSUME RecorderInv, SetOrigin
  PROVE  RecorderInv'
<1>. USE DEF RecorderInv, sinks, demuxers
<1>0. /\ rec = "origin" /\ rec' \in {"write", "close", "take"}
      /\ UNCHANGED <<ctx, sinks, queue, held, previous, last, stopped, success,
                     file, lost, demuxers, main>>
      /\ IF origin # NoPts THEN origin' = origin ELSE origin' = OriginOf
      /\ rec' = "write" => origin' # NoPts
  BY DEF SetOrigin, WaitsForBoth
<1>1. \A s \in Streams : held[s] # <<>> => PtsOf(s) \in Pts
  <2>. SUFFICES ASSUME NEW s \in Streams, held[s] # <<>> PROVE PtsOf(s) \in Pts
    OBVIOUS
  <2>1. held[s][1] \in Packet /\ ~Config(held[s][1])
    BY <1>0, Numbered DEF HeldInv, PacketInv, Media
  <2>. QED
    BY <2>1 DEF Packet, Config, PtsOf
<1>2. OriginOf \in Pts \cup {NoPts}
  <2>1. (\E s \in Streams : enabled = {s} /\ held[s] # <<>>) =>
          PtsOf(CHOOSE s \in Streams : enabled = {s} /\ held[s] # <<>>) \in Pts
    BY <1>1
  <2>. QED
    BY <1>1, <2>1 DEF OriginOf, Streams
<1>3. origin' \in Pts \cup {NoPts} /\ (origin' = NoPts => origin = NoPts)
  BY <1>0, <1>2 DEF TypeInv, RecorderTypeOK
<1>4. TypeInv'
  BY <1>0, <1>3 DEF TypeInv, RecorderTypeOK
<1>5. PacketInv' /\ HeldInv' /\ DisabledInv' /\ FileInv' /\ EndInv'
  BY <1>0 DEF PacketInv, Config, HeldInv, Media, DisabledInv, FileInv, EndInv,
    ChainInv, Running
<1>6. ChainInv'
  BY <1>0, ChainIdle DEF Running
<1>. QED
  BY <1>4, <1>5, <1>6

(* What is held once there is an origin: the next packet of the stream,    *)
(* whose shifted timestamp may be written.                                 *)
LEMMA ShiftedHeld ==
  ASSUME RecorderInv, rec = "write", NEW s \in Streams, held[s] # <<>>
  PROVE  /\ Media(s) /\ Holding(s) = 1 /\ held[s][1].n = Left(s)
         /\ Shifted(s) \in Written /\ Shifted(s).n = Left(s)
<1>1. Media(s) /\ held[s][1].n = Left(s) /\ origin \in Pts
  BY DEF RecorderInv, HeldInv, ChainInv, Running, TypeInv, RecorderTypeOK
<1>2. held[s][1] \in Packet /\ ~Config(held[s][1])
  BY <1>1, Numbered DEF RecorderInv, PacketInv, Media
<1>3. held[s][1].pts \in Pts /\ held[s][1].n \in 1 .. MaxFrames
  BY <1>1, <1>2, RecorderAssumption DEF RecorderAssumption, Packet, Config, Media
<1>4. held[s][1].pts - origin \in Int /\ NoPts < held[s][1].pts - origin
  <2>1. Pts \subseteq Nat /\ \A p, q \in Pts : NoPts < p - q
    BY RecorderAssumption DEF RecorderAssumption
  <2>2. held[s][1].pts \in Nat /\ origin \in Nat
    BY <1>1, <1>3, <2>1
  <2>. QED
    BY <1>1, <1>3, <2>1, <2>2
<1>5. Shifted(s) = [n |-> held[s][1].n, pts |-> held[s][1].pts - origin]
  BY <1>2 DEF Shifted, Packet
<1>. QED
  BY <1>1, <1>3, <1>4, <1>5 DEF Written, Holding

(* The previous packet is the next one of the file. *)
LEMMA PreviousNext ==
  ASSUME RecorderInv, rec \in Running, previous # <<>>
  PROVE  /\ Len(previous) = 1 /\ previous[1] \in Written
         /\ previous[1].n = Len(file["video"]) + 1 /\ origin \in Pts
<1>1. previous \in Seq(Written) /\ Len(previous) <= 1 /\ origin \in Pts
  BY DEF RecorderInv, TypeInv, RecorderTypeOK
<1>2. previous[1].n = Len(file["video"]) + 1
  BY DEF RecorderInv, ChainInv
<1>3. Len(previous) = 1
  <2>1. Len(previous) \in Nat \ {0}
    BY <1>1, EmptySeq
  <2>2. \A n \in Nat \ {0} : n <= 1 => n = 1
    OBVIOUS
  <2>. QED
    BY <1>1, <2>1, <2>2, Zenon
<1>. QED
  BY <1>1, <1>2, <1>3

LEMMA WriteVideoKeeps ==
  ASSUME RecorderInv, WriteVideo
  PROVE  RecorderInv'
<1>. USE DEF RecorderInv, sinks, demuxers
<1>. DEFINE v == "video"
<1>0. /\ rec = "write" /\ v \in Streams /\ held[v] # <<>>
      /\ UNCHANGED <<ctx, sinks, queue, origin, stopped, success, lost, demuxers, main>>
      /\ held' = [held EXCEPT ![v] = <<>>]
      /\ \/ previous # <<>> /\ WriteStream(v, previous[1]) /\ rec' = "write"
         \/ previous # <<>> /\ rec' = "close" /\ UNCHANGED <<last, file>>
         \/ previous = <<>> /\ UNCHANGED <<last, file, rec>>
      /\ previous' = IF rec' = "close" THEN <<>> ELSE <<Shifted(v)>>
  BY DEF WriteVideo, Streams
<1>1. /\ Media(v) /\ Holding(v) = 1 /\ held[v][1].n = Left(v)
      /\ Shifted(v) \in Written /\ Shifted(v).n = Left(v)
  BY <1>0, ShiftedHeld
<1>2. /\ origin \in Pts /\ origin # NoPts /\ NoPts < 0
  BY <1>0, NoPtsNegative DEF HeldInv, TypeInv, RecorderTypeOK
<1>3. /\ held' \in [Streams -> Held] /\ held'[v] = <<>>
      /\ \A t \in Streams \ {v} : held'[t] = held[t]
  BY <1>0 DEF TypeInv, RecorderTypeOK, Held
<1>4. /\ FileInv' /\ last' \in [Streams -> Int] /\ file' \in [Streams -> Seq(Written)]
      /\ \A t \in Streams \ {v} : file'[t] = file[t]
      /\ Len(file'[v]) = IF previous # <<>> /\ rec' = "write" THEN Len(file[v]) + 1
                                                            ELSE Len(file[v])
  <2>1. CASE previous # <<>> /\ WriteStream(v, previous[1]) /\ rec' = "write"
    <3>1. /\ previous[1] \in Written /\ previous[1].n = Len(file[v]) + 1
      BY <1>0, <2>1, PreviousNext DEF Running
    <3>2. previous[1].pts \in Int /\ NoPts < previous[1].pts /\ previous[1].n \in 1 .. MaxFrames
      BY <3>1 DEF Written
    <3>. QED
      BY <1>0, <1>2, <2>1, <3>1, <3>2, WriteKeeps
  <2>2. CASE UNCHANGED <<last, file>> /\ (rec' = "close" \/ previous = <<>>)
    BY <2>2 DEF TypeInv, RecorderTypeOK, FileInv
  <2>. QED
    BY <1>0, <2>1, <2>2
<1>5. previous' \in Seq(Written) /\ Len(previous') <= 1
      /\ \A i \in DOMAIN previous' : previous'[i].n > 0
  <2>1. CASE rec' = "close"
    BY <1>0, <2>1
  <2>2. CASE rec' # "close"
    <3>1. previous' = <<Shifted(v)>> /\ Shifted(v).n > 0
      BY <1>0, <1>1, <2>2 DEF Written
    <3>. QED
      BY <1>1, <3>1
  <2>. QED
    BY <2>1, <2>2
<1>6. TypeInv'
  BY <1>0, <1>2, <1>3, <1>4, <1>5 DEF TypeInv, RecorderTypeOK, Held
<1>7. PacketInv' /\ HeldInv' /\ DisabledInv' /\ EndInv'
  BY <1>0, <1>2, <1>3 DEF PacketInv, Config, HeldInv, Media, DisabledInv, EndInv,
    ChainInv, Running
<1>8. ChainInv'
  <2>1. CASE rec' = "close"
    BY <2>1 DEF ChainInv, Running
  <2>2. CASE rec' # "close"
    <3>0. rec' = "write" /\ previous' = <<Shifted(v)>>
      BY <1>0, <2>2
    <3>1. Previous(v) = Len(previous) /\ Previous(v)' = 1 /\ Holding(v)' = 0 /\ ~Media(v)'
      BY <1>3, <3>0 DEF Previous, Holding, Media
    <3>2. Left(v)' = Left(v) /\ previous'[1].n = Len(file'[v]) + 1
      <4>1. CASE previous # <<>>
        <5>1. Len(previous) = 1 /\ Len(file'[v]) = Len(file[v]) + 1
          BY <1>0, <1>4, <3>0, <4>1, PreviousNext DEF Running
        <5>. QED
          BY <1>0, <1>1, <3>0, <3>1, <5>1, Numbered DEF Left
      <4>2. CASE previous = <<>>
        <5>1. Len(previous) = 0 /\ Len(file'[v]) = Len(file[v])
          BY <1>4, <4>2
        <5>. QED
          BY <1>0, <1>1, <3>0, <3>1, <5>1, Numbered DEF Left
      <4>. QED
        BY <4>1, <4>2
    <3>3. ASSUME NEW t \in Streams, t # v PROVE Left(t)' = Left(t) /\ (Media(t)' <=> Media(t))
      BY <1>3, <1>4, <3>3 DEF Left, Previous, Holding, Media
    <3>. QED
      BY <1>0, <1>3, <3>0, <3>1, <3>2, <3>3 DEF ChainInv, Running
  <2>. QED
    BY <2>1, <2>2
<1>. QED
  BY <1>4, <1>6, <1>7, <1>8

LEMMA WriteAudioKeeps ==
  ASSUME RecorderInv, WriteAudio
  PROVE  RecorderInv'
<1>. USE DEF RecorderInv, sinks, demuxers
<1>. DEFINE a == "audio"
<1>0. /\ rec = "write" /\ a \in Streams
      /\ held["video"] = <<>> /\ rec' \in {"close", "take"}
      /\ UNCHANGED <<ctx, sinks, queue, previous, origin, stopped, success, lost,
                     demuxers, main>>
      /\ held' = [held EXCEPT ![a] = <<>>]
      /\ \/ held[a] # <<>> /\ WriteStream(a, Shifted(a)) /\ rec' = "take"
         \/ held[a] # <<>> /\ rec' = "close" /\ UNCHANGED <<last, file>>
         \/ held[a] = <<>> /\ UNCHANGED <<last, file>>
  BY DEF WriteAudio, Streams
<1>1. held[a] # <<>> => /\ Media(a) /\ Holding(a) = 1
                        /\ Shifted(a) \in Written /\ Shifted(a).n = Left(a)
  BY <1>0, ShiftedHeld
<1>2. /\ origin \in Pts /\ origin # NoPts /\ NoPts < 0
      /\ Previous(a) = 0 /\ Previous(a)' = 0
  BY <1>0, NoPtsNegative DEF HeldInv, TypeInv, RecorderTypeOK, Previous
<1>3. /\ held' \in [Streams -> Held] /\ \A t \in Streams : held'[t] = <<>>
      /\ \A t \in Streams \ {a} : held'[t] = held[t]
  BY <1>0 DEF TypeInv, RecorderTypeOK, Held, Streams
<1>4. /\ FileInv' /\ last' \in [Streams -> Int] /\ file' \in [Streams -> Seq(Written)]
      /\ \A t \in Streams \ {a} : file'[t] = file[t]
      /\ Len(file'[a]) = IF held[a] # <<>> /\ rec' = "take" THEN Len(file[a]) + 1
                                                            ELSE Len(file[a])
  <2>1. CASE held[a] # <<>> /\ WriteStream(a, Shifted(a)) /\ rec' = "take"
    <3>1. Shifted(a).n = Len(file[a]) + 1
      BY <1>0, <1>1, <1>2, <2>1, Numbered DEF Left
    <3>2. Shifted(a).pts \in Int /\ NoPts < Shifted(a).pts /\ Shifted(a).n \in 1 .. MaxFrames
      BY <1>1, <2>1 DEF Written
    <3>. QED
      BY <1>0, <1>2, <2>1, <3>1, <3>2, WriteKeeps
  <2>2. CASE UNCHANGED <<last, file>> /\ (rec' = "close" \/ held[a] = <<>>)
    BY <2>2 DEF TypeInv, RecorderTypeOK, FileInv
  <2>. QED
    BY <1>0, <2>1, <2>2
<1>5. TypeInv'
  BY <1>0, <1>2, <1>3, <1>4 DEF TypeInv, RecorderTypeOK, Held
<1>6. PacketInv' /\ HeldInv' /\ DisabledInv' /\ EndInv'
  BY <1>0, <1>2, <1>3 DEF PacketInv, Config, HeldInv, Media, DisabledInv, EndInv,
    ChainInv, Running
<1>7. ChainInv'
  <2>1. CASE rec' = "close"
    BY <2>1 DEF ChainInv, Running
  <2>2. CASE rec' = "take"
    <3>1. Holding(a)' = 0 /\ Left(a)' = Left(a)
      <4>1. Holding(a)' = 0
        BY <1>0, <1>3 DEF Holding, Media
      <4>2. CASE held[a] # <<>>
        BY <1>0, <1>1, <1>2, <1>4, <2>2, <4>1, <4>2, Numbered DEF Left
      <4>3. CASE held[a] = <<>>
        BY <1>0, <1>2, <1>4, <4>1, <4>3, Numbered DEF Left, Holding, Media
      <4>. QED
        BY <4>1, <4>2, <4>3
    <3>2. ASSUME NEW t \in Streams, t # a PROVE Left(t)' = Left(t)
      BY <1>0, <1>3, <1>4, <3>2 DEF Left, Previous, Holding, Media
    <3>3. \A t \in Streams : ~Media(t)'
      BY <1>3 DEF Media
    <3>. QED
      BY <1>0, <1>4, <2>2, <3>1, <3>2, <3>3 DEF ChainInv, Running, Streams
  <2>. QED
    BY <1>0, <2>1, <2>2
<1>. QED
  BY <1>4, <1>5, <1>6, <1>7

(* Once stopped and drained, every packet accepted left the queue.         *)
LEMMA WriteTrailerKeeps ==
  ASSUME RecorderInv, WriteTrailer
  PROVE  RecorderInv'
<1>. USE DEF RecorderInv, sinks, demuxers
<1>. DEFINE v == "video"
<1>0. /\ rec = "trailer" /\ rec' = "close" /\ v \in Streams /\ "audio" \in Streams
      /\ UNCHANGED <<ctx, sinks, queue, held, origin, stopped, demuxers, main>>
      /\ \/ previous # <<>> /\ WriteStream(v, previous[1]) /\ lost' = lost
         \/ UNCHANGED <<last, file>> /\ lost' = (previous # <<>>)
      /\ previous' = <<>> /\ success' \in BOOLEAN
  BY DEF WriteTrailer, Streams
<1>1. /\ ~lost /\ stopped /\ \A s \in Streams : Left(s) = frames[s] /\ Holding(s) = 0
  <2>1. \A s \in Streams : queue[s] = <<>> /\ held[s] = <<>>
    BY <1>0 DEF EndInv, HeldInv, All
  <2>2. ASSUME NEW s \in Streams PROVE Left(s) = frames[s]
    <3>1. Chained(<<>>, Left(s), frames[s]) /\ Left(s) \in Nat /\ frames[s] \in Nat
      BY <1>0, <2>1, Numbered DEF ChainInv, Running
    <3>. QED
      BY <3>1, ChainedEmpty
  <2>. QED
    BY <1>0, <2>1, <2>2 DEF ChainInv, Running, EndInv, Holding, Media
<1>2. frames[v] = Len(file[v]) + Len(previous) /\ frames["audio"] = Len(file["audio"])
  <2>1. Previous(v) = Len(previous) /\ Previous("audio") = 0
    BY DEF Previous
  <2>2. ASSUME NEW s \in Streams PROVE frames[s] = Len(file[s]) + Previous(s)
    BY <1>1, Numbered DEF Left
  <2>. QED
    BY <1>0, <2>1, <2>2
<1>3. /\ FileInv' /\ last' \in [Streams -> Int] /\ file' \in [Streams -> Seq(Written)]
      /\ lost' \in BOOLEAN /\ (origin = NoPts => file' = All(<<>>))
      /\ Len(file'[v]) = frames[v] - (IF lost' THEN 1 ELSE 0)
      /\ file'["audio"] = file["audio"]
  <2>0. previous = <<>> => Len(previous) = 0
    OBVIOUS
  <2>1. CASE previous # <<>> /\ WriteStream(v, previous[1]) /\ lost' = lost
    <3>1. /\ previous[1] \in Written /\ previous[1].n = Len(file[v]) + 1
          /\ Len(previous) = 1 /\ origin \in Pts
      BY <1>0, <2>1, PreviousNext DEF Running
    <3>2. previous[1].pts \in Int /\ NoPts < previous[1].pts /\ previous[1].n \in 1 .. MaxFrames
      BY <3>1 DEF Written
    <3>3. NoPts < 0 /\ origin # NoPts
      BY <3>1, NoPtsNegative
    <3>4. /\ FileInv' /\ last' \in [Streams -> Int] /\ file' \in [Streams -> Seq(Written)]
          /\ Len(file'[v]) = Len(file[v]) + 1 /\ file'["audio"] = file["audio"]
      BY <1>0, <2>1, <3>1, <3>2, <3>3, WriteKeeps
    <3>5. ~lost' /\ lost' \in BOOLEAN
      BY <1>1, <2>1 DEF TypeInv
    <3>6. Len(file[v]) + 1 = frames[v]
      BY <1>2, <3>1
    <3>7. Len(file'[v]) = frames[v] - (IF lost' THEN 1 ELSE 0)
      BY <3>4, <3>5, <3>6
    <3>. QED
      BY <3>3, <3>4, <3>5, <3>7
  <2>2. CASE UNCHANGED <<last, file>> /\ lost' = (previous # <<>>)
    <3>1. previous # <<>> => Len(previous) = 1
      BY <1>0, PreviousNext DEF Running
    <3>2. Len(file[v]) \in Nat
      BY <1>0, Numbered
    <3>3. Len(file[v]) = frames[v] - (IF lost' THEN 1 ELSE 0)
      <4>1. CASE previous = <<>>
        <5>1. ~lost'
          BY <2>2, <4>1
        <5>. QED
          BY <1>2, <2>0, <3>2, <4>1, <5>1
      <4>2. CASE previous # <<>>
        <5>1. lost' /\ frames[v] = Len(file[v]) + 1
          BY <1>2, <2>2, <3>1, <4>2
        <5>2. Len(file[v]) = frames[v] - 1
          BY <3>2, <5>1
        <5>. QED
          BY <5>1, <5>2
      <4>. QED
        BY <4>1, <4>2
    <3>. QED
      BY <2>2, <3>3 DEF TypeInv, RecorderTypeOK, FileInv
  <2>. QED
    BY <1>0, <2>1, <2>2
<1>4. TypeInv'
  <2>1. /\ previous' \in Seq(Written) /\ Len(previous') <= 1
        /\ \A i \in DOMAIN previous' : previous'[i].n > 0
    BY <1>0
  <2>. QED
    BY <1>0, <1>3, <2>1 DEF TypeInv, RecorderTypeOK
<1>5. PacketInv' /\ HeldInv' /\ DisabledInv' /\ ChainInv'
  BY <1>0 DEF PacketInv, Config, HeldInv, Media, DisabledInv, ChainInv, Running
<1>6. EndInv'
  BY <1>0, <1>1, <1>2, <1>3 DEF EndInv
<1>. QED
  BY <1>3, <1>4, <1>5, <1>6

(* A packet accepted is the next one of its stream. *)
LEMMA SinkPushKeeps ==
  ASSUME RecorderInv, NEW s \in Streams, NEW pts \in Pts \cup {NoPts}, SinkPush(s, pts)
  PROVE  RecorderInv'
<1>. USE DEF RecorderInv, sinks, local
<1>. DEFINE p == [n |-> IF pts = NoPts THEN 0 ELSE frames[s] + 1, pts |-> pts]
<1>0. UNCHANGED <<rec, ctx, sinks, local, stopped, success, file, lost, main>>
  BY DEF SinkPush
<1>1. CASE stopped
  <2>1. /\ demux' = [demux EXCEPT ![s] = "closing"] /\ demux[s] = "opened"
        /\ UNCHANGED <<queue, frames, configs>>
    BY <1>1 DEF SinkPush
  <2>2. TypeInv'
    BY <1>0, <2>1 DEF TypeInv, RecorderTypeOK
  <2>3. PacketInv' /\ HeldInv' /\ DisabledInv' /\ FileInv' /\ EndInv'
    BY <1>0, <2>1 DEF PacketInv, Config, HeldInv, Media, DisabledInv, FileInv, EndInv,
      TypeInv, RecorderTypeOK
  <2>4. ChainInv'
    BY <1>0, <2>1, ChainIdle
  <2>. QED
    BY <2>2, <2>3, <2>4
<1>2. CASE ~stopped
  <2>1. /\ queue' = [queue EXCEPT ![s] = Append(@, p)] /\ demux' = demux
        /\ demux[s] = "opened" /\ s \in enabled
        /\ IF pts = NoPts THEN UNCHANGED frames /\ configs' = [configs EXCEPT ![s] = @ + 1]
           ELSE /\ frames[s] < MaxFrames /\ UNCHANGED configs
                /\ frames' = [frames EXCEPT ![s] = @ + 1]
    BY <1>2 DEF SinkPush, DisabledInv
  <2>2. p \in Packet /\ (p.n = 0 <=> Config(p)) /\ p.n = IF pts = NoPts THEN 0 ELSE frames[s] + 1
    BY <2>1, Numbered, RecorderAssumption DEF RecorderAssumption, Packet, Config
  <2>. HIDE DEF p
  <2>3. /\ queue'[s] = Append(queue[s], p) /\ queue' \in [Streams -> Seq(Packet)]
        /\ \A t \in Streams : t # s => queue'[t] = queue[t] /\ frames'[t] = frames[t]
        /\ frames' \in [Streams -> 0 .. MaxFrames]
        /\ frames'[s] = IF p.n = 0 THEN frames[s] ELSE frames[s] + 1
        /\ configs' \in [Streams -> Nat]
    <3>1. queue \in [Streams -> Seq(Packet)] /\ configs \in [Streams -> Nat]
          /\ frames \in [Streams -> 0 .. MaxFrames] /\ MaxFrames \in Nat
      BY RecorderAssumption DEF RecorderAssumption, TypeInv, RecorderTypeOK
    <3>2. queue'[s] = Append(queue[s], p) /\ \A t \in Streams : t # s => queue'[t] = queue[t]
      BY <2>1, <3>1
    <3>3. queue' \in [Streams -> Seq(Packet)]
      <4>0. queue[s] \in Seq(Packet) /\ p \in Packet
        BY <2>2, <3>1
      <4>1. queue'[s] \in Seq(Packet)
        BY <3>2, <4>0
      <4>2. \A t \in Streams : queue'[t] \in Seq(Packet)
        BY <3>1, <3>2, <4>1
      <4>. QED
        BY <2>1, <3>1, <4>2
    <3>4. CASE pts = NoPts
      <4>1. frames' = frames /\ configs' = [configs EXCEPT ![s] = configs[s] + 1]
        BY <2>1, <3>4
      <4>2. configs' \in [Streams -> Nat] /\ p.n = 0
        BY <2>2, <3>1, <3>4, <4>1
      <4>. QED
        BY <3>1, <3>2, <3>3, <4>1, <4>2
    <3>5. CASE pts # NoPts
      <4>1. frames' = [frames EXCEPT ![s] = frames[s] + 1] /\ configs' = configs
        BY <2>1, <3>5
      <4>2. frames[s] \in Nat /\ frames[s] < MaxFrames /\ frames[s] + 1 \in 0 .. MaxFrames
        BY <2>1, <3>1, <3>5
      <4>3. p.n # 0
        BY <2>2, <3>5, <4>2
      <4>4. \A t \in Streams : t # s => frames'[t] = frames[t]
        BY <3>1, <4>1
      <4>5. frames'[s] = frames[s] + 1
        BY <3>1, <4>1
      <4>6. frames' \in [Streams -> 0 .. MaxFrames]
        BY <3>1, <4>1, <4>2
      <4>. QED
        BY <3>1, <3>2, <3>3, <4>1, <4>3, <4>4, <4>5, <4>6
    <3>. QED
      BY <3>4, <3>5
  <2>4. TypeInv'
    BY <1>0, <2>1, <2>3 DEF TypeInv, RecorderTypeOK
  <2>5. PacketInv'
    <3>1. \A i \in 1 .. Len(queue'[s]) : queue'[s][i].n = 0 <=> Config(queue'[s][i])
      <4>1. queue[s] \in Seq(Packet)
        BY Numbered
      <4>2. ASSUME NEW i \in 1 .. Len(queue'[s])
            PROVE  queue'[s][i].n = 0 <=> Config(queue'[s][i])
        <5>1. CASE i \in 1 .. Len(queue[s])
          BY <2>3, <4>1, <5>1 DEF PacketInv
        <5>2. CASE i = Len(queue[s]) + 1
          BY <2>2, <2>3, <4>1, <5>2
        <5>. QED
          BY <2>3, <4>1, <5>1, <5>2
      <4>. QED
        BY <4>2
    <3>2. ASSUME NEW t \in Streams
          PROVE  \A i \in 1 .. Len(queue'[t]) : queue'[t][i].n = 0 <=> Config(queue'[t][i])
      <4>1. CASE t = s
        BY <3>1, <4>1
      <4>2. CASE t # s
        BY <2>3, <4>2 DEF PacketInv
      <4>. QED
        BY <4>1, <4>2
    <3>3. \A t \in Streams : held'[t] = held[t]
      BY <1>0
    <3>. QED
      BY <3>2, <3>3 DEF PacketInv, Config
  <2>6. HeldInv' /\ DisabledInv' /\ FileInv'
    BY <1>0, <2>1, <2>3 DEF HeldInv, Media, DisabledInv, FileInv
  <2>7. EndInv'
    BY <1>0, <1>2 DEF EndInv
  <2>8. ChainInv'
    <3>. SUFFICES ASSUME rec \in Running PROVE ChainInv'
      BY <1>0 DEF ChainInv
    <3>1. \A t \in Streams : Left(t)' = Left(t) /\ (Media(t)' <=> Media(t))
      BY <1>0 DEF Left, Previous, Holding, Media
    <3>2. Chained(queue'[s], Left(s), frames'[s])
      <4>1. Chained(queue[s], Left(s), frames[s]) /\ queue[s] \in Seq(Packet)
            /\ Left(s) \in Nat /\ frames[s] \in Nat /\ frames'[s] \in Nat
        BY <2>3, Numbered DEF ChainInv
      <4>2. IF p.n = 0 THEN frames'[s] = frames[s]
            ELSE p.n = frames[s] + 1 /\ frames'[s] = frames[s] + 1
        BY <2>2, <2>3
      <4>. QED
        BY <2>2, <2>3, <4>1, <4>2, ChainedPush
    <3>. QED
      BY <1>0, <2>3, <3>1, <3>2 DEF ChainInv
  <2>. QED
    BY <2>4, <2>5, <2>6, <2>7, <2>8
<1>. QED
  BY <1>1, <1>2 DEF TypeInv, RecorderTypeOK

-------------------------------------------------------------------------------
THEOREM RecorderInvariant == Spec => []RecorderInv
<1>1. Init => RecorderInv
  <2>. SUFFICES ASSUME Init PROVE RecorderInv
    OBVIOUS
  <2>1. TypeInv
    <3>1. /\ queue \in [Streams -> Seq(Packet)] /\ file \in [Streams -> Seq(Written)]
          /\ previous \in Seq(Written) /\ Len(previous) <= 1 /\ DOMAIN previous = {}
      BY DEF Init, All
    <3>2. /\ frames \in [Streams -> 0 .. MaxFrames] /\ configs \in [Streams -> Nat]
          /\ last \in [Streams -> Int]
      BY RecorderAssumption DEF RecorderAssumption, Init, All
    <3>3. demux \in [Streams -> {"start", "opened", "closing", "ended"}]
      BY DEF Init
    <3>4. held \in [Streams -> {<<>>} \cup {<<p>> : p \in Packet}]
      BY DEF Init, All
    <3>5. enabled \subseteq Streams /\ inited \subseteq Streams /\ expects \subseteq inited
      BY DEF Init
    <3>. QED
      BY <3>1, <3>2, <3>3, <3>4, <3>5 DEF Init, TypeInv, RecorderTypeOK
  <2>2. \A s \in Streams : /\ queue[s] = <<>> /\ held[s] = <<>> /\ file[s] = <<>>
                           /\ frames[s] = 0 /\ last[s] = NoPts
    BY DEF Init, All
  <2>3. PacketInv /\ HeldInv /\ DisabledInv /\ FileInv /\ EndInv
    BY <2>2 DEF Init, PacketInv, HeldInv, DisabledInv, FileInv, EndInv
  <2>4. ChainInv
    <3>1. ASSUME NEW s \in Streams PROVE ~Media(s) /\ Left(s) = 0
      <4>1. Previous(s) = 0 /\ Holding(s) = 0 /\ ~Media(s)
        BY <2>2 DEF Init, Previous, Holding, Media
      <4>2. Len(file[s]) = 0
        BY <2>2
      <4>. QED
        BY <4>1, <4>2 DEF Left
    <3>. QED
      BY <2>2, <3>1 DEF Init, ChainInv, Chained
  <2>. QED
    BY <2>1, <2>3, <2>4 DEF RecorderInv
<1>2. RecorderInv /\ [Next]_vars => RecorderInv'
  <2>. SUFFICES ASSUME RecorderInv, [Next]_vars PROVE RecorderInv'
    OBVIOUS
  <2>. USE DEF RecorderInv, sinks, local, demuxers
  <2>1. CASE TakeConfigs
    BY <2>1, TakeConfigsKeeps
  <2>2. CASE WriteHeader
    BY <2>2, WriteHeaderKeeps
  <2>3. CASE TakePackets
    BY <2>3, TakePacketsKeeps
  <2>4. CASE SetOrigin
    BY <2>4, SetOriginKeeps
  <2>5. CASE WriteVideo
    BY <2>5, WriteVideoKeeps
  <2>6. CASE WriteAudio
    BY <2>6, WriteAudioKeeps
  <2>7. CASE WriteTrailer
    BY <2>7, WriteTrailerKeeps
  <2>8. CASE OpenOutputFile
    <3>0. /\ UNCHANGED <<sinks, queue, local, stopped, success, file, lost, demuxers, main>>
          /\ ctx' \in {"none", "open", "freed"} /\ rec' \in {"header", "end"}
      BY <2>8 DEF OpenOutputFile
    <3>1. TypeInv' /\ PacketInv' /\ DisabledInv'
      <4>1. TypeInv'
        BY <3>0 DEF TypeInv, RecorderTypeOK
      <4>2. PacketInv'
        BY <3>0 DEF PacketInv, Config
      <4>3. DisabledInv'
        BY <2>8, <3>0 DEF DisabledInv
      <4>. QED
        BY <4>1, <4>2, <4>3
    <3>2. HeldInv' /\ FileInv' /\ EndInv'
      BY <2>8 DEF TypeInv, RecorderTypeOK, HeldInv, Media, FileInv, EndInv,
        ChainInv, OpenOutputFile, Running
    <3>3. ChainInv'
      BY <2>8, ChainIdle DEF ChainInv, OpenOutputFile, Running
    <3>. QED
      BY <3>1, <3>2, <3>3
  <2>9. CASE CloseOutputFile
    <3>1. TypeInv' /\ PacketInv' /\ DisabledInv'
      BY <2>9 DEF TypeInv, RecorderTypeOK, PacketInv, Config, DisabledInv, Streams,
        CloseOutputFile, All, Running
    <3>2. HeldInv' /\ FileInv' /\ EndInv'
      BY <2>9 DEF TypeInv, RecorderTypeOK, HeldInv, Media, FileInv, EndInv,
        ChainInv, CloseOutputFile, All, Running
    <3>3. ChainInv'
      BY <2>9, ChainIdle DEF ChainInv, CloseOutputFile, All, Running
    <3>. QED
      BY <3>1, <3>2, <3>3
  <2>10. CASE End
    <3>1. TypeInv' /\ PacketInv' /\ DisabledInv'
      BY <2>10 DEF TypeInv, RecorderTypeOK, PacketInv, Config, DisabledInv, Streams,
        End, All, Running
    <3>2. HeldInv' /\ FileInv' /\ EndInv'
      BY <2>10 DEF TypeInv, RecorderTypeOK, HeldInv, Media, FileInv, EndInv,
        ChainInv, End, All, Running
    <3>3. ChainInv'
      BY <2>10, ChainIdle DEF ChainInv, End, All, Running
    <3>. QED
      BY <3>1, <3>2, <3>3
  <2>11. CASE SinkDisable
    <3>1. TypeInv' /\ PacketInv' /\ DisabledInv'
      BY <2>11 DEF TypeInv, RecorderTypeOK, PacketInv, Config, DisabledInv, Streams,
        SinkDisable
    <3>2. HeldInv' /\ FileInv' /\ EndInv'
      BY <2>11 DEF TypeInv, RecorderTypeOK, HeldInv, Media, FileInv, EndInv,
        ChainInv, SinkDisable, Running
    <3>3. ChainInv'
      BY <2>11, ChainIdle DEF ChainInv, SinkDisable, Running
    <3>. QED
      BY <3>1, <3>2, <3>3
  <2>12. CASE Stop
    <3>1. TypeInv' /\ PacketInv' /\ DisabledInv'
      BY <2>12 DEF TypeInv, RecorderTypeOK, PacketInv, Config, DisabledInv, Streams,
        Stop
    <3>2. HeldInv' /\ FileInv' /\ EndInv'
      BY <2>12 DEF TypeInv, RecorderTypeOK, HeldInv, Media, FileInv, EndInv,
        ChainInv, Stop, Running
    <3>3. ChainInv'
      BY <2>12, ChainIdle DEF ChainInv, Stop, Running
    <3>. QED
      BY <3>1, <3>2, <3>3
  <2>13. CASE Join
    <3>1. TypeInv' /\ PacketInv' /\ DisabledInv'
      BY <2>13 DEF TypeInv, RecorderTypeOK, PacketInv, Config, DisabledInv, Streams,
        Join
    <3>2. HeldInv' /\ FileInv' /\ EndInv'
      BY <2>13 DEF TypeInv, RecorderTypeOK, HeldInv, Media, FileInv, EndInv,
        ChainInv, Join, Running
    <3>3. ChainInv'
      BY <2>13, ChainIdle DEF ChainInv, Join, Running
    <3>. QED
      BY <3>1, <3>2, <3>3
  <2>14. ASSUME NEW s \in Streams, SinkOpen(s) PROVE RecorderInv'
    <3>0. /\ UNCHANGED <<ctx, enabled, queue, local, stopped, success, file, lost, frames,
                         configs>>
          /\ \/ /\ demux' = [demux EXCEPT ![s] = "ended"]
                /\ UNCHANGED <<rec, inited, expects, main>>
             \/ rec' = "crashed" /\ main' = "crashed" /\ demux' = All("ended")
                /\ UNCHANGED <<inited, expects>>
             \/ /\ demux' = [demux EXCEPT ![s] = "opened"]
                /\ inited' = inited \cup {s}
                /\ expects' \in {expects, expects \cup {s}}
                /\ UNCHANGED <<rec, main>>
      BY <2>14 DEF SinkOpen
    <3>1. TypeInv' /\ PacketInv' /\ DisabledInv'
      <4>1. demux' \in [Streams -> {"start", "opened", "closing", "ended"}]
        BY <3>0 DEF TypeInv, RecorderTypeOK, All
      <4>2. inited' \subseteq Streams /\ expects' \subseteq inited'
        BY <3>0 DEF TypeInv, RecorderTypeOK
      <4>3. TypeInv'
        BY <3>0, <4>1, <4>2 DEF TypeInv, RecorderTypeOK
      <4>4. PacketInv'
        BY <3>0 DEF PacketInv, Config
      <4>5. DisabledInv'
        BY <2>14, <3>0 DEF DisabledInv, TypeInv, RecorderTypeOK, All, SinkOpen
      <4>. QED
        BY <4>3, <4>4, <4>5
    <3>2. HeldInv' /\ FileInv' /\ EndInv'
      BY <2>14 DEF TypeInv, RecorderTypeOK, HeldInv, Media, FileInv, EndInv,
        ChainInv, SinkOpen, UnsafeCtx, Running
    <3>3. ChainInv'
      BY <2>14, ChainIdle DEF ChainInv, SinkOpen, UnsafeCtx, Running
    <3>. QED
      BY <3>1, <3>2, <3>3
  <2>15. ASSUME NEW s \in Streams, SinkClose(s) PROVE RecorderInv'
    <3>1. TypeInv' /\ PacketInv' /\ DisabledInv'
      BY <2>15 DEF TypeInv, RecorderTypeOK, PacketInv, Config, DisabledInv, Streams,
        SinkClose
    <3>2. HeldInv' /\ FileInv' /\ EndInv'
      BY <2>15 DEF TypeInv, RecorderTypeOK, HeldInv, Media, FileInv, EndInv,
        ChainInv, SinkClose, Running
    <3>3. ChainInv'
      BY <2>15, ChainIdle DEF ChainInv, SinkClose, Running
    <3>. QED
      BY <3>1, <3>2, <3>3
  <2>16. ASSUME NEW s \in Streams, DemuxerFails(s) PROVE RecorderInv'
    <3>1. TypeInv' /\ PacketInv' /\ DisabledInv'
      BY <2>16 DEF TypeInv, RecorderTypeOK, PacketInv, Config, DisabledInv, Streams,
        DemuxerFails
    <3>2. HeldInv' /\ FileInv' /\ EndInv'
      BY <2>16 DEF TypeInv, RecorderTypeOK, HeldInv, Media, FileInv, EndInv,
        ChainInv, DemuxerFails, Running
    <3>3. ChainInv'
      BY <2>16, ChainIdle DEF ChainInv, DemuxerFails, Running
    <3>. QED
      BY <3>1, <3>2, <3>3
  <2>17. ASSUME NEW s \in Streams, NEW pts \in Pts \cup {NoPts}, SinkPush(s, pts)
        PROVE  RecorderInv'
    BY <2>17, SinkPushKeeps
  <2>18. CASE UNCHANGED vars
    <3>1. TypeInv' /\ PacketInv' /\ DisabledInv' /\ HeldInv' /\ FileInv' /\ EndInv'
      BY <2>18 DEF vars, TypeInv, RecorderTypeOK, PacketInv, Config, DisabledInv,
        HeldInv,
        Media, FileInv, EndInv
    <3>. QED
      BY <2>18, <3>1, ChainIdle DEF vars
  <2>. QED
    BY <2>1, <2>2, <2>3, <2>4, <2>5, <2>6, <2>7, <2>8, <2>9, <2>10, <2>11,
       <2>12, <2>13, <2>14, <2>15, <2>16, <2>17, <2>18 DEF Next,
       RecorderThread
<1>. QED
  BY <1>1, <1>2, PTL DEF Spec

(* A recording that succeeds holds every packet that its sinks accepted,   *)
(* once and in order, whenever it was stopped.                             *)
THEOREM EveryPacketRecorded == Spec => []RecordedInOrder
<1>1. RecorderInv => RecordedInOrder
  <2>. SUFFICES ASSUME RecorderInv, success
                PROVE  /\ Numbers("video") =
                            [i \in 1 .. frames["video"] - (IF lost THEN 1 ELSE 0) |-> i]
                       /\ Numbers("audio") = [i \in 1 .. frames["audio"] |-> i]
    BY DEF RecorderInv, TypeInv, RecordedInOrder
  <2>1. /\ Len(file["video"]) = frames["video"] - (IF lost THEN 1 ELSE 0)
        /\ Len(file["audio"]) = frames["audio"]
    BY DEF RecorderInv, EndInv
  <2>2. \A s \in Streams : DOMAIN file[s] = 1 .. Len(file[s])
                           /\ \A i \in 1 .. Len(file[s]) : file[s][i].n = i
    BY DEF RecorderInv, TypeInv, RecorderTypeOK, FileInv
  <2>. QED
    BY <2>1, <2>2 DEF Numbers, Streams
<1>. QED
  BY <1>1, RecorderInvariant, PTL

(* Whatever the timestamps received and the tick of the file, those that   *)
(* are written increase strictly in each stream.                           *)
THEOREM TimestampsAlwaysIncrease == Spec => []TimestampsIncrease
<1>1. RecorderInv => TimestampsIncrease
  BY DEF RecorderInv, FileInv, TimestampsIncrease
<1>. QED
  BY <1>1, RecorderInvariant, PTL
===============================================================================
