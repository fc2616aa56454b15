---------------------------- MODULE PipelineProofs ----------------------------
(***************************************************************************)
(* Proofs about VideoPipeline, for any sets of features and any numbers of *)
(* frames and sessions: a frame is rendered with the flag of its session,  *)
(* the last frame received reaches the screen and the V4L2 device, and a   *)
(* sink is called only while it is open.                                   *)
(***************************************************************************)
EXTENDS VideoPipeline, SequenceTheorems, TLAPS

Sink == Regulators \cup Buffers
Screens == {"screen", "screen_vr"}
Plays == "playback" \in opt
Delayed == "video_buffer" \in opt

-------------------------------------------------------------------------------
(* The inductive invariant.                                                *)

Data == [frame : Nat, session : Nat]
EventNames == {"open", "frame", "disconnected", "error", "icon", "timeout"}

Types ==
  /\ opt \in Options
  /\ at \in [Sources -> {"start", "open", "recv", "off", "wait", "timed", "deliver",
                         "post", "close", "exited"}]
  /\ item \in [Sources -> Data] /\ todo = [t \in Sources |-> todo[t]]
  /\ opened \in Nat /\ session \in Nat /\ received \in Nat
  /\ queue \in [Regulators -> Seq(Data)] /\ range \in [Regulators -> 0 .. 1]
  /\ pending \in [Buffers -> Data] /\ current \in Nat /\ prevent \in Nat
  /\ main = "loop" => events \in Seq(EventNames)

(* The screen is the first of the sinks, if it is one of them.             *)
NoScreen(s) == \A i \in DOMAIN s : s[i] \notin Screens
ScreenFirst(s) == \A i \in DOMAIN s : i > 1 => s[i] \notin Screens

(* The demuxer calls the screen itself for the first frame only, if the    *)
(* screen is behind a regulator.                                           *)
DemuxerInv ==
  /\ at["demuxer"] \notin {"off", "wait", "timed"}
  /\ at["demuxer"] = "start" => opened = 0
  /\ at["demuxer"] \in {"deliver", "post"} =>
       /\ todo["demuxer"] \in Seq(Sink) /\ todo["demuxer"] # <<>>
       /\ ScreenFirst(todo["demuxer"])
       /\ Head(todo["demuxer"]) \in Screens => Plays
       /\ Head(todo["demuxer"]) = "screen_vr" => Delayed
       /\ Head(todo["demuxer"]) = "screen" /\ Delayed =>
            IsFrame(item["demuxer"]) /\ received = 1
       /\ item["demuxer"].session = session
       /\ IsFrame(item["demuxer"]) => item["demuxer"].frame = received
  /\ at["demuxer"] = "post" =>
       Head(todo["demuxer"]) = "screen" /\ IsFrame(item["demuxer"])

Active(t) == at[t] \in {"timed", "deliver", "post"}
RegulatorInv ==
  /\ \A r \in Regulators :
       /\ at[r] \notin {"start", "open", "recv", "close"}
       /\ at[r] = "off" /\ at["demuxer"] \in {"start", "open"} => queue[r] = <<>>
       /\ Active(r) => todo[r] = Sinks(r)
       /\ at[r] \in {"timed", "post"} => IsFrame(item[r])
  /\ at["v4l2_vr"] # "post"
  /\ at["screen_vr"] # "off" => Plays /\ Delayed /\ opened > 0

Below(q, n) == \A i \in DOMAIN q : q[i].frame <= n

(* No frame comes from the future; the first is the one not delayed.       *)
NumberInv ==
  /\ \A t \in Sources : item[t].frame <= received
  /\ \A r \in Regulators : Below(queue[r], received)
  /\ pending["screen"].frame <= received
  /\ pending["screen"] # None => IsFrame(pending["screen"])
  /\ Plays /\ Delayed /\ range["screen_vr"] = 0
       /\ at["demuxer"] \in {"start", "open", "recv", "deliver", "post"} =>
     \/ received = 0
     \/ /\ received = 1 /\ at["demuxer"] = "deliver" /\ IsFrame(item["demuxer"])
        /\ Head(todo["demuxer"]) = "screen_vr"

(* Without a regulator, the screen has the session of the demuxer.         *)
DirectInv ==
  Plays /\ ~Delayed =>
    /\ at["demuxer"] \in {"recv", "post"} => current = session
    /\ at["demuxer"] = "open" /\ opened > 0 => current = session
    /\ at["demuxer"] = "deliver"
         /\ (IsFrame(item["demuxer"]) \/ Head(todo["demuxer"]) # "screen") =>
       current = session

(* In a queue that follows the session b, a frame follows its session.     *)
Chain(b, q) ==
  \A i \in DOMAIN q :
    IsFrame(q[i]) => q[i].session = IF i = 1 THEN b ELSE q[i - 1].session
EndOf(b, q) == IF q = <<>> THEN b ELSE q[Len(q)].session

(* With a regulator, the sessions go from the demuxer to the screen        *)
(* through its queue.                                                      *)
Base ==
  IF at["screen_vr"] = "deliver" /\ ~IsFrame(item["screen_vr"])
    THEN item["screen_vr"].session ELSE current
Settled ==
  /\ at["demuxer"] \in {"open", "recv", "deliver", "post"}
  /\ ~(at["demuxer"] = "deliver" /\ Head(todo["demuxer"]) = "screen_vr"
         /\ ~IsFrame(item["demuxer"]))
QueueInv ==
  at["screen_vr"] \notin {"off", "exited"} =>
    /\ Active("screen_vr") /\ IsFrame(item["screen_vr"]) =>
         item["screen_vr"].session = current
    /\ Chain(Base, queue["screen_vr"])
    /\ Settled => EndOf(Base, queue["screen_vr"]) = session

(* At most one event, or a thread about to post it, for a frame pending.   *)
Frames(s) == {i \in DOMAIN s : s[i] = "frame"}
NotifyInv ==
  main = "loop" =>
    /\ \A i, j \in Frames(events) : i = j
    /\ Frames(events) # {} =>
         pending["screen"] # None /\ \A t \in Sources : at[t] # "post"
    /\ \A t \in Sources : at[t] = "post" =>
         pending["screen"] # None /\ \A u \in Sources : at[u] = "post" => u = t

FlagInv ==
  at[ScreenCaller] \notin {"close", "exited"} =>
    /\ pending["screen"] # None =>
         prevent = pending["screen"].session \/ (pending["screen"].frame = 1 /\ Delayed)
    /\ shown.flag # 0 =>
         shown.flag = shown.session \/ (shown.frame = 1 /\ Delayed)

PipelineInv ==
  /\ Types /\ DemuxerInv /\ RegulatorInv /\ NumberInv
  /\ DirectInv /\ QueueInv /\ NotifyInv /\ FlagInv

-------------------------------------------------------------------------------
(* The sinks to call.                                                      *)

(* The elements of a tail.                                                 *)
LEMMA TailFacts ==
  ASSUME NEW s \in Seq(Sink), s # <<>>
  PROVE  /\ Tail(s) \in Seq(Sink)
         /\ Head(s) = s[1] /\ Head(s) \in Sink
         /\ \A i \in DOMAIN Tail(s) : i + 1 \in DOMAIN s /\ Tail(s)[i] = s[i + 1] /\ i \in Nat \ {0}
<1>1. Len(s) \in Nat \ {0} /\ DOMAIN s = 1 .. Len(s)
  BY EmptySeq, LenProperties
<1>2. /\ Head(s) \in Sink /\ Tail(s) \in Seq(Sink) /\ Len(Tail(s)) = Len(s) - 1
      /\ \A i \in 1 .. Len(Tail(s)) : Tail(s)[i] = s[i + 1]
  BY HeadTailProperties
<1>3. DOMAIN Tail(s) = 1 .. Len(s) - 1
  BY <1>1, <1>2, LenProperties
<1>4. Head(s) = s[1]
  OBVIOUS
<1> QED BY <1>1, <1>2, <1>3, <1>4

(* Behind the first sink there is no screen.                               *)
LEMMA TailHasNoScreen ==
  ASSUME NEW s \in Seq(Sink), s # <<>>, ScreenFirst(s)
  PROVE  Tail(s) \in Seq(Sink) /\ NoScreen(Tail(s))
<1>1. \A i \in DOMAIN Tail(s) : i + 1 \in DOMAIN s /\ Tail(s)[i] = s[i + 1] /\ i + 1 > 1
  BY TailFacts
<1> QED BY <1>1, TailFacts DEF NoScreen, ScreenFirst

(* A sequence without screen.                                              *)
LEMMA WithoutScreen ==
  ASSUME NEW s \in Seq(Sink), NoScreen(s)
  PROVE  ScreenFirst(s) /\ (s # <<>> => Head(s) \notin Screens)
<1>1. ScreenFirst(s)
  BY DEF NoScreen, ScreenFirst
<1>2. ASSUME s # <<>> PROVE Head(s) \notin Screens
  <2>1. Len(s) \in Nat \ {0} /\ DOMAIN s = 1 .. Len(s)
    BY <1>2, EmptySeq, LenProperties
  <2>2. Head(s) = s[1] /\ 1 \in DOMAIN s
    BY <2>1, <1>2, TailFacts
  <2> QED BY <2>2 DEF NoScreen
<1> QED BY <1>1, <1>2

(* Whatever comes first, the screen is not behind it.                      *)
LEMMA ScreenThen ==
  ASSUME NEW s \in Seq(Sink), NoScreen(s), NEW x \in Sink
  PROVE  /\ <<x>> \o s \in Seq(Sink) /\ <<x>> \o s # <<>>
         /\ Head(<<x>> \o s) = x /\ ScreenFirst(<<x>> \o s)
<1> DEFINE y == <<x>> \o s
<1>1. <<x>> \in Seq(Sink) /\ Len(<<x>>) = 1 /\ <<x>>[1] = x
  OBVIOUS
<1>2. /\ y \in Seq(Sink) /\ Len(y) = Len(<<x>>) + Len(s)
      /\ \A i \in 1 .. Len(<<x>>) + Len(s) :
            y[i] = IF i <= Len(<<x>>) THEN <<x>>[i] ELSE s[i - Len(<<x>>)]
  BY <1>1, ConcatProperties
<1>3. Len(s) \in Nat /\ DOMAIN s = 1 .. Len(s)
  BY LenProperties
<1>4. DOMAIN y = 1 .. Len(s) + 1 /\ Len(y) = Len(s) + 1 /\ y[1] = x
      /\ \A i \in DOMAIN y : i > 1 => y[i] = s[i - 1] /\ i - 1 \in DOMAIN s
  BY <1>1, <1>2, <1>3, LenProperties
<1> HIDE DEF y
<1>5. y # <<>>
  BY <1>2, <1>3, <1>4, EmptySeq
<1>6. Head(y) = x
  BY <1>2, <1>4, <1>5, TailFacts
<1>7. ScreenFirst(y)
  BY <1>4 DEF ScreenFirst, NoScreen
<1> QED BY <1>2, <1>5, <1>6, <1>7 DEF y

(* Two singletons make a pair.                                             *)
LEMMA Pair == ASSUME NEW a, NEW b PROVE <<a>> \o <<b>> = <<a, b>>
<1>1. <<a>> \in Seq({a, b}) /\ <<b>> \in Seq({a, b}) /\ <<a, b>> \in Seq({a, b})
  OBVIOUS
<1>2. /\ <<a>> \o <<b>> \in Seq({a, b}) /\ Len(<<a>> \o <<b>>) = 2
      /\ (<<a>> \o <<b>>)[1] = a /\ (<<a>> \o <<b>>)[2] = b
  BY <1>1, ConcatProperties
<1>3. Len(<<a, b>>) = 2 /\ <<a, b>>[1] = a /\ <<a, b>>[2] = b
  OBVIOUS
<1> DEFINE p == <<a>> \o <<b>>   r == <<a, b>>
<1>4. p \in Seq({a, b}) /\ r \in Seq({a, b}) /\ Len(p) = 2 /\ Len(r) = 2
      /\ p[1] = r[1] /\ p[2] = r[2]
  BY <1>1, <1>2, <1>3
<1> HIDE DEF p, r
<1>5. \A i \in 1 .. Len(p) : p[i] = r[i]
  BY <1>4
<1>6. p = r
  BY <1>4, <1>5, SeqEqual
<1> QED BY <1>6 DEF p, r

(* What the branches are. *)
LEMMA BranchesShape ==
  ASSUME opt \in Options
  PROVE  /\ Len(Branches) \in 1 .. 2
         /\ \A i \in 1 .. Len(Branches) :
              /\ Branches[i][1] \in Sink /\ "demuxer" \notin ToSet(Branches[i])
              /\ Plays /\ i = 1 =>
                   /\ ToSet(Branches[i]) \cap Sources = IF Delayed THEN {"screen_vr"} ELSE {}
                   /\ "screen" \in ToSet(Branches[i])
                   /\ Branches[i][1] = IF Delayed THEN "screen_vr" ELSE "screen"
              /\ ~(Plays /\ i = 1) =>
                   /\ ToSet(Branches[i]) \cap Screens = {} /\ Branches[i][1] \notin Screens
<1>1. opt \cap {"playback", "v4l2"} # {}
  BY PipelineAssumption DEF PipelineAssumption
<1>2. /\ ToSet(ScreenBranch) \cap Sources = IF Delayed THEN {"screen_vr"} ELSE {}
      /\ "screen" \in ToSet(ScreenBranch) /\ "demuxer" \notin ToSet(ScreenBranch)
      /\ ScreenBranch[1] = IF Delayed THEN "screen_vr" ELSE "screen"
  BY DEF ScreenBranch, ToSet, Delayed, Sources, Regulators
<1>3. ToSet(V4l2Branch) \cap Screens = {} /\ "demuxer" \notin ToSet(V4l2Branch)
      /\ V4l2Branch[1] \in {"v4l2", "v4l2_vr"}
  BY DEF V4l2Branch, ToSet, Screens
<1>4. CASE Plays /\ "v4l2" \in opt
  <2>1. Branches = <<ScreenBranch>> \o <<V4l2Branch>>
    BY <1>4 DEF Branches, Plays
  <2>2. Branches = <<ScreenBranch, V4l2Branch>>
    BY <2>1, Pair
  <2> QED BY <2>2, <1>2, <1>3, <1>4 DEF Sink, Screens, Regulators, Buffers
<1>5. CASE Plays /\ "v4l2" \notin opt
  <2>1. Branches = <<ScreenBranch>>
    BY <1>5 DEF Branches, Plays
  <2> QED BY <2>1, <1>2, <1>5 DEF Sink, Regulators, Buffers
<1>6. CASE ~Plays
  <2>1. Branches = <<V4l2Branch>>
    BY <1>1, <1>6 DEF Branches, Plays
  <2> QED BY <2>1, <1>3, <1>6 DEF Sink, Screens, Regulators, Buffers
<1> QED BY <1>4, <1>5, <1>6

(* What the demuxer calls: the screen first.                               *)
LEMMA SinksShape ==
  ASSUME opt \in Options
  PROVE  /\ Sinks("demuxer") \in Seq(Sink) /\ Sinks("demuxer") # <<>>
         /\ ScreenFirst(Sinks("demuxer"))
         /\ Plays => Head(Sinks("demuxer")) = IF Delayed THEN "screen_vr" ELSE "screen"
         /\ ~Plays => Head(Sinks("demuxer")) \notin Screens
         /\ Sinks("screen_vr") = <<"screen">> /\ Sinks("v4l2_vr") = <<"v4l2">>
<1> DEFINE s == Sinks("demuxer")
<1>1. s = [i \in DOMAIN Branches |-> Branches[i][1]]
  BY DEF Sinks
<1>2. PICK n \in 1 .. 2 : n = Len(Branches)
  BY BranchesShape
<1>3. DOMAIN Branches = 1 .. n
  BY <1>2 DEF Branches
<1>4. s = [i \in 1 .. n |-> Branches[i][1]]
  BY <1>1, <1>3
<1>5. \A i \in 1 .. n : /\ Branches[i][1] \in Sink
                        /\ Plays /\ i = 1 => Branches[i][1] = IF Delayed THEN "screen_vr" ELSE "screen"
                        /\ ~(Plays /\ i = 1) => Branches[i][1] \notin Screens
  BY <1>2, BranchesShape
<1> HIDE DEF s
<1>6. s \in [1 .. n -> Sink]
  BY <1>4, <1>5
<1>7. s \in Seq(Sink) /\ DOMAIN s = 1 .. n /\ Len(s) = n
  BY <1>6, SeqDef
<1>8. s # <<>>
  BY <1>7
<1>9. Head(s) = Branches[1][1]
  BY <1>4, <1>7, <1>8, TailFacts
<1>10. ScreenFirst(s)
  BY <1>4, <1>5, <1>7 DEF ScreenFirst
<1>11. Sinks("screen_vr") = <<"screen">> /\ Sinks("v4l2_vr") = <<"v4l2">>
  BY DEF Sinks
<1> QED BY <1>5, <1>7, <1>8, <1>9, <1>10, <1>11 DEF s

-------------------------------------------------------------------------------
(* The queue of a regulator.                                               *)

(* An empty queue.                                                         *)
LEMMA ChainEmpty == \A b : Chain(b, <<>>) /\ EndOf(b, <<>>) = b
BY DEF Chain, EndOf

(* Taking the head of a queue moves its base.                              *)
LEMMA ChainHead ==
  ASSUME NEW q \in Seq(Data), q # <<>>, NEW b, Chain(b, q)
  PROVE  /\ Head(q) \in Data /\ Tail(q) \in Seq(Data)
         /\ IsFrame(Head(q)) => Head(q).session = b
         /\ Chain(Head(q).session, Tail(q))
         /\ EndOf(Head(q).session, Tail(q)) = EndOf(b, q)
<1>1. Len(q) \in Nat \ {0} /\ DOMAIN q = 1 .. Len(q)
  BY EmptySeq, LenProperties
<1>2. /\ Head(q) \in Data /\ Tail(q) \in Seq(Data) /\ Len(Tail(q)) = Len(q) - 1
      /\ \A i \in 1 .. Len(Tail(q)) : Tail(q)[i] = q[i + 1]
  BY HeadTailProperties
<1>3. Head(q) = q[1]
  OBVIOUS
<1>4. DOMAIN Tail(q) = 1 .. Len(q) - 1
  BY <1>1, <1>2, LenProperties
<1>5. IsFrame(Head(q)) => Head(q).session = b
  BY <1>1, <1>3 DEF Chain
<1>6. Chain(Head(q).session, Tail(q))
  <2> SUFFICES ASSUME NEW i \in 1 .. Len(q) - 1, IsFrame(q[i + 1])
               PROVE  q[i + 1].session = IF i = 1 THEN q[1].session ELSE Tail(q)[i - 1].session
    BY <1>2, <1>3, <1>4 DEF Chain
  <2>1. q[i + 1].session = q[i].session
    <3>1. i + 1 \in DOMAIN q /\ i + 1 # 1 /\ (i + 1) - 1 = i
      BY <1>1
    <3> QED BY <3>1 DEF Chain
  <2>2. i # 1 => Tail(q)[i - 1] = q[i]
    <3>1. i # 1 => i - 1 \in 1 .. Len(Tail(q)) /\ (i - 1) + 1 = i
      BY <1>1, <1>2
    <3> QED BY <3>1, <1>2
  <2> QED BY <2>1, <2>2
<1>7. EndOf(Head(q).session, Tail(q)) = EndOf(b, q)
  <2> DEFINE t == Tail(q)
  <2>1. /\ t \in Seq(Data) /\ Len(t) \in Nat /\ Len(t) + 1 = Len(q)
        /\ \A i \in 1 .. Len(t) : t[i] = q[i + 1]
    BY <1>1, <1>2
  <2> HIDE DEF t
  <2>2. EndOf(Head(q).session, t) = q[Len(q)].session
    <3>1. CASE t = <<>>
      <4>1. Len(q) = 1
        BY <2>1, <3>1
      <4> QED BY <3>1, <4>1, <1>3 DEF EndOf
    <3>2. CASE t # <<>>
      <4>1. Len(t) \in Nat \ {0}
        BY <2>1, <3>2, EmptySeq
      <4>2. t[Len(t)] = q[Len(q)]
        BY <2>1, <4>1
      <4> QED BY <3>2, <4>2 DEF EndOf
    <3> QED BY <3>1, <3>2
  <2> QED BY <2>2 DEF t, EndOf
<1> QED BY <1>2, <1>5, <1>6, <1>7

(* Appending to a queue moves its end.                                     *)
LEMMA ChainAppend ==
  ASSUME NEW q \in Seq(Data), NEW b, Chain(b, q), NEW x \in Data,
         IsFrame(x) => x.session = EndOf(b, q)
  PROVE  /\ Append(q, x) \in Seq(Data) /\ Append(q, x) # <<>>
         /\ Chain(b, Append(q, x)) /\ EndOf(b, Append(q, x)) = x.session
<1> DEFINE y == Append(q, x)
<1>1. Len(q) \in Nat /\ DOMAIN q = 1 .. Len(q)
  BY LenProperties
<1>2. /\ y \in Seq(Data) /\ Len(y) = Len(q) + 1 /\ y[Len(q) + 1] = x
      /\ \A i \in 1 .. Len(q) : y[i] = q[i]
  BY AppendProperties
<1>3. DOMAIN y = 1 .. Len(q) + 1 /\ y # <<>>
  BY <1>1, <1>2, LenProperties, EmptySeq
<1> HIDE DEF y
<1>4. EndOf(b, y) = x.session
  BY <1>2, <1>3 DEF EndOf
<1>5. Chain(b, y)
  <2> SUFFICES ASSUME NEW i \in 1 .. Len(q) + 1, IsFrame(y[i])
               PROVE  y[i].session = IF i = 1 THEN b ELSE y[i - 1].session
    BY <1>3 DEF Chain
  <2>1. CASE i \in 1 .. Len(q)
    <3>1. y[i] = q[i] /\ (i # 1 => i - 1 \in 1 .. Len(q) /\ y[i - 1] = q[i - 1])
      BY <1>1, <1>2, <2>1
    <3> QED BY <3>1, <2>1, <1>1 DEF Chain
  <2>2. CASE i = Len(q) + 1 /\ Len(q) = 0
    <3>1. q = <<>>
      BY <2>2, EmptySeq
    <3> QED BY <3>1, <2>2, <1>2 DEF EndOf
  <2>3. CASE i = Len(q) + 1 /\ Len(q) # 0
    <3>1. q # <<>> /\ i # 1 /\ y[i - 1] = q[Len(q)] /\ y[i] = x
      BY <2>3, <1>1, <1>2, EmptySeq
    <3> QED BY <3>1 DEF EndOf
  <2> QED BY <2>1, <2>2, <2>3, <1>1
<1> QED BY <1>2, <1>3, <1>4, <1>5 DEF y

(* The frame numbers of a queue under Append and Tail.                     *)
LEMMA BelowFacts ==
  ASSUME NEW q \in Seq(Data), NEW n \in Nat, Below(q, n)
  PROVE  /\ Below(q, n + 1)
         /\ q # <<>> => Head(q).frame <= n /\ Below(Tail(q), n)
         /\ \A x \in Data : x.frame <= n => Below(Append(q, x), n)
<1>1. Len(q) \in Nat /\ DOMAIN q = 1 .. Len(q) /\ \A i \in DOMAIN q : q[i] \in Data
  BY LenProperties, ElementOfSeq
<1>2. Below(q, n + 1)
  BY <1>1 DEF Below, Data
<1>3. ASSUME q # <<>> PROVE Head(q).frame <= n /\ Below(Tail(q), n)
  <2>1. /\ Tail(q) \in Seq(Data) /\ Len(Tail(q)) = Len(q) - 1
        /\ \A i \in 1 .. Len(Tail(q)) : Tail(q)[i] = q[i + 1]
    BY <1>3, HeadTailProperties
  <2>2. Len(q) # 0 /\ Head(q) = q[1] /\ DOMAIN Tail(q) = 1 .. Len(q) - 1
    BY <2>1, <1>1, <1>3, EmptySeq, LenProperties
  <2> QED BY <2>1, <2>2, <1>1 DEF Below
<1>4. ASSUME NEW x \in Data, x.frame <= n PROVE Below(Append(q, x), n)
  <2>1. /\ Append(q, x) \in Seq(Data) /\ Len(Append(q, x)) = Len(q) + 1
        /\ Append(q, x)[Len(q) + 1] = x
        /\ \A i \in 1 .. Len(q) : Append(q, x)[i] = q[i]
    BY AppendProperties
  <2>2. DOMAIN Append(q, x) = 1 .. Len(q) + 1
    BY <2>1, LenProperties
  <2> QED BY <2>1, <2>2, <1>1, <1>4 DEF Below
<1> QED BY <1>2, <1>3, <1>4

-------------------------------------------------------------------------------
(* The events.                                                             *)

(* The events "frame" under Append.                                        *)
LEMMA FramesAppend ==
  ASSUME NEW s \in Seq(EventNames), NEW e \in EventNames
  PROVE  /\ Append(s, e) \in Seq(EventNames)
         /\ e # "frame" => Frames(Append(s, e)) = Frames(s)
         /\ Frames(s) = {} => \A i, j \in Frames(Append(s, e)) : i = j
<1> DEFINE y == Append(s, e)
<1>1. Len(s) \in Nat /\ DOMAIN s = 1 .. Len(s)
  BY LenProperties
<1>2. /\ y \in Seq(EventNames) /\ Len(y) = Len(s) + 1 /\ y[Len(s) + 1] = e
      /\ \A i \in 1 .. Len(s) : y[i] = s[i]
  BY AppendProperties
<1>3. DOMAIN y = 1 .. Len(s) + 1
  BY <1>1, <1>2, LenProperties
<1> HIDE DEF y
<1>4. ASSUME e # "frame" PROVE Frames(y) = Frames(s)
  <2>1. \A i \in 1 .. Len(s) + 1 : i \in 1 .. Len(s) \/ i = Len(s) + 1
    BY <1>1
  <2>2. \A i : i \in Frames(y) <=> i \in 1 .. Len(s) + 1 /\ y[i] = "frame"
    BY <1>3 DEF Frames
  <2>3. \A i : i \in Frames(s) <=> i \in 1 .. Len(s) /\ s[i] = "frame"
    BY <1>1 DEF Frames
  <2>4. \A i \in 1 .. Len(s) : i \in 1 .. Len(s) + 1
    BY <1>1
  <2>5. \A i : i \in Frames(y) <=> i \in Frames(s)
    BY <1>4, <2>1, <2>2, <2>3, <2>4, <1>2
  <2> QED BY <2>5
<1>5. ASSUME Frames(s) = {} PROVE \A i, j \in Frames(y) : i = j
  <2>1. \A i \in Frames(y) : i \in 1 .. Len(s) + 1 /\ y[i] = "frame" /\ i \notin 1 .. Len(s)
    BY <1>1, <1>2, <1>3, <1>5 DEF Frames
  <2>2. \A i \in Frames(y) : i = Len(s) + 1
    BY <2>1, <1>1
  <2> QED BY <2>2
<1> QED BY <1>2, <1>4, <1>5 DEF y

(* The events "frame" under Tail, if there is at most one.                 *)
LEMMA FramesTail ==
  ASSUME NEW s \in Seq(EventNames), s # <<>>, \A i, j \in Frames(s) : i = j
  PROVE  /\ Tail(s) \in Seq(EventNames)
         /\ \A i, j \in Frames(Tail(s)) : i = j
         /\ Frames(Tail(s)) # {} => Frames(s) # {}
         /\ Head(s) = "frame" => Frames(s) # {} /\ Frames(Tail(s)) = {}
<1>1. Len(s) \in Nat \ {0} /\ DOMAIN s = 1 .. Len(s)
  BY EmptySeq, LenProperties
<1>2. /\ Tail(s) \in Seq(EventNames) /\ Len(Tail(s)) = Len(s) - 1
      /\ \A i \in 1 .. Len(Tail(s)) : Tail(s)[i] = s[i + 1]
  BY HeadTailProperties
<1>3. DOMAIN Tail(s) = 1 .. Len(s) - 1 /\ Head(s) = s[1]
  BY <1>1, <1>2, LenProperties
<1>4. \A i \in Frames(Tail(s)) : i \in Nat \ {0} /\ i + 1 \in Frames(s)
  <2> TAKE i \in Frames(Tail(s))
  <2>1. i \in 1 .. Len(s) - 1 /\ Tail(s)[i] = "frame"
    BY <1>3 DEF Frames
  <2>2. i \in Nat \ {0} /\ i + 1 \in 1 .. Len(s) /\ s[i + 1] = "frame"
    BY <2>1, <1>1, <1>2
  <2> QED BY <2>2, <1>1 DEF Frames
<1>5. \A i, j \in Frames(Tail(s)) : i = j
  <2> TAKE i, j \in Frames(Tail(s))
  <2>1. i + 1 = j + 1 /\ i \in Nat /\ j \in Nat
    BY <1>4
  <2> QED BY <2>1
<1>6. ASSUME Head(s) = "frame" PROVE Frames(s) # {} /\ Frames(Tail(s)) = {}
  <2>1. 1 \in Frames(s)
    BY <1>1, <1>3, <1>6 DEF Frames
  <2>2. \A i \in Frames(Tail(s)) : i + 1 = 1 /\ i \in Nat \ {0}
    BY <2>1, <1>4
  <2>3. \A i \in Nat \ {0} : i + 1 # 1
    OBVIOUS
  <2> QED BY <2>1, <2>2, <2>3
<1> QED BY <1>2, <1>4, <1>5, <1>6

(* A regulator has one sink.                                               *)
LEMMA RegulatorSinks ==
  /\ \A r \in Regulators : Sinks(r) # <<>> /\ Tail(Sinks(r)) = <<>>
  /\ Sinks("screen_vr") = <<"screen">> /\ Head(Sinks("screen_vr")) = "screen"
  /\ Sinks("v4l2_vr") = <<"v4l2">> /\ Head(Sinks("v4l2_vr")) = "v4l2"
BY DEF Sinks, Regulators

(* The names of the threads.                                               *)
LEMMA SourcesFacts ==
  /\ "demuxer" \in Sources /\ "screen_vr" \in Sources /\ "v4l2_vr" \in Sources
  /\ "screen_vr" \in Regulators /\ "v4l2_vr" \in Regulators
  /\ \A r \in Regulators : r \in Sources /\ r # "demuxer" /\ r \in {"screen_vr", "v4l2_vr"}
  /\ \A t \in Sources : t = "demuxer" \/ t \in Regulators
BY DEF Sources, Regulators

-------------------------------------------------------------------------------
(* What a thread does once it has called a sink.                           *)

(* The other threads are not concerned.                                    *)
Others(t) ==
  \A u \in Sources : u # t => at'[u] = at[u] /\ item'[u] = item[u] /\ todo'[u] = todo[u]
CallTypes ==
  /\ at' \in [Sources -> {"start", "open", "recv", "off", "wait", "timed", "deliver",
                          "post", "close", "exited"}]
  /\ item' \in [Sources -> Data] /\ todo' = [t \in Sources |-> todo'[t]]

(* Nothing is not a frame.                                                 *)
LEMMA NoneData == None \in Data /\ ~IsFrame(None) /\ None.frame = 0
BY DEF None, Data, IsFrame

(* Call: what it does to the thread, and not to the others.                *)
LEMMA CallFacts ==
  ASSUME Types, NEW t \in Sources, NEW x \in Data, NEW s, Call(t, x, s)
  PROVE  /\ CallTypes /\ Others(t)
         /\ s = <<>> => at'[t] = Idle(t) /\ item'[t] = None /\ todo'[t] = s
         /\ s # <<>> => at'[t] = "deliver" /\ item'[t] = x /\ todo'[t] = s
<1>1. at \in [Sources -> {"start", "open", "recv", "off", "wait", "timed", "deliver",
                          "post", "close", "exited"}]
      /\ item \in [Sources -> Data] /\ todo = [u \in Sources |-> todo[u]]
  BY DEF Types
<1>2. Idle(t) \in {"recv", "wait"}
  BY DEF Idle
<1>3. CallTypes
  BY <1>1, <1>2, NoneData DEF Call, CallTypes
<1>4. Others(t)
  BY <1>1 DEF Call, Others
<1>5. s = <<>> => at'[t] = Idle(t) /\ item'[t] = None /\ todo'[t] = s
  BY <1>1 DEF Call
<1>6. s # <<>> => at'[t] = "deliver" /\ item'[t] = x /\ todo'[t] = s
  BY <1>1 DEF Call
<1> QED BY <1>3, <1>4, <1>5, <1>6

(* The regulator goes back to its queue.                                   *)
LEMMA RegulatorDelivered ==
  ASSUME Types, RegulatorInv, NEW r \in Regulators, Active(r), Delivered(r)
  PROVE  CallTypes /\ Others(r) /\ at'[r] = "wait" /\ item'[r] = None
<1>1. r \in Sources /\ item[r] \in Data /\ Tail(todo[r]) = <<>> /\ Idle(r) = "wait"
  BY SourcesFacts, RegulatorSinks DEF Types, RegulatorInv, Idle
<1> QED BY <1>1, CallFacts DEF Delivered

(* The screen is behind the demuxer.                                       *)
Past ==
  /\ at'["demuxer"] \in {"recv", "deliver"}
  /\ at'["demuxer"] = "recv" => item'["demuxer"] = None
  /\ at'["demuxer"] = "deliver" =>
       /\ item'["demuxer"] = item["demuxer"]
       /\ todo'["demuxer"] \in Seq(Sink) /\ todo'["demuxer"] # <<>>
       /\ NoScreen(todo'["demuxer"]) /\ Head(todo'["demuxer"]) \notin Screens

(* The demuxer is past the screen after any call.                          *)
LEMMA DemuxerDelivered ==
  ASSUME Types, DemuxerInv, at["demuxer"] \in {"deliver", "post"}, Delivered("demuxer")
  PROVE  CallTypes /\ Others("demuxer") /\ Past
<1>1. /\ todo["demuxer"] \in Seq(Sink) /\ todo["demuxer"] # <<>>
      /\ ScreenFirst(todo["demuxer"]) /\ item["demuxer"] \in Data
  BY SourcesFacts DEF Types, DemuxerInv
<1>2. Tail(todo["demuxer"]) \in Seq(Sink) /\ NoScreen(Tail(todo["demuxer"]))
  BY <1>1, TailHasNoScreen
<1>3. Tail(todo["demuxer"]) # <<>> => Head(Tail(todo["demuxer"])) \notin Screens
  BY <1>2, WithoutScreen
<1>4. Call("demuxer", item["demuxer"], Tail(todo["demuxer"]))
  BY DEF Delivered
<1>5. Idle("demuxer") = "recv" /\ "demuxer" \in Sources
  BY SourcesFacts DEF Idle
<1> QED BY <1>1, <1>2, <1>3, <1>4, <1>5, CallFacts DEF Past

(* What remains to be called is as before.                                 *)
LEMMA PastKeeps ==
  ASSUME DemuxerInv, at["demuxer"] \in {"deliver", "post"}, Past,
         opt' = opt, session' = session, received' = received
  PROVE  DemuxerInv'
<1>1. CASE at'["demuxer"] = "recv"
  BY <1>1 DEF DemuxerInv
<1>2. CASE at'["demuxer"] = "deliver"
  <2>1. /\ todo'["demuxer"] \in Seq(Sink) /\ todo'["demuxer"] # <<>>
        /\ NoScreen(todo'["demuxer"]) /\ Head(todo'["demuxer"]) \notin Screens
        /\ item'["demuxer"] = item["demuxer"]
    BY <1>2 DEF Past
  <2>2. ScreenFirst(todo'["demuxer"])
    BY <2>1, WithoutScreen
  <2>3. item["demuxer"].session = session
        /\ (IsFrame(item["demuxer"]) => item["demuxer"].frame = received)
    BY DEF DemuxerInv
  <2> QED BY <1>2, <2>1, <2>2, <2>3 DEF DemuxerInv, Screens, ScreenFirst, IsFrame
<1> QED BY <1>1, <1>2 DEF Past

-------------------------------------------------------------------------------
(* The actions of the demuxer.                                             *)

(* What an action changes, by the parts of the invariant.                  *)
EventsKept ==
  events' = events \/ \E e \in EventNames \ {"frame"} : events' = Append(events, e)

(* No event "frame" comes or goes.                                         *)
LEMMA EventsKeep ==
  ASSUME main = "loop" => events \in Seq(EventNames), EventsKept
  PROVE  main = "loop" => events' \in Seq(EventNames) /\ Frames(events') = Frames(events)
<1> SUFFICES ASSUME events \in Seq(EventNames)
             PROVE  events' \in Seq(EventNames) /\ Frames(events') = Frames(events)
  OBVIOUS
<1> QED BY FramesAppend DEF EventsKept

(* The notification is not disturbed.                                      *)
LEMMA NotifyKept ==
  ASSUME NotifyInv, main = "loop" => events \in Seq(EventNames), EventsKept,
         pending'["screen"] = pending["screen"], main' = "loop" => main = "loop",
         \A t \in Sources : at'[t] = "post" => at[t] = "post"
  PROVE  NotifyInv'
<1>1. main = "loop" => Frames(events') = Frames(events)
  BY EventsKeep
<1> QED BY <1>1 DEF NotifyInv

(* The demuxer enters the end of its stream.                               *)
LEMMA EndKeeps ==
  ASSUME PipelineInv, NEW n, NEW e, CloseSinks(n, e),
         at["demuxer"] \notin {"close", "exited"},
         UNCHANGED <<opt, queue, range, pending, current, shown, main>>, EventsKept,
         \/ prevent' = prevent
         \/ /\ Delivering("demuxer", "screen") /\ IsFrame(item["demuxer"])
            /\ prevent' = current
  PROVE  PipelineInv'
<1> USE DEF PipelineInv
<1>1. /\ CallTypes /\ Others("demuxer")
      /\ at'["demuxer"] = "close" /\ item'["demuxer"] = None
      /\ UNCHANGED <<opened, received, session>>
  BY SourcesFacts, NoneData DEF CloseSinks, CallTypes, Others, Types
<1>2. Types'
  BY <1>1, EventsKeep DEF Types, CallTypes
<1>3. DemuxerInv'
  BY <1>1 DEF DemuxerInv
<1>4. \A r \in Regulators : at'[r] = at[r] /\ item'[r] = item[r] /\ todo'[r] = todo[r]
  BY <1>1, SourcesFacts DEF Others
<1>5. RegulatorInv'
  BY <1>1, <1>4, SourcesFacts DEF RegulatorInv, Plays, Delayed, Active, Sinks, Branches, ScreenBranch, V4l2Branch, IsFrame
<1>6. NumberInv'
  <2>1. \A t \in Sources : item'[t].frame <= received
    <3>1. received \in Nat /\ item'["demuxer"].frame = 0
      BY <1>1, NoneData DEF Types
    <3> QED BY <3>1, <1>4, SourcesFacts DEF NumberInv
  <2> QED BY <2>1, <1>1 DEF NumberInv, IsFrame
<1>7. DirectInv'
  BY <1>1 DEF DirectInv
<1>8. QueueInv'
  BY <1>1, <1>4, SourcesFacts DEF QueueInv, Active, Base, Settled, IsFrame
<1>9. NotifyInv'
  <2>1. \A t \in Sources : at'[t] = "post" => at[t] = "post"
    BY <1>1, <1>4, SourcesFacts
  <2> QED BY <2>1, NotifyKept DEF Types
<1>10. FlagInv'
  <2>1. CASE ~Delayed
    BY <1>1, <2>1 DEF FlagInv, ScreenCaller, Delayed
  <2>2. CASE Delayed /\ prevent' = prevent
    BY <1>4, <2>2, SourcesFacts DEF FlagInv, ScreenCaller, Delayed
  <2>3. CASE Delayed /\ Delivering("demuxer", "screen")
    <3>1. received = 1
      BY <2>3 DEF Delivering, DemuxerInv
    <3>2. pending["screen"] # None => pending["screen"].frame = 1
      BY <3>1 DEF NumberInv, IsFrame, Types, Data, Buffers
    <3> QED BY <3>2, <1>4, <2>3, SourcesFacts DEF FlagInv, ScreenCaller, Delayed
  <2> QED BY <2>1, <2>2, <2>3
<1> QED BY <1>2, <1>3, <1>5, <1>6, <1>7, <1>8, <1>9, <1>10

(* The stream starts.                                                      *)
LEMMA StartKeeps == PipelineInv /\ StartStream => PipelineInv'
<1> SUFFICES ASSUME PipelineInv, StartStream PROVE PipelineInv'
  OBVIOUS
<1> USE DEF PipelineInv
<1>1. CASE CloseSinks(0, "error")
  BY <1>1, EndKeeps DEF StartStream, regulators, screen, ending, EventsKept
<1>2. CASE /\ at' = [at EXCEPT !["demuxer"] = "open"] /\ session' = 1
           /\ UNCHANGED <<item, todo, opened, status, received>>
  <2>1. UNCHANGED <<opt, queue, range, pending, current, prevent, shown, main, events>>
    BY DEF StartStream, regulators, screen, ending
  <2>2. /\ at'["demuxer"] = "open" /\ opened = 0
        /\ \A r \in Regulators : at'[r] = at[r]
        /\ at["screen_vr"] = "off" /\ at["demuxer"] = "start"
    BY <1>2, SourcesFacts DEF StartStream, Types, DemuxerInv, RegulatorInv
  <2>3. Types'
    BY <1>2, <2>1 DEF Types
  <2>4. DemuxerInv'
    BY <1>2, <2>1, <2>2 DEF DemuxerInv
  <2>5. RegulatorInv'
    BY <1>2, <2>1, <2>2, SourcesFacts DEF RegulatorInv, Plays, Delayed, Active, Sinks, Branches, ScreenBranch, V4l2Branch, IsFrame
  <2>6. NumberInv'
    BY <1>2, <2>1, <2>2 DEF NumberInv, StartStream, Plays, Delayed, IsFrame
  <2>7. DirectInv'
    BY <1>2, <2>1, <2>2 DEF DirectInv
  <2>8. QueueInv'
    BY <2>2, SourcesFacts DEF QueueInv
  <2>9. NotifyInv'
    BY <1>2, <2>1, <2>2, SourcesFacts DEF NotifyInv
  <2>10. FlagInv'
    BY <1>2, <2>1, <2>2, SourcesFacts DEF FlagInv, ScreenCaller, Delayed, StartStream
  <2> QED BY <2>3, <2>4, <2>5, <2>6, <2>7, <2>8, <2>9, <2>10
<1> QED BY <1>1, <1>2 DEF StartStream

(* Every branch is open.                                                   *)
LEMMA AllOpenKeeps == PipelineInv /\ AllOpen => PipelineInv'
<1> SUFFICES ASSUME PipelineInv, AllOpen PROVE PipelineInv'
  OBVIOUS
<1> USE DEF PipelineInv
<1>1. UNCHANGED <<opt, item, todo, opened, session, received, queue, range, pending,
                  current, prevent, shown, main, events>>
  BY DEF AllOpen, demuxer, regulators, screen, ending
<1>2. /\ at["demuxer"] = "open" /\ at'["demuxer"] = "recv"
      /\ \A r \in Regulators : at'[r] = at[r]
  BY SourcesFacts DEF AllOpen, Types
<1>3. opened > 0
  BY BranchesShape DEF AllOpen, Types
<1>4. Types'
  BY <1>1 DEF Types, AllOpen
<1>5. DemuxerInv'
  BY <1>1, <1>2 DEF DemuxerInv
<1>6. RegulatorInv'
  BY <1>1, <1>2, SourcesFacts DEF RegulatorInv, Plays, Delayed, Active, Sinks, Branches, ScreenBranch, V4l2Branch, IsFrame
<1>7. NumberInv'
  BY <1>1, <1>2 DEF NumberInv, Plays, Delayed, IsFrame
<1>8. DirectInv'
  BY <1>1, <1>2, <1>3 DEF DirectInv, Plays, Delayed
<1>9. QueueInv'
  BY <1>1, <1>2, SourcesFacts DEF QueueInv, Active, Base, Settled, IsFrame
<1>10. NotifyInv'
  BY <1>1, <1>2, SourcesFacts DEF NotifyInv
<1>11. FlagInv'
  BY <1>1, <1>2, SourcesFacts DEF FlagInv, ScreenCaller, Delayed
<1> QED BY <1>4, <1>5, <1>6, <1>7, <1>8, <1>9, <1>10, <1>11

(* A branch is opened: the screen takes the session.                       *)
LEMMA OpenBranchKeeps == PipelineInv /\ OpenBranch => PipelineInv'
<1> SUFFICES ASSUME PipelineInv, OpenBranch PROVE PipelineInv'
  OBVIOUS
<1> USE DEF PipelineInv
<1> DEFINE b == ToSet(Branches[opened + 1])
<1>1. UNCHANGED <<opt, item, todo, session, received, queue, range, pending,
                  prevent, shown, main>>
  BY DEF OpenBranch, regulators, ending
<1>2. /\ at["demuxer"] = "open" /\ opened' = opened + 1
      /\ at' = [t \in Sources |-> IF t \in b THEN "wait" ELSE at[t]]
      /\ IF "screen" \in b THEN current' = session /\ events' = Append(events, "open")
                          ELSE UNCHANGED <<current, events>>
  BY DEF OpenBranch, Post
<1>3. /\ "demuxer" \notin b
      /\ Plays /\ opened = 0 =>
           "screen" \in b /\ ("screen_vr" \in b <=> Delayed)
      /\ ~(Plays /\ opened = 0) => "screen" \notin b /\ "screen_vr" \notin b
  <2>1. opened + 1 \in 1 .. Len(Branches)
    BY BranchesShape DEF OpenBranch, Types
  <2>2. opened = 0 <=> opened + 1 = 1
    BY DEF Types
  <2>3. CASE Plays /\ opened = 0
    <3>1. /\ b \cap Sources = IF Delayed THEN {"screen_vr"} ELSE {}
          /\ "screen" \in b /\ "demuxer" \notin b
      BY <2>1, <2>2, <2>3, BranchesShape DEF Types
    <3> QED BY <3>1, <2>3, SourcesFacts
  <2>4. CASE ~(Plays /\ opened = 0)
    <3>1. b \cap Screens = {} /\ "demuxer" \notin b
      BY <2>1, <2>2, <2>4, BranchesShape DEF Types
    <3> QED BY <3>1, <2>4 DEF Screens
  <2> QED BY <2>3, <2>4
<1> HIDE DEF b
<1>4. /\ at'["demuxer"] = "open"
      /\ \A r \in Regulators : at'[r] = at[r] \/ (at'[r] = "wait" /\ r \in b)
      /\ \A t \in Sources : at'[t] = "post" => at[t] = "post"
  BY <1>2, <1>3, SourcesFacts
<1>5. EventsKept
  BY <1>2 DEF EventsKept, EventNames
<1>6. Types'
  BY <1>1, <1>2, <1>5, EventsKeep DEF Types
<1>7. DemuxerInv'
  BY <1>1, <1>4 DEF DemuxerInv
<1>8. RegulatorInv'
  <2>1. at'["screen_vr"] # "off" => Plays /\ Delayed /\ opened' > 0
    BY <1>2, <1>3, <1>4, SourcesFacts DEF RegulatorInv, Types
  <2>2. \A r \in Regulators : Sinks(r)' = Sinks(r)
    BY SourcesFacts DEF Sinks
  <2> QED BY <2>1, <2>2, <1>1, <1>2, <1>4, SourcesFacts DEF RegulatorInv, Plays, Delayed, Active, IsFrame
<1>9. NumberInv'
  BY <1>1, <1>2, <1>4 DEF NumberInv, Plays, Delayed, IsFrame
<1>10. DirectInv'
  BY <1>1, <1>2, <1>3, <1>4 DEF DirectInv, Plays, Delayed, Types
<1>11. QueueInv'
  <2>1. CASE "screen_vr" \in b
    <3>1. opened = 0 /\ at["screen_vr"] = "off" /\ at'["screen_vr"] = "wait"
      BY <2>1, <1>2, <1>3, SourcesFacts DEF RegulatorInv, Types
    <3>2. queue'["screen_vr"] = <<>> /\ current' = session /\ session' = session
      BY <3>1, <2>1, <1>1, <1>2, <1>3, SourcesFacts DEF RegulatorInv
    <3> QED BY <3>1, <3>2, ChainEmpty DEF QueueInv, Base, Active
  <2>2. CASE "screen_vr" \notin b
    <3>1. at'["screen_vr"] = at["screen_vr"]
      BY <2>2, <1>2, SourcesFacts
    <3>2. at["screen_vr"] \notin {"off", "exited"} => current' = current
      BY <2>2, <1>2, <1>3 DEF RegulatorInv
    <3> QED BY <3>1, <3>2, <1>1, <1>2, <1>4 DEF QueueInv, Active, Base, Settled, IsFrame
  <2> QED BY <2>1, <2>2
<1>12. NotifyInv'
  BY <1>1, <1>4, <1>5, NotifyKept DEF Types
<1>13. FlagInv'
  <2>1. at'[ScreenCaller'] \notin {"close", "exited"} =>
          at[ScreenCaller] \notin {"close", "exited"}
    <3>1. "screen_vr" \in b => at["screen_vr"] = "off"
      BY <1>3, SourcesFacts DEF RegulatorInv, Types
    <3> QED BY <3>1, <1>1, <1>2, <1>4, SourcesFacts DEF ScreenCaller
  <2> QED BY <2>1, <1>1 DEF FlagInv, Delayed
<1> QED BY <1>6, <1>7, <1>8, <1>9, <1>10, <1>11, <1>12, <1>13

(* A packet is received: the screen is the first to be called. *)
LEMMA RecvSessionKeeps == PipelineInv /\ RecvSession => PipelineInv'
<1> SUFFICES ASSUME PipelineInv, RecvSession PROVE PipelineInv'
  OBVIOUS
<1> USE DEF PipelineInv
<1> DEFINE x == [frame |-> 0, session |-> session + 1]
<1>1. UNCHANGED <<opt, opened, received, queue, range, pending, current, prevent,
                  shown, main, events>>
  BY DEF RecvSession, regulators, screen, ending
<1>2. /\ at["demuxer"] = "recv" /\ session' = session + 1
      /\ Call("demuxer", x, Sinks("demuxer"))
  BY DEF RecvSession
<1>3. x \in Data /\ ~IsFrame(x) /\ x.frame = 0 /\ x.session = session'
  BY <1>2 DEF Types, Data, IsFrame
<1> HIDE DEF x
<1>4. /\ Sinks("demuxer") \in Seq(Sink) /\ Sinks("demuxer") # <<>>
      /\ ScreenFirst(Sinks("demuxer"))
      /\ Plays => Head(Sinks("demuxer")) = IF Delayed THEN "screen_vr" ELSE "screen"
      /\ ~Plays => Head(Sinks("demuxer")) \notin Screens
  BY SinksShape DEF Types
<1>5. /\ CallTypes /\ Others("demuxer") /\ at'["demuxer"] = "deliver"
      /\ item'["demuxer"] = x /\ todo'["demuxer"] = Sinks("demuxer")
  BY <1>2, <1>3, <1>4, SourcesFacts, CallFacts
<1>6. \A r \in Regulators : at'[r] = at[r] /\ item'[r] = item[r] /\ todo'[r] = todo[r]
  BY <1>5, SourcesFacts DEF Others
<1>7. Types'
  BY <1>1, <1>2, <1>5 DEF Types, CallTypes
<1>8. DemuxerInv'
  BY <1>1, <1>3, <1>4, <1>5 DEF DemuxerInv, Plays, Delayed, Screens, ScreenFirst, IsFrame
<1>9. RegulatorInv'
  <2>1. \A r \in Regulators : Sinks(r)' = Sinks(r)
    BY SourcesFacts DEF Sinks
  <2> QED BY <2>1, <1>1, <1>5, <1>6, SourcesFacts DEF RegulatorInv, Plays, Delayed, Active, IsFrame
<1>10. NumberInv'
  <2>1. \A t \in Sources : item'[t].frame <= received
    <3>1. received \in Nat /\ item'["demuxer"].frame = 0
      BY <1>3, <1>5 DEF Types
    <3> QED BY <3>1, <1>6, SourcesFacts DEF NumberInv
  <2> QED BY <2>1, <1>1, <1>2 DEF NumberInv, Plays, Delayed, IsFrame
<1>11. DirectInv'
  BY <1>1, <1>3, <1>4, <1>5 DEF DirectInv, Plays, Delayed, IsFrame
<1>12. QueueInv'
  <2>1. at["screen_vr"] \notin {"off", "exited"} => ~Settled'
    BY <1>3, <1>4, <1>5 DEF RegulatorInv, Settled, IsFrame
  <2> QED BY <2>1, <1>1, <1>6, SourcesFacts DEF QueueInv, Active, Base, IsFrame
<1>13. NotifyInv'
  <2>1. \A t \in Sources : at'[t] = "post" => at[t] = "post"
    BY <1>5, <1>6, SourcesFacts
  <2> QED BY <2>1, <1>1, NotifyKept DEF Types, EventsKept
<1>14. FlagInv'
  BY <1>1, <1>2, <1>6, SourcesFacts DEF FlagInv, ScreenCaller, Delayed
<1> QED BY <1>7, <1>8, <1>9, <1>10, <1>11, <1>12, <1>13, <1>14

(* A frame is received: it follows its session.                            *)
LEMMA RecvFrameKeeps == PipelineInv /\ RecvFrame => PipelineInv'
<1> SUFFICES ASSUME PipelineInv, RecvFrame PROVE PipelineInv'
  OBVIOUS
<1> USE DEF PipelineInv
<1> DEFINE x == [frame |-> received + 1, session |-> session]
<1>1. UNCHANGED <<opt, opened, session, queue, range, pending, current, prevent,
                  shown, main, events>>
  BY DEF RecvFrame, regulators, screen, ending
<1>2. /\ at["demuxer"] = "recv" /\ received' = received + 1
      /\ Call("demuxer", x, Sinks("demuxer"))
  BY DEF RecvFrame
<1>3. x \in Data /\ IsFrame(x) /\ x.frame = received' /\ x.session = session
  BY <1>2 DEF Types, Data, IsFrame
<1> HIDE DEF x
<1>4. /\ Sinks("demuxer") \in Seq(Sink) /\ Sinks("demuxer") # <<>>
      /\ ScreenFirst(Sinks("demuxer"))
      /\ Plays => Head(Sinks("demuxer")) = IF Delayed THEN "screen_vr" ELSE "screen"
      /\ ~Plays => Head(Sinks("demuxer")) \notin Screens
  BY SinksShape DEF Types
<1>5. /\ CallTypes /\ Others("demuxer") /\ at'["demuxer"] = "deliver"
      /\ item'["demuxer"] = x /\ todo'["demuxer"] = Sinks("demuxer")
  BY <1>2, <1>3, <1>4, SourcesFacts, CallFacts
<1>6. \A r \in Regulators : at'[r] = at[r] /\ item'[r] = item[r] /\ todo'[r] = todo[r]
  BY <1>5, SourcesFacts DEF Others
<1>7. Types'
  BY <1>1, <1>2, <1>5 DEF Types, CallTypes
<1>8. DemuxerInv'
  BY <1>1, <1>3, <1>4, <1>5 DEF DemuxerInv, Plays, Delayed, Screens, ScreenFirst, IsFrame
<1>9. RegulatorInv'
  <2>1. \A r \in Regulators : Sinks(r)' = Sinks(r)
    BY SourcesFacts DEF Sinks
  <2> QED BY <2>1, <1>1, <1>5, <1>6, SourcesFacts DEF RegulatorInv, Plays, Delayed, Active, IsFrame
<1>10. NumberInv'
  <2>1. received \in Nat /\ received' = received + 1
    BY <1>2 DEF Types
  <2>2. \A t \in Sources : item'[t].frame <= received'
    <3>1. item'["demuxer"].frame = received + 1
      BY <1>3, <1>5, <2>1
    <3>2. \A r \in Regulators : item'[r].frame <= received + 1
      <4> TAKE r \in Regulators
      <4>1. item[r].frame \in Nat /\ item[r].frame <= received /\ item'[r] = item[r]
        BY <1>6, SourcesFacts DEF NumberInv, Types, Data
      <4> QED BY <4>1, <2>1
    <3> QED BY <3>1, <3>2, <2>1, SourcesFacts
  <2>3. \A r \in Regulators : Below(queue'[r], received')
    BY <2>1, <1>1, BelowFacts DEF NumberInv, Types
  <2>4. /\ pending'["screen"].frame <= received'
        /\ pending'["screen"] # None => IsFrame(pending'["screen"])
    BY <2>1, <1>1 DEF NumberInv, Types, Data, Buffers
  <2>5. Plays' /\ Delayed' /\ range'["screen_vr"] = 0 =>
          /\ received' = 1 /\ at'["demuxer"] = "deliver" /\ IsFrame(item'["demuxer"])
          /\ Head(todo'["demuxer"]) = "screen_vr"
    BY <2>1, <1>1, <1>2, <1>3, <1>4, <1>5 DEF NumberInv, Plays, Delayed, IsFrame
  <2> QED BY <2>2, <2>3, <2>4, <2>5 DEF NumberInv, IsFrame
<1>11. DirectInv'
  BY <1>1, <1>2, <1>5 DEF DirectInv, Plays, Delayed
<1>12. QueueInv'
  <2>1. Settled
    BY <1>2 DEF Settled
  <2> QED BY <2>1, <1>1, <1>6, SourcesFacts DEF QueueInv, Active, Base, IsFrame
<1>13. NotifyInv'
  <2>1. \A t \in Sources : at'[t] = "post" => at[t] = "post"
    BY <1>5, <1>6, SourcesFacts
  <2> QED BY <2>1, <1>1, NotifyKept DEF Types, EventsKept
<1>14. FlagInv'
  BY <1>1, <1>2, <1>6, SourcesFacts DEF FlagInv, ScreenCaller, Delayed
<1> QED BY <1>7, <1>8, <1>9, <1>10, <1>11, <1>12, <1>13, <1>14

(* The demuxer ends by itself.                                             *)
LEMMA EndOfStreamKeeps == PipelineInv /\ (OpenFails \/ EndOfStream \/ RecvFails) => PipelineInv'
<1> SUFFICES ASSUME PipelineInv, OpenFails \/ EndOfStream \/ RecvFails PROVE PipelineInv'
  OBVIOUS
<1>1. /\ CloseSinks(opened, "error") \/ CloseSinks(opened, "eos")
      /\ at["demuxer"] \in {"open", "recv"}
      /\ UNCHANGED <<opt, queue, range, pending, current, prevent, shown, main>>
  BY DEF OpenFails, EndOfStream, RecvFails, regulators, screen, ending
<1>2. EventsKept
  BY DEF OpenFails, EndOfStream, RecvFails, Post, EventsKept, EventNames
<1> QED BY <1>1, <1>2, EndKeeps

-------------------------------------------------------------------------------
(* The calls to the sinks.                                                 *)

(* The thread of a regulator ends.                                         *)
LEMMA ExitKeeps ==
  ASSUME PipelineInv, NEW r \in Regulators, at[r] # "off",
         at' = [at EXCEPT ![r] = "exited"], item' = [item EXCEPT ![r] = None],
         todo' = [todo EXCEPT ![r] = <<>>], queue' = [queue EXCEPT ![r] = <<>>],
         UNCHANGED <<opt, opened, session, received, range, pending, current, shown,
                     main, events>>,
         prevent' = prevent \/ (r = "screen_vr" /\ prevent' = current)
  PROVE  PipelineInv'
<1> USE DEF PipelineInv
<1>1. /\ at'[r] = "exited" /\ item'[r] = None /\ queue'[r] = <<>> /\ r \in Sources
      /\ \A t \in Sources : t # r => at'[t] = at[t] /\ item'[t] = item[t]
                                     /\ todo'[t] = todo[t]
      /\ \A q \in Regulators : q # r => queue'[q] = queue[q]
  BY SourcesFacts DEF Types
<1>2. /\ at'["demuxer"] = at["demuxer"] /\ item'["demuxer"] = item["demuxer"]
      /\ todo'["demuxer"] = todo["demuxer"]
  BY <1>1, SourcesFacts
<1>3. Types'
  <2>1. <<>> \in Seq(Data)
    BY EmptySeq
  <2> QED BY <2>1, NoneData DEF Types
<1>4. DemuxerInv'
  BY <1>2 DEF DemuxerInv, Plays, Delayed, Screens, ScreenFirst, IsFrame
<1>5. RegulatorInv'
  <2>1. \A q \in Regulators : Sinks(q)' = Sinks(q)
    BY SourcesFacts DEF Sinks
  <2> QED BY <2>1, <1>1, <1>2, SourcesFacts DEF RegulatorInv, Plays, Delayed, Active, IsFrame
<1>6. NumberInv'
  <2>1. \A t \in Sources : item'[t].frame <= received
    <3>1. received \in Nat /\ item'[r].frame = 0
      BY <1>1, NoneData DEF Types
    <3> QED BY <3>1, <1>1 DEF NumberInv
  <2>2. \A q \in Regulators : Below(queue'[q], received)
    <3>1. Below(<<>>, received)
      BY DEF Below
    <3> QED BY <3>1, <1>1 DEF NumberInv
  <2> QED BY <2>1, <2>2, <1>2 DEF NumberInv, Plays, Delayed, IsFrame
<1>7. DirectInv'
  BY <1>2 DEF DirectInv, Plays, Delayed, IsFrame
<1>8. QueueInv'
  <2>1. CASE r = "screen_vr"
    BY <2>1, <1>1 DEF QueueInv
  <2>2. CASE r # "screen_vr"
    <3>1. /\ at'["screen_vr"] = at["screen_vr"] /\ item'["screen_vr"] = item["screen_vr"]
          /\ queue'["screen_vr"] = queue["screen_vr"]
      BY <2>2, <1>1, SourcesFacts
    <3> QED BY <3>1, <1>2 DEF QueueInv, Active, Base, Settled, IsFrame
  <2> QED BY <2>1, <2>2
<1>9. NotifyInv'
  <2>1. \A t \in Sources : at'[t] = "post" => at[t] = "post"
    BY <1>1
  <2> QED BY <2>1, NotifyKept DEF Types, EventsKept
<1>10. FlagInv'
  <2>1. CASE r = "screen_vr"
    <3>1. Delayed
      BY <2>1 DEF RegulatorInv
    <3> QED BY <3>1, <2>1, <1>1 DEF FlagInv, ScreenCaller, Delayed
  <2>2. CASE r # "screen_vr"
    <3>1. at'["screen_vr"] = at["screen_vr"]
      BY <2>2, <1>1, SourcesFacts
    <3> QED BY <3>1, <1>2, <2>2 DEF FlagInv, ScreenCaller, Delayed
  <2> QED BY <2>1, <2>2
<1> QED BY <1>3, <1>4, <1>5, <1>6, <1>7, <1>8, <1>9, <1>10

(* A push fails: the screen may have taken a flag.                         *)
LEMMA PushFailsKeeps ==
  ASSUME PipelineInv, NEW t \in Sources, PushFails(t)
  PROVE  PipelineInv'
<1> USE DEF PipelineInv
<1>1. CASE t = "demuxer"
  <2>1. /\ CloseSinks(opened, "error") /\ at["demuxer"] = "deliver"
        /\ UNCHANGED <<opt, queue, range, pending, current, shown, main, events>>
    BY <1>1 DEF PushFails, Rejected, regulators, ending
  <2>2. \/ prevent' = prevent
        \/ /\ Delivering("demuxer", "screen") /\ IsFrame(item["demuxer"])
           /\ prevent' = current
    BY <1>1 DEF PushFails, Delivering, Regulators
  <2> QED BY <2>1, <2>2, EndKeeps DEF EventsKept
<1>2. CASE t \in Regulators
  <2>1. Delivering(t, "screen") => t = "screen_vr"
    BY <1>2, SourcesFacts, RegulatorSinks DEF Delivering, RegulatorInv, Active
  <2>2. /\ at[t] # "off"
        /\ at' = [at EXCEPT ![t] = "exited"] /\ item' = [item EXCEPT ![t] = None]
        /\ todo' = [todo EXCEPT ![t] = <<>>] /\ queue' = [queue EXCEPT ![t] = <<>>]
        /\ UNCHANGED <<opt, opened, session, received, range, pending, current, shown,
                       main, events>>
    BY <1>2, SourcesFacts DEF PushFails, Rejected, demuxer, ending
  <2>3. prevent' = prevent \/ (t = "screen_vr" /\ prevent' = current)
    BY <2>1 DEF PushFails
  <2> QED BY <2>2, <2>3, <1>2, ExitKeeps
<1> QED BY <1>1, <1>2, SourcesFacts

(* A regulator is stopped.                                                 *)
LEMMA RegulatorStopsKeeps ==
  ASSUME PipelineInv, NEW r \in Regulators, RegulatorStops(r)
  PROVE  PipelineInv'
<1>1. /\ at[r] # "off"
      /\ at' = [at EXCEPT ![r] = "exited"] /\ item' = [item EXCEPT ![r] = None]
      /\ todo' = [todo EXCEPT ![r] = <<>>] /\ queue' = [queue EXCEPT ![r] = <<>>]
      /\ UNCHANGED <<opt, opened, session, received, range, pending, current, prevent,
                     shown, main, events>>
  BY DEF RegulatorStops, demuxer, screen, ending
<1> QED BY <1>1, ExitKeeps

(* The demuxer called a sink that is not a regulator, or a regulator that  *)
(* queued what it was given.                                               *)
LEMMA DemuxerKeeps ==
  ASSUME PipelineInv, at["demuxer"] \in {"deliver", "post"}, CallTypes,
         Others("demuxer"), Past, UNCHANGED <<opt, session, received, opened>>
  PROVE  /\ DemuxerInv'
         /\ \A r \in Regulators : at'[r] = at[r] /\ item'[r] = item[r] /\ todo'[r] = todo[r]
         /\ RegulatorInv'
         /\ \A t \in Sources : item'[t].frame <= received'
         /\ \A t \in Sources : at'[t] = "post" => at[t] = "post" /\ t # "demuxer"
<1> USE DEF PipelineInv
<1>1. DemuxerInv'
  BY PastKeeps
<1>2. \A r \in Regulators : at'[r] = at[r] /\ item'[r] = item[r] /\ todo'[r] = todo[r]
  BY SourcesFacts DEF Others
<1>3. at'["demuxer"] \in {"recv", "deliver"} /\ item'["demuxer"] \in {item["demuxer"], None}
  BY DEF Past
<1>4. RegulatorInv'
  <2>1. \A q \in Regulators : Sinks(q)' = Sinks(q)
    BY SourcesFacts DEF Sinks
  <2> QED BY <2>1, <1>2, <1>3, SourcesFacts DEF RegulatorInv, Plays, Delayed, Active, IsFrame
<1>5. \A t \in Sources : item'[t].frame <= received'
  <2>1. received \in Nat /\ item'["demuxer"].frame <= received
    BY <1>3, NoneData, SourcesFacts DEF Types, NumberInv
  <2> QED BY <2>1, <1>2, SourcesFacts DEF NumberInv
<1>6. \A t \in Sources : at'[t] = "post" => at[t] = "post" /\ t # "demuxer"
  BY <1>2, <1>3, SourcesFacts
<1> QED BY <1>1, <1>2, <1>4, <1>5, <1>6

(* Without a frame on its way to the regulator, the first frame is behind. *)
LEMMA FirstIsPast ==
  ASSUME PipelineInv, Plays, Delayed, at["demuxer"] \in {"deliver", "post"},
         at["demuxer"] = "post" \/ Head(todo["demuxer"]) # "screen_vr",
         range["screen_vr"] = 0
  PROVE  received = 0 /\ at["demuxer"] = "deliver" /\ ~IsFrame(item["demuxer"])
<1> USE DEF PipelineInv
<1>1. received = 0
  BY DEF NumberInv, DemuxerInv
<1>2. ~IsFrame(item["demuxer"])
  BY <1>1 DEF DemuxerInv, IsFrame
<1> QED BY <1>1, <1>2 DEF DemuxerInv

(* A call of a regulator, which may have changed the session of the screen.*)
LEMMA RegulatorKeeps ==
  ASSUME PipelineInv, NEW r \in Regulators, Active(r), CallTypes, Others(r),
         at'[r] = "wait" /\ item'[r] = None,
         UNCHANGED <<opt, session, received, opened, queue>>
  PROVE  /\ at'["demuxer"] = at["demuxer"] /\ item'["demuxer"] = item["demuxer"]
         /\ todo'["demuxer"] = todo["demuxer"]
         /\ \A q \in Regulators : q # r => at'[q] = at[q] /\ item'[q] = item[q]
         /\ DemuxerInv' /\ RegulatorInv'
         /\ \A t \in Sources : item'[t].frame <= received'
         /\ \A t \in Sources : at'[t] = "post" => at[t] = "post" /\ t # r
<1> USE DEF PipelineInv
<1>1. /\ at'["demuxer"] = at["demuxer"] /\ item'["demuxer"] = item["demuxer"]
      /\ todo'["demuxer"] = todo["demuxer"]
      /\ \A q \in Regulators : q # r => at'[q] = at[q] /\ item'[q] = item[q] /\ todo'[q] = todo[q]
  BY SourcesFacts DEF Others
<1>2. DemuxerInv'
  BY <1>1 DEF DemuxerInv, Plays, Delayed, Screens, ScreenFirst, IsFrame
<1>3. RegulatorInv'
  <2>1. \A q \in Regulators : Sinks(q)' = Sinks(q)
    BY SourcesFacts DEF Sinks
  <2> QED BY <2>1, <1>1, SourcesFacts DEF RegulatorInv, Plays, Delayed, Active, IsFrame
<1>4. \A t \in Sources : item'[t].frame <= received'
  <2>1. received \in Nat /\ item'[r].frame = 0
    BY NoneData DEF Types
  <2> QED BY <2>1, <1>1, SourcesFacts DEF NumberInv
<1>5. \A t \in Sources : at'[t] = "post" => at[t] = "post" /\ t # r
  BY <1>1, SourcesFacts
<1> QED BY <1>1, <1>2, <1>3, <1>4, <1>5

(* The flag that the screen takes is the one of the frame.                 *)
LEMMA FlagPushed ==
  ASSUME PipelineInv, NEW t \in Sources, Delivering(t, "screen"), IsFrame(item[t])
  PROVE  /\ t \in {"demuxer", "screen_vr"} /\ Plays
         /\ item[t] \in Data /\ item[t].frame <= received
         /\ current = item[t].session \/ (item[t].frame = 1 /\ Delayed)
<1> USE DEF PipelineInv
<1>1. item[t] \in Data /\ item[t].frame <= received
  BY DEF Types, NumberInv
<1>2. CASE t = "demuxer"
  BY <1>1, <1>2 DEF Delivering, DemuxerInv, DirectInv, Screens
<1>3. CASE t = "screen_vr"
  BY <1>1, <1>3, SourcesFacts DEF Delivering, RegulatorInv, QueueInv, Active
<1>4. t # "v4l2_vr"
  BY SourcesFacts, RegulatorSinks DEF Delivering, RegulatorInv, Active
<1> QED BY <1>1, <1>2, <1>3, <1>4, SourcesFacts

(* A frame is pushed to the screen.                                        *)
LEMMA ScreenPushKeeps ==
  ASSUME PipelineInv, NEW t \in Sources, ScreenPush(t)
  PROVE  PipelineInv'
<1> USE DEF PipelineInv
<1>1. /\ Delivering(t, "screen") /\ IsFrame(item[t]) /\ at[t] = "deliver"
      /\ pending' = [pending EXCEPT !["screen"] = item[t]] /\ prevent' = current
      /\ UNCHANGED <<opt, opened, session, received, queue, range, current, shown,
                     main, events>>
  BY DEF ScreenPush, Delivering, demuxer, regulators, ending
<1>2. /\ t \in {"demuxer", "screen_vr"} /\ Plays
      /\ item[t] \in Data /\ item[t].frame <= received
      /\ current = item[t].session \/ (item[t].frame = 1 /\ Delayed)
  BY <1>1, FlagPushed
<1>3. pending'["screen"] = item[t] /\ item[t] # None /\ pending' \in [Buffers -> Data]
  BY <1>1, <1>2, NoneData DEF Types, Buffers
<1>4. FlagInv'
  <2>1. at'[ScreenCaller'] \notin {"close", "exited"} =>
          at[ScreenCaller] \notin {"close", "exited"}
    <3>1. \A u \in Sources : u # t => at'[u] = at[u]
      <4>1. CASE pending["screen"] = None
        BY <4>1 DEF ScreenPush, Notify, Types
      <4>2. CASE pending["screen"] # None
        BY <4>2, <1>2, CallFacts DEF ScreenPush, Notify, Delivered, Others
      <4> QED BY <4>1, <4>2
    <3> QED BY <3>1, <1>1, SourcesFacts DEF ScreenCaller
  <2> QED BY <2>1, <1>1, <1>2, <1>3 DEF FlagInv, Delayed
<1>5. CASE pending["screen"] = None
  <2>1. /\ at' = [at EXCEPT ![t] = "post"] /\ UNCHANGED <<item, todo>>
    BY <1>5 DEF ScreenPush, Notify
  <2>2. at'[t] = "post" /\ \A u \in Sources : u # t => at'[u] = at[u]
    BY <2>1 DEF Types
  <2>3. Types'
    BY <1>1, <1>3, <2>1 DEF Types
  <2>4. DemuxerInv'
    BY <1>1, <2>1, <2>2, SourcesFacts DEF DemuxerInv, Delivering, Plays, Delayed, IsFrame
  <2>5. RegulatorInv'
    <3>1. \A q \in Regulators : Sinks(q)' = Sinks(q)
      BY SourcesFacts DEF Sinks
    <3> QED BY <3>1, <1>1, <1>2, <2>1, <2>2, SourcesFacts DEF RegulatorInv, Plays, Delayed, Active, IsFrame
  <2>6. NumberInv'
    <3>1. CASE t = "demuxer"
      <4>1. ~(Plays /\ Delayed /\ range["screen_vr"] = 0)
        BY <3>1, <1>1, FirstIsPast DEF Delivering
      <4> QED BY <4>1, <1>1, <1>2, <1>3, <2>1 DEF NumberInv, Plays, Delayed
    <3>2. CASE t # "demuxer"
      BY <3>2, <1>1, <1>2, <1>3, <2>1, <2>2, SourcesFacts DEF NumberInv, Plays, Delayed, IsFrame
    <3> QED BY <3>1, <3>2
  <2>7. DirectInv'
    BY <1>1, <2>1, <2>2, SourcesFacts DEF DirectInv, Plays, Delayed, IsFrame
  <2>8. QueueInv'
    <3>1. CASE t = "demuxer"
      <4>1. Settled
        BY <3>1, <1>1 DEF Settled, Delivering
      <4> QED BY <4>1, <3>1, <1>1, <2>1, <2>2, SourcesFacts DEF QueueInv, Active, Base, IsFrame
    <3>2. CASE t = "screen_vr"
      BY <3>2, <1>1, <2>1, <2>2, SourcesFacts DEF QueueInv, Active, Base, Settled, IsFrame
    <3> QED BY <3>1, <3>2, <1>2
  <2>9. NotifyInv'
    <3>1. main = "loop" => Frames(events) = {} /\ \A u \in Sources : at[u] # "post"
      BY <1>5 DEF NotifyInv
    <3> QED BY <3>1, <1>1, <1>3, <2>2 DEF NotifyInv
  <2> QED BY <1>4, <2>3, <2>4, <2>5, <2>6, <2>7, <2>8, <2>9
<1>6. CASE pending["screen"] # None
  <2>1. Delivered(t)
    BY <1>6 DEF ScreenPush, Notify
  <2>2. CASE t = "demuxer"
    <3>1. CallTypes /\ Others("demuxer") /\ Past
      BY <2>1, <2>2, <1>1, DemuxerDelivered
    <3>2. /\ DemuxerInv' /\ RegulatorInv'
          /\ \A r \in Regulators : at'[r] = at[r] /\ item'[r] = item[r] /\ todo'[r] = todo[r]
          /\ \A u \in Sources : item'[u].frame <= received'
          /\ \A u \in Sources : at'[u] = "post" => at[u] = "post" /\ u # "demuxer"
      BY <3>1, <2>2, <1>1, DemuxerKeeps
    <3>3. Types'
      BY <1>1, <1>3, <3>1 DEF Types, CallTypes
    <3>4. NumberInv'
      <4>1. ~(Plays /\ Delayed /\ range["screen_vr"] = 0)
        BY <2>2, <1>1, FirstIsPast DEF Delivering
      <4> QED BY <4>1, <1>1, <1>2, <1>3, <3>2 DEF NumberInv, Plays, Delayed
    <3>5. DirectInv'
      <4>1. Plays /\ ~Delayed => current = session
        BY <2>2, <1>1 DEF DirectInv
      <4> QED BY <4>1, <1>1 DEF DirectInv, Plays, Delayed
    <3>6. QueueInv'
      <4>1. Settled
        BY <2>2, <1>1 DEF Settled, Delivering
      <4> QED BY <4>1, <3>2, <1>1, SourcesFacts DEF QueueInv, Active, Base, IsFrame
    <3>7. NotifyInv'
      BY <1>1, <1>3, <1>6, <3>2 DEF NotifyInv
    <3> QED BY <1>4, <3>2, <3>3, <3>4, <3>5, <3>6, <3>7
  <2>3. CASE t = "screen_vr"
    <3>1. CallTypes /\ Others(t) /\ at'[t] = "wait" /\ item'[t] = None /\ Active(t)
      BY <2>1, <2>3, <1>1, SourcesFacts, RegulatorDelivered DEF Active
    <3>2. /\ at'["demuxer"] = at["demuxer"] /\ item'["demuxer"] = item["demuxer"]
          /\ todo'["demuxer"] = todo["demuxer"] /\ DemuxerInv' /\ RegulatorInv'
          /\ \A u \in Sources : item'[u].frame <= received'
          /\ \A u \in Sources : at'[u] = "post" => at[u] = "post" /\ u # t
      BY <3>1, <2>3, <1>1, SourcesFacts, RegulatorKeeps
    <3>3. Types'
      BY <1>1, <1>3, <3>1 DEF Types, CallTypes
    <3>4. NumberInv'
      BY <1>1, <1>2, <1>3, <3>2 DEF NumberInv, Plays, Delayed, IsFrame
    <3>5. DirectInv'
      BY <1>1, <3>2 DEF DirectInv, Plays, Delayed, IsFrame
    <3>6. QueueInv'
      BY <2>3, <3>1, <3>2, <1>1 DEF QueueInv, Active, Base, Settled, IsFrame
    <3>7. NotifyInv'
      BY <1>1, <1>3, <1>6, <3>2 DEF NotifyInv
    <3> QED BY <1>4, <3>2, <3>3, <3>4, <3>5, <3>6, <3>7
  <2> QED BY <2>2, <2>3, <1>2
<1> QED BY <1>5, <1>6

(* The main thread is notified.                                            *)
LEMMA PostNewFrameKeeps ==
  ASSUME PipelineInv, NEW t \in Sources, PostNewFrame(t)
  PROVE  PipelineInv'
<1> USE DEF PipelineInv
<1>1. /\ at[t] = "post" /\ events' = Append(events, "frame") /\ Delivered(t)
      /\ UNCHANGED <<opt, opened, session, received, queue, range, pending, current,
                     prevent, shown, main>>
  BY DEF PostNewFrame, Post, demuxer, regulators, screen, ending
<1>2. main = "loop" =>
        /\ events' \in Seq(EventNames)
        /\ Frames(events) = {} => \A i, j \in Frames(events') : i = j
  BY <1>1, FramesAppend DEF Types, EventNames
<1>3. NotifyInv' \/ \E u \in Sources : at'[u] = "post" /\ (at[u] # "post" \/ u = t)
  BY <1>1, <1>2 DEF NotifyInv
<1>4. CASE t = "demuxer"
  <2>1. CallTypes /\ Others("demuxer") /\ Past
    BY <1>1, <1>4, DemuxerDelivered
  <2>2. /\ DemuxerInv' /\ RegulatorInv'
        /\ \A r \in Regulators : at'[r] = at[r] /\ item'[r] = item[r] /\ todo'[r] = todo[r]
        /\ \A u \in Sources : item'[u].frame <= received'
        /\ \A u \in Sources : at'[u] = "post" => at[u] = "post" /\ u # "demuxer"
    BY <2>1, <1>1, <1>4, DemuxerKeeps
  <2>3. Types'
    BY <1>1, <1>2, <2>1 DEF Types, CallTypes
  <2>4. NumberInv'
    <3>1. ~(Plays /\ Delayed /\ range["screen_vr"] = 0)
      BY <1>1, <1>4, FirstIsPast
    <3> QED BY <3>1, <1>1, <2>2 DEF NumberInv, Plays, Delayed
  <2>5. DirectInv'
    BY <1>1, <1>4 DEF DirectInv, Plays, Delayed
  <2>6. QueueInv'
    <3>1. Settled
      BY <1>1, <1>4 DEF Settled
    <3> QED BY <3>1, <1>1, <2>2, SourcesFacts DEF QueueInv, Active, Base, IsFrame
  <2>7. FlagInv'
    <3>1. at["demuxer"] \notin {"close", "exited"}
      BY <1>1, <1>4
    <3> QED BY <3>1, <1>1, <2>2, SourcesFacts DEF FlagInv, ScreenCaller, Delayed
  <2> QED BY <1>3, <1>4, <2>2, <2>3, <2>4, <2>5, <2>6, <2>7
<1>5. CASE t = "screen_vr"
  <2>1. CallTypes /\ Others(t) /\ at'[t] = "wait" /\ item'[t] = None /\ Active(t)
    BY <1>1, <1>5, SourcesFacts, RegulatorDelivered DEF Active
  <2>2. /\ at'["demuxer"] = at["demuxer"] /\ item'["demuxer"] = item["demuxer"]
        /\ todo'["demuxer"] = todo["demuxer"] /\ DemuxerInv' /\ RegulatorInv'
        /\ \A u \in Sources : item'[u].frame <= received'
        /\ \A u \in Sources : at'[u] = "post" => at[u] = "post" /\ u # t
    BY <2>1, <1>1, <1>5, SourcesFacts, RegulatorKeeps
  <2>3. Types'
    BY <1>1, <1>2, <2>1 DEF Types, CallTypes
  <2>4. NumberInv'
    BY <1>1, <2>2 DEF NumberInv, Plays, Delayed, IsFrame
  <2>5. DirectInv'
    BY <1>1, <2>2 DEF DirectInv, Plays, Delayed, IsFrame
  <2>6. QueueInv'
    BY <1>1, <1>5, <2>1, <2>2 DEF QueueInv, Active, Base, Settled, IsFrame
  <2>7. FlagInv'
    BY <1>1, <1>5, <2>1, <2>2 DEF FlagInv, ScreenCaller, Delayed
  <2> QED BY <1>3, <2>2, <2>3, <2>4, <2>5, <2>6, <2>7
<1>6. t # "v4l2_vr"
  BY <1>1 DEF RegulatorInv
<1> QED BY <1>4, <1>5, <1>6, SourcesFacts

(* A session is pushed to the screen.                                      *)
LEMMA ScreenPushSessionKeeps ==
  ASSUME PipelineInv, NEW t \in Sources, ScreenPushSession(t)
  PROVE  PipelineInv'
<1> USE DEF PipelineInv
<1>1. /\ Delivering(t, "screen") /\ ~IsFrame(item[t]) /\ at[t] = "deliver"
      /\ current' = item[t].session /\ Delivered(t)
      /\ UNCHANGED <<opt, opened, session, received, queue, range, pending,
                     prevent, shown, main, events>>
  BY DEF ScreenPushSession, Delivering, demuxer, regulators, ending
<1>2. current' \in Nat
  BY <1>1 DEF Types, Data
<1>3. CASE t = "demuxer"
  <2>1. CallTypes /\ Others("demuxer") /\ Past
    BY <1>1, <1>3, DemuxerDelivered
  <2>2. /\ DemuxerInv' /\ RegulatorInv'
        /\ \A r \in Regulators : at'[r] = at[r] /\ item'[r] = item[r] /\ todo'[r] = todo[r]
        /\ \A u \in Sources : item'[u].frame <= received'
        /\ \A u \in Sources : at'[u] = "post" => at[u] = "post" /\ u # "demuxer"
    BY <2>1, <1>1, <1>3, DemuxerKeeps
  <2>3. ~Delayed /\ item[t].session = session
    BY <1>1, <1>3 DEF Delivering, DemuxerInv
  <2>4. Types'
    BY <1>1, <1>2, <2>1 DEF Types, CallTypes
  <2>5. NumberInv'
    BY <1>1, <2>2, <2>3 DEF NumberInv, Delayed
  <2>6. DirectInv'
    BY <1>1, <2>3 DEF DirectInv
  <2>7. QueueInv'
    <3>1. at'["screen_vr"] = "off"
      BY <2>2, <2>3, SourcesFacts DEF RegulatorInv
    <3> QED BY <3>1 DEF QueueInv
  <2>8. NotifyInv'
    BY <1>1, <2>2, NotifyKept DEF Types, EventsKept
  <2>9. FlagInv'
    <3>1. at["demuxer"] \notin {"close", "exited"}
      BY <1>1, <1>3
    <3> QED BY <3>1, <1>1, <2>2, SourcesFacts DEF FlagInv, ScreenCaller, Delayed
  <2> QED BY <2>2, <2>4, <2>5, <2>6, <2>7, <2>8, <2>9
<1>4. CASE t = "screen_vr"
  <2>1. CallTypes /\ Others(t) /\ at'[t] = "wait" /\ item'[t] = None /\ Active(t)
    BY <1>1, <1>4, SourcesFacts, RegulatorDelivered DEF Active
  <2>2. /\ at'["demuxer"] = at["demuxer"] /\ item'["demuxer"] = item["demuxer"]
        /\ todo'["demuxer"] = todo["demuxer"] /\ DemuxerInv' /\ RegulatorInv'
        /\ \A u \in Sources : item'[u].frame <= received'
        /\ \A u \in Sources : at'[u] = "post" => at[u] = "post" /\ u # t
    BY <2>1, <1>1, <1>4, SourcesFacts, RegulatorKeeps
  <2>3. Types'
    BY <1>1, <1>2, <2>1 DEF Types, CallTypes
  <2>4. NumberInv'
    BY <1>1, <2>2 DEF NumberInv, Plays, Delayed, IsFrame
  <2>5. DirectInv'
    BY <1>1, <1>4 DEF DirectInv, RegulatorInv, Delayed
  <2>6. QueueInv'
    <3>1. Base = item[t].session /\ Base' = current'
      BY <1>1, <1>4, <2>1 DEF Base
    <3> QED BY <3>1, <1>1, <1>4, <2>1, <2>2 DEF QueueInv, Active, Settled, IsFrame
  <2>7. NotifyInv'
    BY <1>1, <2>2, NotifyKept DEF Types, EventsKept
  <2>8. FlagInv'
    BY <1>1, <1>4, <2>1, <2>2 DEF FlagInv, ScreenCaller, Delayed
  <2> QED BY <2>2, <2>3, <2>4, <2>5, <2>6, <2>7, <2>8
<1>5. t # "v4l2_vr"
  BY <1>1, SourcesFacts, RegulatorSinks DEF Delivering, RegulatorInv, Active
<1> QED BY <1>3, <1>4, <1>5, SourcesFacts

(* The V4L2 sink is called.                                                *)
LEMMA V4l2PushKeeps ==
  ASSUME PipelineInv, NEW t \in Sources, V4l2Push(t)
  PROVE  PipelineInv'
<1> USE DEF PipelineInv
<1>1. /\ Delivering(t, "v4l2") /\ at[t] = "deliver" /\ Delivered(t)
      /\ UNCHANGED <<opt, opened, session, received, queue, range, current,
                     prevent, shown, main, events>>
  BY DEF V4l2Push, Delivering, demuxer, regulators, screen, ending
<1>2. pending' \in [Buffers -> Data] /\ pending'["screen"] = pending["screen"]
  BY DEF V4l2Push, Types, Buffers
<1>3. CASE t = "demuxer"
  <2>1. CallTypes /\ Others("demuxer") /\ Past
    BY <1>1, <1>3, DemuxerDelivered
  <2>2. /\ DemuxerInv' /\ RegulatorInv'
        /\ \A r \in Regulators : at'[r] = at[r] /\ item'[r] = item[r] /\ todo'[r] = todo[r]
        /\ \A u \in Sources : item'[u].frame <= received'
        /\ \A u \in Sources : at'[u] = "post" => at[u] = "post" /\ u # "demuxer"
    BY <2>1, <1>1, <1>3, DemuxerKeeps
  <2>3. Types'
    BY <1>1, <1>2, <2>1 DEF Types, CallTypes
  <2>4. NumberInv'
    <3>1. Plays /\ Delayed /\ range["screen_vr"] = 0 => received = 0
      BY <1>1, <1>3, FirstIsPast DEF Delivering
    <3> QED BY <3>1, <1>1, <1>2, <2>2 DEF NumberInv, Plays, Delayed
  <2>5. DirectInv'
    BY <1>1, <1>3 DEF DirectInv, Delivering, Plays, Delayed
  <2>6. QueueInv'
    <3>1. Settled
      BY <1>1, <1>3 DEF Settled, Delivering
    <3> QED BY <3>1, <1>1, <2>2, SourcesFacts DEF QueueInv, Active, Base, IsFrame
  <2>7. NotifyInv'
    BY <1>1, <1>2, <2>2, NotifyKept DEF Types, EventsKept
  <2>8. FlagInv'
    <3>1. at["demuxer"] \notin {"close", "exited"}
      BY <1>1, <1>3
    <3> QED BY <3>1, <1>1, <1>2, <2>2, SourcesFacts DEF FlagInv, ScreenCaller, Delayed
  <2> QED BY <2>2, <2>3, <2>4, <2>5, <2>6, <2>7, <2>8
<1>4. CASE t = "v4l2_vr"
  <2>1. CallTypes /\ Others(t) /\ at'[t] = "wait" /\ item'[t] = None /\ Active(t)
    BY <1>1, <1>4, SourcesFacts, RegulatorDelivered DEF Active
  <2>2. /\ at'["demuxer"] = at["demuxer"] /\ item'["demuxer"] = item["demuxer"]
        /\ todo'["demuxer"] = todo["demuxer"] /\ DemuxerInv' /\ RegulatorInv'
        /\ at'["screen_vr"] = at["screen_vr"] /\ item'["screen_vr"] = item["screen_vr"]
        /\ \A u \in Sources : item'[u].frame <= received'
        /\ \A u \in Sources : at'[u] = "post" => at[u] = "post" /\ u # t
    BY <2>1, <1>1, <1>4, SourcesFacts, RegulatorKeeps
  <2>3. Types'
    BY <1>1, <1>2, <2>1 DEF Types, CallTypes
  <2>4. NumberInv'
    BY <1>1, <1>2, <2>2 DEF NumberInv, Plays, Delayed, IsFrame
  <2>5. DirectInv'
    BY <1>1, <2>2 DEF DirectInv, Plays, Delayed, IsFrame
  <2>6. QueueInv'
    BY <1>1, <2>2 DEF QueueInv, Active, Base, Settled, IsFrame
  <2>7. NotifyInv'
    BY <1>1, <1>2, <2>2, NotifyKept DEF Types, EventsKept
  <2>8. FlagInv'
    BY <1>1, <1>2, <2>2 DEF FlagInv, ScreenCaller, Delayed
  <2> QED BY <2>2, <2>3, <2>4, <2>5, <2>6, <2>7, <2>8
<1>5. t # "screen_vr"
  BY <1>1, SourcesFacts, RegulatorSinks DEF Delivering, RegulatorInv, Active
<1> QED BY <1>3, <1>4, <1>5, SourcesFacts

(* The item that a regulator is given is queued, or passed on at once.     *)
LEMMA RegulatorPushKeeps ==
  ASSUME PipelineInv, NEW r \in Regulators, RegulatorPush(r)
  PROVE  PipelineInv'
<1> USE DEF PipelineInv
<1> DEFINE x == item["demuxer"]
           rest == Tail(todo["demuxer"])
           first == IsFrame(x) /\ range[r] = 0
<1>1. /\ Delivering("demuxer", r) /\ at["demuxer"] = "deliver"
      /\ UNCHANGED <<opt, pending, current, prevent, shown, main, events>>
  BY DEF RegulatorPush, Delivering, screen, ending
<1>2. CASE stopped[r]
  <2>1. CloseSinks(opened, "error") /\ UNCHANGED <<queue, range>>
    BY <1>2 DEF RegulatorPush, Rejected, regulators
  <2> QED BY <2>1, <1>1, EndKeeps DEF EventsKept
<1>3. ASSUME ~stopped[r]
      PROVE  /\ UNCHANGED <<opened, session, received>>
             /\ range' = IF IsFrame(x) THEN [range EXCEPT ![r] = 1] ELSE range
             /\ first => Call("demuxer", x, Sinks(r) \o rest) /\ UNCHANGED queue
             /\ ~first => queue' = [queue EXCEPT ![r] = Append(@, x)] /\ Delivered("demuxer")
  BY <1>3 DEF RegulatorPush, demuxer
<1>4. /\ x \in Data /\ x.session = session /\ x.frame <= received /\ received \in Nat
      /\ IsFrame(x) => x.frame = received
      /\ todo["demuxer"] \in Seq(Sink) /\ todo["demuxer"] # <<>>
      /\ ScreenFirst(todo["demuxer"]) /\ Head(todo["demuxer"]) = r
      /\ r = "screen_vr" => Plays /\ Delayed
  BY <1>1, SourcesFacts DEF Types, DemuxerInv, NumberInv, Delivering, Screens
<1>5. rest \in Seq(Sink) /\ NoScreen(rest)
  BY <1>4, TailHasNoScreen
<1>6. at["demuxer"] \notin {"close", "exited"}
  BY <1>1
<1>7. CASE ~stopped[r] /\ first
  <2> DEFINE s == Sinks(r) \o rest
             b == Head(Sinks(r))
  <2>1. /\ s \in Seq(Sink) /\ s # <<>> /\ ScreenFirst(s) /\ Head(s) = b
        /\ r = "screen_vr" => b = "screen"
        /\ r = "v4l2_vr" => b = "v4l2"
    <3>1. Sinks(r) = <<b>> /\ b \in Sink
      BY RegulatorSinks, SourcesFacts DEF Sink, Buffers
    <3> HIDE DEF b
    <3>2. /\ <<b>> \o rest \in Seq(Sink) /\ <<b>> \o rest # <<>>
          /\ Head(<<b>> \o rest) = b /\ ScreenFirst(<<b>> \o rest)
      BY <3>1, <1>5, ScreenThen
    <3> QED BY <3>1, <3>2, RegulatorSinks DEF b
  <2>2. Call("demuxer", x, s)
    BY <1>3, <1>7
  <2> HIDE DEF s, b
  <2>3. /\ CallTypes /\ Others("demuxer")
        /\ at'["demuxer"] = "deliver" /\ item'["demuxer"] = x /\ todo'["demuxer"] = s
    BY <2>1, <2>2, <1>4, CallFacts, SourcesFacts
  <2>4. \A q \in Regulators : at'[q] = at[q] /\ item'[q] = item[q] /\ todo'[q] = todo[q]
    BY <2>3, SourcesFacts DEF Others
  <2>5. /\ UNCHANGED <<opened, session, received, queue>>
        /\ range' = [range EXCEPT ![r] = 1]
    BY <1>3, <1>7
  <2>6. r = "screen_vr" => received = 1 /\ range'["screen_vr"] = 1
    BY <1>1, <1>4, <1>7, <2>5 DEF NumberInv, Types, IsFrame
  <2>7. r = "v4l2_vr" => range'["screen_vr"] = range["screen_vr"]
    BY <2>5, SourcesFacts DEF Types
  <2>8. Types'
    BY <1>1, <2>3, <2>5 DEF Types, CallTypes
  <2>9. DemuxerInv'
    BY <1>1, <1>4, <1>7, <2>1, <2>3, <2>5, <2>6, SourcesFacts DEF DemuxerInv, Plays, Delayed, Screens, ScreenFirst, IsFrame
  <2>10. RegulatorInv'
    <3>1. \A q \in Regulators : Sinks(q)' = Sinks(q)
      BY SourcesFacts DEF Sinks
    <3> QED BY <3>1, <1>1, <2>3, <2>4, <2>5, SourcesFacts DEF RegulatorInv, Plays, Delayed, Active, IsFrame
  <2>11. NumberInv'
    <3>1. \A t \in Sources : item'[t].frame <= received'
      BY <1>4, <2>3, <2>4, <2>5, SourcesFacts DEF NumberInv
    <3>2. Plays' /\ Delayed' /\ range'["screen_vr"] = 0 => received = 0
      BY <1>1, <1>4, <2>6, <2>7, SourcesFacts, FirstIsPast DEF Plays, Delayed
    <3> QED BY <3>1, <3>2, <1>1, <2>5 DEF NumberInv
  <2>12. DirectInv'
    <3>1. Plays /\ ~Delayed => current = session
      BY <1>1, <1>7 DEF DirectInv
    <3> QED BY <3>1, <1>1, <2>5 DEF DirectInv, Plays, Delayed
  <2>13. QueueInv'
    <3>1. Settled
      BY <1>1, <1>7 DEF Settled
    <3> QED BY <3>1, <1>1, <2>4, <2>5, SourcesFacts DEF QueueInv, Active, Base, IsFrame
  <2>14. NotifyInv'
    <3>1. \A t \in Sources : at'[t] = "post" => at[t] = "post"
      BY <2>3, <2>4, SourcesFacts
    <3> QED BY <3>1, <1>1, NotifyKept DEF Types, EventsKept
  <2>15. FlagInv'
    BY <1>1, <1>6, <2>4, SourcesFacts DEF FlagInv, ScreenCaller, Delayed
  <2> QED BY <2>8, <2>9, <2>10, <2>11, <2>12, <2>13, <2>14, <2>15
<1>8. CASE ~stopped[r] /\ ~first
  <2>1. CallTypes /\ Others("demuxer") /\ Past
    BY <1>1, <1>3, <1>8, DemuxerDelivered
  <2>2. /\ UNCHANGED <<opened, session, received>>
        /\ queue' = [queue EXCEPT ![r] = Append(@, x)]
        /\ range' = IF IsFrame(x) THEN [range EXCEPT ![r] = 1] ELSE range
    BY <1>3, <1>8
  <2>3. /\ DemuxerInv' /\ RegulatorInv'
        /\ \A q \in Regulators : at'[q] = at[q] /\ item'[q] = item[q] /\ todo'[q] = todo[q]
        /\ \A u \in Sources : item'[u].frame <= received'
        /\ \A u \in Sources : at'[u] = "post" => at[u] = "post" /\ u # "demuxer"
    BY <2>1, <2>2, <1>1, DemuxerKeeps
  <2>4. /\ queue[r] \in Seq(Data) /\ Append(queue[r], x) \in Seq(Data)
        /\ Below(Append(queue[r], x), received)
        /\ queue'[r] = Append(queue[r], x)
        /\ \A q \in Regulators : q # r => queue'[q] = queue[q]
    BY <1>4, <2>2, AppendProperties, BelowFacts DEF Types, NumberInv
  <2>5. Types'
    BY <1>1, <2>1, <2>2, <2>4 DEF Types, CallTypes
  <2>6. NumberInv'
    <3>1. Plays /\ Delayed /\ range'["screen_vr"] = 0 => received = 0
      <4>1. range'["screen_vr"] = 0 => range["screen_vr"] = 0
        BY <2>2, SourcesFacts DEF Types
      <4>2. CASE r = "screen_vr"
        BY <4>1, <4>2, <1>1, <1>8 DEF NumberInv
      <4>3. CASE r = "v4l2_vr"
        BY <4>1, <4>3, <1>1, <1>4, FirstIsPast
      <4> QED BY <4>2, <4>3, SourcesFacts
    <3> QED BY <3>1, <1>1, <2>2, <2>3, <2>4 DEF NumberInv, Plays, Delayed
  <2>7. DirectInv'
    <3>1. Plays /\ ~Delayed => current = session
      BY <1>1, <1>4, SourcesFacts DEF DirectInv
    <3> QED BY <3>1, <1>1, <2>2 DEF DirectInv, Plays, Delayed
  <2>8. QueueInv'
    <3>1. /\ at'["screen_vr"] = at["screen_vr"] /\ item'["screen_vr"] = item["screen_vr"]
          /\ Base' = Base
      BY <1>1, <2>3, SourcesFacts DEF Base, IsFrame
    <3>2. CASE r = "screen_vr"
      <4> SUFFICES ASSUME at["screen_vr"] \notin {"off", "exited"}
                   PROVE  QueueInv'
        BY <3>1 DEF QueueInv
      <4>1. /\ Active("screen_vr") /\ IsFrame(item["screen_vr"]) =>
                  item["screen_vr"].session = current
            /\ Chain(Base, queue[r])
            /\ Settled => EndOf(Base, queue[r]) = session
        BY <3>2 DEF QueueInv
      <4>2. IsFrame(x) => Settled
        BY <1>1 DEF Settled
      <4>3. /\ Chain(Base, Append(queue[r], x))
            /\ EndOf(Base, Append(queue[r], x)) = session
        BY <4>1, <4>2, <1>4, <2>4, ChainAppend
      <4> QED BY <4>1, <4>3, <3>1, <3>2, <1>1, <2>2, <2>4 DEF QueueInv, Active, IsFrame
    <3>3. CASE r # "screen_vr"
      <4>1. Settled /\ queue'["screen_vr"] = queue["screen_vr"]
        BY <3>3, <1>1, <1>4, <2>4, SourcesFacts DEF Settled
      <4> QED BY <4>1, <3>1, <1>1, <2>2 DEF QueueInv, Active, IsFrame
    <3> QED BY <3>2, <3>3
  <2>9. NotifyInv'
    BY <1>1, <2>3, NotifyKept DEF Types, EventsKept
  <2>10. FlagInv'
    BY <1>1, <1>6, <2>3, SourcesFacts DEF FlagInv, ScreenCaller, Delayed
  <2> QED BY <2>3, <2>5, <2>6, <2>7, <2>8, <2>9, <2>10
<1> QED BY <1>2, <1>7, <1>8

-------------------------------------------------------------------------------
(* The threads of the regulators.                                          *)

(* A regulator takes the head of its queue.                                *)
LEMMA TakeKeeps ==
  ASSUME PipelineInv, NEW r \in Regulators, Take(r)
  PROVE  PipelineInv'
<1> USE DEF PipelineInv
<1> DEFINE x == Head(queue[r])
<1>1. /\ at[r] = "wait" /\ queue[r] # <<>>
      /\ queue' = [queue EXCEPT ![r] = Tail(@)] /\ item' = [item EXCEPT ![r] = x]
      /\ at' = [at EXCEPT ![r] = IF IsFrame(x) THEN "timed" ELSE "deliver"]
      /\ todo' = [todo EXCEPT ![r] = Sinks(r)]
      /\ UNCHANGED <<opt, opened, session, received, range, pending, current, prevent,
                     shown, main, events>>
  BY DEF Take, demuxer, screen, ending
<1>2. /\ queue[r] \in Seq(Data) /\ x \in Data /\ Tail(queue[r]) \in Seq(Data)
      /\ x.frame <= received /\ Below(Tail(queue[r]), received)
  BY <1>1, HeadTailProperties, BelowFacts DEF Types, NumberInv
<1> HIDE DEF x
<1>3. /\ at'[r] = (IF IsFrame(x) THEN "timed" ELSE "deliver") /\ item'[r] = x
      /\ todo'[r] = Sinks(r) /\ queue'[r] = Tail(queue[r])
      /\ \A t \in Sources : t # r => at'[t] = at[t] /\ item'[t] = item[t]
                                     /\ todo'[t] = todo[t]
      /\ \A q \in Regulators : q # r => queue'[q] = queue[q]
  BY <1>1, SourcesFacts DEF Types
<1>4. /\ at'["demuxer"] = at["demuxer"] /\ item'["demuxer"] = item["demuxer"]
      /\ todo'["demuxer"] = todo["demuxer"]
  BY <1>3, SourcesFacts
<1>5. Types'
  BY <1>1, <1>2 DEF Types
<1>6. DemuxerInv'
  BY <1>1, <1>4 DEF DemuxerInv, Plays, Delayed, Screens, ScreenFirst, IsFrame
<1>7. RegulatorInv'
  <2>1. \A q \in Regulators : Sinks(q)' = Sinks(q)
    BY SourcesFacts DEF Sinks
  <2> QED BY <2>1, <1>1, <1>3, <1>4, SourcesFacts DEF RegulatorInv, Plays, Delayed, Active, IsFrame
<1>8. NumberInv'
  BY <1>1, <1>2, <1>3, <1>4 DEF NumberInv, Plays, Delayed, IsFrame
<1>9. DirectInv'
  BY <1>1, <1>4 DEF DirectInv, Plays, Delayed, IsFrame
<1>10. QueueInv'
  <2>1. CASE r = "screen_vr"
    <3>1. Base = current
      BY <2>1, <1>1 DEF Base
    <3>2. /\ Chain(current, queue[r])
          /\ Settled => EndOf(current, queue[r]) = session
      BY <3>1, <2>1, <1>1 DEF QueueInv
    <3>3. /\ IsFrame(x) => x.session = current
          /\ Chain(x.session, Tail(queue[r]))
          /\ EndOf(x.session, Tail(queue[r])) = EndOf(current, queue[r])
      BY <3>2, <1>1, <1>2, ChainHead DEF x
    <3>4. Base' = x.session
      BY <3>3, <2>1, <1>1, <1>3 DEF Base
    <3>5. Settled' = Settled
      BY <1>4 DEF Settled, IsFrame
    <3>6. IsFrame(item'["screen_vr"]) => item'["screen_vr"].session = current'
      BY <3>3, <2>1, <1>1, <1>3
    <3> QED BY <3>2, <3>3, <3>4, <3>5, <3>6, <2>1, <1>1, <1>3 DEF QueueInv, IsFrame
  <2>2. CASE r # "screen_vr"
    <3>1. /\ at'["screen_vr"] = at["screen_vr"] /\ item'["screen_vr"] = item["screen_vr"]
          /\ queue'["screen_vr"] = queue["screen_vr"]
      BY <2>2, <1>3, SourcesFacts
    <3> QED BY <3>1, <1>1, <1>4 DEF QueueInv, Active, Base, Settled, IsFrame
  <2> QED BY <2>1, <2>2
<1>11. NotifyInv'
  <2>1. \A t \in Sources : at'[t] = "post" => at[t] = "post"
    BY <1>3
  <2> QED BY <2>1, <1>1, NotifyKept DEF Types, EventsKept
<1>12. FlagInv'
  BY <1>1, <1>3, <1>4, SourcesFacts DEF FlagInv, ScreenCaller, Delayed
<1> QED BY <1>5, <1>6, <1>7, <1>8, <1>9, <1>10, <1>11, <1>12

(* The delay of a frame is over.                                           *)
LEMMA TimeoutKeeps ==
  ASSUME PipelineInv, NEW r \in Regulators, Timeout(r)
  PROVE  PipelineInv'
<1> USE DEF PipelineInv
<1>1. /\ at[r] = "timed" /\ at' = [at EXCEPT ![r] = "deliver"]
      /\ UNCHANGED <<opt, item, todo, queue, opened, session, received, range, pending,
                     current, prevent, shown, main, events>>
  BY DEF Timeout, demuxer, regulators, screen, ending
<1>2. /\ at'[r] = "deliver" /\ IsFrame(item[r])
      /\ \A t \in Sources : t # r => at'[t] = at[t]
      /\ at'["demuxer"] = at["demuxer"]
  BY <1>1, SourcesFacts DEF Types, RegulatorInv
<1>3. Types'
  BY <1>1 DEF Types
<1>4. DemuxerInv'
  BY <1>1, <1>2 DEF DemuxerInv, Plays, Delayed, Screens, ScreenFirst, IsFrame
<1>5. RegulatorInv'
  <2>1. \A q \in Regulators : Sinks(q)' = Sinks(q)
    BY SourcesFacts DEF Sinks
  <2> QED BY <2>1, <1>1, <1>2, SourcesFacts DEF RegulatorInv, Plays, Delayed, Active, IsFrame
<1>6. NumberInv'
  BY <1>1, <1>2 DEF NumberInv, Plays, Delayed, IsFrame
<1>7. DirectInv'
  BY <1>1, <1>2 DEF DirectInv, Plays, Delayed, IsFrame
<1>8. QueueInv'
  BY <1>1, <1>2, SourcesFacts DEF QueueInv, Active, Base, Settled, IsFrame
<1>9. NotifyInv'
  <2>1. \A t \in Sources : at'[t] = "post" => at[t] = "post"
    BY <1>2
  <2> QED BY <2>1, <1>1, NotifyKept DEF Types, EventsKept
<1>10. FlagInv'
  BY <1>1, <1>2, SourcesFacts DEF FlagInv, ScreenCaller, Delayed
<1> QED BY <1>3, <1>4, <1>5, <1>6, <1>7, <1>8, <1>9, <1>10

-------------------------------------------------------------------------------
(* The end of the demuxer, the V4L2 thread and the main thread.            *)

(* Nothing changes but what is displayed and what is to be closed.         *)
LEMMA DisplayKeeps ==
  ASSUME PipelineInv,
         UNCHANGED <<opt, at, item, opened, session, received, queue, range, current,
                     prevent>>,
         \/ todo' = todo
         \/ /\ at["demuxer"] = "close" /\ todo' = [t \in Sources |-> todo'[t]]
            /\ \A r \in Regulators : todo'[r] = todo[r],
         pending' \in [Buffers -> Data], pending'["screen"] \in {pending["screen"], None},
         main' = "loop" => events' \in Seq(EventNames), NotifyInv', FlagInv'
  PROVE  PipelineInv'
<1> USE DEF PipelineInv
<1>1. \A r \in Regulators : todo'[r] = todo[r]
  OBVIOUS
<1>2. at["demuxer"] = "close" \/ todo' = todo
  OBVIOUS
<1>3. Types'
  BY DEF Types
<1>4. DemuxerInv'
  BY <1>2 DEF DemuxerInv, Plays, Delayed, Screens, ScreenFirst, IsFrame
<1>5. RegulatorInv'
  <2>1. \A q \in Regulators : Sinks(q)' = Sinks(q)
    BY SourcesFacts DEF Sinks
  <2> QED BY <2>1, <1>1 DEF RegulatorInv, Plays, Delayed, Active, IsFrame
<1>6. NumberInv'
  <2>1. /\ pending'["screen"].frame <= received
        /\ pending'["screen"] # None => IsFrame(pending'["screen"])
    BY NoneData DEF NumberInv, Types
  <2> QED BY <2>1, <1>2 DEF NumberInv, Plays, Delayed, IsFrame
<1>7. DirectInv'
  BY <1>2 DEF DirectInv, Plays, Delayed, IsFrame
<1>8. QueueInv'
  BY <1>2 DEF QueueInv, Active, Base, Settled, IsFrame
<1> QED BY <1>3, <1>4, <1>5, <1>6, <1>7, <1>8

(* No frame is rendered, and the loop may have ended. *)
LEMMA NothingShown ==
  ASSUME PipelineInv,
         UNCHANGED <<opt, at, item, opened, session, received, queue, range, current,
                     prevent, shown>>,
         \/ todo' = todo
         \/ /\ at["demuxer"] = "close" /\ todo' = [t \in Sources |-> todo'[t]]
            /\ \A r \in Regulators : todo'[r] = todo[r],
         pending' \in [Buffers -> Data], pending'["screen"] = pending["screen"],
         main' = "loop" => events' \in Seq(EventNames), NotifyInv'
  PROVE  PipelineInv'
<1> USE DEF PipelineInv
<1>1. FlagInv'
  BY DEF FlagInv, ScreenCaller, Delayed
<1> QED BY <1>1, DisplayKeeps DEF Types

(* The demuxer stops and closes a sink.                                    *)
LEMMA CloseSinkKeeps ==
  ASSUME PipelineInv, NEW s \in Regulators \cup Buffers, StopSink(s) \/ CloseSink(s)
  PROVE  PipelineInv'
<1> USE DEF PipelineInv
<1>1. /\ at["demuxer"] = "close"
      /\ UNCHANGED <<opt, at, item, opened, session, received, queue, range, current,
                     prevent, shown, pending, main, events>>
  BY DEF StopSink, CloseSink, ClosingSink, calls, demuxer, regulators, screen, ending
<1>2. \/ todo' = todo
      \/ todo' = [todo EXCEPT !["demuxer"] = Tail(@)]
  BY DEF StopSink, CloseSink, calls
<1>3. /\ todo' = [t \in Sources |-> todo'[t]]
      /\ \A r \in Regulators : todo'[r] = todo[r]
  BY <1>2, SourcesFacts DEF Types
<1>4. NotifyInv'
  BY <1>1, NotifyKept DEF Types, EventsKept
<1> QED BY <1>1, <1>3, <1>4, NothingShown DEF Types

(* The demuxer tells that it has ended.                                    *)
LEMMA OnEndedKeeps == PipelineInv /\ OnEnded => PipelineInv'
<1> SUFFICES ASSUME PipelineInv, OnEnded PROVE PipelineInv'
  OBVIOUS
<1> USE DEF PipelineInv
<1>1. /\ at["demuxer"] = "close" /\ at' = [at EXCEPT !["demuxer"] = "exited"]
      /\ UNCHANGED <<opt, item, todo, queue, opened, session, received, range, pending,
                     current, prevent, shown, main>>
  BY DEF OnEnded, demuxer, regulators, screen, ending
<1>2. EventsKept
  BY DEF OnEnded, Post, EventsKept, EventNames
<1>3. at'["demuxer"] = "exited" /\ \A r \in Regulators : at'[r] = at[r]
  BY <1>1, SourcesFacts DEF Types
<1>4. Types'
  BY <1>1, <1>2, EventsKeep DEF Types
<1>5. DemuxerInv'
  BY <1>3 DEF DemuxerInv
<1>6. RegulatorInv'
  <2>1. \A q \in Regulators : Sinks(q)' = Sinks(q)
    BY SourcesFacts DEF Sinks
  <2> QED BY <2>1, <1>1, <1>3, SourcesFacts DEF RegulatorInv, Plays, Delayed, Active, IsFrame
<1>7. NumberInv'
  BY <1>1, <1>3 DEF NumberInv, IsFrame
<1>8. DirectInv'
  BY <1>3 DEF DirectInv
<1>9. QueueInv'
  BY <1>1, <1>3, SourcesFacts DEF QueueInv, Active, Base, Settled, IsFrame
<1>10. NotifyInv'
  <2>1. \A t \in Sources : at'[t] = "post" => at[t] = "post"
    BY <1>3, SourcesFacts
  <2> QED BY <2>1, <1>1, <1>2, NotifyKept DEF Types
<1>11. FlagInv'
  BY <1>1, <1>3, SourcesFacts DEF FlagInv, ScreenCaller, Delayed
<1> QED BY <1>4, <1>5, <1>6, <1>7, <1>8, <1>9, <1>10, <1>11

(* The V4L2 thread.                                                        *)
LEMMA WriterKeeps == PipelineInv /\ (Writer \/ WriterFails) => PipelineInv'
<1> SUFFICES ASSUME PipelineInv, Writer \/ WriterFails PROVE PipelineInv'
  OBVIOUS
<1> USE DEF PipelineInv
<1>1. UNCHANGED <<opt, at, item, todo, opened, session, received, queue, range,
                  current, prevent, shown, main, events>>
  BY DEF Writer, WriterTakes, WriterWrites, WriterStops, WriterFails, calls, demuxer,
         regulators, screen, ending
<1>2. pending' \in [Buffers -> Data] /\ pending'["screen"] = pending["screen"]
  BY NoneData DEF Writer, WriterTakes, WriterWrites, WriterStops, WriterFails, Types, Buffers
<1>3. NotifyInv'
  BY <1>1, <1>2, NotifyKept DEF Types, EventsKept
<1> QED BY <1>1, <1>2, <1>3, NothingShown DEF Types

(* An event is handled. *)
LEMMA EventTaken ==
  ASSUME PipelineInv, NEW e, Event(e)
  PROVE  /\ events # <<>> /\ Head(events) = e /\ events' = Tail(events)
         /\ main = "loop" =>
              /\ events' \in Seq(EventNames)
              /\ \A i, j \in Frames(events') : i = j
              /\ Frames(events') # {} => Frames(events) # {}
              /\ e = "frame" => Frames(events) # {} /\ Frames(events') = {}
<1>1. events # <<>> /\ Head(events) = e /\ events' = Tail(events)
  BY DEF Event
<1>2. main = "loop" => events \in Seq(EventNames)
  BY DEF PipelineInv, Types
<1>3. main = "loop" => events' \in Seq(EventNames)
  BY <1>1, <1>2, HeadTailProperties
<1>4. main = "loop" => \A i, j \in Frames(events) : i = j
  BY DEF PipelineInv, NotifyInv
<1> QED BY <1>1, <1>2, <1>3, <1>4, FramesTail

(* The window is opened.                                                   *)
LEMMA OpenWindowKeeps == PipelineInv /\ OpenWindow => PipelineInv'
<1> SUFFICES ASSUME PipelineInv, OpenWindow PROVE PipelineInv'
  OBVIOUS
<1> USE DEF PipelineInv
<1>1. /\ UNCHANGED <<opt, at, item, todo, opened, session, received, queue, range,
                     current, prevent, shown, pending, main>>
      /\ Event("open") /\ main = "loop"
  BY DEF OpenWindow, calls, demuxer, regulators, ending
<1>2. NotifyInv'
  BY <1>1, EventTaken DEF NotifyInv
<1> QED BY <1>1, <1>2, EventTaken, NothingShown DEF Types

(* The pending frame is rendered, or set aside.                            *)
LEMMA NewFrameKeeps == PipelineInv /\ NewFrame => PipelineInv'
<1> SUFFICES ASSUME PipelineInv, NewFrame PROVE PipelineInv'
  OBVIOUS
<1> USE DEF PipelineInv
<1> DEFINE x == pending["screen"]
<1>1. /\ UNCHANGED <<opt, at, item, todo, opened, session, received, queue, range,
                     current, prevent, main>>
      /\ Event("frame") /\ main = "loop" /\ pending' = [pending EXCEPT !["screen"] = None]
      /\ shown' \in {shown, [frame |-> x.frame, session |-> x.session, flag |-> prevent]}
  BY DEF NewFrame, Flag, calls, demuxer, regulators, ending
<1>2. x # None /\ \A t \in Sources : at[t] # "post"
  BY <1>1, EventTaken DEF NotifyInv
<1>3. x \in Data /\ pending' \in [Buffers -> Data] /\ pending'["screen"] = None
  BY <1>1, NoneData DEF Types, Buffers
<1>4. NotifyInv'
  BY <1>1, <1>2, EventTaken DEF NotifyInv
<1>5. FlagInv'
  BY <1>1, <1>2, <1>3 DEF FlagInv, ScreenCaller, Delayed
<1> QED BY <1>1, <1>3, <1>4, <1>5, EventTaken, DisplayKeeps

(* The display is paused or resumed.                                       *)
LEMMA SetPausedKeeps == ASSUME PipelineInv, NEW p \in BOOLEAN, SetPaused(p) PROVE PipelineInv'
<1> USE DEF PipelineInv
<1>1. /\ UNCHANGED <<opt, at, item, todo, opened, session, received, queue, range,
                     current, prevent, main, pending, events>>
      /\ shown' = shown \/ shown'.flag = 0
  BY DEF SetPaused, calls, demuxer, regulators, ending
<1>2. NotifyInv'
  BY <1>1, NotifyKept DEF Types, EventsKept
<1>3. FlagInv'
  BY <1>1 DEF FlagInv, ScreenCaller, Delayed
<1> QED BY <1>1, <1>2, <1>3, DisplayKeeps DEF Types

(* The loop ends, or has ended, and what the thread of disconnect.c posts. *)
LEMMA EndingKeeps ==
  ASSUME PipelineInv,
         \/ Disconnected \/ DemuxerError \/ LoopEnds \/ StopServer \/ DiscardEvent
         \/ QuitDisplayed \/ JoinDemuxer \/ DestroyScreen \/ Disc
  PROVE  PipelineInv'
<1> USE DEF PipelineInv
<1>1. UNCHANGED <<opt, at, item, todo, opened, session, received, queue, range,
                  current, prevent, shown, pending>>
  BY DEF Disconnected, DemuxerError, LoopEnds, StopServer, DiscardEvent, QuitDisplayed,
         JoinDemuxer, DestroyScreen, Disc, LoadIcon, DiscEnds, calls, demuxer,
         regulators, screen
<1>2. main' # "loop" \/ (main' = main /\ EventsKept)
  BY DEF Disconnected, DemuxerError, LoopEnds, StopServer, DiscardEvent, QuitDisplayed,
         JoinDemuxer, DestroyScreen, Disc, LoadIcon, DiscEnds, Post, EventsKept, EventNames
<1>3. NotifyInv'
  BY <1>1, <1>2, NotifyKept DEF Types, NotifyInv
<1>4. main' = "loop" => events' \in Seq(EventNames)
  BY <1>2, EventsKeep DEF Types
<1> QED BY <1>1, <1>3, <1>4, NothingShown DEF Types

-------------------------------------------------------------------------------
(* The invariant, and the flag of the frames.                              *)

(* Whoever calls a sink.                                                   *)
LEMMA DeliverKeeps ==
  ASSUME PipelineInv, NEW t \in Sources, Deliver(t)
  PROVE  PipelineInv'
BY ScreenPushKeeps, PostNewFrameKeeps, ScreenPushSessionKeeps, V4l2PushKeeps DEF Deliver

(* The sinks are called in order, the sessions reach the screen in the     *)
(* order of the frames, at most one notification is on its way, and the    *)
(* frame pending is next to the flag of its session.                       *)
THEOREM PipelineInvariant == Spec => []PipelineInv
<1>1. Init => PipelineInv
  <2> SUFFICES ASSUME Init PROVE PipelineInv
    OBVIOUS
  <2>1. Types
    <3>1. <<>> \in Seq(Data) /\ <<>> \in Seq(EventNames)
      BY EmptySeq
    <3> QED BY <3>1, NoneData DEF Init, Types
  <2>2. DemuxerInv
    BY SourcesFacts DEF Init, DemuxerInv
  <2>3. RegulatorInv
    BY SourcesFacts DEF Init, RegulatorInv, Active
  <2>4. NumberInv
    <3>1. \A r \in Regulators : Below(queue[r], received)
      BY DEF Init, Below
    <3> QED BY <3>1, NoneData DEF Init, NumberInv, Buffers
  <2>5. DirectInv
    BY SourcesFacts DEF Init, DirectInv
  <2>6. QueueInv
    BY SourcesFacts DEF Init, QueueInv
  <2>7. NotifyInv
    <3>1. Frames(<<>>) = {}
      BY DEF Frames
    <3> QED BY <3>1 DEF Init, NotifyInv
  <2>8. FlagInv
    BY DEF Init, FlagInv, Buffers
  <2> QED BY <2>1, <2>2, <2>3, <2>4, <2>5, <2>6, <2>7, <2>8 DEF PipelineInv
<1>2. PipelineInv /\ [Next]_vars => PipelineInv'
  <2> SUFFICES ASSUME PipelineInv, [Next]_vars PROVE PipelineInv'
    OBVIOUS
  <2>1. CASE UNCHANGED vars
    <3>1. UNCHANGED <<opt, at, item, todo, opened, session, received, queue, range,
                      current, prevent, shown, pending, main, events>>
      BY <2>1 DEF vars, calls, demuxer, regulators, screen, ending
    <3>2. NotifyInv'
      BY <3>1, NotifyKept DEF PipelineInv, Types, EventsKept
    <3> QED BY <3>1, <3>2, NothingShown DEF PipelineInv, Types
  <2>2. CASE Demuxer
    BY <2>2, OpenBranchKeeps, AllOpenKeeps, StartKeeps, EndOfStreamKeeps, DeliverKeeps,
       RegulatorPushKeeps, CloseSinkKeeps, OnEndedKeeps, SourcesFacts DEF Demuxer
  <2>3. CASE StartStream \/ OpenFails \/ RecvSession \/ RecvFrame \/ EndOfStream \/ RecvFails
    BY <2>3, StartKeeps, EndOfStreamKeeps, RecvSessionKeeps, RecvFrameKeeps
  <2>4. CASE \E t \in Sources : PushFails(t)
    BY <2>4, PushFailsKeeps
  <2>5. CASE \E r \in Regulators : Regulator(r)
    BY <2>5, TakeKeeps, TimeoutKeeps, RegulatorStopsKeeps, DeliverKeeps, SourcesFacts
       DEF Regulator
  <2>6. CASE Writer \/ WriterFails
    BY <2>6, WriterKeeps
  <2>7. CASE Main \/ LoopEnds \/ QuitDisplayed \/ Disc
    BY <2>7, OpenWindowKeeps, NewFrameKeeps, EndingKeeps DEF Main
  <2>8. CASE \E p \in BOOLEAN : SetPaused(p)
    BY <2>8, SetPausedKeeps
  <2> QED BY <2>1, <2>2, <2>3, <2>4, <2>5, <2>6, <2>7, <2>8 DEF Next
<1> QED BY <1>1, <1>2, PTL DEF Spec

(* FlagOfFrame.  A frame is rendered with the flag "client resized" of its *)
(* own session, whatever the regulators, the sessions that follow and the  *)
(* frames that are replaced (screen.c:452-466, video_regulator.c).         *)
THEOREM FlagGoesWithFrame == Spec => []FlagOfFrame
<1>1. PipelineInv => FlagOfFrame
  BY DEF PipelineInv, FlagInv, FlagOfFrame, Delayed
<1> QED BY <1>1, PipelineInvariant, PTL

-------------------------------------------------------------------------------
(* The last frame: the inductive invariant.                                *)

Taps == "v4l2" \in opt
TapDelayed == "v4l2_buffer" \in opt

(* What is left to call: the V4L2 branch is the last one.                  *)
TapSinks == IF Taps THEN <<V4l2Branch[1]>> ELSE <<>>
TodoInv ==
  at["demuxer"] \in {"deliver", "post"} =>
    /\ Head(todo["demuxer"]) \in Screens => Tail(todo["demuxer"]) = TapSinks
    /\ Head(todo["demuxer"]) \notin Screens => Tail(todo["demuxer"]) = <<>> /\ Taps
    /\ Head(todo["demuxer"]) = "v4l2_vr" => TapDelayed
    /\ Head(todo["demuxer"]) = "v4l2" /\ TapDelayed => IsFrame(item["demuxer"])

(* The regulators that run are those of the branches opened.               *)
OpenInv ==
  /\ at["demuxer"] \in {"recv", "deliver", "post"} => opened = Len(Branches)
  /\ opened > 0 /\ Plays /\ Delayed => at["screen_vr"] # "off"
  /\ opened = Len(Branches) /\ Taps /\ TapDelayed => at["v4l2_vr"] # "off"
  /\ at["v4l2_vr"] # "off" => TapDelayed /\ opened = Len(Branches)

(* A frame that is pending is announced, and a frame is set aside only     *)
(* while the display is paused.                                            *)
AnnouncedInv ==
  /\ main = "loop" /\ pending["screen"] # None =>
       Frames(events) # {} \/ \E t \in Sources : at[t] = "post"
  /\ hasFrame <=> pending["v4l2"] # None
  /\ ~paused => resume = None

(* For the branch of the regulator r, whether it is used or not: is it in  *)
(* the tree, are its frames delayed, its buffer, and the last frame that   *)
(* went through it.                                                        *)
Uses(r) == IF r = "screen_vr" THEN Plays ELSE Taps
Late(r) == IF r = "screen_vr" THEN Delayed ELSE TapDelayed
Buffer(r) == IF r = "screen_vr" THEN "screen" ELSE "v4l2"
ScreenLast ==
  IF pending["screen"] # None THEN pending["screen"].frame
  ELSE IF resume # None THEN resume.frame ELSE shown.frame
TapLast == IF pending["v4l2"] # None THEN pending["v4l2"].frame ELSE writing.frame
Newest(r) == IF r = "screen_vr" THEN ScreenLast ELSE TapLast

(* The first frame goes around the queue of a regulator that has no other. *)
Clear(q) == \A i \in DOMAIN q : ~IsFrame(q[i])
FirstInv ==
  \A r \in Regulators :
    Late(r) /\ (range[r] = 0 \/ (at["demuxer"] = "deliver" /\ Head(todo["demuxer"]) = Buffer(r))) =>
      Clear(queue[r]) /\ ~IsFrame(item[r])

(* n is the last frame of the queue q, or b if it has none.                *)
EndsWith(q, b, n) ==
  /\ Clear(q) => b = n
  /\ \A i \in DOMAIN q :
       IsFrame(q[i]) /\ (\A j \in DOMAIN q : j > i => ~IsFrame(q[j])) => q[i].frame = n

(* The demuxer has still to give its frame to the branch.                  *)
Ahead(r) ==
  /\ at["demuxer"] \in {"deliver", "post"} /\ IsFrame(item["demuxer"])
  /\ r = "screen_vr" => at["demuxer"] = "deliver" /\ Head(todo["demuxer"]) \in Screens
Given(r) == IF Ahead(r) THEN received - 1 ELSE received
Alive == at["demuxer"] \in {"start", "open", "recv", "deliver", "post"}
Left(r) == IF at[r] \in {"timed", "deliver"} /\ IsFrame(item[r]) THEN item[r].frame ELSE Newest(r)
Flow(r) ==
  Alive /\ Uses(r) =>
    /\ ~Late(r) => Newest(r) = Given(r)
    /\ Late(r) /\ at[r] \notin {"off", "exited"} => EndsWith(queue[r], Left(r), Given(r))
FlowInv ==
  /\ at["demuxer"] \in {"start", "open"} => received = 0 /\ \A r \in Regulators : Newest(r) = 0
  /\ \A r \in Regulators : Flow(r)

LatestInv == TodoInv /\ OpenInv /\ AnnouncedInv /\ FirstInv /\ FlowInv

(* The branches, by the features.                                          *)
LEMMA BranchCases ==
  ASSUME opt \in Options
  PROVE  /\ Plays \/ Taps
         /\ Plays /\ Taps => Branches = <<ScreenBranch, V4l2Branch>>
         /\ Plays /\ ~Taps => Branches = <<ScreenBranch>>
         /\ ~Plays => Branches = <<V4l2Branch>>
<1>1. Plays \/ Taps
  BY PipelineAssumption DEF PipelineAssumption, Plays, Taps
<1>2. ASSUME Plays, Taps PROVE Branches = <<ScreenBranch, V4l2Branch>>
  <2>1. Branches = <<ScreenBranch>> \o <<V4l2Branch>>
    BY <1>2 DEF Branches, Plays, Taps
  <2> QED BY <2>1, Pair
<1>3. ASSUME Plays, ~Taps PROVE Branches = <<ScreenBranch>>
  BY <1>3 DEF Branches, Plays, Taps
<1>4. ASSUME ~Plays PROVE Branches = <<V4l2Branch>>
  BY <1>1, <1>4 DEF Branches, Plays, Taps
<1> QED BY <1>1, <1>2, <1>3, <1>4

(* The branch of V4L2 is the last one.                                     *)
LEMMA TapBranch ==
  ASSUME opt \in Options
  PROVE  /\ \A i \in 1 .. Len(Branches) :
              "v4l2_vr" \in ToSet(Branches[i]) => TapDelayed /\ i = Len(Branches)
         /\ Taps /\ TapDelayed => "v4l2_vr" \in ToSet(Branches[Len(Branches)])
<1>1. "v4l2_vr" \notin ToSet(ScreenBranch)
  BY DEF ScreenBranch, ToSet
<1>2. "v4l2_vr" \in ToSet(V4l2Branch) <=> TapDelayed
  BY DEF V4l2Branch, ToSet, TapDelayed
<1>3. CASE Plays /\ Taps
  <2>1. Branches = <<ScreenBranch, V4l2Branch>>
    BY <1>3, BranchCases
  <2>2. Len(Branches) = 2 /\ Branches[1] = ScreenBranch /\ Branches[2] = V4l2Branch
    BY <2>1
  <2> QED BY <2>2, <1>1, <1>2
<1>4. CASE Plays /\ ~Taps
  <2>1. Branches = <<ScreenBranch>>
    BY <1>4, BranchCases
  <2>2. Len(Branches) = 1 /\ Branches[1] = ScreenBranch
    BY <2>1
  <2> QED BY <2>2, <1>1, <1>4
<1>5. CASE ~Plays
  <2>1. Branches = <<V4l2Branch>>
    BY <1>5, BranchCases
  <2>2. Len(Branches) = 1 /\ Branches[1] = V4l2Branch
    BY <2>1
  <2> QED BY <2>2, <1>2
<1> QED BY <1>3, <1>4, <1>5

(* The tail of one and of two.                                             *)
LEMMA ShortTails ==
  ASSUME NEW a, NEW b
  PROVE  /\ Head(<<a>>) = a /\ Tail(<<a>>) = <<>>
         /\ Head(<<a, b>>) = a /\ Tail(<<a, b>>) = <<b>>
<1> DEFINE t == Tail(<<a, b>>)   u == <<b>>
<1>1. Head(<<a>>) = a /\ Tail(<<a>>) = <<>> /\ Head(<<a, b>>) = a
  OBVIOUS
<1>2. /\ t \in Seq({a, b}) /\ u \in Seq({a, b}) /\ Len(t) = 1 /\ Len(u) = 1
      /\ t[1] = u[1]
  OBVIOUS
<1> HIDE DEF t, u
<1>3. \A i \in 1 .. Len(t) : t[i] = u[i]
  BY <1>2
<1>4. t = u
  BY <1>2, <1>3, SeqEqual
<1> QED BY <1>1, <1>4 DEF t, u

(* What the demuxer calls after the first of its sinks.                    *)
LEMMA SinksTail ==
  ASSUME opt \in Options
  PROVE  /\ Head(Sinks("demuxer")) \in Screens => Tail(Sinks("demuxer")) = TapSinks
         /\ Head(Sinks("demuxer")) \notin Screens =>
              Tail(Sinks("demuxer")) = <<>> /\ Taps
         /\ Head(Sinks("demuxer")) = "v4l2_vr" => TapDelayed
         /\ Head(Sinks("demuxer")) = "v4l2" => ~TapDelayed
<1> DEFINE s == Sinks("demuxer")
<1>1. s = [i \in DOMAIN Branches |-> Branches[i][1]]
  BY DEF Sinks
<1>2. ScreenBranch[1] \in Screens
  BY DEF ScreenBranch, Screens
<1>3. /\ V4l2Branch[1] = IF TapDelayed THEN "v4l2_vr" ELSE "v4l2"
      /\ V4l2Branch[1] \notin Screens
  BY DEF V4l2Branch, Screens, TapDelayed
<1>4. "v4l2" \notin Screens /\ "v4l2_vr" \notin Screens
  BY DEF Screens
<1>5. CASE Plays /\ Taps
  <2>1. Branches = <<ScreenBranch, V4l2Branch>>
    BY <1>5, BranchCases
  <2>2. s = <<ScreenBranch[1], V4l2Branch[1]>>
    BY <2>1, <1>1
  <2>3. Head(s) = ScreenBranch[1] /\ Tail(s) = <<V4l2Branch[1]>>
    BY <2>2, ShortTails
  <2> QED BY <2>3, <1>2, <1>4, <1>5 DEF TapSinks
<1>6. CASE Plays /\ ~Taps
  <2>1. Branches = <<ScreenBranch>>
    BY <1>6, BranchCases
  <2>2. s = <<ScreenBranch[1]>>
    BY <2>1, <1>1
  <2>3. Head(s) = ScreenBranch[1] /\ Tail(s) = <<>>
    BY <2>2, ShortTails
  <2> QED BY <2>3, <1>2, <1>4, <1>6 DEF TapSinks
<1>7. CASE ~Plays
  <2>1. Branches = <<V4l2Branch>> /\ Taps
    BY <1>7, BranchCases
  <2>2. s = <<V4l2Branch[1]>>
    BY <2>1, <1>1
  <2>3. Head(s) = V4l2Branch[1] /\ Tail(s) = <<>>
    BY <2>2, ShortTails
  <2> QED BY <2>1, <2>3, <1>3
<1> QED BY <1>5, <1>6, <1>7 DEF s

(* What remains after a sink put in front.                                 *)
LEMMA FrontTail ==
  ASSUME NEW s \in Seq(Sink), NEW x \in Sink
  PROVE  Tail(<<x>> \o s) = s
<1> DEFINE y == <<x>> \o s   t == Tail(y)
<1>1. <<x>> \in Seq(Sink) /\ Len(<<x>>) = 1 /\ <<x>>[1] = x /\ Len(s) \in Nat
  BY LenProperties
<1>2. /\ y \in Seq(Sink) /\ Len(y) = Len(s) + 1
      /\ \A i \in 1 .. Len(s) + 1 : i > 1 => y[i] = s[i - 1]
  <2>1. /\ y \in Seq(Sink) /\ Len(y) = Len(<<x>>) + Len(s)
        /\ \A i \in 1 .. Len(<<x>>) + Len(s) :
              y[i] = IF i <= Len(<<x>>) THEN <<x>>[i] ELSE s[i - Len(<<x>>)]
    BY <1>1, ConcatProperties
  <2> HIDE DEF y
  <2> QED BY <2>1, <1>1
<1> HIDE DEF y
<1>3. y # <<>>
  BY <1>1, <1>2, EmptySeq
<1>4. t \in Seq(Sink) /\ Len(t) = Len(s) /\ \A i \in 1 .. Len(s) : t[i] = y[i + 1]
  BY <1>1, <1>2, <1>3, HeadTailProperties
<1> HIDE DEF t
<1>5. \A i \in 1 .. Len(t) : t[i] = s[i]
  BY <1>1, <1>2, <1>4
<1>6. t = s
  BY <1>4, <1>5, SeqEqual
<1> QED BY <1>6 DEF t, y

(* A queue without frames ends with what comes before it.                  *)
LEMMA ClearEnds ==
  /\ Clear(<<>>) /\ \A b : EndsWith(<<>>, b, b) /\ \A n : EndsWith(<<>>, b, n) => n = b
  /\ \A q, b : Clear(q) => EndsWith(q, b, b)
BY DEF Clear, EndsWith

(* Taking the head of a queue moves what comes before.                     *)
LEMMA EndsTail ==
  ASSUME NEW q \in Seq(Data), q # <<>>
  PROVE  /\ Clear(q) => ~IsFrame(Head(q)) /\ Clear(Tail(q))
         /\ \A b, n : EndsWith(q, b, n) =>
              EndsWith(Tail(q), IF IsFrame(Head(q)) THEN Head(q).frame ELSE b, n)
<1> DEFINE t == Tail(q)
<1>1. Len(q) \in Nat \ {0} /\ DOMAIN q = 1 .. Len(q) /\ Head(q) = q[1]
  BY EmptySeq, LenProperties
<1>2. /\ t \in Seq(Data) /\ DOMAIN t = 1 .. Len(q) - 1
      /\ \A i \in 1 .. Len(q) - 1 : t[i] = q[i + 1]
  <2>1. /\ t \in Seq(Data) /\ Len(t) = Len(q) - 1
        /\ \A i \in 1 .. Len(t) : t[i] = q[i + 1]
    BY HeadTailProperties
  <2> QED BY <2>1, <1>1, LenProperties
<1> HIDE DEF t
<1>3. ASSUME Clear(q) PROVE ~IsFrame(Head(q)) /\ Clear(t)
  BY <1>1, <1>2, <1>3 DEF Clear
<1>4. \A j \in 1 .. Len(q) : j > 1 => j - 1 \in 1 .. Len(q) - 1 /\ q[j] = t[j - 1]
  BY <1>1, <1>2
<1>5. ASSUME NEW b, NEW n, EndsWith(q, b, n)
      PROVE  EndsWith(t, IF IsFrame(Head(q)) THEN Head(q).frame ELSE b, n)
  <2>1. ASSUME Clear(t) PROVE (IF IsFrame(Head(q)) THEN Head(q).frame ELSE b) = n
    <3>1. \A j \in 1 .. Len(q) : j > 1 => ~IsFrame(q[j])
      BY <2>1, <1>2, <1>4 DEF Clear
    <3>2. CASE IsFrame(Head(q))
      <4>1. 1 \in DOMAIN q /\ IsFrame(q[1])
        BY <3>2, <1>1
      <4>2. q[1].frame = n
        BY <4>1, <3>1, <1>1, <1>5 DEF EndsWith
      <4> QED BY <4>2, <3>2, <1>1
    <3>3. CASE ~IsFrame(Head(q))
      <4>1. \A j \in 1 .. Len(q) : j = 1 \/ j > 1
        BY <1>1
      <4>2. Clear(q)
        BY <4>1, <3>1, <3>3, <1>1 DEF Clear
      <4> QED BY <4>2, <3>3, <1>5 DEF EndsWith
    <3> QED BY <3>2, <3>3
  <2>2. ASSUME NEW i \in DOMAIN t, IsFrame(t[i]),
               \A j \in DOMAIN t : j > i => ~IsFrame(t[j])
        PROVE  t[i].frame = n
    <3>1. i \in Nat /\ i > 0 /\ i + 1 \in 1 .. Len(q) /\ q[i + 1] = t[i]
      BY <1>1, <1>2
    <3>2. ASSUME NEW j \in 1 .. Len(q), j > i + 1 PROVE ~IsFrame(q[j])
      <4>1. j - 1 \in 1 .. Len(q) - 1 /\ j - 1 > i /\ q[j] = t[j - 1]
        BY <3>1, <3>2, <1>1, <1>4
      <4> QED BY <4>1, <2>2, <1>2
    <3>3. i + 1 \in DOMAIN q /\ IsFrame(q[i + 1])
      BY <3>1, <2>2, <1>1
    <3> QED BY <3>1, <3>2, <3>3, <1>1, <1>5 DEF EndsWith
  <2> QED BY <2>1, <2>2 DEF EndsWith
<1> QED BY <1>3, <1>5 DEF t

(* A frame that is appended is the last; a session changes nothing.        *)
LEMMA EndsAppend ==
  ASSUME NEW q \in Seq(Data), NEW x \in Data
  PROVE  /\ Clear(q) /\ ~IsFrame(x) => Clear(Append(q, x))
         /\ \A b, n : EndsWith(q, b, n) /\ ~IsFrame(x) => EndsWith(Append(q, x), b, n)
         /\ \A b : IsFrame(x) => EndsWith(Append(q, x), b, x.frame)
<1> DEFINE y == Append(q, x)
<1>1. Len(q) \in Nat /\ DOMAIN q = 1 .. Len(q)
  BY LenProperties
<1>2. /\ DOMAIN y = 1 .. Len(q) + 1 /\ y[Len(q) + 1] = x
      /\ \A i \in 1 .. Len(q) : y[i] = q[i]
  <2>1. /\ y \in Seq(Data) /\ Len(y) = Len(q) + 1 /\ y[Len(q) + 1] = x
        /\ \A i \in 1 .. Len(q) : y[i] = q[i]
    BY AppendProperties
  <2> QED BY <2>1, <1>1, LenProperties
<1> HIDE DEF y
<1>3. \A i \in 1 .. Len(q) + 1 : i \in 1 .. Len(q) \/ i = Len(q) + 1
  BY <1>1
<1>4. \A i \in 1 .. Len(q) : i \in 1 .. Len(q) + 1 /\ Len(q) + 1 > i
  BY <1>1
<1>5. Len(q) + 1 \in 1 .. Len(q) + 1
  BY <1>1
<1>6. ASSUME ~IsFrame(x) PROVE Clear(q) <=> Clear(y)
  BY <1>1, <1>2, <1>3, <1>4, <1>6 DEF Clear
<1>7. ASSUME NEW b, NEW n, EndsWith(q, b, n), ~IsFrame(x) PROVE EndsWith(y, b, n)
  <2>1. Clear(y) => b = n
    BY <1>6, <1>7 DEF EndsWith
  <2>2. ASSUME NEW i \in DOMAIN y, IsFrame(y[i]),
               \A j \in DOMAIN y : j > i => ~IsFrame(y[j])
        PROVE  y[i].frame = n
    <3>1. i \in 1 .. Len(q) /\ y[i] = q[i]
      BY <2>2, <1>2, <1>3, <1>7
    <3>2. \A j \in DOMAIN q : j > i => ~IsFrame(q[j])
      BY <2>2, <1>1, <1>2, <1>4
    <3> QED BY <3>1, <3>2, <2>2, <1>1, <1>7 DEF EndsWith
  <2> QED BY <2>1, <2>2 DEF EndsWith
<1>8. ASSUME NEW b, IsFrame(x) PROVE EndsWith(y, b, x.frame)
  <2>1. ~Clear(y)
    BY <1>2, <1>5, <1>8 DEF Clear
  <2>2. ASSUME NEW i \in DOMAIN y, IsFrame(y[i]),
               \A j \in DOMAIN y : j > i => ~IsFrame(y[j])
        PROVE  y[i].frame = x.frame
    <3>1. i = Len(q) + 1
      BY <2>2, <1>2, <1>3, <1>4, <1>5, <1>8
    <3> QED BY <3>1, <1>2
  <2> QED BY <2>1, <2>2 DEF EndsWith
<1> QED BY <1>6, <1>7, <1>8 DEF y

(* A frame is announced.                                                   *)
LEMMA AnnounceAppend ==
  ASSUME NEW s \in Seq(EventNames)
  PROVE  Frames(Append(s, "frame")) # {}
<1>1. Len(s) \in Nat /\ "frame" \in EventNames
  BY LenProperties DEF EventNames
<1> DEFINE y == Append(s, "frame")
<1>2. y \in Seq(EventNames) /\ Len(y) = Len(s) + 1 /\ y[Len(s) + 1] = "frame"
  BY <1>1, AppendProperties
<1>3. Len(s) + 1 \in DOMAIN y
  BY <1>1, <1>2, LenProperties
<1> HIDE DEF y
<1>4. Len(s) + 1 \in Frames(y)
  BY <1>2, <1>3 DEF Frames
<1> QED BY <1>4 DEF y

(* Another event is taken.                                               *)
LEMMA AnnounceTail ==
  ASSUME NEW s \in Seq(EventNames), s # <<>>, Head(s) # "frame", Frames(s) # {}
  PROVE  Frames(Tail(s)) # {}
<1> DEFINE t == Tail(s)
<1>1. Len(s) \in Nat \ {0} /\ DOMAIN s = 1 .. Len(s) /\ Head(s) = s[1]
  BY EmptySeq, LenProperties
<1>2. /\ t \in Seq(EventNames) /\ Len(t) = Len(s) - 1
      /\ \A i \in 1 .. Len(t) : t[i] = s[i + 1]
  BY HeadTailProperties
<1>3. DOMAIN t = 1 .. Len(s) - 1
  BY <1>1, <1>2, LenProperties
<1> HIDE DEF t
<1>4. PICK i \in 1 .. Len(s) : s[i] = "frame"
  BY <1>1 DEF Frames
<1>5. i # 1
  BY <1>1, <1>4
<1>6. i - 1 \in 1 .. Len(s) - 1 /\ (i - 1) + 1 = i
  BY <1>1, <1>5
<1>7. t[i - 1] = "frame"
  BY <1>2, <1>4, <1>6
<1>8. i - 1 \in Frames(t)
  BY <1>3, <1>6, <1>7 DEF Frames
<1> QED BY <1>8 DEF t

-------------------------------------------------------------------------------
(* What an action keeps of it.                                             *)

(* The features do not change.                                             *)
LEMMA OptKept ==
  ASSUME opt' = opt
  PROVE  /\ Taps' = Taps /\ TapDelayed' = TapDelayed /\ Plays' = Plays /\ Delayed' = Delayed
         /\ TapSinks' = TapSinks /\ Branches' = Branches
         /\ \A r \in Regulators : Uses(r)' = Uses(r) /\ Late(r)' = Late(r)
<1>1. /\ Taps' = Taps /\ TapDelayed' = TapDelayed /\ Plays' = Plays /\ Delayed' = Delayed
      /\ TapSinks' = TapSinks /\ Branches' = Branches
  BY DEF Taps, TapDelayed, Plays, Delayed, TapSinks, Branches, ScreenBranch, V4l2Branch
<1>2. \A r \in Regulators : Uses(r)' = Uses(r) /\ Late(r)' = Late(r)
  BY <1>1 DEF Uses, Late
<1> QED BY <1>1, <1>2

(* The last frame of a branch depends on its buffer and on its reader.     *)
LEMMA NewestKept ==
  /\ UNCHANGED <<pending, resume, shown, writing>> =>
       \A r \in Regulators : Newest(r)' = Newest(r)
  /\ pending'["screen"] = pending["screen"] /\ UNCHANGED <<resume, shown>> =>
       ScreenLast' = ScreenLast
  /\ pending'["v4l2"] = pending["v4l2"] /\ UNCHANGED writing => TapLast' = TapLast
  /\ Newest("screen_vr") = ScreenLast /\ Newest("v4l2_vr") = TapLast
  /\ Newest("screen_vr")' = ScreenLast' /\ Newest("v4l2_vr")' = TapLast'
<1>1. UNCHANGED <<pending, resume, shown, writing>> =>
        ScreenLast' = ScreenLast /\ TapLast' = TapLast
  BY DEF ScreenLast, TapLast
<1>2. UNCHANGED <<pending, resume, shown, writing>> =>
        \A r \in Regulators : Newest(r)' = Newest(r)
  BY <1>1 DEF Newest
<1>3. pending'["screen"] = pending["screen"] /\ UNCHANGED <<resume, shown>> =>
        ScreenLast' = ScreenLast
  BY DEF ScreenLast
<1>4. pending'["v4l2"] = pending["v4l2"] /\ UNCHANGED writing => TapLast' = TapLast
  BY DEF TapLast
<1>5. /\ Newest("screen_vr") = ScreenLast /\ Newest("v4l2_vr") = TapLast
      /\ Newest("screen_vr")' = ScreenLast' /\ Newest("v4l2_vr")' = TapLast'
  BY DEF Newest
<1> QED BY <1>2, <1>3, <1>4, <1>5

(* The announcement of a frame pending.                                    *)
LEMMA AnnouncedKept ==
  ASSUME AnnouncedInv,
         main' = "loop" => main = "loop" /\ (Frames(events) # {} => Frames(events') # {}),
         UNCHANGED <<pending, hasFrame, paused, resume>>,
         \A t \in Sources : at[t] = "post" => at'[t] = "post"
  PROVE  AnnouncedInv'
BY DEF AnnouncedInv

(* The branch of a regulator that nothing touches.                         *)
LEMMA FlowKept ==
  ASSUME NEW r \in Regulators, Flow(r), opt' = opt, Alive' => Alive,
         Alive' => Given(r)' = Given(r), Newest(r)' = Newest(r),
         at'[r] = at[r], item'[r] = item[r], queue'[r] = queue[r]
  PROVE  Flow(r)'
<1>1. Uses(r)' = Uses(r) /\ Late(r)' = Late(r)
  BY OptKept
<1>2. Left(r)' = Left(r)
  BY DEF Left, IsFrame
<1> QED BY <1>1, <1>2 DEF Flow

(* Nothing is given to a branch.                                           *)
LEMMA GivenKept ==
  ASSUME NEW r \in Regulators, received' = received, at'["demuxer"] = at["demuxer"],
         item'["demuxer"] = item["demuxer"], todo'["demuxer"] = todo["demuxer"]
  PROVE  Given(r)' = Given(r) /\ Alive' = Alive
BY DEF Given, Ahead, Alive, IsFrame

(* No sink is called.                                                      *)
LEMMA CallsKept ==
  ASSUME LatestInv, UNCHANGED <<opt, calls, opened, received, queue, range>>,
         \A r \in Regulators : Newest(r)' = Newest(r), AnnouncedInv'
  PROVE  LatestInv'
<1> USE DEF LatestInv
<1>1. UNCHANGED <<at, item, todo>>
  BY DEF calls
<1>2. TodoInv'
  BY <1>1, OptKept DEF TodoInv, IsFrame
<1>3. OpenInv'
  BY <1>1, OptKept DEF OpenInv
<1>4. FirstInv'
  BY <1>1, OptKept DEF FirstInv, Buffer, IsFrame
<1>5. FlowInv'
  <2>1. \A r \in Regulators : Flow(r)'
    BY <1>1, FlowKept, GivenKept DEF FlowInv
  <2> QED BY <2>1, <1>1 DEF FlowInv
<1> QED BY <1>2, <1>3, <1>4, <1>5

(* The stream has ended: nothing is said of the frames any more.           *)
LEMMA ClosedKept ==
  ASSUME Types, LatestInv, at'["demuxer"] \in {"close", "exited"},
         at["demuxer"] # "post",
         \A r \in Regulators : at'[r] = at[r] /\ item'[r] = item[r],
         UNCHANGED <<opt, opened, queue, range, pending, hasFrame, paused, resume, main>>,
         EventsKept
  PROVE  LatestInv'
<1> USE DEF LatestInv
<1>1. TodoInv'
  BY DEF TodoInv
<1>2. OpenInv'
  BY OptKept, SourcesFacts DEF OpenInv
<1>3. AnnouncedInv'
  <2>1. main = "loop" => Frames(events') = Frames(events)
    BY EventsKeep DEF Types
  <2>2. \A t \in Sources : at[t] = "post" => at'[t] = "post"
    BY SourcesFacts
  <2> QED BY <2>1, <2>2, AnnouncedKept
<1>4. FirstInv'
  BY OptKept DEF FirstInv, IsFrame
<1>5. FlowInv'
  BY DEF FlowInv, Flow, Alive
<1> QED BY <1>1, <1>2, <1>3, <1>4, <1>5

(* The demuxer closes its sinks.                                           *)
LEMMA CloseLatest ==
  ASSUME Types, LatestInv, NEW n, NEW e, CloseSinks(n, e), at["demuxer"] # "post",
         UNCHANGED <<opt, queue, range, pending, hasFrame, paused, resume, main>>, EventsKept
  PROVE  LatestInv'
<1>1. at'["demuxer"] = "close" /\ opened' = opened
      /\ \A r \in Regulators : at'[r] = at[r] /\ item'[r] = item[r]
  BY SourcesFacts DEF CloseSinks, Types
<1> QED BY <1>1, ClosedKept

(* FirstInv, when the demuxer does not call a sink behind a regulator.     *)
LEMMA FirstKept ==
  ASSUME FirstInv, opt' = opt, range' = range,
         \A r \in Regulators : queue'[r] = queue[r] /\ (item'[r] = item[r] \/ ~IsFrame(item'[r])),
         \A r \in Regulators :
           Late(r) /\ at'["demuxer"] = "deliver" /\ Head(todo'["demuxer"]) = Buffer(r) =>
             at["demuxer"] = "deliver" /\ Head(todo["demuxer"]) = Buffer(r)
  PROVE  FirstInv'
BY OptKept DEF FirstInv, Buffer, IsFrame

(* The demuxer goes to its next sink.                                      *)
Follows ==
  /\ TodoInv' /\ OpenInv'
  /\ \A r \in Regulators :
       Late(r) => ~(at'["demuxer"] = "deliver" /\ Head(todo'["demuxer"]) = Buffer(r))
  /\ Alive /\ Alive' /\ at'["demuxer"] \notin {"start", "open"}
  /\ Given("screen_vr")' = received
  /\ Taps => Given("v4l2_vr")' =
       IF Head(todo["demuxer"]) \in Screens THEN Given("v4l2_vr") ELSE received
  /\ \A r \in Regulators : at'[r] = at[r] /\ item'[r] = item[r]
  /\ at'["demuxer"] # "post"

LEMMA Following ==
  ASSUME PipelineInv, LatestInv, at["demuxer"] \in {"deliver", "post"},
         Delivered("demuxer"), UNCHANGED <<opt, opened, received>>
  PROVE  Follows
<1> USE DEF PipelineInv, LatestInv
<1>1. CallTypes /\ Others("demuxer") /\ Past
  BY DemuxerDelivered
<1>2. /\ Head(todo["demuxer"]) \in Screens => Tail(todo["demuxer"]) = TapSinks
      /\ Head(todo["demuxer"]) \notin Screens => Tail(todo["demuxer"]) = <<>> /\ Taps
  BY DEF TodoInv
<1>3. /\ item["demuxer"] \in Data /\ "demuxer" \in Sources /\ Idle("demuxer") = "recv"
      /\ Call("demuxer", item["demuxer"], Tail(todo["demuxer"]))
  BY SourcesFacts DEF Types, Idle, Delivered
<1>4. \A r \in Regulators : at'[r] = at[r] /\ item'[r] = item[r]
  BY <1>1, SourcesFacts DEF Others
<1>5. CASE Head(todo["demuxer"]) \in Screens /\ Taps
  <2> DEFINE v == V4l2Branch[1]
  <2>1. Tail(todo["demuxer"]) = <<v>>
    BY <1>2, <1>5 DEF TapSinks
  <2>2. v = (IF TapDelayed THEN "v4l2_vr" ELSE "v4l2")
    BY DEF V4l2Branch, TapDelayed
  <2> HIDE DEF v
  <2>3. at'["demuxer"] = "deliver" /\ todo'["demuxer"] = <<v>>
        /\ item'["demuxer"] = item["demuxer"]
    <3>1. <<v>> # <<>>
      OBVIOUS
    <3> QED BY <3>1, <2>1, <1>3, CallFacts
  <2>4. Head(todo'["demuxer"]) = v /\ Tail(todo'["demuxer"]) = <<>> /\ v \notin Screens
    BY <2>2, <2>3, ShortTails DEF Screens
  <2>5. TodoInv'
    BY <2>2, <2>4, <1>5, OptKept DEF TodoInv
  <2>6. OpenInv'
    BY <1>4, <2>3, SourcesFacts, OptKept DEF OpenInv
  <2>7. \A r \in Regulators : Late(r) => v # Buffer(r)
    BY <2>2, SourcesFacts DEF Late, Buffer
  <2>8. Given("screen_vr")' = received
    BY <2>4 DEF Given, Ahead
  <2>9. Given("v4l2_vr")' = Given("v4l2_vr")
    BY <2>3 DEF Given, Ahead, IsFrame
  <2> QED BY <1>4, <1>5, <2>3, <2>4, <2>5, <2>6, <2>7, <2>8, <2>9 DEF Follows, Alive
<1>6. CASE ~(Head(todo["demuxer"]) \in Screens /\ Taps)
  <2>1. Tail(todo["demuxer"]) = <<>>
    BY <1>2, <1>6 DEF TapSinks
  <2>2. at'["demuxer"] = "recv"
    BY <2>1, <1>3, CallFacts
  <2>3. TodoInv'
    BY <2>2 DEF TodoInv
  <2>4. OpenInv'
    BY <1>4, <2>2, SourcesFacts, OptKept DEF OpenInv
  <2>5. Given("screen_vr")' = received /\ Given("v4l2_vr")' = received
    BY <2>2 DEF Given, Ahead
  <2> QED BY <1>4, <1>6, <2>2, <2>3, <2>4, <2>5 DEF Follows, Alive
<1> QED BY <1>5, <1>6

-------------------------------------------------------------------------------
(* The actions of the demuxer keep it.                                     *)

(* The stream starts: nothing went through it.                             *)
LEMMA StartLatest == PipelineInv /\ LatestInv /\ StartStream => LatestInv'
<1> SUFFICES ASSUME PipelineInv, LatestInv, StartStream PROVE LatestInv'
  OBVIOUS
<1> USE DEF PipelineInv, LatestInv
<1>1. /\ at["demuxer"] = "start"
      /\ UNCHANGED <<opt, queue, range, pending, hasFrame, paused, resume, shown, writing,
                     main, events>>
  BY DEF StartStream, regulators, screen, v4l2, ending
<1>2. CASE CloseSinks(0, "error")
  BY <1>1, <1>2, CloseLatest DEF EventsKept
<1>3. CASE /\ at' = [at EXCEPT !["demuxer"] = "open"] /\ session' = 1
           /\ UNCHANGED <<item, todo, opened, status, received>>
  <2>1. at'["demuxer"] = "open" /\ \A r \in Regulators : at'[r] = at[r] /\ item'[r] = item[r]
    BY <1>3, SourcesFacts DEF Types
  <2>2. TodoInv'
    BY <2>1 DEF TodoInv
  <2>3. OpenInv'
    BY <1>1, <1>3, <2>1, SourcesFacts, OptKept DEF OpenInv
  <2>4. AnnouncedInv'
    <3>1. \A t \in Sources : at[t] = "post" => at'[t] = "post"
      BY <1>1, <2>1, SourcesFacts
    <3> QED BY <3>1, <1>1, AnnouncedKept
  <2>5. FirstInv'
    BY <1>1, <1>3, <2>1, FirstKept
  <2>6. FlowInv'
    <3>1. \A r \in Regulators : Newest(r)' = Newest(r)
      BY <1>1, NewestKept
    <3>2. \A r \in Regulators : Given(r)' = Given(r)
      BY <1>1, <1>3, <2>1 DEF Given, Ahead
    <3>3. \A r \in Regulators : Flow(r)'
      BY <1>1, <2>1, <3>1, <3>2, FlowKept DEF FlowInv, Alive
    <3> QED BY <3>1, <3>3, <1>1, <1>3 DEF FlowInv
  <2> QED BY <2>2, <2>3, <2>4, <2>5, <2>6
<1> QED BY <1>2, <1>3 DEF StartStream

(* The demuxer ends by itself.                                             *)
LEMMA EndLatest ==
  PipelineInv /\ LatestInv /\ (OpenFails \/ EndOfStream \/ RecvFails) => LatestInv'
<1> SUFFICES ASSUME PipelineInv, LatestInv, OpenFails \/ EndOfStream \/ RecvFails
             PROVE  LatestInv'
  OBVIOUS
<1>1. /\ CloseSinks(opened, "error") \/ CloseSinks(opened, "eos")
      /\ at["demuxer"] \in {"open", "recv"}
      /\ UNCHANGED <<opt, queue, range, pending, hasFrame, paused, resume, main>>
  BY DEF OpenFails, EndOfStream, RecvFails, regulators, screen, v4l2, ending
<1>2. EventsKept
  BY DEF OpenFails, EndOfStream, RecvFails, Post, EventsKept, EventNames
<1> QED BY <1>1, <1>2, CloseLatest DEF PipelineInv

(* The regulators are started with an empty queue.                         *)
LEMMA OpenBranchLatest == PipelineInv /\ LatestInv /\ OpenBranch => LatestInv'
<1> SUFFICES ASSUME PipelineInv, LatestInv, OpenBranch PROVE LatestInv'
  OBVIOUS
<1> USE DEF PipelineInv, LatestInv
<1> DEFINE b == ToSet(Branches[opened + 1])
<1>1. /\ at["demuxer"] = "open" /\ opened < Len(Branches)
      /\ UNCHANGED <<opt, item, todo, received, queue, range, pending, hasFrame, paused,
                     resume, shown, writing, main>>
  BY DEF OpenBranch, regulators, ending
<1>2. /\ opened' = opened + 1
      /\ at' = [t \in Sources |-> IF t \in b THEN "wait" ELSE at[t]]
      /\ events' = Append(events, "open") \/ events' = events
  BY DEF OpenBranch, Post
<1>3. opened + 1 \in 1 .. Len(Branches) /\ Len(Branches) \in Nat /\ opened \in Nat
  BY <1>1, BranchesShape DEF Types
<1>4. /\ "demuxer" \notin b
      /\ Plays /\ opened = 0 => ("screen_vr" \in b <=> Delayed)
      /\ "v4l2_vr" \in b => TapDelayed /\ opened + 1 = Len(Branches)
      /\ Taps /\ TapDelayed /\ opened + 1 = Len(Branches) => "v4l2_vr" \in b
  <2>1. "demuxer" \notin b
    BY <1>3, BranchesShape DEF Types
  <2>2. Plays /\ opened = 0 => b \cap Sources = IF Delayed THEN {"screen_vr"} ELSE {}
    <3>1. opened = 0 => opened + 1 = 1
      BY <1>3
    <3> QED BY <3>1, <1>3, BranchesShape DEF Types
  <2>3. Plays /\ opened = 0 => ("screen_vr" \in b <=> Delayed)
    BY <2>2, SourcesFacts
  <2> QED BY <2>1, <2>3, <1>3, TapBranch DEF Types
<1> HIDE DEF b
<1>5. /\ at'["demuxer"] = "open"
      /\ \A r \in Regulators : at'[r] = IF r \in b THEN "wait" ELSE at[r]
  BY <1>1, <1>2, <1>4, SourcesFacts
<1>6. TodoInv'
  BY <1>5 DEF TodoInv
<1>7. OpenInv'
  <2>1. opened' > 0 /\ Plays /\ Delayed => at'["screen_vr"] # "off"
    <3>1. opened = 0 \/ opened > 0
      BY <1>3
    <3> QED BY <3>1, <1>4, <1>5, SourcesFacts DEF OpenInv
  <2>2. opened' = Len(Branches) /\ Taps /\ TapDelayed => at'["v4l2_vr"] # "off"
    BY <1>2, <1>4, <1>5, SourcesFacts
  <2>3. at'["v4l2_vr"] # "off" => TapDelayed /\ opened' = Len(Branches)
    BY <1>1, <1>2, <1>3, <1>4, <1>5, SourcesFacts DEF OpenInv
  <2> QED BY <2>1, <2>2, <2>3, <1>1, <1>5, OptKept DEF OpenInv
<1>8. AnnouncedInv'
  <2>1. main = "loop" => Frames(events') = Frames(events)
    BY <1>2, EventsKeep DEF Types, EventsKept, EventNames
  <2>2. \A t \in Sources : at[t] = "post" => at'[t] = "post" \/ t \in b
    BY <1>2
  <2>3. \A r \in Regulators : at[r] = "post" => r = "screen_vr" /\ Plays /\ opened > 0
    BY SourcesFacts DEF RegulatorInv
  <2>4. opened > 0 => "screen_vr" \notin b
    <3>1. opened > 0 => ~(Plays /\ opened + 1 = 1)
      BY <1>3
    <3>2. opened > 0 => b \cap Screens = {}
      BY <3>1, <1>3, BranchesShape DEF Types, b
    <3> QED BY <3>2 DEF Screens
  <2>5. \A t \in Sources : at[t] = "post" => at'[t] = "post"
    BY <2>2, <2>3, <2>4, <1>4, SourcesFacts
  <2> QED BY <2>1, <2>5, <1>1, AnnouncedKept
<1>9. FirstInv'
  BY <1>1, <1>5, FirstKept
<1>10. FlowInv'
  <2>1. \A r \in Regulators : Newest(r)' = Newest(r) /\ Newest(r) = 0
    BY <1>1, NewestKept DEF FlowInv
  <2>2. \A r \in Regulators : Given(r)' = 0 /\ Given(r) = 0 /\ received = 0
    BY <1>1, <1>5 DEF Given, Ahead, FlowInv
  <2>3. ASSUME NEW r \in Regulators PROVE Flow(r)'
    <3>1. CASE at'[r] = at[r]
      BY <3>1, <2>1, <2>2, <1>1, FlowKept DEF FlowInv, Alive
    <3>2. CASE at'[r] = "wait" /\ at[r] = "off"
      <4>1. queue'[r] = <<>> /\ Left(r)' = 0
        BY <3>2, <2>1, <1>1 DEF RegulatorInv, Left
      <4> QED BY <4>1, <2>1, <2>2, ClearEnds DEF Flow
    <3>3. CASE at'[r] # at[r] /\ at[r] # "off"
      <4>1. r \in b
        BY <3>3, <1>5
      <4>2. r = "screen_vr" \/ r = "v4l2_vr"
        BY SourcesFacts
      <4>3. CASE r = "screen_vr"
        <5>1. opened > 0 /\ Plays
          BY <4>3, <3>3 DEF RegulatorInv
        <5>2. ~(Plays /\ opened + 1 = 1)
          BY <5>1, <1>3
        <5>3. b \cap Screens = {}
          BY <5>2, <1>3, BranchesShape DEF Types, b
        <5> QED BY <5>3, <4>1, <4>3 DEF Screens
      <4>4. CASE r = "v4l2_vr"
        <5>1. opened = Len(Branches)
          BY <4>4, <3>3 DEF OpenInv
        <5> QED BY <5>1, <1>1, <1>3
      <4> QED BY <4>2, <4>3, <4>4
    <3> QED BY <3>1, <3>2, <3>3, <1>5
  <2> QED BY <2>1, <2>2, <2>3, <1>1 DEF FlowInv
<1> QED BY <1>6, <1>7, <1>8, <1>9, <1>10

(* Every branch is open.                                                   *)
LEMMA AllOpenLatest == PipelineInv /\ LatestInv /\ AllOpen => LatestInv'
<1> SUFFICES ASSUME PipelineInv, LatestInv, AllOpen PROVE LatestInv'
  OBVIOUS
<1> USE DEF PipelineInv, LatestInv
<1>1. /\ at["demuxer"] = "open" /\ opened = Len(Branches)
      /\ UNCHANGED <<opt, opened, item, todo, received, queue, range, pending, hasFrame,
                     paused, resume, shown, writing, main, events>>
  BY DEF AllOpen, demuxer, regulators, screen, v4l2, ending
<1>2. at'["demuxer"] = "recv" /\ \A r \in Regulators : at'[r] = at[r]
  BY SourcesFacts DEF AllOpen, Types
<1>3. TodoInv'
  BY <1>2 DEF TodoInv
<1>4. OpenInv'
  BY <1>1, <1>2, SourcesFacts, OptKept DEF OpenInv
<1>5. AnnouncedInv'
  <2>1. \A t \in Sources : at[t] = "post" => at'[t] = "post"
    BY <1>1, <1>2, SourcesFacts
  <2> QED BY <2>1, <1>1, AnnouncedKept
<1>6. FirstInv'
  BY <1>1, <1>2, FirstKept
<1>7. FlowInv'
  <2>1. \A r \in Regulators : Newest(r)' = Newest(r)
    BY <1>1, NewestKept
  <2>2. \A r \in Regulators : Given(r)' = Given(r)
    BY <1>1, <1>2 DEF Given, Ahead
  <2>3. \A r \in Regulators : Flow(r)'
    BY <1>1, <1>2, <2>1, <2>2, FlowKept DEF FlowInv, Alive
  <2> QED BY <2>3, <1>2 DEF FlowInv
<1> QED BY <1>3, <1>4, <1>5, <1>6, <1>7

(* A packet is received: its sinks are still to be called.                 *)
LEMMA RecvLatest == PipelineInv /\ LatestInv /\ (RecvSession \/ RecvFrame) => LatestInv'
<1> SUFFICES ASSUME PipelineInv, LatestInv, RecvSession \/ RecvFrame PROVE LatestInv'
  OBVIOUS
<1> USE DEF PipelineInv, LatestInv
<1>1. /\ at["demuxer"] = "recv"
      /\ UNCHANGED <<opt, opened, queue, range, pending, hasFrame, paused, resume, shown,
                     writing, main, events>>
  BY DEF RecvSession, RecvFrame, regulators, screen, v4l2, ending
<1>2. PICK x \in Data : /\ Call("demuxer", x, Sinks("demuxer"))
                        /\ \/ IsFrame(x) /\ received' = received + 1
                           \/ ~IsFrame(x) /\ received' = received
  <2>1. CASE RecvSession
    <3> DEFINE x == [frame |-> 0, session |-> session + 1]
    <3>1. x \in Data /\ ~IsFrame(x)
      BY DEF Types, Data, IsFrame
    <3>2. Call("demuxer", x, Sinks("demuxer")) /\ received' = received
      BY <2>1 DEF RecvSession
    <3> QED BY <3>1, <3>2
  <2>2. CASE RecvFrame
    <3> DEFINE x == [frame |-> received + 1, session |-> session]
    <3>1. x \in Data /\ IsFrame(x)
      BY DEF Types, Data, IsFrame
    <3>2. Call("demuxer", x, Sinks("demuxer")) /\ received' = received + 1
      BY <2>2 DEF RecvFrame
    <3> QED BY <3>1, <3>2
  <2> QED BY <2>1, <2>2
<1>3. /\ Sinks("demuxer") # <<>>
      /\ Plays => Head(Sinks("demuxer")) = IF Delayed THEN "screen_vr" ELSE "screen"
      /\ ~Plays => Head(Sinks("demuxer")) \notin Screens
  BY SinksShape DEF Types
<1>4. /\ CallTypes /\ Others("demuxer") /\ at'["demuxer"] = "deliver"
      /\ item'["demuxer"] = x /\ todo'["demuxer"] = Sinks("demuxer")
  BY <1>2, <1>3, SourcesFacts, CallFacts
<1>5. \A r \in Regulators : at'[r] = at[r] /\ item'[r] = item[r]
  BY <1>4, SourcesFacts DEF Others
<1>6. /\ Head(Sinks("demuxer")) \in Screens => Tail(Sinks("demuxer")) = TapSinks
      /\ Head(Sinks("demuxer")) \notin Screens => Tail(Sinks("demuxer")) = <<>> /\ Taps
      /\ Head(Sinks("demuxer")) = "v4l2_vr" => TapDelayed
      /\ Head(Sinks("demuxer")) = "v4l2" => ~TapDelayed
  BY SinksTail DEF Types
<1>7. TodoInv'
  BY <1>1, <1>4, <1>6, OptKept DEF TodoInv
<1>8. OpenInv'
  BY <1>1, <1>4, <1>5, SourcesFacts, OptKept DEF OpenInv
<1>9. AnnouncedInv'
  <2>1. \A t \in Sources : at[t] = "post" => at'[t] = "post"
    BY <1>1, <1>5, SourcesFacts
  <2> QED BY <2>1, <1>1, AnnouncedKept
<1>10. FirstInv'
  <2>1. \A r \in Regulators : Late(r) => Head(Sinks("demuxer")) # Buffer(r)
    BY <1>3, <1>6, SourcesFacts DEF Late, Buffer, Screens
  <2> QED BY <2>1, <1>1, <1>4, <1>5, FirstKept
<1>11. FlowInv'
  <2>1. \A r \in Regulators : Newest(r)' = Newest(r)
    BY <1>1, NewestKept
  <2>2. ASSUME NEW r \in Regulators, Uses(r) PROVE Given(r)' = Given(r)
    <3>1. Given(r) = received
      BY <1>1 DEF Given, Ahead
    <3>2. r = "screen_vr" => Head(Sinks("demuxer")) \in Screens
      BY <2>2, <1>3 DEF Uses, Screens
    <3>3. Ahead(r)' <=> IsFrame(x)
      BY <3>2, <1>4, SourcesFacts DEF Ahead, IsFrame
    <3>4. received \in Nat /\ (received + 1) - 1 = received
      BY DEF Types
    <3> QED BY <3>1, <3>3, <3>4, <1>2 DEF Given
  <2>3. ASSUME NEW r \in Regulators PROVE Flow(r)'
    <3>1. CASE Uses(r)
      BY <3>1, <1>1, <1>5, <2>1, <2>2, FlowKept DEF FlowInv, Alive
    <3>2. CASE ~Uses(r)
      BY <3>2, <1>1, OptKept DEF Flow
    <3> QED BY <3>1, <3>2
  <2> QED BY <2>3, <1>4 DEF FlowInv
<1> QED BY <1>7, <1>8, <1>9, <1>10, <1>11

-------------------------------------------------------------------------------
(* The calls to the sinks keep it.                                         *)

(* A frame that reaches the sink of a branch is its last one, whether it   *)
(* went around an empty queue or not.                                      *)
LEMMA PushedFlow ==
  ASSUME NEW r \in Regulators, opt' = opt, queue'[r] = queue[r],
         Late(r) => Clear(queue[r]) /\ (at'[r] \in {"timed", "deliver"} => ~IsFrame(item'[r])),
         Newest(r)' = Given(r)'
  PROVE  Flow(r)'
<1>1. Uses(r)' = Uses(r) /\ Late(r)' = Late(r)
  BY OptKept
<1>2. Late(r) => Left(r)' = Newest(r)'
  BY DEF Left, IsFrame
<1> QED BY <1>1, <1>2, ClearEnds DEF Flow

(* A regulator calls its sink.                                             *)
LEMMA RegulatorCalls ==
  ASSUME PipelineInv, LatestInv, NEW r \in Regulators, at[r] \in {"deliver", "post"},
         at'[r] \in {"wait", "post"}, IsFrame(item[r]) /\ at'[r] = "wait" => ~IsFrame(item'[r]),
         ~IsFrame(item[r]) => ~IsFrame(item'[r]), item'[r] \in {item[r], None},
         \A u \in Sources : u # r => at'[u] = at[u] /\ item'[u] = item[u] /\ todo'[u] = todo[u],
         UNCHANGED <<opt, opened, received, queue, range>>,
         at[r] = "deliver" /\ IsFrame(item[r]) => Newest(r)' = item[r].frame,
         ~(at[r] = "deliver" /\ IsFrame(item[r])) => Newest(r)' = Newest(r),
         \A q \in Regulators : q # r => Newest(q)' = Newest(q)
  PROVE  TodoInv' /\ OpenInv' /\ FirstInv' /\ FlowInv'
<1> USE DEF PipelineInv, LatestInv
<1>1. /\ at'["demuxer"] = at["demuxer"] /\ item'["demuxer"] = item["demuxer"]
      /\ todo'["demuxer"] = todo["demuxer"] /\ r \in Sources
      /\ \A q \in Regulators : q # r => at'[q] = at[q] /\ item'[q] = item[q]
  BY SourcesFacts
<1>2. TodoInv'
  BY <1>1, OptKept DEF TodoInv, IsFrame
<1>3. OpenInv'
  BY <1>1, SourcesFacts, OptKept DEF OpenInv
<1>4. FirstInv'
  <2>1. \A q \in Regulators : queue'[q] = queue[q] /\ (item'[q] = item[q] \/ ~IsFrame(item'[q]))
    BY <1>1, NoneData
  <2> QED BY <2>1, <1>1, FirstKept
<1>5. \A q \in Regulators : Given(q)' = Given(q) /\ Alive' = Alive
  BY <1>1, GivenKept
<1>6. Late(r)
  BY SourcesFacts DEF Late, RegulatorInv, OpenInv
<1>7. Left(r)' = Left(r)
  <2>1. CASE at[r] = "deliver" /\ IsFrame(item[r])
    BY <2>1 DEF Left, IsFrame
  <2>2. CASE ~(at[r] = "deliver" /\ IsFrame(item[r]))
    BY <2>2 DEF Left, IsFrame
  <2> QED BY <2>1, <2>2
<1>8. Flow(r)'
  BY <1>5, <1>6, <1>7, OptKept DEF FlowInv, Flow
<1>9. \A q \in Regulators : q # r => Flow(q)'
  BY <1>1, <1>5, FlowKept DEF FlowInv
<1>10. at["demuxer"] \in {"start", "open"} => \A q \in Regulators : Newest(q)' = 0
  <2>1. CASE at[r] = "deliver" /\ IsFrame(item[r])
    <3>1. at["demuxer"] \in {"start", "open"} => item[r].frame <= 0
      BY <1>1 DEF NumberInv, FlowInv
    <3>2. item[r].frame \in Nat
      BY <1>1 DEF Types, Data
    <3> QED BY <3>1, <3>2, <2>1 DEF IsFrame
  <2>2. CASE ~(at[r] = "deliver" /\ IsFrame(item[r]))
    BY <2>2 DEF FlowInv
  <2> QED BY <2>1, <2>2
<1> QED BY <1>1, <1>2, <1>3, <1>4, <1>8, <1>9, <1>10 DEF FlowInv

(* A frame is pushed to the screen.                                        *)
LEMMA ScreenPushLatest ==
  ASSUME PipelineInv, LatestInv, NEW t \in Sources, ScreenPush(t)
  PROVE  LatestInv'
<1> USE DEF PipelineInv, LatestInv
<1>1. /\ Delivering(t, "screen") /\ IsFrame(item[t]) /\ at[t] = "deliver"
      /\ pending' = [pending EXCEPT !["screen"] = item[t]]
      /\ UNCHANGED <<opt, opened, received, queue, range, hasFrame, paused, resume, shown,
                     writing, main, events>>
  BY DEF ScreenPush, Delivering, demuxer, regulators, v4l2, ending
<1>2. t \in {"demuxer", "screen_vr"} /\ Plays /\ item[t] \in Data
  BY <1>1, FlagPushed
<1>3. /\ pending'["screen"] = item[t] /\ item[t] # None
      /\ pending'["v4l2"] = pending["v4l2"]
  BY <1>1, NoneData DEF Types, Buffers
<1>4. Newest("screen_vr")' = item[t].frame /\ Newest("v4l2_vr")' = Newest("v4l2_vr")
  <2>1. ScreenLast' = item[t].frame
    BY <1>3 DEF ScreenLast
  <2> QED BY <2>1, <1>1, <1>3, NewestKept
<1>5. \/ at' = [at EXCEPT ![t] = "post"] /\ UNCHANGED <<item, todo>> /\ pending["screen"] = None
      \/ Delivered(t) /\ pending["screen"] # None
  BY DEF ScreenPush, Notify
<1>6. \A u \in Sources : u # t => at'[u] = at[u] /\ item'[u] = item[u] /\ todo'[u] = todo[u]
  <2>1. Delivered(t) => Others(t)
    BY <1>2, CallFacts DEF Delivered
  <2> QED BY <2>1, <1>5 DEF Others, Types
<1>7. AnnouncedInv'
  <2>1. pending["screen"] = None => at'[t] = "post"
    BY <1>5 DEF Types
  <2>2. pending["screen"] # None => \A u \in Sources : at[u] = "post" => at'[u] = "post"
    BY <1>1, <1>6
  <2> QED BY <2>1, <2>2, <1>1, <1>3 DEF AnnouncedInv
<1>8. CASE t = "screen_vr"
  <2>1. at'[t] \in {"post", "wait"} /\ item'[t] \in {item[t], None}
        /\ (at'[t] = "wait" => item'[t] = None)
    <3>1. Delivered(t) => at'[t] = "wait" /\ item'[t] = None
      BY <1>1, <1>8, SourcesFacts, RegulatorDelivered DEF Active
    <3> QED BY <3>1, <1>5 DEF Types
  <2>2. t \in Regulators /\ \A q \in Regulators : q # t => q = "v4l2_vr"
    BY <1>8, SourcesFacts
  <2>3. TodoInv' /\ OpenInv' /\ FirstInv' /\ FlowInv'
    BY <2>1, <2>2, <1>1, <1>4, <1>6, <1>8, NoneData, RegulatorCalls
  <2> QED BY <2>3, <1>7
<1>9. CASE t = "demuxer"
  <2>1. /\ at["demuxer"] = "deliver" /\ Head(todo["demuxer"]) = "screen"
        /\ IsFrame(item["demuxer"]) /\ item["demuxer"].frame = received /\ received \in Nat
    BY <1>1, <1>9 DEF Delivering, DemuxerInv, Types
  <2>2. \A r \in Regulators : at'[r] = at[r] /\ item'[r] = item[r]
    BY <1>6, <1>9, SourcesFacts
  <2>3. /\ TodoInv' /\ OpenInv' /\ Alive /\ at'["demuxer"] \notin {"start", "open"}
        /\ Given("screen_vr")' = received
        /\ Taps => Given("v4l2_vr")' = Given("v4l2_vr")
        /\ \A r \in Regulators : Late(r) =>
             ~(at'["demuxer"] = "deliver" /\ Head(todo'["demuxer"]) = Buffer(r))
    <3>1. CASE Delivered("demuxer")
      <4>1. Follows
        BY <3>1, <2>1, <1>1, Following
      <4> QED BY <4>1, <2>1 DEF Follows, Screens
    <3>2. CASE at' = [at EXCEPT !["demuxer"] = "post"] /\ UNCHANGED <<item, todo>>
      <4>1. at'["demuxer"] = "post"
        BY <3>2, SourcesFacts DEF Types
      <4>2. TodoInv'
        BY <4>1, <3>2, <2>1, <1>1, OptKept DEF TodoInv, IsFrame
      <4>3. OpenInv'
        BY <4>1, <2>1, <2>2, <1>1, SourcesFacts, OptKept DEF OpenInv
      <4>4. Given("screen_vr")' = received /\ Given("v4l2_vr")' = Given("v4l2_vr")
        BY <4>1, <3>2, <2>1, <1>1 DEF Given, Ahead, IsFrame
      <4> QED BY <4>1, <4>2, <4>3, <4>4, <2>1 DEF Alive
    <3> QED BY <3>1, <3>2, <1>5, <1>9
  <2>4. FirstInv'
    BY <2>2, <2>3, <1>1, FirstKept
  <2>5. Flow("screen_vr")'
    <3>1. "screen_vr" \in Regulators /\ Buffer("screen_vr") = "screen"
      BY SourcesFacts DEF Buffer
    <3>2. Late("screen_vr") => Clear(queue["screen_vr"]) /\ ~IsFrame(item["screen_vr"])
      BY <3>1, <2>1 DEF FirstInv
    <3> QED BY <3>1, <3>2, <2>1, <2>2, <2>3, <1>1, <1>4, <1>9, PushedFlow
  <2>6. Flow("v4l2_vr")'
    <3>1. CASE Taps
      BY <3>1, <2>2, <2>3, <1>1, <1>4, SourcesFacts, FlowKept DEF FlowInv
    <3>2. CASE ~Taps
      BY <3>2, <1>1, OptKept DEF Flow, Uses
    <3> QED BY <3>1, <3>2
  <2>7. FlowInv'
    BY <2>3, <2>5, <2>6, SourcesFacts DEF FlowInv
  <2> QED BY <2>3, <2>4, <2>7, <1>7
<1> QED BY <1>2, <1>8, <1>9

(* The event is posted.                                                    *)
LEMMA PostNewFrameLatest ==
  ASSUME PipelineInv, LatestInv, NEW t \in Sources, PostNewFrame(t)
  PROVE  LatestInv'
<1> USE DEF PipelineInv, LatestInv
<1>1. /\ at[t] = "post" /\ events' = Append(events, "frame") /\ Delivered(t)
      /\ UNCHANGED <<opt, opened, received, queue, range, pending, hasFrame, paused, resume,
                     shown, writing, main>>
  BY DEF PostNewFrame, Post, demuxer, regulators, screen, v4l2, ending
<1>2. \A r \in Regulators : Newest(r)' = Newest(r)
  BY <1>1, NewestKept
<1>3. AnnouncedInv'
  <2>1. main = "loop" => Frames(events') # {}
    BY <1>1, AnnounceAppend DEF Types
  <2> QED BY <2>1, <1>1 DEF AnnouncedInv
<1>4. CASE t = "demuxer"
  <2>1. Follows
    BY <1>1, <1>4, Following
  <2>2. Head(todo["demuxer"]) = "screen" /\ IsFrame(item["demuxer"])
    BY <1>1, <1>4 DEF DemuxerInv
  <2>3. FirstInv'
    BY <2>1, <1>1, FirstKept DEF Follows
  <2>4. Given("screen_vr") = received
    BY <1>1, <1>4 DEF Given, Ahead
  <2>5. Flow("screen_vr")'
    BY <2>1, <2>4, <1>1, <1>2, SourcesFacts, FlowKept DEF Follows, FlowInv
  <2>6. Flow("v4l2_vr")'
    <3>1. CASE Taps
      BY <3>1, <2>1, <2>2, <1>1, <1>2, SourcesFacts, FlowKept DEF Follows, FlowInv, Screens
    <3>2. CASE ~Taps
      BY <3>2, <1>1, OptKept DEF Flow, Uses
    <3> QED BY <3>1, <3>2
  <2>7. FlowInv'
    BY <2>1, <2>5, <2>6, SourcesFacts DEF FlowInv, Follows
  <2> QED BY <2>1, <2>3, <2>7, <1>3 DEF Follows
<1>5. CASE t \in Regulators
  <2>1. Others(t) /\ at'[t] = "wait" /\ item'[t] = None
    BY <1>1, <1>5, RegulatorDelivered DEF Active
  <2>2. TodoInv' /\ OpenInv' /\ FirstInv' /\ FlowInv'
    BY <2>1, <1>1, <1>2, <1>5, NoneData, RegulatorCalls DEF Others
  <2> QED BY <2>2, <1>3
<1> QED BY <1>4, <1>5, SourcesFacts

(* A session is pushed to the screen.                                      *)
LEMMA ScreenPushSessionLatest ==
  ASSUME PipelineInv, LatestInv, NEW t \in Sources, ScreenPushSession(t)
  PROVE  LatestInv'
<1> USE DEF PipelineInv, LatestInv
<1>1. /\ Delivering(t, "screen") /\ ~IsFrame(item[t]) /\ at[t] = "deliver" /\ Delivered(t)
      /\ UNCHANGED <<opt, opened, received, queue, range, pending, hasFrame, paused, resume,
                     shown, writing, main, events>>
  BY DEF ScreenPushSession, Delivering, demuxer, regulators, v4l2, ending
<1>2. \A r \in Regulators : Newest(r)' = Newest(r)
  BY <1>1, NewestKept
<1>3. Others(t)
  BY <1>1, CallFacts DEF Delivered, Types
<1>4. AnnouncedInv'
  <2>1. \A u \in Sources : at[u] = "post" => at'[u] = "post"
    BY <1>1, <1>3 DEF Others
  <2> QED BY <2>1, <1>1, AnnouncedKept
<1>5. CASE t = "demuxer"
  <2>1. Follows
    BY <1>1, <1>5, Following
  <2>2. FirstInv'
    BY <2>1, <1>1, FirstKept DEF Follows
  <2>3. \A r \in Regulators : Given(r) = received
    BY <1>1, <1>5 DEF Given, Ahead
  <2>4. Flow("screen_vr")'
    BY <2>1, <2>3, <1>1, <1>2, SourcesFacts, FlowKept DEF Follows, FlowInv
  <2>5. Flow("v4l2_vr")'
    <3>1. CASE Taps
      BY <3>1, <2>1, <2>3, <1>1, <1>2, SourcesFacts, FlowKept DEF Follows, FlowInv
    <3>2. CASE ~Taps
      BY <3>2, <1>1, OptKept DEF Flow, Uses
    <3> QED BY <3>1, <3>2
  <2>6. FlowInv'
    BY <2>1, <2>4, <2>5, SourcesFacts DEF FlowInv, Follows
  <2> QED BY <2>1, <2>2, <2>6, <1>4 DEF Follows
<1>6. CASE t \in Regulators
  <2>1. at'[t] = "wait" /\ item'[t] = None
    BY <1>1, <1>6, RegulatorDelivered DEF Active
  <2>2. TodoInv' /\ OpenInv' /\ FirstInv' /\ FlowInv'
    BY <2>1, <1>1, <1>2, <1>3, <1>6, NoneData, RegulatorCalls DEF Others
  <2> QED BY <2>2, <1>4
<1> QED BY <1>5, <1>6, SourcesFacts

(* A frame or a session is pushed to V4L2.                                 *)
LEMMA V4l2PushLatest ==
  ASSUME PipelineInv, LatestInv, NEW t \in Sources, V4l2Push(t)
  PROVE  LatestInv'
<1> USE DEF PipelineInv, LatestInv
<1>1. /\ at[t] = "deliver" /\ todo[t] # <<>> /\ Head(todo[t]) = "v4l2" /\ Delivered(t)
      /\ UNCHANGED <<opt, opened, received, queue, range, paused, resume,
                     shown, writing, main, events>>
      /\ item[t] \in Data
  BY DEF V4l2Push, Delivering, demuxer, regulators, screen, ending, Types
<1>2. Others(t)
  BY <1>1, CallFacts DEF Delivered
<1>3. /\ pending'["screen"] = pending["screen"]
      /\ IF IsFrame(item[t]) THEN pending'["v4l2"] = item[t] /\ pending'["v4l2"] # None /\ hasFrame'
                             ELSE pending'["v4l2"] = pending["v4l2"] /\ hasFrame' = hasFrame
  <2>1. CASE ~IsFrame(item[t])
    BY <2>1 DEF V4l2Push
  <2>2. CASE IsFrame(item[t])
    <3>1. pending' = [pending EXCEPT !["v4l2"] = item[t]]
          /\ hasFrame' = (hasFrame \/ pending["v4l2"] = None)
      BY <2>2 DEF V4l2Push, Notify
    <3>2. hasFrame'
      BY <3>1 DEF AnnouncedInv
    <3> QED BY <3>1, <3>2, <2>2, NoneData DEF Types, Buffers
  <2> QED BY <2>1, <2>2
<1>4. /\ Newest("screen_vr")' = Newest("screen_vr")
      /\ Newest("v4l2_vr")' = IF IsFrame(item[t]) THEN item[t].frame ELSE Newest("v4l2_vr")
  <2>1. TapLast' = IF IsFrame(item[t]) THEN item[t].frame ELSE TapLast
    BY <1>1, <1>3 DEF TapLast
  <2> QED BY <2>1, <1>1, <1>3, NewestKept
<1>5. AnnouncedInv'
  <2>1. \A u \in Sources : at[u] = "post" => at'[u] = "post"
    BY <1>1, <1>2 DEF Others
  <2>2. hasFrame' <=> pending'["v4l2"] # None
    BY <1>3 DEF AnnouncedInv
  <2> QED BY <2>1, <2>2, <1>1, <1>3 DEF AnnouncedInv
<1>6. CASE t = "demuxer"
  <2>1. Follows /\ at["demuxer"] = "deliver" /\ Head(todo["demuxer"]) = "v4l2"
    BY <1>1, <1>6, Following
  <2>2. FirstInv'
    BY <2>1, <1>1, FirstKept DEF Follows
  <2>3. Taps /\ Given("v4l2_vr")' = received /\ Given("screen_vr") = received
    BY <2>1 DEF Follows, Screens, TodoInv, Given, Ahead
  <2>4. Flow("screen_vr")'
    BY <2>1, <2>3, <1>1, <1>4, SourcesFacts, FlowKept DEF Follows, FlowInv
  <2>5. Flow("v4l2_vr")'
    <3>1. CASE IsFrame(item["demuxer"])
      <4>1. item["demuxer"].frame = received
        BY <3>1, <2>1 DEF DemuxerInv
      <4>2. "v4l2_vr" \in Regulators /\ Buffer("v4l2_vr") = "v4l2"
        BY SourcesFacts DEF Buffer
      <4>3. Late("v4l2_vr") => Clear(queue["v4l2_vr"]) /\ ~IsFrame(item["v4l2_vr"])
        BY <4>2, <2>1 DEF FirstInv
      <4> QED BY <4>1, <4>2, <4>3, <3>1, <2>1, <2>3, <1>1, <1>4, <1>6, PushedFlow DEF Follows
    <3>2. CASE ~IsFrame(item["demuxer"])
      <4>1. Given("v4l2_vr") = received
        BY <3>2 DEF Given, Ahead
      <4> QED BY <4>1, <3>2, <2>1, <2>3, <1>1, <1>4, <1>6, SourcesFacts, FlowKept
          DEF Follows, FlowInv
    <3> QED BY <3>1, <3>2
  <2>6. FlowInv'
    BY <2>1, <2>4, <2>5, SourcesFacts DEF FlowInv, Follows
  <2> QED BY <2>1, <2>2, <2>6, <1>5 DEF Follows
<1>7. CASE t \in Regulators
  <2>1. at'[t] = "wait" /\ item'[t] = None
    BY <1>1, <1>7, RegulatorDelivered DEF Active
  <2>2. t = "v4l2_vr" /\ \A q \in Regulators : q # t => q = "screen_vr"
    <3>1. t # "screen_vr"
      BY <1>1, <1>7, RegulatorSinks DEF RegulatorInv, Active
    <3> QED BY <3>1, <1>7, SourcesFacts
  <2>3. TodoInv' /\ OpenInv' /\ FirstInv' /\ FlowInv'
    BY <2>1, <2>2, <1>1, <1>2, <1>4, <1>7, NoneData, RegulatorCalls DEF Others
  <2> QED BY <2>3, <1>5
<1> QED BY <1>6, <1>7, SourcesFacts

(* The thread of a regulator ends.                                         *)
LEMMA ExitLatest ==
  ASSUME PipelineInv, LatestInv, NEW r \in Regulators, at[r] \notin {"off", "post"},
         at' = [at EXCEPT ![r] = "exited"], item' = [item EXCEPT ![r] = None],
         todo' = [todo EXCEPT ![r] = <<>>], queue' = [queue EXCEPT ![r] = <<>>],
         UNCHANGED <<opt, opened, received, range, pending, hasFrame, paused, resume,
                     shown, writing, main, events>>
  PROVE  LatestInv'
<1> USE DEF PipelineInv, LatestInv
<1>1. /\ at'[r] = "exited" /\ item'[r] = None /\ queue'[r] = <<>> /\ r \in Sources
      /\ \A t \in Sources : t # r => at'[t] = at[t] /\ item'[t] = item[t]
                                     /\ todo'[t] = todo[t]
      /\ \A q \in Regulators : q # r => queue'[q] = queue[q]
  BY SourcesFacts DEF Types
<1>2. /\ at'["demuxer"] = at["demuxer"] /\ item'["demuxer"] = item["demuxer"]
      /\ todo'["demuxer"] = todo["demuxer"]
  BY <1>1, SourcesFacts
<1>3. TodoInv'
  BY <1>2, OptKept DEF TodoInv, IsFrame
<1>4. OpenInv'
  BY <1>1, <1>2, SourcesFacts, OptKept DEF OpenInv
<1>5. AnnouncedInv'
  <2>1. \A t \in Sources : at[t] = "post" => at'[t] = "post"
    BY <1>1
  <2> QED BY <2>1, AnnouncedKept
<1>6. FirstInv'
  <2>1. ASSUME NEW q \in Regulators, Late(q)',
               range'[q] = 0 \/ (at'["demuxer"] = "deliver" /\ Head(todo'["demuxer"]) = Buffer(q))
        PROVE  Clear(queue'[q]) /\ ~IsFrame(item'[q])
    <3>1. CASE q = r
      BY <3>1, <1>1, NoneData, ClearEnds
    <3>2. CASE q # r
      BY <3>2, <2>1, <1>1, <1>2, SourcesFacts, OptKept DEF FirstInv, IsFrame
    <3> QED BY <3>1, <3>2
  <2> QED BY <2>1 DEF FirstInv, Buffer
<1>7. FlowInv'
  <2>1. \A q \in Regulators : Newest(q)' = Newest(q)
    BY NewestKept
  <2>2. \A q \in Regulators : Given(q)' = Given(q) /\ Alive' = Alive
    BY <1>2, GivenKept
  <2>3. Late(r)
    BY SourcesFacts DEF Late, RegulatorInv, OpenInv
  <2>4. Flow(r)'
    BY <2>3, <1>1, OptKept DEF Flow
  <2>5. \A q \in Regulators : q # r => Flow(q)'
    BY <2>1, <2>2, <1>1, SourcesFacts, FlowKept DEF FlowInv
  <2> QED BY <2>1, <2>4, <2>5, <1>2 DEF FlowInv
<1> QED BY <1>3, <1>4, <1>5, <1>6, <1>7

(* A push fails.                                                           *)
LEMMA PushFailsLatest ==
  ASSUME PipelineInv, LatestInv, NEW t \in Sources, PushFails(t)
  PROVE  LatestInv'
<1>1. CASE t = "demuxer"
  <2>1. /\ CloseSinks(opened, "error") /\ at["demuxer"] = "deliver"
        /\ UNCHANGED <<opt, queue, range, pending, hasFrame, paused, resume, main, events>>
    BY <1>1 DEF PushFails, Rejected, regulators, v4l2, ending
  <2> QED BY <2>1, CloseLatest DEF EventsKept, PipelineInv
<1>2. CASE t \in Regulators
  <2>1. /\ at[t] \notin {"off", "post"}
        /\ at' = [at EXCEPT ![t] = "exited"] /\ item' = [item EXCEPT ![t] = None]
        /\ todo' = [todo EXCEPT ![t] = <<>>] /\ queue' = [queue EXCEPT ![t] = <<>>]
        /\ UNCHANGED <<opt, opened, received, range, pending, hasFrame, paused, resume,
                       shown, writing, main, events>>
    BY <1>2, SourcesFacts DEF PushFails, Rejected, demuxer, v4l2, ending
  <2> QED BY <2>1, <1>2, ExitLatest
<1> QED BY <1>1, <1>2, SourcesFacts

(* A regulator is stopped.                                                *)
LEMMA RegulatorStopsLatest ==
  ASSUME PipelineInv, LatestInv, NEW r \in Regulators, RegulatorStops(r)
  PROVE  LatestInv'
<1>1. /\ at[r] \notin {"off", "post"}
      /\ at' = [at EXCEPT ![r] = "exited"] /\ item' = [item EXCEPT ![r] = None]
      /\ todo' = [todo EXCEPT ![r] = <<>>] /\ queue' = [queue EXCEPT ![r] = <<>>]
      /\ UNCHANGED <<opt, opened, received, range, pending, hasFrame, paused, resume,
                     shown, writing, main, events>>
  BY DEF RegulatorStops, demuxer, screen, v4l2, ending
<1> QED BY <1>1, ExitLatest

(* A regulator takes what comes next in its queue; a frame waits.          *)
LEMMA TakeLatest ==
  ASSUME PipelineInv, LatestInv, NEW r \in Regulators, Take(r) \/ Timeout(r)
  PROVE  LatestInv'
<1> USE DEF PipelineInv, LatestInv
<1>1. /\ UNCHANGED <<opt, opened, received, range, pending, hasFrame, paused, resume,
                     shown, writing, main, events>>
      /\ at[r] \in {"wait", "timed"} /\ at'[r] \in {"timed", "deliver"} /\ r \in Sources
      /\ \A t \in Sources : t # r => at'[t] = at[t] /\ item'[t] = item[t]
                                     /\ todo'[t] = todo[t]
      /\ \A q \in Regulators : q # r => queue'[q] = queue[q]
  BY SourcesFacts DEF Take, Timeout, Types, demuxer, regulators, screen, v4l2, ending
<1>2. /\ at'["demuxer"] = at["demuxer"] /\ item'["demuxer"] = item["demuxer"]
      /\ todo'["demuxer"] = todo["demuxer"]
  BY <1>1, SourcesFacts
<1>3. /\ Clear(queue[r]) /\ ~IsFrame(item[r]) => Clear(queue'[r]) /\ ~IsFrame(item'[r])
      /\ \A n : EndsWith(queue[r], Left(r), n) => EndsWith(queue'[r], Left(r)', n)
  <2>1. Newest(r)' = Newest(r)
    BY <1>1, NewestKept
  <2>2. CASE Timeout(r)
    <3>1. queue'[r] = queue[r] /\ item'[r] = item[r] /\ Left(r)' = Left(r)
      BY <2>1, <2>2, <1>1 DEF Timeout, regulators, Left, IsFrame
    <3> QED BY <3>1
  <2>3. CASE Take(r)
    <3> DEFINE q == queue[r]
    <3>1. /\ q \in Seq(Data) /\ q # <<>> /\ queue'[r] = Tail(q) /\ item'[r] = Head(q)
          /\ at[r] = "wait"
      BY <2>3, <1>1 DEF Take, Types
    <3>2. Left(r) = Newest(r)
      BY <3>1 DEF Left
    <3>3. Left(r)' = IF IsFrame(Head(q)) THEN Head(q).frame ELSE Newest(r)
      BY <3>1, <2>1, <1>1 DEF Left, IsFrame
    <3> HIDE DEF q
    <3>4. /\ Clear(q) => ~IsFrame(Head(q)) /\ Clear(Tail(q))
          /\ \A b, n : EndsWith(q, b, n) =>
               EndsWith(Tail(q), IF IsFrame(Head(q)) THEN Head(q).frame ELSE b, n)
      BY <3>1, EndsTail
    <3> QED BY <3>1, <3>2, <3>3, <3>4 DEF q
  <2> QED BY <2>2, <2>3
<1>4. TodoInv'
  BY <1>1, <1>2, OptKept DEF TodoInv, IsFrame
<1>5. OpenInv'
  BY <1>1, <1>2, SourcesFacts, OptKept DEF OpenInv
<1>6. AnnouncedInv'
  <2>1. \A t \in Sources : at[t] = "post" => at'[t] = "post"
    BY <1>1
  <2> QED BY <2>1, <1>1, AnnouncedKept
<1>7. FirstInv'
  <2>1. ASSUME NEW q \in Regulators, Late(q)',
               range'[q] = 0 \/ (at'["demuxer"] = "deliver" /\ Head(todo'["demuxer"]) = Buffer(q))
        PROVE  Clear(queue'[q]) /\ ~IsFrame(item'[q])
    <3>1. Clear(queue[q]) /\ ~IsFrame(item[q])
      BY <2>1, <1>1, <1>2, OptKept DEF FirstInv
    <3>2. CASE q = r
      BY <3>1, <3>2, <1>3
    <3>3. CASE q # r
      BY <3>1, <3>3, <1>1, SourcesFacts
    <3> QED BY <3>2, <3>3
  <2> QED BY <2>1 DEF FirstInv, Buffer, IsFrame
<1>8. FlowInv'
  <2>1. \A q \in Regulators : Newest(q)' = Newest(q)
    BY <1>1, NewestKept
  <2>2. \A q \in Regulators : Given(q)' = Given(q) /\ Alive' = Alive
    BY <1>1, <1>2, GivenKept
  <2>3. Flow(r)'
    BY <2>1, <2>2, <1>1, <1>3, OptKept DEF Flow, FlowInv
  <2>4. \A q \in Regulators : q # r => Flow(q)'
    BY <2>1, <2>2, <1>1, SourcesFacts, FlowKept DEF FlowInv
  <2> QED BY <2>1, <2>3, <2>4, <1>1, <1>2 DEF FlowInv
<1> QED BY <1>4, <1>5, <1>6, <1>7, <1>8

(* The demuxer gives a frame or a session to a regulator: the first frame  *)
(* goes around the queue, which is clear.                                  *)
LEMMA RegulatorPushLatest ==
  ASSUME PipelineInv, LatestInv, NEW r \in Regulators, RegulatorPush(r)
  PROVE  LatestInv'
<1> USE DEF PipelineInv, LatestInv
<1>1. /\ Delivering("demuxer", r) /\ at["demuxer"] = "deliver" /\ Head(todo["demuxer"]) = r
      /\ todo["demuxer"] \in Seq(Sink) /\ todo["demuxer"] # <<>>
      /\ UNCHANGED <<opt, pending, hasFrame, paused, resume, shown, writing, main, events>>
  BY DEF RegulatorPush, Delivering, DemuxerInv, screen, v4l2, ending
<1>2. CASE stopped[r]
  <2>1. CloseSinks(opened, "error") /\ UNCHANGED <<queue, range>>
    BY <1>2 DEF RegulatorPush, Rejected, regulators
  <2> QED BY <2>1, <1>1, CloseLatest DEF EventsKept
<1>3. CASE ~stopped[r]
  <2> DEFINE x == item["demuxer"]
             first == IsFrame(x) /\ range[r] = 0
  <2>1. /\ UNCHANGED <<opened, received>>
        /\ range' = IF IsFrame(x) THEN [range EXCEPT ![r] = 1] ELSE range
        /\ first => /\ Call("demuxer", x, Sinks(r) \o Tail(todo["demuxer"]))
                    /\ UNCHANGED queue
        /\ ~first => /\ queue' = [queue EXCEPT ![r] = Append(@, x)]
                     /\ Delivered("demuxer")
    BY <1>3 DEF RegulatorPush, demuxer
  <2>2. /\ x \in Data /\ (IsFrame(x) => x.frame = received) /\ received \in Nat
        /\ r = "screen_vr" \/ r = "v4l2_vr"
    BY <1>1, SourcesFacts DEF Types, DemuxerInv
  <2>3. /\ r = "screen_vr" => Tail(todo["demuxer"]) = TapSinks
        /\ r = "v4l2_vr" => Tail(todo["demuxer"]) = <<>> /\ Taps /\ TapDelayed
    BY <1>1, <2>2 DEF TodoInv, Screens
  <2>4. Late(r) /\ Uses(r) /\ Plays' = Plays /\ Delayed' = Delayed
    BY <1>1, <2>2, <2>3, OptKept DEF DemuxerInv, Screens, Late, Uses
  <2>5. \A q \in Regulators : Newest(q)' = Newest(q)
    BY <1>1, NewestKept
  <2>6. CASE first
    <3>1. Sinks(r) = <<Buffer(r)>> /\ Buffer(r) \in Sink
      BY <2>2, RegulatorSinks DEF Buffer, Sink, Buffers
    <3> DEFINE s == Tail(todo["demuxer"])   y == <<Buffer(r)>> \o s
    <3>2. s \in Seq(Sink) /\ (r = "screen_vr" => NoScreen(s))
      BY <1>1, TailHasNoScreen DEF DemuxerInv
    <3>3. y # <<>> /\ Head(y) = Buffer(r) /\ Tail(y) = s
      <4>1. NoScreen(s)
        BY <1>1, TailHasNoScreen DEF DemuxerInv
      <4> QED BY <4>1, <3>1, <3>2, ScreenThen, FrontTail
    <3>4. Call("demuxer", x, y)
      BY <2>1, <2>6, <3>1
    <3> HIDE DEF y
    <3>5. /\ at'["demuxer"] = "deliver" /\ todo'["demuxer"] = y /\ item'["demuxer"] = x
          /\ \A q \in Regulators : at'[q] = at[q] /\ item'[q] = item[q]
      BY <3>3, <3>4, <2>2, SourcesFacts, CallFacts DEF Others
    <3>6. TodoInv'
      BY <3>3, <3>5, <2>2, <2>3, <2>6, <1>1, OptKept
         DEF TodoInv, Screens, Buffer, IsFrame
    <3>7. OpenInv'
      BY <3>5, <2>1, <1>1, SourcesFacts, OptKept DEF OpenInv
    <3>8. AnnouncedInv'
      <4>1. \A t \in Sources : at[t] = "post" => at'[t] = "post"
        BY <3>5, <1>1, SourcesFacts
      <4> QED BY <4>1, <1>1, AnnouncedKept
    <3>9. FirstInv'
      <4>1. Clear(queue[r]) /\ ~IsFrame(item[r])
        BY <2>4, <2>6 DEF FirstInv
      <4>2. ASSUME NEW q \in Regulators, Late(q)', q # r,
                   range'[q] = 0 \/ (at'["demuxer"] = "deliver" /\ Head(todo'["demuxer"]) = Buffer(q))
            PROVE  Clear(queue[q]) /\ ~IsFrame(item[q])
        <5>1. Buffer(q) # Buffer(r)
          BY <4>2, SourcesFacts DEF Buffer
        <5>2. range'[q] = range[q]
          BY <4>2, <2>1 DEF Types
        <5> QED BY <5>1, <5>2, <4>2, <3>3, <3>5, <1>1, OptKept DEF FirstInv
      <4>3. \A q \in Regulators : queue'[q] = queue[q] /\ item'[q] = item[q]
        BY <3>5, <2>1, <2>6
      <4> QED BY <4>1, <4>2, <4>3 DEF FirstInv, Buffer, IsFrame
    <3>10. FlowInv'
      <4>1. \A q \in Regulators : Given(q)' = Given(q)
        <5>1. Head(y) \in Screens <=> r \in Screens
          BY <3>3, <2>2 DEF Buffer, Screens
        <5> QED BY <5>1, <3>5, <2>1, <1>1, SourcesFacts DEF Given, Ahead, IsFrame
      <4>2. \A q \in Regulators : Flow(q)'
        BY <4>1, <3>5, <2>1, <2>5, <2>6, <1>1, FlowKept DEF FlowInv, Alive
      <4> QED BY <4>2, <3>5 DEF FlowInv
    <3> QED BY <3>6, <3>7, <3>8, <3>9, <3>10
  <2>7. CASE ~first
    <3>1. Follows
      BY <2>1, <2>7, <1>1, Following
    <3>2. /\ queue'[r] = Append(queue[r], x) /\ queue[r] \in Seq(Data)
          /\ \A q \in Regulators : q # r => queue'[q] = queue[q]
      BY <2>1, <2>7 DEF Types
    <3>3. AnnouncedInv'
      <4>1. \A t \in Sources : at[t] = "post" => at'[t] = "post"
        BY <3>1, <1>1, SourcesFacts DEF Follows
      <4> QED BY <4>1, <1>1, AnnouncedKept
    <3>4. FirstInv'
      <4>1. ASSUME NEW q \in Regulators, Late(q)',
                   range'[q] = 0 \/ (at'["demuxer"] = "deliver" /\ Head(todo'["demuxer"]) = Buffer(q))
            PROVE  Clear(queue'[q]) /\ ~IsFrame(item'[q])
        <5>1. range'[q] = 0 /\ Late(q)
          BY <4>1, <3>1, <1>1, OptKept DEF Follows
        <5>2. range[q] = 0
          BY <5>1, <2>1, <2>7 DEF Types
        <5>3. Clear(queue[q]) /\ ~IsFrame(item[q])
          BY <5>1, <5>2 DEF FirstInv
        <5>4. CASE q = r
          <6>1. ~IsFrame(x)
            BY <5>2, <5>4, <2>7
          <6> QED BY <6>1, <5>3, <5>4, <3>1, <3>2, <2>2, EndsAppend DEF Follows
        <5>5. CASE q # r
          BY <5>3, <5>5, <3>1, <3>2 DEF Follows
        <5> QED BY <5>4, <5>5
      <4> QED BY <4>1 DEF FirstInv, Buffer, IsFrame
    <3>5. Given(r)' = received
      BY <3>1, <2>2, <2>3, <1>1 DEF Follows, Screens
    <3>6. Flow(r)'
      <4>1. Left(r)' = Left(r) /\ Uses(r)' = Uses(r) /\ Late(r)' = Late(r)
        BY <3>1, <2>5, <1>1, OptKept DEF Left, Follows, IsFrame
      <4>2. CASE IsFrame(x)
        BY <4>1, <4>2, <3>2, <3>5, <2>2, <2>4, EndsAppend DEF Flow
      <4>3. CASE ~IsFrame(x)
        <5>1. Given(r) = received
          BY <4>3 DEF Given, Ahead
        <5> QED BY <5>1, <4>1, <4>3, <3>1, <3>2, <3>5, <2>2, <2>4, EndsAppend
            DEF Flow, FlowInv, Follows
      <4> QED BY <4>2, <4>3
    <3>7. ASSUME NEW q \in Regulators, q # r PROVE Flow(q)'
      <4>1. CASE q = "screen_vr"
        <5>1. r = "v4l2_vr" /\ Given(q) = received
          BY <4>1, <3>7, <2>2, <1>1 DEF Given, Ahead, Screens
        <5> QED BY <5>1, <4>1, <3>1, <3>2, <3>7, <2>5, <1>1, FlowKept DEF Follows, FlowInv
      <4>2. CASE q = "v4l2_vr" /\ Taps
        <5>1. r = "screen_vr"
          BY <4>2, <3>7, <2>2
        <5> QED BY <5>1, <4>2, <3>1, <3>2, <3>7, <2>5, <1>1, FlowKept
            DEF Follows, FlowInv, Screens
      <4>3. CASE q = "v4l2_vr" /\ ~Taps
        BY <4>3, <1>1, OptKept DEF Flow, Uses
      <4> QED BY <4>1, <4>2, <4>3, SourcesFacts
    <3>8. FlowInv'
      BY <3>1, <3>6, <3>7 DEF FlowInv, Follows
    <3> QED BY <3>1, <3>3, <3>4, <3>8 DEF Follows
  <2> QED BY <2>6, <2>7
<1> QED BY <1>2, <1>3

-------------------------------------------------------------------------------
(* The other actions keep it.                                              *)

(* The demuxer closes its sinks, and ends.                                 *)
LEMMA ClosingLatest ==
  ASSUME PipelineInv, LatestInv,
         OnEnded \/ \E s \in Regulators \cup Buffers : StopSink(s) \/ CloseSink(s)
  PROVE  LatestInv'
<1> USE DEF PipelineInv
<1>1. CASE OnEnded
  <2>1. /\ at["demuxer"] = "close" /\ at' = [at EXCEPT !["demuxer"] = "exited"]
        /\ UNCHANGED <<opt, item, opened, queue, range, pending, hasFrame, paused, resume,
                       main>>
    BY <1>1 DEF OnEnded, demuxer, regulators, screen, v4l2, ending
  <2>2. EventsKept
    BY <1>1 DEF OnEnded, Post, EventsKept, EventNames
  <2>3. at'["demuxer"] = "exited" /\ \A r \in Regulators : at'[r] = at[r]
    BY <2>1, SourcesFacts DEF Types
  <2> QED BY <2>1, <2>2, <2>3, ClosedKept
<1>2. CASE \E s \in Regulators \cup Buffers : StopSink(s) \/ CloseSink(s)
  <2>1. /\ at["demuxer"] = "close"
        /\ UNCHANGED <<opt, at, item, opened, queue, range, pending, hasFrame, paused,
                       resume, main, events>>
    BY <1>2 DEF StopSink, CloseSink, ClosingSink, calls, demuxer, regulators, screen, v4l2,
                ending
  <2> QED BY <2>1, ClosedKept DEF EventsKept
<1> QED BY <1>1, <1>2

(* The V4L2 thread: the frame pending becomes the one it encodes.          *)
LEMMA WriterLatest == PipelineInv /\ LatestInv /\ (Writer \/ WriterFails) => LatestInv'
<1> SUFFICES ASSUME PipelineInv, LatestInv, Writer \/ WriterFails PROVE LatestInv'
  OBVIOUS
<1> USE DEF PipelineInv, LatestInv
<1>1. UNCHANGED <<opt, calls, opened, received, queue, range, paused, resume, shown, main,
                  events>>
  BY DEF Writer, WriterTakes, WriterWrites, WriterStops, WriterFails, demuxer, regulators,
         screen, ending
<1>2. at' = at
  BY <1>1 DEF calls
<1>3. CASE WriterTakes
  <2>1. /\ hasFrame /\ ~hasFrame' /\ writing' = pending["v4l2"]
        /\ pending' = [pending EXCEPT !["v4l2"] = None]
    BY <1>3 DEF WriterTakes
  <2>2. /\ pending["v4l2"] # None /\ pending'["v4l2"] = None
        /\ pending'["screen"] = pending["screen"]
    BY <2>1 DEF AnnouncedInv, Types, Buffers
  <2>3. AnnouncedInv'
    BY <2>1, <2>2, <1>1, <1>2 DEF AnnouncedInv
  <2>4. TapLast' = TapLast
    BY <2>1, <2>2 DEF TapLast
  <2>5. \A r \in Regulators : Newest(r)' = Newest(r)
    BY <2>2, <2>4, <1>1, NewestKept, SourcesFacts
  <2> QED BY <2>3, <2>5, <1>1, CallsKept
<1>4. CASE ~WriterTakes
  <2>1. UNCHANGED <<pending, hasFrame, writing>>
    BY <1>4 DEF Writer, WriterWrites, WriterStops, WriterFails
  <2>2. AnnouncedInv'
    BY <2>1, <1>1, <1>2, AnnouncedKept
  <2> QED BY <2>1, <2>2, <1>1, NewestKept, CallsKept
<1> QED BY <1>3, <1>4

(* The main thread: the frame pending is rendered, or set aside.           *)
LEMMA NewFrameLatest == PipelineInv /\ LatestInv /\ NewFrame => LatestInv'
<1> SUFFICES ASSUME PipelineInv, LatestInv, NewFrame PROVE LatestInv'
  OBVIOUS
<1> USE DEF PipelineInv, LatestInv
<1> DEFINE x == pending["screen"]
<1>1. /\ UNCHANGED <<opt, calls, opened, received, queue, range, paused, hasFrame, writing>>
      /\ Event("frame") /\ main = "loop" /\ pending' = [pending EXCEPT !["screen"] = None]
      /\ IF paused THEN resume' = x /\ UNCHANGED shown
                   ELSE shown'.frame = x.frame /\ UNCHANGED resume
  BY DEF NewFrame, demuxer, regulators, v4l2
<1>2. x # None
  BY <1>1, EventTaken DEF NotifyInv
<1>3. pending'["screen"] = None /\ pending'["v4l2"] = pending["v4l2"]
  BY <1>1 DEF Types, Buffers
<1>4. AnnouncedInv'
  BY <1>1, <1>3 DEF AnnouncedInv
<1>5. ScreenLast' = ScreenLast
  BY <1>1, <1>2, <1>3 DEF ScreenLast, AnnouncedInv
<1>6. \A r \in Regulators : Newest(r)' = Newest(r)
  BY <1>1, <1>3, <1>5, NewestKept, SourcesFacts
<1> QED BY <1>1, <1>4, <1>6, CallsKept

(* The display is paused, refreshed or resumed.                            *)
LEMMA SetPausedLatest ==
  ASSUME PipelineInv, LatestInv, NEW p \in BOOLEAN, SetPaused(p)
  PROVE  LatestInv'
<1> USE DEF LatestInv
<1>1. /\ UNCHANGED <<opt, calls, opened, received, queue, range, main, pending, events,
                     hasFrame, writing>>
      /\ IF resume # None THEN shown'.frame = resume.frame /\ resume' = None
                          ELSE UNCHANGED <<shown, resume>>
  BY DEF SetPaused, demuxer, regulators, v4l2, ending
<1>2. at' = at /\ resume' = None
  BY <1>1 DEF calls
<1>3. AnnouncedInv'
  BY <1>1, <1>2 DEF AnnouncedInv
<1>4. ScreenLast' = ScreenLast
  BY <1>1 DEF ScreenLast
<1>5. \A r \in Regulators : Newest(r)' = Newest(r)
  BY <1>1, <1>4, NewestKept, SourcesFacts
<1> QED BY <1>1, <1>3, <1>5, CallsKept

(* The other events, the end of the loop and the thread of disconnect.c.   *)
LEMMA EndingLatest ==
  ASSUME PipelineInv, LatestInv,
         \/ OpenWindow \/ Disconnected \/ DemuxerError \/ LoopEnds \/ StopServer
         \/ DiscardEvent \/ QuitDisplayed \/ JoinDemuxer \/ DestroyScreen \/ Disc
  PROVE  LatestInv'
<1> USE DEF PipelineInv, LatestInv
<1>1. UNCHANGED <<opt, calls, opened, received, queue, range, shown, resume, paused, pending,
                  hasFrame, writing>>
  BY DEF OpenWindow, Disconnected, DemuxerError, LoopEnds, StopServer, DiscardEvent,
         QuitDisplayed, JoinDemuxer, DestroyScreen, Disc, LoadIcon, DiscEnds, demuxer,
         regulators, screen, v4l2
<1>2. at' = at
  BY <1>1 DEF calls
<1>3. main' = "loop" => main = "loop" /\ (Frames(events) # {} => Frames(events') # {})
  <2>1. CASE OpenWindow
    <3>1. main = "loop" /\ events # <<>> /\ Head(events) = "open" /\ events' = Tail(events)
      BY <2>1 DEF OpenWindow, Event
    <3>2. events \in Seq(EventNames)
      BY <3>1 DEF Types
    <3> QED BY <3>1, <3>2, AnnounceTail
  <2>2. CASE ~OpenWindow
    <3>1. main' # "loop" \/ (main' = main /\ EventsKept)
      BY <2>2 DEF Disconnected, DemuxerError, LoopEnds, StopServer, DiscardEvent,
             QuitDisplayed, JoinDemuxer, DestroyScreen, Disc, LoadIcon, DiscEnds, Post,
             EventsKept, EventNames
    <3> QED BY <3>1, EventsKeep DEF Types
  <2> QED BY <2>1, <2>2
<1>4. AnnouncedInv'
  BY <1>1, <1>2, <1>3, AnnouncedKept
<1> QED BY <1>1, <1>4, NewestKept, CallsKept

-------------------------------------------------------------------------------
(* The last frame.                                                         *)

(* Whoever calls a sink.                                                   *)
LEMMA DeliverLatest ==
  ASSUME PipelineInv, LatestInv, NEW t \in Sources, Deliver(t)
  PROVE  LatestInv'
BY ScreenPushLatest, PostNewFrameLatest, ScreenPushSessionLatest, V4l2PushLatest DEF Deliver

(* The last frame that went through a branch is the one before what its    *)
(* queue holds, and the queue ends with the last that the demuxer gave.    *)
THEOREM LatestInvariant == Spec => [](PipelineInv /\ LatestInv)
<1>1. Init => LatestInv
  <2> SUFFICES ASSUME Init PROVE LatestInv
    OBVIOUS
  <2>1. /\ at["demuxer"] = "start" /\ opened = 0 /\ received = 0
        /\ \A r \in Regulators : at[r] = "off" /\ item[r] = None /\ queue[r] = <<>>
        /\ \A b \in Buffers : pending[b] = None
        /\ resume = None /\ shown.frame = 0 /\ writing = None /\ ~hasFrame
    BY SourcesFacts DEF Init
  <2>2. TodoInv
    BY <2>1 DEF TodoInv
  <2>3. OpenInv
    <3>1. Len(Branches) # 0 /\ ~(opened > 0)
      BY <2>1, BranchesShape DEF Init
    <3> QED BY <3>1, <2>1, SourcesFacts DEF OpenInv
  <2>4. AnnouncedInv
    BY <2>1 DEF AnnouncedInv, Buffers
  <2>5. FirstInv
    BY <2>1, NoneData, ClearEnds DEF FirstInv
  <2>6. \A r \in Regulators : Newest(r) = 0
    BY <2>1, NoneData DEF Newest, ScreenLast, TapLast, Buffers
  <2>7. \A r \in Regulators : Flow(r)
    BY <2>1, <2>6 DEF Flow, Given, Ahead
  <2> QED BY <2>1, <2>2, <2>3, <2>4, <2>5, <2>6, <2>7 DEF LatestInv, FlowInv
<1>2. PipelineInv /\ LatestInv /\ [Next]_vars => LatestInv'
  <2> SUFFICES ASSUME PipelineInv, LatestInv, [Next]_vars PROVE LatestInv'
    OBVIOUS
  <2>1. CASE UNCHANGED vars
    <3>1. UNCHANGED <<opt, calls, opened, received, queue, range, pending, resume, shown,
                      paused, writing, hasFrame, main, events>>
      BY <2>1 DEF vars, demuxer, regulators, screen, v4l2, ending
    <3>2. AnnouncedInv'
      BY <3>1, AnnouncedKept DEF LatestInv, calls
    <3> QED BY <3>1, <3>2, NewestKept, CallsKept
  <2>2. CASE Demuxer
    BY <2>2, OpenBranchLatest, AllOpenLatest, StartLatest, EndLatest, DeliverLatest,
       RegulatorPushLatest, ClosingLatest, SourcesFacts DEF Demuxer
  <2>3. CASE StartStream \/ OpenFails \/ RecvSession \/ RecvFrame \/ EndOfStream \/ RecvFails
    BY <2>3, StartLatest, EndLatest, RecvLatest
  <2>4. CASE \E t \in Sources : PushFails(t)
    BY <2>4, PushFailsLatest
  <2>5. CASE \E r \in Regulators : Regulator(r)
    BY <2>5, TakeLatest, RegulatorStopsLatest, DeliverLatest, SourcesFacts DEF Regulator
  <2>6. CASE Writer \/ WriterFails
    BY <2>6, WriterLatest
  <2>7. CASE Main \/ LoopEnds \/ QuitDisplayed \/ Disc
    BY <2>7, NewFrameLatest, EndingLatest DEF Main
  <2>8. CASE \E p \in BOOLEAN : SetPaused(p)
    BY <2>8, SetPausedLatest
  <2> QED BY <2>1, <2>2, <2>3, <2>4, <2>5, <2>6, <2>7, <2>8 DEF Next
<1>3. Spec => []PipelineInv
  BY PipelineInvariant
<1> QED BY <1>1, <1>2, <1>3, PTL DEF Spec

(* LastFrameDelivered.  When nothing moves, the screen shows or holds the  *)
(* last frame received and the V4L2 device was given it, through the       *)
(* regulators or not, although a reader is notified only if its buffer was *)
(* empty (screen.c:452-466, v4l2_sink.c:314, video_regulator.c).           *)
THEOREM LastFrameArrives == Spec => []LastFrameDelivered
<1>1. PipelineInv /\ LatestInv => LastFrameDelivered
  <2> SUFFICES ASSUME PipelineInv, LatestInv, Quiet
               PROVE  /\ Plays => received = IF resume = None THEN shown.frame ELSE resume.frame
                      /\ Taps /\ writer = "wait" => received = writing.frame
    BY DEF LastFrameDelivered, Plays, Taps
  <2> USE DEF PipelineInv, LatestInv
  <2>1. /\ at["demuxer"] = "recv" /\ main = "loop" /\ events = <<>>
        /\ \A r \in Regulators : at[r] \in {"off", "wait"} /\ queue[r] = <<>>
        /\ writer = "wait" => ~hasFrame
    BY DEF Quiet
  <2>2. ASSUME NEW r \in Regulators, Uses(r) PROVE Newest(r) = received
    <3>1. Given(r) = received /\ Alive
      BY <2>1 DEF Given, Ahead, Alive
    <3>2. ASSUME Late(r) PROVE at[r] = "wait"
      <4>1. opened = Len(Branches) /\ opened > 0
        BY <2>1, BranchesShape DEF OpenInv, Types
      <4> QED BY <4>1, <3>2, <2>1, <2>2, SourcesFacts DEF OpenInv, Late, Uses
    <3>3. CASE Late(r)
      <4>1. EndsWith(<<>>, Newest(r), received)
        BY <3>1, <3>2, <3>3, <2>1, <2>2 DEF FlowInv, Flow, Left
      <4> QED BY <4>1, ClearEnds
    <3>4. CASE ~Late(r)
      BY <3>1, <3>4, <2>2 DEF FlowInv, Flow
    <3> QED BY <3>3, <3>4
  <2>3. pending["screen"] = None
    <3>1. Frames(events) = {}
      BY <2>1 DEF Frames
    <3>2. \A t \in Sources : at[t] # "post"
      BY <2>1, SourcesFacts
    <3> QED BY <3>1, <3>2, <2>1 DEF AnnouncedInv
  <2>4. Plays => received = IF resume = None THEN shown.frame ELSE resume.frame
    BY <2>2, <2>3, NewestKept, SourcesFacts DEF ScreenLast, Uses
  <2>5. Taps /\ writer = "wait" => received = writing.frame
    BY <2>1, <2>2, NewestKept, SourcesFacts DEF TapLast, AnnouncedInv, Uses
  <2> QED BY <2>4, <2>5
<1> QED BY <1>1, LatestInvariant, PTL

-------------------------------------------------------------------------------
(* The sinks that are called: the inductive invariant.                     *)

(* What the demuxer has still to close: a regulator before its sink.       *)
Ordered(s) ==
  /\ s \in Seq(Sink)
  /\ \A i, j \in DOMAIN s : s[i] = s[j] => i = j
  /\ \A i \in DOMAIN s :
       s[i] \in Regulators => i + 1 \in DOMAIN s /\ s[i + 1] = Buffer(s[i])

(* The sinks that are open are those of the branches opened, until they    *)
(* are closed; a thread that runs has its sinks open.                      *)
BranchSinks(n) == UNION {ToSet(Branches[i]) : i \in 1 .. n}
UseInv ==
  /\ opened <= Len(Branches)
  /\ at["demuxer"] \notin {"close", "exited"} => open = BranchSinks(opened)
  /\ at["demuxer"] = "close" =>
       Ordered(todo["demuxer"]) /\ open = ToSet(todo["demuxer"])
  /\ at["demuxer"] = "exited" => open = {}
  /\ \A r \in Regulators : at[r] \notin {"off", "exited"} => {r, Buffer(r)} \subseteq open
  /\ writer \in {"wait", "write"} => "v4l2" \in open

(* The main thread destroys the screen after the other threads.            *)
EndInv ==
  /\ main \in {"destroy", "destroyed"} => at["demuxer"] = "exited"
  /\ main = "loop" => disc = "off"
  /\ main = "destroyed" => disc \in {"off", "ended"}

(* The event that opens the window comes before the frames; it is posted   *)
(* once, and so is the icon: one of each kind is freed.                    *)
Places(s, e) == {i \in DOMAIN s : s[i] = e}
Unasked == at["demuxer"] = "start" \/ (at["demuxer"] = "open" /\ opened = 0)
WindowInv ==
  main = "loop" =>
    /\ \A i \in Frames(events) : window \/ \E j \in Places(events, "open") : j < i
    /\ Plays /\ opened > 0 => window \/ Places(events, "open") # {}
OnceInv ==
  /\ \A e \in {"icon", "open"} : \A i, j \in Places(events, e) : i = j
  /\ disc \in {"off", "icon"} \/ main = "destroyed" => Places(events, "icon") = {}
  /\ Unasked \/ main = "destroyed" => Places(events, "open") = {}

(* The parts of the type invariant.                                        *)
ThreadTypes ==
  /\ at \in [Sources -> {"start", "open", "recv", "off", "wait", "timed", "deliver",
                         "post", "close", "exited"}]
  /\ item \in [Sources -> Item] /\ todo \in [Sources -> Seq(Sink)]
QueueTypes ==
  /\ queue \in [Regulators -> Seq(Item)] /\ stopped \in [Regulators -> BOOLEAN]
  /\ range \in [Regulators -> 0 .. 1]
DemuxerTypes ==
  /\ opt \in Options /\ opened \in 0 .. 2 /\ status \in {"eos", "error"}
  /\ session \in 0 .. MaxSessions /\ received \in 0 .. MaxFrames
  /\ open \subseteq Sink
ScreenTypes ==
  /\ pending \in [Buffers -> Item] /\ resume \in Item
  /\ current \in 0 .. MaxSessions /\ prevent \in 0 .. MaxSessions
  /\ window \in BOOLEAN /\ paused \in BOOLEAN
WriterTypes ==
  /\ writer \in {"off", "wait", "write", "failed", "exited"} /\ writing \in Item
  /\ hasFrame \in BOOLEAN /\ vstopped \in BOOLEAN /\ header \in BOOLEAN
EndTypes ==
  /\ main \in {"loop", "stop", "displayed", "join", "destroy", "destroyed"}
  /\ lost \in BOOLEAN /\ socket \in BOOLEAN /\ interrupted \in BOOLEAN
  /\ disc \in {"off", "icon", "wait", "ended"}
EventTypes == events \in Seq(EventNames)
Typed ==
  /\ ThreadTypes /\ QueueTypes /\ DemuxerTypes /\ ScreenTypes /\ WriterTypes
  /\ EndTypes /\ EventTypes
SinksInv == Typed /\ UseInv /\ EndInv /\ WindowInv /\ OnceInv

(* The assertions follow from the other parts.                             *)
Asserted ==
  /\ main = "loop" /\ events # <<>> /\ Head(events) = "frame" =>
       window /\ pending["screen"] # None
  /\ hasFrame => pending["v4l2"] # None
  /\ main = "destroyed" => "screen" \notin open

(* They are those of the module.                                           *)
LEMMA TypeParts == Typed /\ Asserted => PipelineTypeOK
BY DEF Typed, PipelineTypeOK, ThreadTypes, QueueTypes, DemuxerTypes, ScreenTypes, WriterTypes,
       EndTypes, EventTypes, Asserted, Sink, EventNames

(* Nothing, and what is in the bounds.                                     *)
LEMMA ItemFacts ==
  /\ None \in Item /\ MaxSessions \in Nat \ {0} /\ MaxFrames \in Nat
  /\ \A f \in 0 .. MaxFrames, n \in 0 .. MaxSessions : [frame |-> f, session |-> n] \in Item
  /\ \A x \in Item : x.frame \in 0 .. MaxFrames /\ x.session \in 0 .. MaxSessions
  /\ Item \subseteq Data
BY PipelineAssumption DEF PipelineAssumption, None, Item, Data

(* Where an event is, once another is posted.                              *)
LEMMA PlacesAppend ==
  ASSUME NEW s \in Seq(EventNames), NEW e \in EventNames
  PROVE  /\ Append(s, e) \in Seq(EventNames) /\ Len(s) + 1 \in Places(Append(s, e), e)
         /\ \A x, i : i \in Places(Append(s, e), x) <=>
              i \in Places(s, x) \/ (x = e /\ i = Len(s) + 1)
         /\ \A x : \A i \in Places(s, x) : i \in Nat /\ i < Len(s) + 1
<1> DEFINE y == Append(s, e)
<1>1. Len(s) \in Nat /\ DOMAIN s = 1 .. Len(s)
  BY LenProperties
<1>2. /\ y \in Seq(EventNames) /\ DOMAIN y = 1 .. Len(s) + 1 /\ y[Len(s) + 1] = e
      /\ \A i \in 1 .. Len(s) : y[i] = s[i]
  <2>1. /\ y \in Seq(EventNames) /\ Len(y) = Len(s) + 1 /\ y[Len(s) + 1] = e
        /\ \A i \in 1 .. Len(s) : y[i] = s[i]
    BY AppendProperties
  <2> QED BY <2>1, <1>1, LenProperties
<1> HIDE DEF y
<1>3. \A i : i \in 1 .. Len(s) + 1 <=> i \in 1 .. Len(s) \/ i = Len(s) + 1
  BY <1>1
<1>4. Len(s) + 1 \notin 1 .. Len(s)
  BY <1>1
<1>5. \A x, i : i \in Places(y, x) <=> i \in Places(s, x) \/ (x = e /\ i = Len(s) + 1)
  BY <1>1, <1>2, <1>3, <1>4 DEF Places
<1>6. \A x : \A i \in Places(s, x) : i \in Nat /\ i < Len(s) + 1
  BY <1>1 DEF Places
<1>7. Len(s) + 1 \in Places(y, e)
  BY <1>5
<1> QED BY <1>2, <1>5, <1>6, <1>7 DEF y

(* Where an event is, once the first one is taken.                         *)
LEMMA PlacesTail ==
  ASSUME NEW s \in Seq(EventNames), s # <<>>
  PROVE  /\ Tail(s) \in Seq(EventNames) /\ Head(s) \in EventNames
         /\ \A x : \A i \in Places(Tail(s), x) : i \in Nat /\ i > 0 /\ i + 1 \in Places(s, x)
         /\ \A x : \A i \in Places(s, x) :
              /\ i \in Nat /\ i > 0
              /\ (i = 1 /\ Head(s) = x) \/ (i > 1 /\ i - 1 \in Places(Tail(s), x))
         /\ 1 \in Places(s, Head(s))
<1> DEFINE t == Tail(s)
<1>1. Len(s) \in Nat \ {0} /\ DOMAIN s = 1 .. Len(s) /\ Head(s) = s[1]
  BY EmptySeq, LenProperties
<1>2. /\ t \in Seq(EventNames) /\ DOMAIN t = 1 .. Len(s) - 1 /\ Head(s) \in EventNames
      /\ \A i \in 1 .. Len(s) - 1 : t[i] = s[i + 1]
  <2>1. /\ t \in Seq(EventNames) /\ Len(t) = Len(s) - 1 /\ Head(s) \in EventNames
        /\ \A i \in 1 .. Len(t) : t[i] = s[i + 1]
    BY HeadTailProperties
  <2> QED BY <2>1, <1>1, LenProperties
<1> HIDE DEF t
<1>3. \A i \in 1 .. Len(s) - 1 : i \in Nat /\ i > 0 /\ i + 1 \in 1 .. Len(s)
  BY <1>1
<1>4. \A i \in 1 .. Len(s) :
        i \in Nat /\ i > 0 /\ (i = 1 \/ (i > 1 /\ i - 1 \in 1 .. Len(s) - 1 /\ (i - 1) + 1 = i))
  BY <1>1
<1>5. \A x : \A i \in Places(t, x) : i \in Nat /\ i > 0 /\ i + 1 \in Places(s, x)
  BY <1>1, <1>2, <1>3 DEF Places
<1>6. \A x : \A i \in Places(s, x) :
        /\ i \in Nat /\ i > 0
        /\ (i = 1 /\ Head(s) = x) \/ (i > 1 /\ i - 1 \in Places(t, x))
  BY <1>1, <1>2, <1>4 DEF Places
<1>7. 1 \in Places(s, Head(s))
  BY <1>1 DEF Places
<1> QED BY <1>2, <1>5, <1>6, <1>7 DEF t

(* The frames announced are places.                                        *)
LEMMA FramesPlaces == \A s : Frames(s) = Places(s, "frame")
BY DEF Frames, Places

(* Closing the first of the sinks.                                         *)
LEMMA OrderedTail ==
  ASSUME NEW s, Ordered(s), s # <<>>
  PROVE  /\ Ordered(Tail(s)) /\ Head(s) \in ToSet(s) /\ Head(s) \in Sink
         /\ ToSet(Tail(s)) = ToSet(s) \ {Head(s)}
         /\ \A r \in Regulators : r \in ToSet(s) => Buffer(r) \in ToSet(s) /\ Buffer(r) # Head(s)
<1> DEFINE t == Tail(s)
<1>1. s \in Seq(Sink)
  BY DEF Ordered
<1>2. Len(s) \in Nat \ {0} /\ DOMAIN s = 1 .. Len(s) /\ Head(s) = s[1] /\ Head(s) \in Sink
  BY <1>1, EmptySeq, LenProperties, TailFacts
<1>3. /\ t \in Seq(Sink) /\ DOMAIN t = 1 .. Len(s) - 1
      /\ \A i \in 1 .. Len(s) - 1 : t[i] = s[i + 1]
  <2>1. /\ t \in Seq(Sink) /\ Len(t) = Len(s) - 1
        /\ \A i \in 1 .. Len(t) : t[i] = s[i + 1]
    BY <1>1, HeadTailProperties
  <2> QED BY <2>1, <1>2, LenProperties
<1> HIDE DEF t
<1>4. /\ \A i, j \in 1 .. Len(s) : s[i] = s[j] => i = j
      /\ \A i \in 1 .. Len(s) :
           s[i] \in Regulators => i + 1 \in 1 .. Len(s) /\ s[i + 1] = Buffer(s[i])
  BY <1>2 DEF Ordered
<1>5. \A i \in 1 .. Len(s) - 1 : i \in Nat /\ i > 0 /\ i + 1 \in 1 .. Len(s) /\ i + 1 > 1
  BY <1>2
<1>6. \A i \in 1 .. Len(s) : i + 1 > 1 /\ (i = 1 \/ (i - 1 \in 1 .. Len(s) - 1 /\ (i - 1) + 1 = i))
  BY <1>2
<1>7. \A i, j \in 1 .. Len(s) - 1 : t[i] = t[j] => i = j
  <2> TAKE i, j \in 1 .. Len(s) - 1
  <2> HAVE t[i] = t[j]
  <2>1. i + 1 = j + 1
    BY <1>3, <1>4, <1>5
  <2> QED BY <2>1, <1>5
<1>8. \A i \in 1 .. Len(s) - 1 :
        t[i] \in Regulators => i + 1 \in 1 .. Len(s) - 1 /\ t[i + 1] = Buffer(t[i])
  <2> TAKE i \in 1 .. Len(s) - 1
  <2> HAVE t[i] \in Regulators
  <2>1. t[i] = s[i + 1] /\ i + 1 \in 1 .. Len(s)
    BY <1>3, <1>5
  <2>2. (i + 1) + 1 \in 1 .. Len(s) /\ s[(i + 1) + 1] = Buffer(t[i])
    BY <2>1, <1>4
  <2>3. i + 1 \in 1 .. Len(s) - 1
    BY <2>2, <1>2
  <2> QED BY <2>2, <2>3, <1>3
<1>9. Ordered(t)
  BY <1>3, <1>7, <1>8 DEF Ordered
<1>10. 1 \in 1 .. Len(s)
  BY <1>2
<1>11. ToSet(s) = {s[i] : i \in 1 .. Len(s)} /\ ToSet(t) = {t[i] : i \in 1 .. Len(s) - 1}
  BY <1>2, <1>3 DEF ToSet
<1>12. Head(s) \in ToSet(s)
  BY <1>2, <1>10, <1>11
<1>13. ToSet(t) = ToSet(s) \ {Head(s)}
  <2>1. ASSUME NEW x \in ToSet(t) PROVE x \in ToSet(s) /\ x # Head(s)
    <3>1. PICK i \in 1 .. Len(s) - 1 : x = t[i]
      BY <2>1, <1>11
    <3>2. x = s[i + 1] /\ i + 1 \in 1 .. Len(s) /\ i + 1 # 1
      BY <3>1, <1>3, <1>5
    <3> QED BY <3>2, <1>2, <1>4, <1>10, <1>11
  <2>2. ASSUME NEW x \in ToSet(s), x # Head(s) PROVE x \in ToSet(t)
    <3>1. PICK i \in 1 .. Len(s) : x = s[i]
      BY <2>2, <1>11
    <3>2. i - 1 \in 1 .. Len(s) - 1 /\ (i - 1) + 1 = i
      BY <3>1, <2>2, <1>2, <1>6
    <3>3. x = t[i - 1]
      BY <3>1, <3>2, <1>3
    <3> QED BY <3>2, <3>3, <1>11
  <2> QED BY <2>1, <2>2
<1>14. ASSUME NEW r \in Regulators, r \in ToSet(s)
       PROVE  Buffer(r) \in ToSet(s) /\ Buffer(r) # Head(s)
  <2>1. PICK i \in 1 .. Len(s) : r = s[i]
    BY <1>14, <1>11
  <2>2. i + 1 \in 1 .. Len(s) /\ s[i + 1] = Buffer(r) /\ i + 1 # 1
    BY <2>1, <1>4, <1>6
  <2> QED BY <2>2, <1>2, <1>4, <1>10, <1>11
<1> QED BY <1>2, <1>9, <1>12, <1>13, <1>14 DEF t

(* One sink, and a regulator with its own.                                 *)
LEMMA OrderedSmall ==
  /\ Ordered(<<>>) /\ ToSet(<<>>) = {}
  /\ \A b \in Buffers : Ordered(<<b>>) /\ ToSet(<<b>>) = {b}
  /\ \A r \in Regulators : Ordered(<<r, Buffer(r)>>) /\ ToSet(<<r, Buffer(r)>>) = {r, Buffer(r)}
<1>1. Ordered(<<>>) /\ ToSet(<<>>) = {}
  BY DEF Ordered, ToSet
<1>2. ASSUME NEW b \in Buffers PROVE Ordered(<<b>>) /\ ToSet(<<b>>) = {b}
  <2> DEFINE s == <<b>>
  <2>1. s \in Seq(Sink) /\ DOMAIN s = {1} /\ s[1] = b /\ b \notin Regulators
    BY DEF Sink, Buffers, Regulators
  <2> HIDE DEF s
  <2>2. Ordered(s)
    BY <2>1 DEF Ordered
  <2>3. ToSet(s) = {b}
    BY <2>1 DEF ToSet
  <2> QED BY <2>2, <2>3 DEF s
<1>3. ASSUME NEW r \in Regulators
      PROVE  Ordered(<<r, Buffer(r)>>) /\ ToSet(<<r, Buffer(r)>>) = {r, Buffer(r)}
  <2> DEFINE b == Buffer(r)  s == <<r, b>>
  <2>1. b \in Buffers /\ b \notin Regulators /\ b # r /\ r \in Sink /\ b \in Sink
    BY DEF Buffer, Buffers, Regulators, Sink
  <2> HIDE DEF b
  <2>2. s \in Seq(Sink) /\ DOMAIN s = {1, 2} /\ s[1] = r /\ s[2] = b
    BY <2>1
  <2> HIDE DEF s
  <2>3. ASSUME NEW i \in DOMAIN s, NEW j \in DOMAIN s, s[i] = s[j] PROVE i = j
    BY <2>1, <2>2, <2>3
  <2>4. ASSUME NEW i \in DOMAIN s, s[i] \in Regulators
        PROVE  i + 1 \in DOMAIN s /\ s[i + 1] = Buffer(s[i])
    <3>1. i = 1
      BY <2>1, <2>2, <2>4
    <3>2. i + 1 = 2
      BY <3>1
    <3> QED BY <3>1, <3>2, <2>2 DEF b
  <2>5. Ordered(s)
    BY <2>2, <2>3, <2>4 DEF Ordered
  <2>6. ToSet(s) = {r, b}
    BY <2>2 DEF ToSet
  <2> QED BY <2>5, <2>6 DEF s, b
<1> QED BY <1>1, <1>2, <1>3

(* Two branches that share no sink.                                        *)
LEMMA OrderedConcat ==
  ASSUME NEW p, NEW q, Ordered(p), Ordered(q), ToSet(p) \cap ToSet(q) = {}
  PROVE  Ordered(p \o q) /\ ToSet(p \o q) = ToSet(p) \cup ToSet(q)
<1> DEFINE y == p \o q  m == Len(p)  n == Len(q)
<1>1. /\ p \in Seq(Sink) /\ q \in Seq(Sink) /\ m \in Nat /\ n \in Nat
      /\ DOMAIN p = 1 .. m /\ DOMAIN q = 1 .. n
  BY LenProperties DEF Ordered
<1>2. y \in Seq(Sink) /\ DOMAIN y = 1 .. m + n
      /\ \A i \in 1 .. m + n : y[i] = IF i <= m THEN p[i] ELSE q[i - m]
  <2>1. /\ y \in Seq(Sink) /\ Len(y) = m + n
        /\ \A i \in 1 .. m + n : y[i] = IF i <= m THEN p[i] ELSE q[i - m]
    BY <1>1, ConcatProperties
  <2> QED BY <2>1, <1>1, LenProperties
<1> HIDE DEF y, m, n
<1>3. \A i \in 1 .. m + n :
        /\ i <= m => i \in 1 .. m
        /\ ~(i <= m) => i - m \in 1 .. n
  BY <1>1
<1>4. /\ \A i \in 1 .. m : i \in 1 .. m + n /\ i <= m
      /\ \A i \in 1 .. n : i + m \in 1 .. m + n /\ ~(i + m <= m) /\ (i + m) - m = i
  BY <1>1
<1>5. /\ \A i \in 1 .. m : p[i] \in ToSet(p)
      /\ \A i \in 1 .. n : q[i] \in ToSet(q)
  BY <1>1 DEF ToSet
<1>6. ASSUME NEW i \in 1 .. m + n, NEW j \in 1 .. m + n, y[i] = y[j] PROVE i = j
  <2>1. CASE i <= m /\ j <= m
    BY <2>1, <1>1, <1>2, <1>3, <1>6 DEF Ordered
  <2>2. CASE ~(i <= m) /\ ~(j <= m)
    <3>1. q[i - m] = q[j - m] /\ i - m \in 1 .. n /\ j - m \in 1 .. n
      BY <2>2, <1>2, <1>3, <1>6
    <3>2. i - m = j - m
      BY <3>1, <1>1 DEF Ordered
    <3> QED BY <3>2, <1>1
  <2>3. CASE (i <= m /\ ~(j <= m)) \/ (~(i <= m) /\ j <= m)
    <3>1. \E a \in 1 .. m, b \in 1 .. n : p[a] = q[b]
      BY <2>3, <1>2, <1>3, <1>6
    <3> QED BY <3>1, <1>5
  <2> QED BY <2>1, <2>2, <2>3
<1>7. ASSUME NEW i \in 1 .. m + n, y[i] \in Regulators
      PROVE  i + 1 \in 1 .. m + n /\ y[i + 1] = Buffer(y[i])
  <2>1. CASE i <= m
    <3>1. i \in 1 .. m /\ p[i] \in Regulators /\ y[i] = p[i]
      BY <2>1, <1>2, <1>3, <1>7
    <3>2. i + 1 \in 1 .. m /\ p[i + 1] = Buffer(p[i])
      BY <3>1, <1>1 DEF Ordered
    <3> QED BY <3>1, <3>2, <1>2, <1>4
  <2>2. CASE ~(i <= m)
    <3>1. i - m \in 1 .. n /\ q[i - m] \in Regulators /\ y[i] = q[i - m]
      BY <2>2, <1>2, <1>3, <1>7
    <3>2. (i - m) + 1 \in 1 .. n /\ q[(i - m) + 1] = Buffer(q[i - m])
      BY <3>1, <1>1 DEF Ordered
    <3>3. i + 1 \in 1 .. m + n /\ ~(i + 1 <= m) /\ (i + 1) - m = (i - m) + 1
      BY <2>2, <3>2, <1>1
    <3> QED BY <3>1, <3>2, <3>3, <1>2
  <2> QED BY <2>1, <2>2
<1>8. Ordered(y)
  BY <1>2, <1>6, <1>7 DEF Ordered
<1>9. ASSUME NEW x PROVE x \in ToSet(y) <=> x \in ToSet(p) \/ x \in ToSet(q)
  <2>1. ASSUME x \in ToSet(y) PROVE x \in ToSet(p) \/ x \in ToSet(q)
    <3>1. PICK i \in 1 .. m + n : x = y[i]
      BY <2>1, <1>2 DEF ToSet
    <3> QED BY <3>1, <1>2, <1>3, <1>5
  <2>2. ASSUME x \in ToSet(p) PROVE x \in ToSet(y)
    <3>1. PICK i \in 1 .. m : x = p[i]
      BY <2>2, <1>1 DEF ToSet
    <3>2. i \in 1 .. m + n /\ x = y[i]
      BY <3>1, <1>2, <1>4
    <3> QED BY <3>2, <1>2 DEF ToSet
  <2>3. ASSUME x \in ToSet(q) PROVE x \in ToSet(y)
    <3>1. PICK i \in 1 .. n : x = q[i]
      BY <2>3, <1>1 DEF ToSet
    <3>2. i + m \in 1 .. m + n /\ x = y[i + m]
      BY <3>1, <1>2, <1>4
    <3> QED BY <3>2, <1>2 DEF ToSet
  <2> QED BY <2>1, <2>2, <2>3
<1> QED BY <1>8, <1>9 DEF y

(* The sinks of the two branches.                                          *)
LEMMA BranchSets ==
  /\ Ordered(ScreenBranch) /\ Ordered(V4l2Branch)
  /\ ToSet(ScreenBranch) = IF Delayed THEN {"screen_vr", "screen"} ELSE {"screen"}
  /\ ToSet(V4l2Branch) = IF TapDelayed THEN {"v4l2_vr", "v4l2"} ELSE {"v4l2"}
<1>1. /\ "screen" \in Buffers /\ "v4l2" \in Buffers
      /\ Buffer("screen_vr") = "screen" /\ Buffer("v4l2_vr") = "v4l2"
  BY DEF Buffers, Buffer
<1>2. /\ ScreenBranch = IF Delayed THEN <<"screen_vr", Buffer("screen_vr")>> ELSE <<"screen">>
      /\ V4l2Branch = IF TapDelayed THEN <<"v4l2_vr", Buffer("v4l2_vr")>> ELSE <<"v4l2">>
  BY <1>1 DEF ScreenBranch, V4l2Branch, Delayed, TapDelayed
<1>3. /\ \A b \in {"screen", "v4l2"} : Ordered(<<b>>) /\ ToSet(<<b>>) = {b}
      /\ \A r \in {"screen_vr", "v4l2_vr"} :
           Ordered(<<r, Buffer(r)>>) /\ ToSet(<<r, Buffer(r)>>) = {r, Buffer(r)}
  BY OrderedSmall DEF Buffers, Regulators
<1>4. Ordered(ScreenBranch) /\ ToSet(ScreenBranch) = IF Delayed THEN {"screen_vr", "screen"} ELSE {"screen"}
  <2>1. CASE Delayed
    BY <2>1, <1>1, <1>2, <1>3
  <2>2. CASE ~Delayed
    BY <2>2, <1>1, <1>2, <1>3
  <2> QED BY <2>1, <2>2
<1>5. Ordered(V4l2Branch) /\ ToSet(V4l2Branch) = IF TapDelayed THEN {"v4l2_vr", "v4l2"} ELSE {"v4l2"}
  <2>1. CASE TapDelayed
    BY <2>1, <1>1, <1>2, <1>3
  <2>2. CASE ~TapDelayed
    BY <2>2, <1>1, <1>2, <1>3
  <2> QED BY <2>1, <2>2
<1> QED BY <1>4, <1>5

(* What is opened with the next branch.                                    *)
LEMMA BranchSinksFacts ==
  ASSUME opt \in Options
  PROVE  /\ Len(Branches) \in 1 .. 2 /\ BranchSinks(0) = {}
         /\ \A n \in 0 .. 2 : n < Len(Branches) =>
              /\ BranchSinks(n + 1) = BranchSinks(n) \cup ToSet(Branches[n + 1])
              /\ ToSet(Branches[n + 1]) \subseteq Sink
              /\ \A r \in Regulators :
                   r \in ToSet(Branches[n + 1]) => Buffer(r) \in ToSet(Branches[n + 1])
<1>1. Len(Branches) \in 1 .. 2
  BY BranchesShape
<1>2. BranchSinks(0) = {}
  BY DEF BranchSinks
<1>3. ASSUME NEW n \in 0 .. 2, n < Len(Branches)
      PROVE  BranchSinks(n + 1) = BranchSinks(n) \cup ToSet(Branches[n + 1])
  <2>1. \A i : i \in 1 .. n + 1 <=> i \in 1 .. n \/ i = n + 1
    OBVIOUS
  <2> QED BY <2>1 DEF BranchSinks
<1>4. ASSUME NEW b \in {ScreenBranch, V4l2Branch}
      PROVE  /\ ToSet(b) \subseteq Sink
             /\ \A r \in Regulators : r \in ToSet(b) => Buffer(r) \in ToSet(b)
  BY BranchSets DEF Sink, Buffers, Regulators, Buffer
<1>5. \A n \in 0 .. 2 : n < Len(Branches) => Branches[n + 1] \in {ScreenBranch, V4l2Branch}
  <2>1. CASE Plays /\ Taps
    <3>1. Branches = <<ScreenBranch, V4l2Branch>>
      BY <2>1, BranchCases
    <3>2. Len(Branches) = 2 /\ Branches[1] = ScreenBranch /\ Branches[2] = V4l2Branch
      BY <3>1
    <3>3. \A n \in 0 .. 2 : n < 2 => n + 1 = 1 \/ n + 1 = 2
      OBVIOUS
    <3> QED BY <3>2, <3>3
  <2>2. CASE ~Plays \/ ~Taps
    <3>1. Branches = <<ScreenBranch>> \/ Branches = <<V4l2Branch>>
      BY <2>2, BranchCases
    <3>2. Len(Branches) = 1 /\ Branches[1] \in {ScreenBranch, V4l2Branch}
      BY <3>1
    <3>3. \A n \in 0 .. 2 : n < 1 => n + 1 = 1
      OBVIOUS
    <3> QED BY <3>2, <3>3
  <2> QED BY <2>1, <2>2
<1> QED BY <1>1, <1>2, <1>3, <1>4, <1>5

(* Every sink that is called is in a branch.                               *)
LEMMA BranchSinksAll ==
  ASSUME opt \in Options
  PROVE  /\ Plays => "screen" \in BranchSinks(Len(Branches))
         /\ Plays /\ Delayed => "screen_vr" \in BranchSinks(Len(Branches))
         /\ Taps => "v4l2" \in BranchSinks(Len(Branches))
         /\ Taps /\ TapDelayed => "v4l2_vr" \in BranchSinks(Len(Branches))
<1>1. CASE Plays /\ Taps
  <2>1. Branches = <<ScreenBranch, V4l2Branch>>
    BY <1>1, BranchCases
  <2>2. Len(Branches) = 2 /\ Branches[1] = ScreenBranch /\ Branches[2] = V4l2Branch
    BY <2>1
  <2>3. 1 \in 1 .. 2 /\ 2 \in 1 .. 2
    OBVIOUS
  <2>4. ToSet(ScreenBranch) \subseteq BranchSinks(2) /\ ToSet(V4l2Branch) \subseteq BranchSinks(2)
    BY <2>2, <2>3 DEF BranchSinks
  <2> QED BY <2>2, <2>4, BranchSets
<1>2. CASE Plays /\ ~Taps
  <2>1. Branches = <<ScreenBranch>>
    BY <1>2, BranchCases
  <2>2. Len(Branches) = 1 /\ Branches[1] = ScreenBranch /\ 1 \in 1 .. 1
    BY <2>1
  <2>3. ToSet(ScreenBranch) \subseteq BranchSinks(1)
    BY <2>2 DEF BranchSinks
  <2> QED BY <2>2, <2>3, <1>2, BranchSets
<1>3. CASE ~Plays
  <2>1. Branches = <<V4l2Branch>>
    BY <1>3, BranchCases
  <2>2. Len(Branches) = 1 /\ Branches[1] = V4l2Branch /\ 1 \in 1 .. 1
    BY <2>1
  <2>3. ToSet(V4l2Branch) \subseteq BranchSinks(1)
    BY <2>2 DEF BranchSinks
  <2> QED BY <2>2, <2>3, <1>3, BranchSets
<1> QED BY <1>1, <1>2, <1>3

(* What is closed is what was opened.                                      *)
LEMMA ClosingFacts ==
  ASSUME opt \in Options, NEW n \in 0 .. 2, n <= Len(Branches)
  PROVE  Ordered(Closing(n)) /\ ToSet(Closing(n)) = BranchSinks(n)
<1>1. CASE n = 0
  BY <1>1, OrderedSmall, BranchSinksFacts DEF Closing
<1>2. CASE n = 1
  <2>1. BranchSinks(1) = ToSet(Branches[1]) /\ Closing(1) = Branches[1]
    <3>1. \A i : i \in 1 .. 1 <=> i = 1
      OBVIOUS
    <3> QED BY <3>1 DEF BranchSinks, Closing
  <2>2. Branches[1] \in {ScreenBranch, V4l2Branch}
    <3>1. CASE Plays /\ Taps
      BY <3>1, BranchCases
    <3>2. CASE Plays /\ ~Taps
      BY <3>2, BranchCases
    <3>3. CASE ~Plays
      BY <3>3, BranchCases
    <3> QED BY <3>1, <3>2, <3>3
  <2> QED BY <1>2, <2>1, <2>2, BranchSets
<1>3. CASE n = 2
  <2>1. Plays /\ Taps
    <3>1. ASSUME ~Plays \/ ~Taps PROVE FALSE
      <4>1. Branches = <<ScreenBranch>> \/ Branches = <<V4l2Branch>>
        BY <3>1, BranchCases
      <4>2. Len(Branches) = 1
        BY <4>1
      <4> QED BY <4>2, <1>3
    <3> QED BY <3>1
  <2>2. Branches = <<ScreenBranch, V4l2Branch>>
    BY <2>1, BranchCases
  <2>3. Branches[1] = ScreenBranch /\ Branches[2] = V4l2Branch
    BY <2>2
  <2>4. Closing(2) = V4l2Branch \o ScreenBranch
    BY <2>3 DEF Closing
  <2>5. BranchSinks(2) = ToSet(V4l2Branch) \cup ToSet(ScreenBranch)
    <3>1. \A i : i \in 1 .. 2 <=> i = 1 \/ i = 2
      OBVIOUS
    <3> QED BY <3>1, <2>3 DEF BranchSinks
  <2>6. ToSet(V4l2Branch) \cap ToSet(ScreenBranch) = {}
    BY BranchSets
  <2> QED BY <1>3, <2>4, <2>5, <2>6, BranchSets, OrderedConcat
<1> QED BY <1>1, <1>2, <1>3

(* One sink, of the screen or of V4L2: what a regulator calls.             *)
LEMMA RegulatorCallsItsSink ==
  \A r \in Regulators : Sinks(r) \in Seq(Sink) /\ Sinks(r) # <<>> /\ Head(Sinks(r)) = Buffer(r)
<1>1. Sinks("screen_vr") = <<"screen">> /\ Sinks("v4l2_vr") = <<"v4l2">>
  BY RegulatorSinks
<1>2. Buffer("screen_vr") = "screen" /\ Buffer("v4l2_vr") = "v4l2"
  BY DEF Buffer
<1>3. "screen" \in Sink /\ "v4l2" \in Sink
  BY DEF Sink, Buffers
<1>4. Sinks("screen_vr") \in Seq(Sink) /\ Sinks("v4l2_vr") \in Seq(Sink)
  <2>1. <<"screen">> \in Seq(Sink) /\ <<"v4l2">> \in Seq(Sink)
    BY <1>3
  <2> QED BY <2>1, <1>1
<1> QED BY <1>2, <1>4, RegulatorSinks, SourcesFacts

-------------------------------------------------------------------------------
(* What an action keeps of it.                                             *)

(* The sinks that are used: no thread starts, no sink is closed.           *)
UseSame ==
  /\ UNCHANGED <<opt, opened, open>>
  /\ \/ /\ at["demuxer"] \notin {"close", "exited"}
        /\ at'["demuxer"] \notin {"close", "exited"}
     \/ at'["demuxer"] = at["demuxer"] /\ todo'["demuxer"] = todo["demuxer"]
  /\ \A r \in Regulators : at'[r] \in {"off", "exited"} \/ at[r] \notin {"off", "exited"}
  /\ writer' \in {"wait", "write"} => writer \in {"wait", "write"}
LEMMA UseKept == UseInv /\ UseSame => UseInv'
<1> SUFFICES ASSUME UseInv, UseSame PROVE UseInv'
  OBVIOUS
<1>1. Branches' = Branches /\ BranchSinks(opened)' = BranchSinks(opened)
  BY OptKept DEF UseSame, BranchSinks
<1> QED BY <1>1 DEF UseInv, UseSame

(* The demuxer enters the end of its stream.                               *)
LEMMA CloseUse ==
  ASSUME ThreadTypes, DemuxerTypes, UseInv, CloseSinks(opened, "error") \/ CloseSinks(opened, "eos"),
         at["demuxer"] \notin {"close", "exited"}, UNCHANGED <<opt, open>>,
         writer' \in {"wait", "write"} => writer \in {"wait", "write"}
  PROVE  /\ UseInv' /\ ThreadTypes' /\ DemuxerTypes' /\ at'["demuxer"] = "close"
         /\ \A r \in Regulators : at'[r] = at[r]
<1>2. /\ at' = [at EXCEPT !["demuxer"] = "close"]
      /\ item' = [item EXCEPT !["demuxer"] = None]
      /\ todo' = [todo EXCEPT !["demuxer"] = Closing(opened)]
      /\ status' \in {"eos", "error"} /\ UNCHANGED <<opened, received, session>>
  BY DEF CloseSinks
<1>3. /\ at'["demuxer"] = "close" /\ todo'["demuxer"] = Closing(opened)
      /\ \A r \in Regulators : at'[r] = at[r]
  BY <1>2, SourcesFacts DEF ThreadTypes
<1>4. opt \in Options /\ opened \in 0 .. 2 /\ opened <= Len(Branches)
  BY DEF DemuxerTypes, UseInv
<1>5. Ordered(Closing(opened)) /\ ToSet(Closing(opened)) = BranchSinks(opened)
  BY <1>4, ClosingFacts
<1>6. ThreadTypes'
  <2>1. Closing(opened) \in Seq(Sink)
    BY <1>5 DEF Ordered
  <2> QED BY <2>1, <1>2, ItemFacts DEF ThreadTypes
<1>7. DemuxerTypes'
  BY <1>2 DEF DemuxerTypes
<1>8. Branches' = Branches
  BY OptKept
<1>9. UseInv'
  BY <1>2, <1>3, <1>5, <1>8 DEF UseInv
<1> QED BY <1>3, <1>6, <1>7, <1>9

(* The end is not concerned.                                               *)
LEMMA EndKept ==
  ASSUME EndInv, UNCHANGED <<main, disc>>,
         at["demuxer"] = "exited" => at'["demuxer"] = "exited"
  PROVE  EndInv'
BY DEF EndInv

(* No event is posted or taken.                                            *)
EventsSame ==
  /\ UNCHANGED <<opt, events>>
  /\ main' = "loop" => main = "loop" /\ window' = window
  /\ main' = "loop" /\ opened' > 0 => opened > 0
  /\ disc' \in {"off", "icon"} => disc \in {"off", "icon"}
  /\ main' = "destroyed" => main = "destroyed"
  /\ Unasked' => Unasked
LEMMA EventsSameKeeps ==
  WindowInv /\ OnceInv /\ EventTypes /\ EventsSame => WindowInv' /\ OnceInv' /\ EventTypes'
<1> SUFFICES ASSUME WindowInv, OnceInv, EventTypes, EventsSame
             PROVE  WindowInv' /\ OnceInv' /\ EventTypes'
  OBVIOUS
<1>1. events' = events /\ Plays' = Plays
  BY OptKept DEF EventsSame
<1>2. WindowInv'
  BY <1>1 DEF WindowInv, EventsSame
<1>3. OnceInv'
  BY <1>1 DEF OnceInv, EventsSame
<1> QED BY <1>1, <1>2, <1>3 DEF EventTypes

(* An event is posted: the first of its kind, and a frame once the window  *)
(* was asked for.                                                          *)
EventsPosted(e) ==
  /\ UNCHANGED <<opt, main, window>>
  /\ Post(e)
  /\ e \in {"icon", "open"} => Places(events, e) = {}
  /\ main = "loop" /\ e = "frame" => Plays /\ opened > 0
  /\ main = "loop" /\ Plays /\ opened' > 0 => opened > 0 \/ e = "open"
  /\ disc' \in {"off", "icon"} \/ main = "destroyed" =>
       e # "icon" /\ (disc \in {"off", "icon"} \/ main = "destroyed")
  /\ Unasked' \/ main = "destroyed" => e # "open" /\ (Unasked \/ main = "destroyed")
LEMMA EventsPostedKeeps ==
  ASSUME WindowInv, OnceInv, EventTypes, NEW e \in EventNames, EventsPosted(e)
  PROVE  WindowInv' /\ OnceInv' /\ EventTypes'
<1>1. /\ events' = Append(events, e) /\ Plays' = Plays /\ main' = main /\ window' = window
      /\ events \in Seq(EventNames)
  BY OptKept DEF EventsPosted, Post, EventTypes
<1> DEFINE n == Len(events) + 1
<1>2. /\ events' \in Seq(EventNames) /\ n \in Places(events', e)
      /\ \A x, i : i \in Places(events', x) <=> i \in Places(events, x) \/ (x = e /\ i = n)
      /\ \A x : \A i \in Places(events, x) : i \in Nat /\ i < n
  BY <1>1, PlacesAppend
<1> HIDE DEF n
<1>3. ASSUME NEW x
      PROVE  /\ x = e => Places(events', x) = Places(events, x) \cup {n}
             /\ x # e => Places(events', x) = Places(events, x)
  <2> DEFINE p == Places(events, x)   q == Places(events', x)
  <2>1. \A i : i \in q <=> i \in p \/ (x = e /\ i = n)
    BY <1>2
  <2> HIDE DEF p, q
  <2>2. x = e => q = p \cup {n}
    BY <2>1
  <2>3. x # e => q = p
    BY <2>1
  <2> QED BY <2>2, <2>3 DEF p, q
<1>4. WindowInv'
  <2> SUFFICES ASSUME main = "loop"
               PROVE  /\ \A i \in Places(events', "frame") :
                           window \/ \E j \in Places(events', "open") : j < i
                      /\ Plays /\ opened' > 0 => window \/ Places(events', "open") # {}
    BY <1>1, FramesPlaces DEF WindowInv
  <2>1. /\ \A i \in Places(events, "frame") : window \/ \E j \in Places(events, "open") : j < i
        /\ Plays /\ opened > 0 => window \/ Places(events, "open") # {}
    BY FramesPlaces DEF WindowInv
  <2>2. ASSUME NEW i \in Places(events', "frame"), ~window
        PROVE  \E j \in Places(events', "open") : j < i
    <3>1. CASE i \in Places(events, "frame")
      BY <3>1, <2>1, <2>2, <1>2
    <3>2. CASE e = "frame" /\ i = n
      <4>1. Places(events, "open") # {}
        BY <3>2, <2>1, <2>2 DEF EventsPosted
      <4> QED BY <4>1, <3>2, <1>2
    <3> QED BY <3>1, <3>2, <1>2, <2>2
  <2>3. Plays /\ opened' > 0 => window \/ Places(events', "open") # {}
    BY <2>1, <1>2 DEF EventsPosted
  <2> QED BY <2>2, <2>3
<1>5. OnceInv'
  <2>1. ASSUME NEW x \in {"icon", "open"} PROVE \A i, j \in Places(events', x) : i = j
    <3>1. CASE x = e
      BY <3>1, <2>1, <1>3 DEF EventsPosted
    <3>2. CASE x # e
      BY <3>2, <2>1, <1>3 DEF OnceInv
    <3> QED BY <3>1, <3>2
  <2>2. disc' \in {"off", "icon"} \/ main' = "destroyed" => Places(events', "icon") = {}
    BY <1>1, <1>3 DEF EventsPosted, OnceInv
  <2>3. Unasked' \/ main' = "destroyed" => Places(events', "open") = {}
    BY <1>1, <1>3 DEF EventsPosted, OnceInv
  <2> QED BY <2>1, <2>2, <2>3 DEF OnceInv
<1> QED BY <1>2, <1>4, <1>5 DEF EventTypes

(* The first event is taken: the window is shown when it is the first one. *)
EventsTaken ==
  /\ UNCHANGED <<opt, opened, at>>
  /\ events # <<>> /\ events' = Tail(events)
  /\ main' = "loop" => main = "loop" /\ (window => window')
  /\ main' = "loop" /\ Head(events) = "open" => window'
  /\ disc' \in {"off", "icon"} => disc \in {"off", "icon"}
  /\ main' = "destroyed" => main = "destroyed"
LEMMA EventsTakenKeeps ==
  WindowInv /\ OnceInv /\ EventTypes /\ EventsTaken => WindowInv' /\ OnceInv' /\ EventTypes'
<1> SUFFICES ASSUME WindowInv, OnceInv, EventTypes, EventsTaken
             PROVE  WindowInv' /\ OnceInv' /\ EventTypes'
  OBVIOUS
<1>1. /\ events \in Seq(EventNames) /\ events # <<>> /\ events' = Tail(events)
      /\ Plays' = Plays /\ Unasked' = Unasked /\ opened' = opened
  BY OptKept DEF EventsTaken, EventTypes, Unasked
<1>2. /\ events' \in Seq(EventNames)
      /\ \A x : \A i \in Places(events', x) : i \in Nat /\ i > 0 /\ i + 1 \in Places(events, x)
      /\ \A x : \A i \in Places(events, x) :
           /\ i \in Nat /\ i > 0
           /\ (i = 1 /\ Head(events) = x) \/ (i > 1 /\ i - 1 \in Places(events', x))
  BY <1>1, PlacesTail
<1>3. WindowInv'
  <2> SUFFICES ASSUME main' = "loop", ~window'
               PROVE  /\ \A i \in Places(events', "frame") : \E j \in Places(events', "open") : j < i
                      /\ Plays /\ opened > 0 => Places(events', "open") # {}
    BY <1>1, FramesPlaces DEF WindowInv
  <2>1. ~window /\ main = "loop" /\ Head(events) # "open"
    BY DEF EventsTaken
  <2>2. /\ \A i \in Places(events, "frame") : \E j \in Places(events, "open") : j < i
        /\ Plays /\ opened > 0 => Places(events, "open") # {}
    BY <2>1, FramesPlaces DEF WindowInv
  <2>3. \A j \in Places(events, "open") : j \in Nat /\ j - 1 \in Places(events', "open")
    BY <2>1, <1>2
  <2>4. ASSUME NEW i \in Places(events', "frame") PROVE \E j \in Places(events', "open") : j < i
    <3>1. i \in Nat /\ i + 1 \in Places(events, "frame")
      BY <1>2
    <3>2. PICK j \in Places(events, "open") : j < i + 1
      BY <3>1, <2>2
    <3>3. j \in Nat /\ j - 1 \in Places(events', "open") /\ j - 1 < i
      BY <3>1, <3>2, <2>3
    <3> QED BY <3>3
  <2> QED BY <2>2, <2>3, <2>4
<1>4. OnceInv'
  <2>1. ASSUME NEW x \in {"icon", "open"}, NEW i \in Places(events', x), NEW j \in Places(events', x)
        PROVE  i = j
    <3>1. i \in Nat /\ j \in Nat /\ i + 1 = j + 1
      BY <1>2 DEF OnceInv
    <3> QED BY <3>1
  <2>2. \A x : Places(events, x) = {} => Places(events', x) = {}
    BY <1>2
  <2>3. disc' \in {"off", "icon"} \/ main' = "destroyed" => Places(events', "icon") = {}
    BY <2>2 DEF EventsTaken, OnceInv
  <2>4. Unasked' \/ main' = "destroyed" => Places(events', "open") = {}
    BY <2>2, <1>1 DEF EventsTaken, OnceInv
  <2> QED BY <2>1, <2>3, <2>4 DEF OnceInv
<1> QED BY <1>2, <1>3, <1>4 DEF EventTypes

(* The assertion about the first event follows from the order of events.   *)
LEMMA AssertedHolds ==
  ASSUME EventTypes, WindowInv, NotifyInv, AnnouncedInv, UseInv, EndInv
  PROVE  Asserted
<1>1. ASSUME main = "loop", events # <<>>, Head(events) = "frame"
      PROVE  window /\ pending["screen"] # None
  <2>1. 1 \in Frames(events)
    BY <1>1, PlacesTail, FramesPlaces DEF EventTypes
  <2>2. \A j \in Places(events, "open") : ~(j < 1)
    BY <1>1, PlacesTail DEF EventTypes
  <2>3. window
    BY <1>1, <2>1, <2>2 DEF WindowInv
  <2>4. pending["screen"] # None
    BY <1>1, <2>1 DEF NotifyInv
  <2> QED BY <2>3, <2>4
<1>2. hasFrame => pending["v4l2"] # None
  BY DEF AnnouncedInv
<1>3. main = "destroyed" => "screen" \notin open
  BY DEF EndInv, UseInv
<1> QED BY <1>1, <1>2, <1>3 DEF Asserted

(* A thread calls a sink, or is done with its sinks.                       *)
LEMMA CallSafe ==
  ASSUME SinksInv, NEW t \in Sources, NEW x \in Item, NEW s \in Seq(Sink), Call(t, x, s),
         at[t] \notin {"off", "exited", "close"},
         UNCHANGED <<opt, opened, open, writer, main, disc>>
  PROVE  ThreadTypes' /\ UseInv' /\ EndInv' /\ (Unasked' => Unasked)
<1> USE DEF SinksInv, Typed
<1>1. /\ at' = [at EXCEPT ![t] = IF s = <<>> THEN Idle(t) ELSE "deliver"]
      /\ item' = [item EXCEPT ![t] = IF s = <<>> THEN None ELSE x]
      /\ todo' = [todo EXCEPT ![t] = s]
  BY DEF Call
<1>2. t = "demuxer" => Idle(t) = "recv"
  BY DEF Idle
<1>3. t # "demuxer" => Idle(t) = "wait"
  BY DEF Idle
<1>4. ThreadTypes'
  BY <1>1, <1>2, <1>3, ItemFacts DEF ThreadTypes
<1>5. t = "demuxer" => at'["demuxer"] \in {"recv", "deliver"} /\ \A r \in Regulators : at'[r] = at[r]
  BY <1>1, <1>2, SourcesFacts DEF ThreadTypes
<1>6. t # "demuxer" =>
        /\ at'["demuxer"] = at["demuxer"] /\ todo'["demuxer"] = todo["demuxer"]
        /\ \A r \in Regulators : r = t \/ at'[r] = at[r]
  BY <1>1, SourcesFacts DEF ThreadTypes
<1>7. UseSame
  BY <1>5, <1>6 DEF UseSame
<1>8. UseInv'
  BY <1>7, UseKept
<1>9. at["demuxer"] = "exited" => at'["demuxer"] = "exited"
  BY <1>5, <1>6
<1>10. EndInv'
  BY <1>9, EndKept
<1>11. Unasked' => Unasked
  BY <1>5, <1>6 DEF Unasked
<1> QED BY <1>4, <1>8, <1>10, <1>11

(* A call is over: there may be others.                                    *)
LEMMA DeliveredSafe ==
  ASSUME SinksInv, NEW t \in Sources, Delivered(t), at[t] \in {"deliver", "post"},
         todo[t] # <<>>, UNCHANGED <<opt, opened, open, writer, main, disc>>
  PROVE  ThreadTypes' /\ UseInv' /\ EndInv' /\ (Unasked' => Unasked)
<1>1. item[t] \in Item /\ todo[t] \in Seq(Sink)
  BY DEF SinksInv, Typed, ThreadTypes
<1>2. Tail(todo[t]) \in Seq(Sink)
  BY <1>1, TailFacts
<1>3. Call(t, item[t], Tail(todo[t]))
  BY DEF Delivered
<1> QED BY <1>1, <1>2, <1>3, CallSafe

(* Nothing of the events changes.                                          *)
LEMMA EventsIdle ==
  ASSUME SinksInv, UNCHANGED <<opt, opened, events, main, window, disc>>, Unasked' => Unasked
  PROVE  WindowInv' /\ OnceInv' /\ EventTypes'
<1>1. EventsSame
  BY DEF EventsSame
<1> QED BY <1>1, EventsSameKeeps DEF SinksInv, Typed

(* What the stream does, and what a call leaves alone.                     *)
LEMMA RecvSafe == SinksInv /\ PipelineInv /\ (RecvSession \/ RecvFrame) => SinksInv'
<1> SUFFICES ASSUME SinksInv, PipelineInv, RecvSession \/ RecvFrame PROVE SinksInv'
  OBVIOUS
<1> USE DEF SinksInv, Typed
<1>1. /\ at["demuxer"] = "recv"
      /\ UNCHANGED <<opt, opened, status, open, queue, stopped, range, pending, current,
                     prevent, paused, resume, window, writer, writing, hasFrame, vstopped,
                     header, events, main, lost, socket, disc, interrupted>>
  BY DEF RecvSession, RecvFrame, regulators, screen, v4l2, ending
<1>2. session' \in 0 .. MaxSessions /\ received' \in 0 .. MaxFrames
  BY ItemFacts DEF RecvSession, RecvFrame, DemuxerTypes
<1>3. PICK x \in Item : Call("demuxer", x, Sinks("demuxer"))
  <2>1. CASE RecvSession
    <3>1. [frame |-> 0, session |-> session'] \in Item
      BY <1>2, ItemFacts
    <3> QED BY <3>1, <2>1 DEF RecvSession
  <2>2. CASE RecvFrame
    <3>1. [frame |-> received', session |-> session] \in Item
      BY <1>2, ItemFacts DEF DemuxerTypes
    <3> QED BY <3>1, <2>2 DEF RecvFrame
  <2> QED BY <2>1, <2>2
<1>4. Sinks("demuxer") \in Seq(Sink)
  BY SinksShape DEF DemuxerTypes
<1>5. ThreadTypes' /\ UseInv' /\ EndInv' /\ (Unasked' => Unasked)
  BY <1>1, <1>3, <1>4, SourcesFacts, CallSafe
<1>6. WindowInv' /\ OnceInv' /\ EventTypes'
  BY <1>1, <1>5, EventsIdle
<1>7. QueueTypes' /\ ScreenTypes' /\ WriterTypes' /\ EndTypes'
  BY <1>1 DEF QueueTypes, ScreenTypes, WriterTypes, EndTypes
<1>8. DemuxerTypes'
  BY <1>1, <1>2 DEF DemuxerTypes
<1> QED BY <1>5, <1>6, <1>7, <1>8

(* A thread that delivers has something to deliver.                        *)
LEMMA CallerHasSinks ==
  ASSUME SinksInv, PipelineInv, NEW t \in Sources, at[t] \in {"deliver", "post"}
  PROVE  todo[t] \in Seq(Sink) /\ todo[t] # <<>> /\ Head(todo[t]) \in Sink /\ item[t] \in Item
<1>1. todo[t] \in Seq(Sink) /\ item[t] \in Item
  BY DEF SinksInv, Typed, ThreadTypes
<1>2. todo[t] # <<>>
  <2>1. CASE t = "demuxer"
    BY <2>1 DEF PipelineInv, DemuxerInv
  <2>2. CASE t \in Regulators
    BY <2>2, RegulatorCallsItsSink DEF PipelineInv, RegulatorInv, Active
  <2> QED BY <2>1, <2>2, SourcesFacts
<1> QED BY <1>1, <1>2, TailFacts

(* A frame or a session is pushed to the screen or to V4L2.                *)
LEMMA PushSafe ==
  ASSUME SinksInv, PipelineInv, NEW t \in Sources,
         ScreenPush(t) \/ ScreenPushSession(t) \/ V4l2Push(t)
  PROVE  SinksInv'
<1> USE DEF SinksInv, Typed
<1>1. /\ at[t] = "deliver"
      /\ UNCHANGED <<opt, opened, status, received, session, open, queue, stopped, range,
                     paused, resume, window, writer, writing, vstopped,
                     header, events, main, lost, socket, disc, interrupted>>
  BY DEF ScreenPush, ScreenPushSession, V4l2Push, Delivering, demuxer, regulators, screen, v4l2, ending
<1>2. todo[t] # <<>> /\ item[t] \in Item
  BY <1>1, CallerHasSinks
<1>3. ScreenTypes'
  BY <1>1, <1>2, ItemFacts DEF ScreenPush, ScreenPushSession, V4l2Push, ScreenTypes, screen
<1>4. WriterTypes'
  <2>1. hasFrame' \in BOOLEAN
    BY DEF ScreenPush, ScreenPushSession, V4l2Push, WriterTypes, v4l2
  <2> QED BY <2>1, <1>1 DEF WriterTypes
<1>5. ThreadTypes' /\ UseInv' /\ EndInv' /\ (Unasked' => Unasked)
  <2>1. CASE Delivered(t)
    BY <2>1, <1>1, <1>2, DeliveredSafe
  <2>2. CASE at' = [at EXCEPT ![t] = "post"] /\ UNCHANGED <<item, todo>>
    <3>1. ThreadTypes'
      BY <2>2 DEF ThreadTypes
    <3>2. \A u \in Sources : at'[u] = IF u = t THEN "post" ELSE at[u]
      BY <2>2 DEF ThreadTypes
    <3>3. UseSame
      BY <3>2, <2>2, <1>1, SourcesFacts DEF UseSame
    <3>4. EndInv'
      BY <3>2, <1>1, SourcesFacts, EndKept
    <3>5. Unasked' => Unasked
      BY <3>2, <1>1, SourcesFacts DEF Unasked
    <3> QED BY <3>1, <3>3, <3>4, <3>5, UseKept
  <2> QED BY <2>1, <2>2 DEF ScreenPush, ScreenPushSession, V4l2Push
<1>6. WindowInv' /\ OnceInv' /\ EventTypes'
  BY <1>1, <1>5, EventsIdle
<1>7. QueueTypes' /\ DemuxerTypes' /\ EndTypes'
  BY <1>1 DEF QueueTypes, DemuxerTypes, EndTypes
<1> QED BY <1>3, <1>4, <1>5, <1>6, <1>7

(* The notification of the screen is posted: the window was asked for.     *)
LEMMA PostNewFrameSafe ==
  ASSUME SinksInv, PipelineInv, LatestInv, NEW t \in Sources, PostNewFrame(t)
  PROVE  SinksInv'
<1> USE DEF SinksInv, Typed
<1>1. /\ at[t] = "post" /\ Delivered(t) /\ Post("frame")
      /\ UNCHANGED <<opt, opened, status, received, session, open, queue, stopped, range,
                     pending, current, prevent, paused, resume, window, writer, writing,
                     hasFrame, vstopped, header, main, lost, socket, disc, interrupted>>
  BY DEF PostNewFrame, demuxer, regulators, screen, v4l2, ending
<1>2. ThreadTypes' /\ UseInv' /\ EndInv' /\ (Unasked' => Unasked)
  BY <1>1, CallerHasSinks, DeliveredSafe
<1>3. Plays /\ opened > 0
  <2>1. CASE t = "demuxer"
    <3>1. Plays
      BY <2>1, <1>1 DEF PipelineInv, DemuxerInv, Screens
    <3>2. opened = Len(Branches)
      BY <2>1, <1>1 DEF LatestInv, OpenInv
    <3> QED BY <3>1, <3>2, BranchSinksFacts DEF DemuxerTypes
  <2>2. CASE t \in Regulators
    BY <2>2, <1>1, SourcesFacts DEF PipelineInv, RegulatorInv
  <2> QED BY <2>1, <2>2, SourcesFacts
<1>4. main = "destroyed" => at["demuxer"] = "exited"
  BY DEF EndInv
<1>5. WindowInv' /\ OnceInv' /\ EventTypes'
  <2>1. EventsPosted("frame")
    BY <1>1, <1>2, <1>3, <1>4 DEF EventsPosted
  <2> QED BY <2>1, EventsPostedKeeps DEF EventNames
<1>6. QueueTypes' /\ DemuxerTypes' /\ ScreenTypes' /\ WriterTypes' /\ EndTypes'
  BY <1>1 DEF QueueTypes, DemuxerTypes, ScreenTypes, WriterTypes, EndTypes
<1> QED BY <1>2, <1>5, <1>6

(* The demuxer enters the end of its stream, or a regulator ends.          *)
LEMMA CloseSafe ==
  ASSUME SinksInv, CloseSinks(opened, "error") \/ CloseSinks(opened, "eos"),
         at["demuxer"] \notin {"close", "exited"},
         UNCHANGED <<opt, open, queue, stopped, range, pending, current, paused, resume,
                     window, writer, writing, hasFrame, vstopped, header, main, lost,
                     socket, disc, interrupted>>,
         prevent' \in {prevent, current},
         WindowInv' /\ OnceInv' /\ EventTypes'
  PROVE  SinksInv'
<1> USE DEF SinksInv, Typed
<1>1. /\ UseInv' /\ ThreadTypes' /\ DemuxerTypes' /\ at'["demuxer"] = "close"
  BY CloseUse
<1>2. EndInv'
  BY EndKept
<1>3. QueueTypes' /\ ScreenTypes' /\ WriterTypes' /\ EndTypes'
  BY DEF QueueTypes, ScreenTypes, WriterTypes, EndTypes
<1> QED BY <1>1, <1>2, <1>3

(* The thread of a regulator ends: it uses no sink any more.               *)
LEMMA ExitSafe ==
  ASSUME SinksInv, NEW r \in Regulators,
         at' = [at EXCEPT ![r] = "exited"], item' = [item EXCEPT ![r] = None],
         todo' = [todo EXCEPT ![r] = <<>>], queue' = [queue EXCEPT ![r] = <<>>],
         stopped' \in [Regulators -> BOOLEAN],
         UNCHANGED <<opt, opened, status, session, received, open, range, pending, current,
                     paused, resume, window, writer, writing, hasFrame, vstopped, header,
                     events, main, lost, socket, disc, interrupted>>,
         prevent' \in {prevent, current}
  PROVE  SinksInv'
<1> USE DEF SinksInv, Typed
<1>1. ThreadTypes'
  <2>1. <<>> \in Seq(Sink)
    OBVIOUS
  <2> QED BY <2>1, ItemFacts DEF ThreadTypes
<1>2. QueueTypes'
  <2>1. <<>> \in Seq(Item)
    OBVIOUS
  <2> QED BY <2>1 DEF QueueTypes
<1>3. \A u \in Sources : u # r => at'[u] = at[u] /\ todo'[u] = todo[u]
  BY DEF ThreadTypes
<1>4. at'[r] = "exited" /\ r \in Sources /\ r # "demuxer"
  BY SourcesFacts DEF ThreadTypes
<1>5. UseInv'
  <2>1. UseSame
    BY <1>3, <1>4, SourcesFacts DEF UseSame
  <2> QED BY <2>1, UseKept
<1>6. EndInv'
  BY <1>3, <1>4, SourcesFacts, EndKept
<1>7. Unasked' => Unasked
  BY <1>3, <1>4, SourcesFacts DEF Unasked
<1>8. WindowInv' /\ OnceInv' /\ EventTypes'
  BY <1>7, EventsIdle
<1>9. DemuxerTypes' /\ ScreenTypes' /\ WriterTypes' /\ EndTypes'
  BY DEF DemuxerTypes, ScreenTypes, WriterTypes, EndTypes
<1> QED BY <1>1, <1>2, <1>5, <1>6, <1>8, <1>9

(* The end of the stream, whatever the reason.                             *)
LEMMA EndSafe == SinksInv /\ (OpenFails \/ EndOfStream \/ RecvFails) => SinksInv'
<1> SUFFICES ASSUME SinksInv, OpenFails \/ EndOfStream \/ RecvFails PROVE SinksInv'
  OBVIOUS
<1> USE DEF SinksInv, Typed
<1>1. /\ CloseSinks(opened, "error") \/ CloseSinks(opened, "eos")
      /\ at["demuxer"] \in {"open", "recv"}
      /\ UNCHANGED <<opt, open, queue, stopped, range, pending, current, prevent, paused,
                     resume, window, writer, writing, hasFrame, vstopped, header, main,
                     lost, socket, disc, interrupted>>
  BY DEF OpenFails, EndOfStream, RecvFails, regulators, screen, v4l2, ending
<1>2. opened' = opened /\ at'["demuxer"] = "close"
  BY <1>1, SourcesFacts DEF CloseSinks, ThreadTypes
<1>3. ~Unasked'
  BY <1>2 DEF Unasked
<1>4. WindowInv' /\ OnceInv' /\ EventTypes'
  <2>1. CASE UNCHANGED events
    BY <2>1, <1>1, <1>2, <1>3, EventsIdle
  <2>2. CASE /\ OpenFails /\ Post("open")
             /\ Branches[opened + 1] = <<"screen_vr", "screen">>
    <3>1. opened < Len(Branches) /\ opt \in Options /\ opened \in 0 .. 2
      BY <2>2 DEF OpenFails, DemuxerTypes
    <3>2. opened = 0
      <4>1. "screen_vr" = Branches[opened + 1][1]
        BY <2>2
      <4>2. opened + 1 \in 1 .. Len(Branches) /\ Len(Branches) \in 1 .. 2
        BY <3>1, BranchesShape
      <4>3. opened + 1 = 1
        BY <4>1, <4>2, <3>1, BranchesShape DEF Screens
      <4> QED BY <4>3, <3>1
    <3>3. Unasked
      BY <2>2, <3>2 DEF Unasked, OpenFails
    <3>4. Places(events, "open") = {}
      BY <3>3 DEF OnceInv
    <3>5. main # "destroyed"
      BY <1>1 DEF EndInv
    <3>6. EventsPosted("open")
      BY <2>2, <1>1, <1>2, <1>3, <3>4, <3>5 DEF EventsPosted
    <3> QED BY <3>6, EventsPostedKeeps DEF EventNames
  <2> QED BY <2>1, <2>2 DEF OpenFails, EndOfStream, RecvFails
<1> QED BY <1>1, <1>4, CloseSafe

(* A push fails: the demuxer closes, a regulator ends.                     *)
LEMMA PushFailsSafe ==
  ASSUME SinksInv, PipelineInv, NEW t \in Sources, PushFails(t)
  PROVE  SinksInv'
<1> USE DEF SinksInv, Typed
<1>1. /\ at[t] = "deliver" /\ Rejected(t) /\ prevent' \in {prevent, current}
      /\ UNCHANGED <<opt, open, pending, current, paused, resume, window, writer, writing,
                     hasFrame, vstopped, header, events, main, lost, socket, disc,
                     interrupted>>
  BY DEF PushFails, v4l2, ending
<1>2. CASE t = "demuxer"
  <2>1. CloseSinks(opened, "error") /\ UNCHANGED <<queue, stopped, range>>
    BY <1>1, <1>2 DEF Rejected, regulators
  <2>2. opened' = opened /\ at'["demuxer"] = "close"
    BY <2>1, SourcesFacts DEF CloseSinks, ThreadTypes
  <2>3. WindowInv' /\ OnceInv' /\ EventTypes'
    BY <2>2, <1>1, EventsIdle DEF Unasked
  <2> QED BY <2>1, <2>3, <1>1, <1>2, CloseSafe
<1>3. CASE t \in Regulators
  <2>1. /\ at' = [at EXCEPT ![t] = "exited"] /\ item' = [item EXCEPT ![t] = None]
        /\ todo' = [todo EXCEPT ![t] = <<>>] /\ queue' = [queue EXCEPT ![t] = <<>>]
        /\ stopped' = [stopped EXCEPT ![t] = TRUE]
        /\ UNCHANGED <<range, opened, status, received, session>>
    BY <1>1, <1>3, SourcesFacts DEF Rejected, demuxer
  <2>2. stopped' \in [Regulators -> BOOLEAN]
    BY <2>1 DEF QueueTypes
  <2> QED BY <2>1, <2>2, <1>1, <1>3, ExitSafe
<1> QED BY <1>2, <1>3, SourcesFacts

(* A regulator is given something: it calls its sinks at once, or later.   *)
LEMMA RegulatorPushSafe ==
  ASSUME SinksInv, PipelineInv, NEW r \in Regulators, RegulatorPush(r)
  PROVE  SinksInv'
<1> USE DEF SinksInv, Typed
<1>1. /\ at["demuxer"] = "deliver"
      /\ UNCHANGED <<opt, open, pending, current, prevent, paused, resume, window, writer,
                     writing, hasFrame, vstopped, header, events, main, lost, socket, disc,
                     interrupted>>
  BY DEF RegulatorPush, Delivering, screen, v4l2, ending
<1>2. CASE stopped[r]
  <2>1. CloseSinks(opened, "error") /\ UNCHANGED <<queue, stopped, range>>
    BY <1>2 DEF RegulatorPush, Rejected, regulators
  <2>2. opened' = opened /\ at'["demuxer"] = "close"
    BY <2>1, SourcesFacts DEF CloseSinks, ThreadTypes
  <2>3. WindowInv' /\ OnceInv' /\ EventTypes'
    BY <2>2, <1>1, EventsIdle DEF Unasked
  <2> QED BY <2>1, <2>3, <1>1, CloseSafe
<1>3. CASE ~stopped[r]
  <2>1. /\ range' \in {range, [range EXCEPT ![r] = 1]}
        /\ UNCHANGED <<stopped, opened, status, received, session>>
        /\ \/ /\ Call("demuxer", item["demuxer"], Sinks(r) \o Tail(todo["demuxer"]))
              /\ UNCHANGED queue
           \/ /\ queue' = [queue EXCEPT ![r] = Append(@, item["demuxer"])]
              /\ Delivered("demuxer")
    BY <1>3 DEF RegulatorPush, demuxer
  <2>2. /\ todo["demuxer"] \in Seq(Sink) /\ todo["demuxer"] # <<>> /\ item["demuxer"] \in Item
    BY <1>1, SourcesFacts, CallerHasSinks
  <2>3. Tail(todo["demuxer"]) \in Seq(Sink) /\ Sinks(r) \in Seq(Sink)
    BY <2>2, TailFacts, RegulatorCallsItsSink
  <2>4. Sinks(r) \o Tail(todo["demuxer"]) \in Seq(Sink)
    BY <2>3, ConcatProperties
  <2>5. ThreadTypes' /\ UseInv' /\ EndInv' /\ (Unasked' => Unasked)
    BY <2>1, <2>2, <2>4, <1>1, SourcesFacts, CallSafe, DeliveredSafe
  <2>6. QueueTypes'
    <3>1. Append(queue[r], item["demuxer"]) \in Seq(Item)
      BY <2>2, AppendProperties DEF QueueTypes
    <3>2. queue' = queue \/ queue' = [queue EXCEPT ![r] = Append(queue[r], item["demuxer"])]
      BY <2>1
    <3>3. queue' \in [Regulators -> Seq(Item)]
      <4>1. CASE queue' = queue
        BY <4>1 DEF QueueTypes
      <4>2. CASE queue' = [queue EXCEPT ![r] = Append(queue[r], item["demuxer"])]
        BY <4>2, <3>1 DEF QueueTypes
      <4> QED BY <4>1, <4>2, <3>2
    <3>4. range' \in [Regulators -> 0 .. 1] /\ stopped' \in [Regulators -> BOOLEAN]
      <4>1. stopped' = stopped /\ (range' = range \/ range' = [range EXCEPT ![r] = 1])
        BY <2>1
      <4> QED BY <4>1 DEF QueueTypes
    <3> QED BY <3>3, <3>4 DEF QueueTypes
  <2>7. WindowInv' /\ OnceInv' /\ EventTypes'
    BY <2>1, <2>5, <1>1, EventsIdle
  <2>8. DemuxerTypes' /\ ScreenTypes' /\ WriterTypes' /\ EndTypes'
    BY <2>1, <1>1 DEF DemuxerTypes, ScreenTypes, WriterTypes, EndTypes
  <2> QED BY <2>5, <2>6, <2>7, <2>8
<1> QED BY <1>2, <1>3

(* The stream starts, or cannot.                                           *)
LEMMA StartSafe == SinksInv /\ PipelineInv /\ StartStream => SinksInv'
<1> SUFFICES ASSUME SinksInv, PipelineInv, StartStream PROVE SinksInv'
  OBVIOUS
<1> USE DEF SinksInv, Typed
<1>1. /\ at["demuxer"] = "start" /\ opened = 0
      /\ UNCHANGED <<opt, open, queue, stopped, range, pending, current, prevent, paused,
                     resume, window, writer, writing, hasFrame, vstopped, header, events,
                     main, lost, socket, disc, interrupted>>
  BY DEF StartStream, regulators, screen, v4l2, ending, PipelineInv, DemuxerInv
<1>2. CASE CloseSinks(0, "error")
  <2>1. CloseSinks(opened, "error")
    BY <1>1, <1>2
  <2>2. opened' = opened /\ at'["demuxer"] = "close"
    BY <2>1, SourcesFacts DEF CloseSinks, ThreadTypes
  <2>3. WindowInv' /\ OnceInv' /\ EventTypes'
    BY <2>2, <1>1, EventsIdle DEF Unasked
  <2> QED BY <2>1, <2>3, <1>1, CloseSafe
<1>3. CASE /\ at' = [at EXCEPT !["demuxer"] = "open"] /\ session' = 1
           /\ UNCHANGED <<item, todo, opened, status, received>>
  <2>1. /\ at'["demuxer"] = "open" /\ \A r \in Regulators : at'[r] = at[r]
    BY <1>3, SourcesFacts DEF ThreadTypes
  <2>2. ThreadTypes'
    BY <1>3 DEF ThreadTypes
  <2>3. DemuxerTypes'
    BY <1>1, <1>3, ItemFacts DEF DemuxerTypes
  <2>4. UseInv'
    BY <2>1, <1>1, <1>3, UseKept DEF UseSame
  <2>5. EndInv'
    BY <1>1, EndKept
  <2>6. WindowInv' /\ OnceInv' /\ EventTypes'
    BY <1>1, <1>3, EventsIdle DEF Unasked
  <2>7. QueueTypes' /\ ScreenTypes' /\ WriterTypes' /\ EndTypes'
    BY <1>1 DEF QueueTypes, ScreenTypes, WriterTypes, EndTypes
  <2> QED BY <2>2, <2>3, <2>4, <2>5, <2>6, <2>7
<1> QED BY <1>2, <1>3 DEF StartStream

(* A branch is opened, with the threads that it needs.                     *)
LEMMA OpenBranchSafe == SinksInv /\ OpenBranch => SinksInv'
<1> SUFFICES ASSUME SinksInv, OpenBranch PROVE SinksInv'
  OBVIOUS
<1> USE DEF SinksInv, Typed
<1> DEFINE b == ToSet(Branches[opened + 1])
<1>1. /\ at["demuxer"] = "open" /\ opened < Len(Branches) /\ opened' = opened + 1
      /\ open' = open \cup b
      /\ at' = [t \in Sources |-> IF t \in b THEN "wait" ELSE at[t]]
      /\ IF "screen" \in b THEN current' = session /\ Post("open")
                           ELSE UNCHANGED <<current, events>>
      /\ writer' = IF "v4l2" \in b THEN "wait" ELSE writer
      /\ UNCHANGED <<opt, item, todo, status, received, session, queue, stopped, range,
                     pending, prevent, paused, resume, window, writing, hasFrame, vstopped,
                     header, main, lost, socket, disc, interrupted>>
  BY DEF OpenBranch, regulators, ending
<1>2. opt \in Options /\ opened \in 0 .. 2 /\ opened + 1 \in 1 .. Len(Branches)
      /\ Len(Branches) \in 1 .. 2
  BY <1>1, BranchesShape DEF DemuxerTypes
<1>3. /\ b \subseteq Sink /\ BranchSinks(opened + 1) = BranchSinks(opened) \cup b
      /\ \A r \in Regulators : r \in b => Buffer(r) \in b
  BY <1>1, <1>2, BranchSinksFacts
<1>4. "demuxer" \notin b /\ ("screen" \in b => Plays /\ opened = 0)
      /\ (Plays /\ opened = 0 => "screen" \in b)
  <2>1. "demuxer" \notin b /\ (Plays /\ opened + 1 = 1 => "screen" \in b)
    BY <1>2, BranchesShape
  <2>2. ~(Plays /\ opened + 1 = 1) => "screen" \notin b
    BY <1>2, BranchesShape DEF Screens
  <2> QED BY <2>1, <2>2, <1>2
<1> HIDE DEF b
<1>5. Branches' = Branches /\ Plays' = Plays
  BY <1>1, OptKept
<1>6. /\ at'["demuxer"] = "open" /\ at["demuxer"] = "open"
      /\ \A r \in Regulators : r \in b \/ at'[r] = at[r]
  BY <1>1, <1>4, SourcesFacts
<1>7. ThreadTypes'
  BY <1>1 DEF ThreadTypes
<1>8. DemuxerTypes'
  <2>1. opened' \in 0 .. 2
    <3>1. PICK n \in 1 .. 2 : n = Len(Branches)
      BY <1>2
    <3>2. opened + 1 \in 1 .. n
      BY <3>1, <1>2
    <3> QED BY <3>2, <1>1
  <2>2. open' \subseteq Sink
    BY <1>1, <1>3 DEF DemuxerTypes
  <2> QED BY <2>1, <2>2, <1>1 DEF DemuxerTypes
<1>9. UseInv'
  <2>1. BranchSinks(opened)' = BranchSinks(opened) \cup b
    BY <1>1, <1>3, <1>5 DEF BranchSinks
  <2>2. open' = BranchSinks(opened)'
    BY <2>1, <1>1 DEF UseInv
  <2>3. opened' <= Len(Branches)'
    BY <1>1, <1>2, <1>5
  <2>4. \A r \in Regulators : at'[r] \notin {"off", "exited"} => {r, Buffer(r)} \subseteq open'
    BY <1>1, <1>3, <1>6 DEF UseInv
  <2>5. writer' \in {"wait", "write"} => "v4l2" \in open'
    BY <1>1 DEF UseInv
  <2> QED BY <2>2, <2>3, <2>4, <2>5, <1>6 DEF UseInv, Buffer
<1>10. EndInv'
  BY <1>1, <1>6, EndKept
<1>11. ~Unasked'
  BY <1>1, <1>2, <1>6 DEF Unasked
<1>12. WindowInv' /\ OnceInv' /\ EventTypes'
  <2>1. CASE "screen" \in b
    <3>1. Places(events, "open") = {} /\ main # "destroyed"
      BY <2>1, <1>4, <1>6 DEF Unasked, OnceInv, EndInv
    <3>2. EventsPosted("open")
      BY <3>1, <2>1, <1>1, <1>11 DEF EventsPosted
    <3> QED BY <3>2, EventsPostedKeeps DEF EventNames
  <2>2. CASE "screen" \notin b
    <3>1. Plays => opened > 0
      BY <2>2, <1>2, <1>4
    <3>2. WindowInv'
      BY <3>1, <2>2, <1>1, <1>5 DEF WindowInv
    <3>3. OnceInv'
      BY <2>2, <1>1, <1>11 DEF OnceInv
    <3> QED BY <3>2, <3>3, <2>2, <1>1 DEF EventTypes
  <2> QED BY <2>1, <2>2
<1>13. ScreenTypes'
  BY <1>1 DEF ScreenTypes, DemuxerTypes
<1>14. QueueTypes' /\ WriterTypes' /\ EndTypes'
  BY <1>1 DEF QueueTypes, WriterTypes, EndTypes
<1> QED BY <1>7, <1>8, <1>9, <1>10, <1>12, <1>13, <1>14

(* All of them are.                                                        *)
LEMMA AllOpenSafe == SinksInv /\ AllOpen => SinksInv'
<1> SUFFICES ASSUME SinksInv, AllOpen PROVE SinksInv'
  OBVIOUS
<1> USE DEF SinksInv, Typed
<1>1. /\ at["demuxer"] = "open" /\ at' = [at EXCEPT !["demuxer"] = "recv"]
      /\ UNCHANGED <<opt, item, todo, opened, status, received, session, open, queue,
                     stopped, range, pending, current, prevent, paused, resume, window,
                     writer, writing, hasFrame, vstopped, header, events, main, lost,
                     socket, disc, interrupted>>
  BY DEF AllOpen, demuxer, regulators, screen, v4l2, ending
<1>2. at'["demuxer"] = "recv" /\ \A r \in Regulators : at'[r] = at[r]
  BY <1>1, SourcesFacts DEF ThreadTypes
<1>3. ThreadTypes'
  BY <1>1 DEF ThreadTypes
<1>4. UseInv'
  BY <1>1, <1>2, UseKept DEF UseSame
<1>5. EndInv'
  BY <1>1, EndKept
<1>6. WindowInv' /\ OnceInv' /\ EventTypes'
  BY <1>1, <1>2, EventsIdle DEF Unasked
<1>7. QueueTypes' /\ DemuxerTypes' /\ ScreenTypes' /\ WriterTypes' /\ EndTypes'
  BY <1>1 DEF QueueTypes, DemuxerTypes, ScreenTypes, WriterTypes, EndTypes
<1> QED BY <1>3, <1>4, <1>5, <1>6, <1>7

(* A regulator takes what it was given, waits for its time, or stops.      *)
LEMMA RegulatorSafe ==
  ASSUME SinksInv, NEW r \in Regulators, Take(r) \/ Timeout(r) \/ RegulatorStops(r)
  PROVE  SinksInv'
<1> USE DEF SinksInv, Typed
<1>1. /\ at[r] \in {"wait", "timed"}
      /\ UNCHANGED <<opt, opened, status, received, session, open, stopped, range, pending,
                     current, prevent, paused, resume, window, writer, writing, hasFrame,
                     vstopped, header, events, main, lost, socket, disc, interrupted>>
  BY DEF Take, Timeout, RegulatorStops, demuxer, regulators, screen, v4l2, ending
<1>2. CASE RegulatorStops(r)
  <2>1. stopped' \in [Regulators -> BOOLEAN]
    BY <1>1 DEF QueueTypes
  <2> QED BY <2>1, <1>1, <1>2, ExitSafe DEF RegulatorStops
<1>3. CASE Take(r) \/ Timeout(r)
  <2>1. /\ \E n \in {"timed", "deliver"} : at' = [at EXCEPT ![r] = n]
        /\ todo' = [todo EXCEPT ![r] = Sinks(r)] \/ todo' = todo
    BY <1>3 DEF Take, Timeout
  <2>2. ThreadTypes' /\ QueueTypes'
    <3>1. CASE Take(r)
      <4>1. /\ queue' = [queue EXCEPT ![r] = Tail(queue[r])]
            /\ item' = [item EXCEPT ![r] = Head(queue[r])]
            /\ todo' = [todo EXCEPT ![r] = Sinks(r)]
            /\ queue[r] \in Seq(Item) /\ queue[r] # <<>>
        BY <3>1 DEF Take, QueueTypes
      <4>2. Head(queue[r]) \in Item /\ Tail(queue[r]) \in Seq(Item)
        BY <4>1, HeadTailProperties
      <4>3. QueueTypes'
        BY <4>1, <4>2, <1>1 DEF QueueTypes
      <4>4. ThreadTypes'
        BY <4>1, <4>2, <2>1, RegulatorCallsItsSink DEF ThreadTypes
      <4> QED BY <4>3, <4>4
    <3>2. CASE Timeout(r)
      <4>1. UNCHANGED <<item, todo, queue>>
        BY <3>2 DEF Timeout, regulators
      <4> QED BY <4>1, <2>1, <1>1 DEF ThreadTypes, QueueTypes
    <3> QED BY <3>1, <3>2, <1>3
  <2>3. /\ at'["demuxer"] = at["demuxer"] /\ todo'["demuxer"] = todo["demuxer"]
        /\ \A q \in Regulators : q = r \/ at'[q] = at[q]
    BY <2>1, SourcesFacts DEF ThreadTypes
  <2>4. UseInv'
    BY <2>3, <1>1, UseKept DEF UseSame
  <2>5. EndInv'
    BY <2>3, <1>1, EndKept
  <2>6. WindowInv' /\ OnceInv' /\ EventTypes'
    BY <2>3, <1>1, EventsIdle DEF Unasked
  <2>7. DemuxerTypes' /\ ScreenTypes' /\ WriterTypes' /\ EndTypes'
    BY <1>1 DEF DemuxerTypes, ScreenTypes, WriterTypes, EndTypes
  <2> QED BY <2>2, <2>4, <2>5, <2>6, <2>7
<1> QED BY <1>2, <1>3

(* The V4L2 thread.                                                        *)
LEMMA WriterSafe == SinksInv /\ (Writer \/ WriterFails) => SinksInv'
<1> SUFFICES ASSUME SinksInv, Writer \/ WriterFails PROVE SinksInv'
  OBVIOUS
<1> USE DEF SinksInv, Typed
<1>1. UNCHANGED <<opt, at, item, todo, opened, status, received, session, open, queue,
                  stopped, range, current, prevent, paused, resume, window, vstopped,
                  events, main, lost, socket, disc, interrupted>>
  BY DEF Writer, WriterTakes, WriterWrites, WriterStops, WriterFails, calls, demuxer,
         regulators, screen, ending
<1>2. writer' \in {"wait", "write"} => writer \in {"wait", "write"}
  BY DEF Writer, WriterTakes, WriterWrites, WriterStops, WriterFails
<1>3. UseInv'
  BY <1>1, <1>2, UseKept DEF UseSame
<1>4. EndInv'
  BY <1>1, EndKept
<1>5. WindowInv' /\ OnceInv' /\ EventTypes'
  BY <1>1, EventsIdle DEF Unasked
<1>6. WriterTypes' /\ ScreenTypes'
  <2>1. "v4l2" \in Buffers
    BY DEF Buffers
  <2>2. pending' \in [Buffers -> Item] /\ writing' \in Item
    BY <2>1, ItemFacts DEF Writer, WriterTakes, WriterWrites, WriterStops, WriterFails,
                           ScreenTypes, WriterTypes
  <2>3. header' \in BOOLEAN /\ hasFrame' \in BOOLEAN /\ vstopped' \in BOOLEAN
        /\ writer' \in {"off", "wait", "write", "failed", "exited"}
    BY DEF Writer, WriterTakes, WriterWrites, WriterStops, WriterFails, WriterTypes
  <2> QED BY <2>2, <2>3, <1>1 DEF WriterTypes, ScreenTypes
<1>7. ThreadTypes' /\ QueueTypes' /\ DemuxerTypes' /\ EndTypes'
  BY <1>1 DEF ThreadTypes, QueueTypes, DemuxerTypes, EndTypes
<1> QED BY <1>3, <1>4, <1>5, <1>6, <1>7

(* A sink is stopped: its thread ends.                                     *)
LEMMA StopSinkSafe ==
  ASSUME SinksInv, NEW s \in Sink, StopSink(s)
  PROVE  SinksInv'
<1> USE DEF SinksInv, Typed
<1>1. /\ UNCHANGED <<opt, at, item, todo, opened, status, received, session, open, queue,
                     range, pending, current, prevent, paused, resume, window, writer,
                     writing, hasFrame, header, events, main, lost, socket, disc,
                     interrupted>>
  BY DEF StopSink, calls, demuxer, screen, ending
<1>2. stopped' \in [Regulators -> BOOLEAN] /\ vstopped' \in BOOLEAN
  BY DEF StopSink, SetStopped, QueueTypes, WriterTypes
<1>3. UseInv'
  BY <1>1, UseKept DEF UseSame
<1>4. EndInv'
  BY <1>1, EndKept
<1>5. WindowInv' /\ OnceInv' /\ EventTypes'
  BY <1>1, EventsIdle DEF Unasked
<1>6. ThreadTypes' /\ QueueTypes' /\ DemuxerTypes' /\ ScreenTypes' /\ WriterTypes' /\ EndTypes'
  BY <1>1, <1>2 DEF ThreadTypes, QueueTypes, DemuxerTypes, ScreenTypes, WriterTypes, EndTypes
<1> QED BY <1>3, <1>4, <1>5, <1>6

(* A sink is closed: nobody calls it, because its regulator was closed     *)
(* before, and its own thread has ended.                                   *)
LEMMA CloseSinkSafe ==
  ASSUME SinksInv, NEW s \in Sink, CloseSink(s)
  PROVE  SinksInv'
<1> USE DEF SinksInv, Typed
<1>1. /\ at["demuxer"] = "close" /\ todo["demuxer"] # <<>> /\ Head(todo["demuxer"]) = s
      /\ open' = open \ {s}
      /\ todo' = [todo EXCEPT !["demuxer"] = Tail(@)]
      /\ s = "v4l2" => writer \in {"exited", "failed"}
      /\ s \in Regulators => at[s] = "exited"
      /\ UNCHANGED <<opt, at, item, opened, status, received, session, queue, stopped,
                     range, pending, current, prevent, paused, resume, window, writer,
                     writing, hasFrame, vstopped, header, events, main, lost, socket, disc,
                     interrupted>>
  BY DEF CloseSink, ClosingSink, Joined, Exited, Regulators, demuxer, regulators, screen, v4l2, ending
<1>2. Ordered(todo["demuxer"]) /\ open = ToSet(todo["demuxer"])
  BY <1>1 DEF UseInv
<1>3. /\ Ordered(Tail(todo["demuxer"])) /\ ToSet(Tail(todo["demuxer"])) = open \ {s}
      /\ \A r \in Regulators : r \in open => Buffer(r) \in open /\ Buffer(r) # s
  BY <1>1, <1>2, OrderedTail
<1>4. todo'["demuxer"] = Tail(todo["demuxer"])
  BY <1>1, SourcesFacts DEF ThreadTypes
<1>5. UseInv'
  <2>1. opened' <= Len(Branches)'
    BY <1>1, OptKept DEF UseInv
  <2>2. \A r \in Regulators : at[r] \notin {"off", "exited"} => {r, Buffer(r)} \subseteq open'
    <3> TAKE r \in Regulators
    <3> HAVE at[r] \notin {"off", "exited"}
    <3>1. r \in open /\ r # s
      BY <1>1 DEF UseInv
    <3>2. Buffer(r) \in open /\ Buffer(r) # s
      BY <3>1, <1>3
    <3> QED BY <3>1, <3>2, <1>1
  <2>3. writer \in {"wait", "write"} => "v4l2" \in open'
    BY <1>1 DEF UseInv
  <2> QED BY <2>1, <2>2, <2>3, <1>1, <1>3, <1>4 DEF UseInv, Buffer
<1>6. EndInv'
  BY <1>1, EndKept
<1>7. WindowInv' /\ OnceInv' /\ EventTypes'
  BY <1>1, EventsIdle DEF Unasked
<1>8. ThreadTypes'
  <2>1. Tail(todo["demuxer"]) \in Seq(Sink)
    BY <1>3 DEF Ordered
  <2> QED BY <2>1, <1>1 DEF ThreadTypes
<1>9. DemuxerTypes'
  BY <1>1 DEF DemuxerTypes
<1>10. QueueTypes' /\ ScreenTypes' /\ WriterTypes' /\ EndTypes'
  BY <1>1 DEF QueueTypes, ScreenTypes, WriterTypes, EndTypes
<1> QED BY <1>5, <1>6, <1>7, <1>8, <1>9, <1>10

(* Every sink is closed, and the main thread is told.                      *)
LEMMA OnEndedSafe == SinksInv /\ OnEnded => SinksInv'
<1> SUFFICES ASSUME SinksInv, OnEnded PROVE SinksInv'
  OBVIOUS
<1> USE DEF SinksInv, Typed
<1> DEFINE e == IF status = "eos" THEN "disconnected" ELSE "error"
<1>1. /\ at["demuxer"] = "close" /\ todo["demuxer"] = <<>>
      /\ at' = [at EXCEPT !["demuxer"] = "exited"] /\ Post(e)
      /\ UNCHANGED <<opt, item, todo, opened, status, received, session, open, queue,
                     stopped, range, pending, current, prevent, paused, resume, window,
                     writer, writing, hasFrame, vstopped, header, main, lost, socket, disc,
                     interrupted>>
  BY DEF OnEnded, demuxer, regulators, screen, v4l2, ending
<1>2. at'["demuxer"] = "exited" /\ \A r \in Regulators : at'[r] = at[r]
  BY <1>1, SourcesFacts DEF ThreadTypes
<1>3. open = {}
  BY <1>1, OrderedSmall DEF UseInv
<1>4. Branches' = Branches
  BY <1>1, OptKept
<1>5. UseInv'
  BY <1>1, <1>2, <1>3, <1>4 DEF UseInv, Buffer
<1>6. EndInv'
  BY <1>1, <1>2 DEF EndInv
<1>7. WindowInv' /\ OnceInv' /\ EventTypes'
  <2>1. main # "destroyed"
    BY <1>1 DEF EndInv
  <2>2. e \in {"disconnected", "error"}
    OBVIOUS
  <2> HIDE DEF e
  <2>3. EventsPosted(e)
    BY <2>1, <2>2, <1>1, <1>2 DEF EventsPosted, Unasked
  <2> QED BY <2>2, <2>3, EventsPostedKeeps DEF EventNames
<1>8. ThreadTypes'
  BY <1>1 DEF ThreadTypes
<1>9. QueueTypes' /\ DemuxerTypes' /\ ScreenTypes' /\ WriterTypes' /\ EndTypes'
  BY <1>1 DEF QueueTypes, DemuxerTypes, ScreenTypes, WriterTypes, EndTypes
<1> QED BY <1>5, <1>6, <1>7, <1>8, <1>9

(* The main thread, as long as it does not destroy the screen: the other   *)
(* threads do not see it.                                                  *)
MainOnly ==
  UNCHANGED <<opt, at, item, todo, opened, status, received, session, open, queue, stopped,
              range, current, prevent, writer, writing, hasFrame, vstopped, header>>
LEMMA MainKeeps ==
  ASSUME SinksInv, MainOnly
  PROVE  UseInv' /\ ThreadTypes' /\ QueueTypes' /\ DemuxerTypes' /\ WriterTypes'
         /\ Unasked' = Unasked
<1> USE DEF SinksInv, Typed, MainOnly
<1>1. UseInv'
  BY UseKept DEF UseSame
<1>2. ThreadTypes' /\ QueueTypes' /\ DemuxerTypes' /\ WriterTypes'
  BY DEF ThreadTypes, QueueTypes, DemuxerTypes, WriterTypes
<1>3. Unasked' = Unasked
  BY DEF Unasked
<1> QED BY <1>1, <1>2, <1>3

(* What the main thread and disconnect.c keep of the types.                *)
LEMMA MainTypes ==
  ASSUME SinksInv, Main \/ (\E p \in BOOLEAN : SetPaused(p)) \/ LoopEnds \/ QuitDisplayed \/ Disc
  PROVE  MainOnly /\ ScreenTypes' /\ EndTypes'
<1> USE DEF SinksInv, Typed
<1>1. MainOnly
  BY DEF Main, OpenWindow, NewFrame, Disconnected, DemuxerError, StopServer, DiscardEvent,
         JoinDemuxer, DestroyScreen, SetPaused, LoopEnds, QuitDisplayed, Disc, LoadIcon,
         DiscEnds, calls, demuxer, regulators, screen, v4l2, MainOnly
<1>2. "screen" \in Buffers
  BY DEF Buffers
<1>3. EndTypes'
  BY DEF Main, OpenWindow, NewFrame, Disconnected, DemuxerError, StopServer, DiscardEvent,
         JoinDemuxer, DestroyScreen, SetPaused, LoopEnds, QuitDisplayed, Disc, LoadIcon,
         DiscEnds, ending, EndTypes
<1>4. /\ pending' \in [Buffers -> Item] /\ resume' \in Item
  BY <1>2, ItemFacts
     DEF Main, OpenWindow, NewFrame, Disconnected, DemuxerError, StopServer, DiscardEvent,
         JoinDemuxer, DestroyScreen, SetPaused, LoopEnds, QuitDisplayed, Disc, LoadIcon,
         DiscEnds, screen, ScreenTypes
<1>5. window' \in BOOLEAN /\ paused' \in BOOLEAN
  BY DEF Main, OpenWindow, NewFrame, Disconnected, DemuxerError, StopServer, DiscardEvent,
         JoinDemuxer, DestroyScreen, SetPaused, LoopEnds, QuitDisplayed, Disc, LoadIcon,
         DiscEnds, screen, ScreenTypes
<1>6. ScreenTypes'
  BY <1>1, <1>4, <1>5 DEF MainOnly, ScreenTypes
<1> QED BY <1>1, <1>3, <1>6

(* Of the events of a kind that comes once, none is left once one is freed *)
LEMMA RemoveFirstFacts ==
  ASSUME NEW s \in Seq(EventNames), NEW e, \A i, j \in Places(s, e) : i = j
  PROVE  /\ RemoveFirst(s, e) \in Seq(EventNames) /\ Places(RemoveFirst(s, e), e) = {}
         /\ \A x : (\A i, j \in Places(s, x) : i = j) =>
              \A i, j \in Places(RemoveFirst(s, e), x) : i = j
         /\ \A x : Places(s, x) = {} => Places(RemoveFirst(s, e), x) = {}
<1> DEFINE n == Len(s)
<1>1. n \in Nat /\ DOMAIN s = 1 .. n
  BY LenProperties
<1>2. CASE ~\E i \in 1 .. Len(s) : s[i] = e
  <2>1. RemoveFirst(s, e) = s
    BY <1>2 DEF RemoveFirst
  <2>2. Places(s, e) = {}
    BY <1>1, <1>2 DEF Places
  <2> QED BY <2>1, <2>2
<1>3. CASE \E i \in 1 .. Len(s) : s[i] = e
  <2>1. PICK k \in 1 .. n : s[k] = e
    BY <1>3
  <2>2. k \in Places(s, e) /\ \A i \in 1 .. n : s[i] = e => i = k
    BY <2>1, <1>1 DEF Places
  <2>3. SelectInSeq(s, LAMBDA v : v = e) = k
    <3>1. {i \in 1 .. Len(s) : s[i] = e} = {k}
      BY <2>1, <2>2
    <3>2. Min({k}) = k
      BY <2>1, <1>1 DEF Min
    <3> QED BY <3>1, <3>2 DEF SelectInSeq
  <2> DEFINE a == SubSeq(s, 1, k - 1)  b == SubSeq(s, k + 1, n)  t == a \o b
  <2>4. RemoveFirst(s, e) = t
    BY <2>3, <1>3 DEF RemoveFirst, RemoveAt
  <2>5. /\ a \in Seq(EventNames) /\ Len(a) = k - 1
        /\ \A i \in 1 .. k - 1 : a[i] = s[i]
    <3>1. 1 \in 1 .. n + 1 /\ k - 1 \in 0 .. n
      BY <1>1, <2>1
    <3>2. /\ a \in Seq(EventNames)
          /\ Len(a) = IF 1 <= k - 1 THEN k - 1 - 1 + 1 ELSE 0
          /\ \A i \in 1 .. k - 1 - 1 + 1 : a[i] = s[1 + i - 1]
      BY <3>1, <1>1, <2>1, SubSeqProperties
    <3> QED BY <3>2, <1>1, <2>1
  <2>6. /\ b \in Seq(EventNames) /\ Len(b) = n - k
        /\ \A i \in 1 .. n - k : b[i] = s[k + i]
    <3>1. k + 1 \in 1 .. n + 1 /\ n \in k .. n
      BY <1>1, <2>1
    <3>2. /\ b \in Seq(EventNames)
          /\ Len(b) = IF k + 1 <= n THEN n - (k + 1) + 1 ELSE 0
          /\ \A i \in 1 .. n - (k + 1) + 1 : b[i] = s[(k + 1) + i - 1]
      BY <3>1, <1>1, <2>1, SubSeqProperties
    <3>3. \A i \in 1 .. n - k : i \in 1 .. n - (k + 1) + 1 /\ (k + 1) + i - 1 = k + i
      BY <1>1, <2>1
    <3> HIDE DEF b
    <3>4. Len(b) = n - k
      <4>1. Len(b) = IF k + 1 <= n THEN n - (k + 1) + 1 ELSE 0
        BY <3>2
      <4>2. n \in Nat /\ k \in Nat /\ k <= n
        BY <1>1, <2>1
      <4> HIDE DEF n
      <4>3. (IF k + 1 <= n THEN n - (k + 1) + 1 ELSE 0) = n - k
        BY <4>2
      <4> QED BY <4>1, <4>3
    <3>5. \A i \in 1 .. n - k : b[i] = s[k + i]
      <4> TAKE i \in 1 .. n - k
      <4>1. i \in 1 .. n - (k + 1) + 1 /\ (k + 1) + i - 1 = k + i
        BY <3>3
      <4> QED BY <4>1, <3>2
    <3> QED BY <3>2, <3>4, <3>5
  <2> HIDE DEF a, b
  <2>7. /\ t \in Seq(EventNames) /\ DOMAIN t = 1 .. n - 1
        /\ \A i \in 1 .. n - 1 : t[i] = IF i < k THEN s[i] ELSE s[i + 1]
    <3>1. /\ t \in Seq(EventNames) /\ Len(t) = Len(a) + Len(b)
          /\ \A i \in 1 .. Len(a) + Len(b) : t[i] = IF i <= Len(a) THEN a[i] ELSE b[i - Len(a)]
      BY <2>5, <2>6, ConcatProperties
    <3> HIDE DEF t
    <3>2. Len(a) + Len(b) = n - 1
      BY <2>5, <2>6, <1>1, <2>1
    <3>3. DOMAIN t = 1 .. n - 1
      BY <3>1, <3>2, LenProperties
    <3>4. \A i \in 1 .. n - 1 : t[i] = IF i < k THEN s[i] ELSE s[i + 1]
      <4> TAKE i \in 1 .. n - 1
      <4>1. t[i] = IF i <= k - 1 THEN a[i] ELSE b[i - (k - 1)]
        BY <3>1, <3>2, <2>5
      <4>2. CASE i < k
        <5>1. i <= k - 1 /\ i \in 1 .. k - 1
          BY <4>2, <1>1, <2>1
        <5> QED BY <4>1, <4>2, <5>1, <2>5
      <4>3. CASE ~(i < k)
        <5>1. ~(i <= k - 1) /\ i - (k - 1) \in 1 .. n - k /\ k + (i - (k - 1)) = i + 1
          BY <4>3, <1>1, <2>1
        <5> QED BY <4>1, <4>3, <5>1, <2>6
      <4> QED BY <4>2, <4>3
    <3> QED BY <3>1, <3>3, <3>4
  <2> HIDE DEF t
  <2> DEFINE Old(i) == IF i < k THEN i ELSE i + 1
  <2>8. /\ \A i \in 1 .. n - 1 : i < k => Old(i) = i
        /\ \A i \in 1 .. n - 1 : ~(i < k) => Old(i) = i + 1
        /\ \A i \in 1 .. n - 1 : Old(i) \in 1 .. n /\ Old(i) # k
        /\ \A i, j \in 1 .. n - 1 : Old(i) = Old(j) => i = j
    BY <1>1, <2>1
  <2>9. \A x : \A i \in Places(t, x) : i \in 1 .. n - 1 /\ Old(i) \in Places(s, x) /\ Old(i) # k
    <3> TAKE x
    <3> TAKE i \in Places(t, x)
    <3>1. i \in 1 .. n - 1 /\ t[i] = x
      BY <2>7 DEF Places
    <3>2. t[i] = s[Old(i)] /\ Old(i) \in 1 .. n /\ Old(i) # k
      BY <3>1, <2>7, <2>8
    <3> QED BY <3>1, <3>2, <1>1 DEF Places
  <2> HIDE DEF Old
  <2>10. Places(t, e) = {}
    BY <2>2, <2>9
  <2>11. \A x : (\A i, j \in Places(s, x) : i = j) => \A i, j \in Places(t, x) : i = j
    BY <2>8, <2>9
  <2>12. \A x : Places(s, x) = {} => Places(t, x) = {}
    BY <2>9
  <2> QED BY <2>4, <2>7, <2>10, <2>11, <2>12
<1> QED BY <1>2, <1>3

(* The screen is destroyed once the other threads have ended.              *)
LEMMA DestroySafe == SinksInv /\ DestroyScreen => SinksInv'
<1> SUFFICES ASSUME SinksInv, DestroyScreen PROVE SinksInv'
  OBVIOUS
<1> USE DEF SinksInv, Typed
<1>1. /\ main = "destroy" /\ disc \in {"off", "ended"} /\ main' = "destroyed" /\ disc' = disc
      /\ events' = RemoveFirst(RemoveFirst(events, "icon"), "open")
  BY DEF DestroyScreen
<1>2. MainOnly /\ ScreenTypes' /\ EndTypes'
  BY MainTypes DEF Main
<1>3. UseInv' /\ ThreadTypes' /\ QueueTypes' /\ DemuxerTypes' /\ WriterTypes'
  BY <1>2, MainKeeps
<1>4. EndInv'
  BY <1>1, <1>2 DEF EndInv, MainOnly
<1>5. OnceInv' /\ EventTypes'
  <2> DEFINE s == RemoveFirst(events, "icon")
  <2>1. events \in Seq(EventNames) /\ \A e \in {"icon", "open"} : \A i, j \in Places(events, e) : i = j
    BY DEF EventTypes, OnceInv
  <2>2. /\ s \in Seq(EventNames) /\ Places(s, "icon") = {}
        /\ \A i, j \in Places(s, "open") : i = j
    BY <2>1, RemoveFirstFacts
  <2> HIDE DEF s
  <2>3. RemoveFirst(s, "open") \in Seq(EventNames) /\ Places(RemoveFirst(s, "open"), "open") = {}
        /\ Places(RemoveFirst(s, "open"), "icon") = {}
    BY <2>2, RemoveFirstFacts
  <2>4. events' = RemoveFirst(s, "open")
    BY <1>1 DEF s
  <2> QED BY <2>3, <2>4 DEF OnceInv, EventTypes
<1>6. WindowInv'
  BY <1>1 DEF WindowInv
<1> QED BY <1>2, <1>3, <1>4, <1>5, <1>6

(* The other steps of the main thread.                                     *)
LEMMA MainSafe ==
  SinksInv /\ (Main \/ (\E p \in BOOLEAN : SetPaused(p)) \/ LoopEnds \/ QuitDisplayed) => SinksInv'
<1> SUFFICES ASSUME SinksInv,
                    Main \/ (\E p \in BOOLEAN : SetPaused(p)) \/ LoopEnds \/ QuitDisplayed
             PROVE  SinksInv'
  OBVIOUS
<1> USE DEF SinksInv, Typed
<1>1. MainOnly /\ ScreenTypes' /\ EndTypes'
  BY MainTypes
<1>2. UseInv' /\ ThreadTypes' /\ QueueTypes' /\ DemuxerTypes' /\ WriterTypes' /\ Unasked' = Unasked
  BY <1>1, MainKeeps
<1>3. CASE OpenWindow \/ NewFrame \/ Disconnected \/ DemuxerError \/ DiscardEvent
  <2>1. EndInv'
    BY <1>1, <1>3 DEF OpenWindow, NewFrame, Disconnected, DemuxerError, DiscardEvent, EndInv, MainOnly, ending
  <2>2. EventsTaken
    <3>1. events # <<>> /\ events' = Tail(events) /\ UNCHANGED <<opt, opened, at>>
      BY <1>1, <1>3 DEF OpenWindow, NewFrame, Disconnected, DemuxerError, DiscardEvent, Event, MainOnly, ending
    <3>2. /\ main' = "loop" => main = "loop" /\ (window => window')
          /\ main' = "loop" /\ Head(events) = "open" => window'
          /\ main' = "destroyed" => main = "destroyed"
      BY <1>3 DEF OpenWindow, NewFrame, Disconnected, DemuxerError, DiscardEvent, Event, ending, screen
    <3>3. disc' \in {"off", "icon"} => disc \in {"off", "icon"}
      BY <1>3 DEF OpenWindow, NewFrame, Disconnected, DemuxerError, DiscardEvent, EndInv, ending
    <3> QED BY <3>1, <3>2, <3>3 DEF EventsTaken
  <2> QED BY <2>1, <2>2, <1>1, <1>2, EventsTakenKeeps
<1>4. CASE (\E p \in BOOLEAN : SetPaused(p)) \/ LoopEnds \/ StopServer \/ QuitDisplayed \/ JoinDemuxer
  <2>1. EndInv'
    BY <1>1, <1>4 DEF SetPaused, LoopEnds, StopServer, QuitDisplayed, JoinDemuxer, EndInv, MainOnly,
              ending
  <2>2. EventsSame
    <3>1. UNCHANGED <<opt, opened, events, disc>>
      BY <1>1, <1>4 DEF SetPaused, LoopEnds, StopServer, QuitDisplayed, JoinDemuxer, MainOnly, ending
    <3>2. /\ main' = "loop" => main = "loop" /\ window' = window
          /\ main' = "destroyed" => main = "destroyed"
      BY <1>4 DEF SetPaused, LoopEnds, StopServer, QuitDisplayed, JoinDemuxer, ending, screen
    <3> QED BY <3>1, <3>2, <1>2 DEF EventsSame
  <2> QED BY <2>1, <2>2, <1>1, <1>2, EventsSameKeeps
<1>5. CASE DestroyScreen
  BY <1>5, DestroySafe
<1> QED BY <1>3, <1>4, <1>5 DEF Main

(* The thread of disconnect.c posts the icon once.                         *)
LEMMA DiscSafe == SinksInv /\ Disc => SinksInv'
<1> SUFFICES ASSUME SinksInv, Disc PROVE SinksInv'
  OBVIOUS
<1> USE DEF SinksInv, Typed
<1>1. MainOnly /\ ScreenTypes' /\ EndTypes'
  BY MainTypes
<1>2. UseInv' /\ ThreadTypes' /\ QueueTypes' /\ DemuxerTypes' /\ WriterTypes' /\ Unasked' = Unasked
  BY <1>1, MainKeeps
<1>3. /\ main' = main /\ window' = window /\ opt' = opt /\ opened' = opened /\ at' = at
      /\ disc \in {"icon", "wait"} /\ disc' \in {"wait", "ended"}
      /\ disc = "wait" => disc' = "ended"
  BY <1>1 DEF Disc, LoadIcon, DiscEnds, screen, MainOnly
<1>4. main \notin {"loop", "destroyed"}
  BY <1>3 DEF EndInv
<1>5. EndInv'
  BY <1>3, <1>4 DEF EndInv
<1>6. CASE UNCHANGED events
  <2>1. EventsSame
    BY <1>2, <1>3, <1>4, <1>6 DEF EventsSame
  <2> QED BY <2>1, <1>1, <1>2, <1>5, EventsSameKeeps
<1>7. CASE disc = "icon" /\ Post("icon")
  <2>1. Places(events, "icon") = {}
    BY <1>7 DEF OnceInv
  <2>2. EventsPosted("icon")
    BY <2>1, <1>2, <1>3, <1>4, <1>7 DEF EventsPosted
  <2> QED BY <2>2, <1>1, <1>2, <1>5, EventsPostedKeeps DEF EventNames
<1>8. CASE Post("timeout")
  <2>1. EventsPosted("timeout")
    BY <1>2, <1>3, <1>4, <1>8 DEF EventsPosted
  <2> QED BY <2>1, <1>1, <1>2, <1>5, EventsPostedKeeps DEF EventNames
<1> QED BY <1>6, <1>7, <1>8 DEF Disc, LoadIcon, DiscEnds

(* A source calls a sink.                                                  *)
LEMMA DeliverSafe ==
  ASSUME SinksInv, PipelineInv, LatestInv, NEW t \in Sources, Deliver(t)
  PROVE  SinksInv'
BY PushSafe, PostNewFrameSafe DEF Deliver

(* The inductive invariant, with the two others.                           *)
LEMMA SinksStep == SinksInv /\ PipelineInv /\ LatestInv /\ [Next]_vars => SinksInv'
<1> SUFFICES ASSUME SinksInv, PipelineInv, LatestInv, [Next]_vars PROVE SinksInv'
  OBVIOUS
<1>1. CASE UNCHANGED vars
  <2>1. /\ UNCHANGED <<opt, at, item, todo, opened, status, received, session, open, queue,
                       stopped, range, pending, current, prevent, paused, resume, window,
                       writer, writing, hasFrame, vstopped, header>>
        /\ UNCHANGED <<events, main, lost, socket, disc, interrupted>>
    BY <1>1 DEF vars, calls, demuxer, regulators, screen, v4l2, ending
  <2>2. Typed'
    BY <2>1 DEF SinksInv, Typed, ThreadTypes, QueueTypes, DemuxerTypes, ScreenTypes,
                WriterTypes, EndTypes, EventTypes
  <2>3. UseInv'
    BY <2>1, UseKept DEF UseSame, SinksInv
  <2>4. EndInv'
    BY <2>1, EndKept DEF SinksInv
  <2>5. WindowInv' /\ OnceInv'
    BY <2>1, EventsIdle DEF Unasked
  <2> QED BY <2>2, <2>3, <2>4, <2>5 DEF SinksInv
<1>2. CASE Demuxer
  <2>1. CASE OpenBranch \/ AllOpen \/ StartStream \/ EndOfStream \/ OnEnded
    BY <2>1, OpenBranchSafe, AllOpenSafe, StartSafe, EndSafe, OnEndedSafe
  <2>2. CASE Deliver("demuxer")
    BY <2>2, DeliverSafe, SourcesFacts
  <2>3. CASE \E r \in Regulators : RegulatorPush(r)
    BY <2>3, RegulatorPushSafe
  <2>4. CASE \E s \in Sink : StopSink(s) \/ CloseSink(s)
    BY <2>4, StopSinkSafe, CloseSinkSafe
  <2> QED BY <1>2, <2>1, <2>2, <2>3, <2>4 DEF Demuxer, Sink
<1>3. CASE StartStream \/ OpenFails \/ RecvSession \/ RecvFrame \/ EndOfStream \/ RecvFails
  BY <1>3, StartSafe, EndSafe, RecvSafe
<1>4. CASE \E t \in Sources : PushFails(t)
  BY <1>4, PushFailsSafe
<1>5. CASE \E r \in Regulators : Regulator(r)
  BY <1>5, RegulatorSafe, DeliverSafe, SourcesFacts DEF Regulator
<1>6. CASE Writer \/ WriterFails
  BY <1>6, WriterSafe
<1>7. CASE Main \/ (\E p \in BOOLEAN : SetPaused(p)) \/ LoopEnds \/ QuitDisplayed
  BY <1>7, MainSafe
<1>8. CASE Disc
  BY <1>8, DiscSafe
<1> QED BY <1>1, <1>2, <1>3, <1>4, <1>5, <1>6, <1>7, <1>8 DEF Next

(* The sinks that are open, in every state: with the two invariants above, *)
(* an inductive one.                                                       *)
THEOREM SinksInvariant == Spec => [](PipelineInv /\ LatestInv /\ SinksInv)
<1>1. Init => SinksInv
  <2> SUFFICES ASSUME Init PROVE SinksInv
    OBVIOUS
  <2>1. /\ opt \in Options /\ opened = 0 /\ open = {} /\ events = <<>> /\ main = "loop"
        /\ writer = "off" /\ disc = "off"
        /\ at["demuxer"] = "start" /\ \A r \in Regulators : at[r] = "off"
    BY SourcesFacts DEF Init
  <2>2. UseInv
    BY <2>1, BranchSinksFacts DEF UseInv
  <2>3. EndInv
    BY <2>1 DEF EndInv
  <2>4. \A x : Places(events, x) = {}
    BY <2>1 DEF Places
  <2>5. WindowInv /\ OnceInv
    BY <2>1, <2>4, FramesPlaces DEF WindowInv, OnceInv
  <2>6. ThreadTypes /\ QueueTypes
    <3>1. <<>> \in Seq(Sink) /\ <<>> \in Seq(Item)
      BY EmptySeq
    <3> QED BY <3>1, ItemFacts DEF Init, ThreadTypes, QueueTypes
  <2>7. DemuxerTypes /\ ScreenTypes /\ WriterTypes /\ EndTypes
    <3>1. 0 \in 0 .. 2 /\ 0 \in 0 .. MaxSessions /\ 0 \in 0 .. MaxFrames
      BY ItemFacts
    <3>2. DemuxerTypes
      BY <3>1 DEF Init, DemuxerTypes
    <3>3. ScreenTypes
      BY <3>1, ItemFacts DEF Init, ScreenTypes
    <3>4. WriterTypes /\ EndTypes
      BY ItemFacts DEF Init, WriterTypes, EndTypes
    <3> QED BY <3>2, <3>3, <3>4
  <2>8. EventTypes
    BY <2>1, EmptySeq DEF EventTypes
  <2> QED BY <2>2, <2>3, <2>5, <2>6, <2>7, <2>8 DEF SinksInv, Typed
<1>2. SinksInv /\ (PipelineInv /\ LatestInv) /\ [Next]_vars => SinksInv'
  BY SinksStep
<1>3. Spec => [](PipelineInv /\ LatestInv)
  BY LatestInvariant
<1> QED BY <1>1, <1>2, <1>3, PTL DEF Spec

(* The sink that a thread is calling is open.                              *)
LEMMA CalledSinkOpen ==
  ASSUME SinksInv, PipelineInv, LatestInv, NEW t \in Sources, at[t] \in {"deliver", "post"}
  PROVE  Head(todo[t]) \in open
<1> USE DEF SinksInv, Typed
<1>1. CASE t = "demuxer"
  <2>1. opened = Len(Branches) /\ open = BranchSinks(opened) /\ opt \in Options
    BY <1>1 DEF LatestInv, OpenInv, UseInv, DemuxerTypes
  <2>2. Head(todo["demuxer"]) \in Sink
    BY <1>1, CallerHasSinks
  <2>3. CASE Head(todo["demuxer"]) \in Screens
    <3>1. Plays /\ (Head(todo["demuxer"]) = "screen_vr" => Delayed)
      BY <1>1, <2>3 DEF PipelineInv, DemuxerInv
    <3> QED BY <3>1, <2>1, <2>3, <1>1, BranchSinksAll DEF Screens
  <2>4. CASE Head(todo["demuxer"]) \notin Screens
    <3>1. Taps /\ (Head(todo["demuxer"]) = "v4l2_vr" => TapDelayed)
      BY <1>1, <2>4 DEF LatestInv, TodoInv
    <3>2. Head(todo["demuxer"]) \in {"v4l2", "v4l2_vr"}
      BY <2>2, <2>4 DEF Sink, Screens, Regulators, Buffers
    <3> QED BY <3>1, <3>2, <2>1, <1>1, BranchSinksAll
  <2> QED BY <2>3, <2>4
<1>2. CASE t # "demuxer"
  <2>1. t \in Regulators
    BY <1>2, SourcesFacts
  <2>2. todo[t] = Sinks(t)
    BY <2>1 DEF PipelineInv, RegulatorInv, Active
  <2>3. Buffer(t) \in open
    BY <2>1 DEF UseInv
  <2> QED BY <2>1, <2>2, <2>3, RegulatorCallsItsSink
<1> QED BY <1>1, <1>2

(* SinksOpenWhileUsed.  A sink is called only while it is open, whatever   *)
(* the order in which the threads are stopped and joined; when the screen  *)
(* is destroyed nobody uses a sink any more, no thread is left and no      *)
(* event holds memory (scrcpy.c:1002, screen.c:812-837,                    *)
(* video_regulator.c).  The types and the assertions of the C code hold.   *)
THEOREM SinksStayOpen == Spec => []SinksOpenWhileUsed
<1>1. SinksInv /\ PipelineInv /\ LatestInv => SinksOpenWhileUsed
  <2> SUFFICES ASSUME SinksInv, PipelineInv, LatestInv PROVE SinksOpenWhileUsed
    OBVIOUS
  <2>1. PipelineTypeOK
    BY AssertedHolds, TypeParts DEF SinksInv, Typed, PipelineInv, LatestInv
  <2>2. ASSUME main = "destroyed"
        PROVE  /\ Running = {} /\ open = {}
               /\ writer \in {"off", "failed", "exited"} /\ disc \in {"off", "ended"}
               /\ \A i \in DOMAIN events : events[i] \notin {"icon", "open"}
    <3>1. at["demuxer"] = "exited" /\ open = {} /\ disc \in {"off", "ended"}
      BY <2>2 DEF SinksInv, EndInv, UseInv
    <3>2. \A r \in Regulators : at[r] \in {"off", "exited"}
      BY <3>1 DEF SinksInv, UseInv
    <3>3. Running = {}
      BY <3>1, <3>2, SourcesFacts DEF Running
    <3>4. writer \in {"off", "failed", "exited"}
      BY <3>1 DEF SinksInv, Typed, UseInv, WriterTypes
    <3>5. \A i \in DOMAIN events : events[i] \notin {"icon", "open"}
      BY <2>2 DEF SinksInv, OnceInv, Places
    <3> QED BY <3>1, <3>3, <3>4, <3>5
  <2>3. \A t \in Sources : at[t] \in {"deliver", "post"} => Head(todo[t]) \in open
    BY CalledSinkOpen
  <2> QED BY <2>1, <2>2, <2>3 DEF SinksOpenWhileUsed
<1> QED BY <1>1, SinksInvariant, PTL
===============================================================================
