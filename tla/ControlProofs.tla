---------------------------- MODULE ControlProofs -----------------------------
(***************************************************************************)
(* Proofs about Controller, for any sets of messages and sizes and any     *)
(* limits: type correctness, no lost wakeup, and the refinement of         *)
(* MsgChannel.  They use the assumption of Controller, not the one of      *)
(* GamepadUhid, which extends it.                                          *)
(*                                                                         *)
(* Then proofs about GamepadUhid, for any gamepads, any number of slots    *)
(* and any limit of the queue: the gamepads use the controller as          *)
(* Controller specifies it, the server never meets an unknown or a         *)
(* duplicate device, and its devices mirror the slots of the client.       *)
(***************************************************************************)
EXTENDS GamepadUhid, SequenceTheorems, FiniteSetTheorems, WellFoundedInduction, TLAPS

-------------------------------------------------------------------------------
(* The controller, whatever uses it.                                       *)

(* Every variable but those of the queue keeps its type by case analysis;  *)
(* this lemma collects what the sequence operators do to it.               *)
LEMMA SequenceFacts ==
  ASSUME NEW S, NEW q \in Seq(S)
  PROVE  /\ \A x \in S : Append(q, x) \in Seq(S) /\ Len(Append(q, x)) = Len(q) + 1
         /\ q # <<>> => /\ Head(q) \in S
                        /\ Tail(q) \in Seq(S)
                        /\ Len(Tail(q)) = Len(q) - 1
                        /\ Len(q) > 0
         /\ \A x \in S : /\ q \o <<x>> \in Seq(S)
                         /\ Len(q \o <<x>>) = Len(q) + 1
                         /\ q \o <<x>> = Append(q, x)
         /\ q \o <<>> = q
         /\ Len(q) \in Nat
<1>1. /\ \A x \in S : Append(q, x) \in Seq(S) /\ Len(Append(q, x)) = Len(q) + 1
      /\ Len(q) \in Nat
  BY AppendProperties, LenProperties
<1>2. q # <<>> => /\ Head(q) \in S
                  /\ Tail(q) \in Seq(S)
                  /\ Len(Tail(q)) = Len(q) - 1
                  /\ Len(q) > 0
  BY HeadTailProperties, EmptySeq, LenProperties
<1>3. \A x \in S : /\ q \o <<x>> \in Seq(S)
                   /\ Len(q \o <<x>>) = Len(q) + 1
                   /\ q \o <<x>> = Append(q, x)
  BY AppendIsConcat, <1>1
<1>4. q \o <<>> = q
  BY ConcatEmptySeq
<1>. QED
  BY <1>1, <1>2, <1>3, <1>4

-------------------------------------------------------------------------------
(* TypeOK is inductive: in particular the queue never holds anything but   *)
(* control messages, and the socket never more than its buffers.           *)
THEOREM Typing == Spec => []TypeOK
<1>. USE ControllerAssumption
<1>1. Init => TypeOK
  <2>1. <<>> \in Seq(Msgs) /\ <<>> \in Seq(Msgs \cup Sizes) /\ Len(<<>>) = 0
    BY EmptySeq
  <2>2. 0 <= MaxQueue /\ 0 <= SocketCap
    BY DEF ControllerAssumption
  <2>. SUFFICES ASSUME Init PROVE TypeOK
    OBVIOUS
  <2>3. queue \in Seq(Msgs) /\ Len(queue) <= MaxQueue /\ KeptBeyondLimit
    BY <2>1, <2>2 DEF Init, KeptBeyondLimit
  <2>4. wire \in Seq(Msgs \cup Sizes) /\ Len(wire) <= SocketCap
    BY <2>1, <2>2 DEF Init
  <2>. QED
    BY <2>3, <2>4 DEF Init, TypeOK
<1>2. TypeOK /\ [Next]_vars => TypeOK'
  <2>. SUFFICES ASSUME TypeOK, [Next]_vars
                PROVE  TypeOK'
    OBVIOUS
  <2>1. ASSUME NEW m \in Msgs, PushMsg(m)
        PROVE  TypeOK'
    <3>1. Append(queue, m) \in Seq(Msgs) /\ Len(Append(queue, m)) = Len(queue) + 1
      BY SequenceFacts DEF TypeOK
    <3>2. Len(queue) \in Nat
      BY SequenceFacts DEF TypeOK
    <3>3. queue' \in Seq(Msgs) /\ Len(queue') <= MaxQueue
      BY <2>1, <3>1, <3>2 DEF TypeOK, PushMsg
    <3>4. KeptBeyondLimit'
      <4>1. CASE HasRoom(m) /\ queue' = Append(queue, m)
        <5>1. ASSUME NEW i \in 1 .. Len(Append(queue, m)), i > QueueLimit
              PROVE  Append(queue, m)[i] \in NonDroppable
          <6>1. /\ \A j \in 1 .. Len(queue) : Append(queue, m)[j] = queue[j]
                /\ Append(queue, m)[Len(queue) + 1] = m
            BY AppendProperties DEF TypeOK
          <6>2. CASE i = Len(queue) + 1
            <7>1. ~(Len(queue) < QueueLimit)
              BY <5>1, <6>2, <3>2 DEF ControllerAssumption
            <7>. QED
              BY <4>1, <6>1, <6>2, <7>1 DEF HasRoom
          <6>3. CASE i # Len(queue) + 1
            <7>1. i \in 1 .. Len(queue)
              BY <6>3, <3>1, <3>2
            <7>. QED
              BY <5>1, <6>1, <7>1 DEF KeptBeyondLimit, TypeOK
          <6>. QED
            BY <6>2, <6>3
        <5>. QED
          BY <4>1, <5>1 DEF KeptBeyondLimit
      <4>2. CASE queue' = queue
        BY <4>2 DEF KeptBeyondLimit, TypeOK
      <4>. QED
        BY <2>1, <4>1, <4>2 DEF PushMsg
    <3>. QED
      BY <2>1, <3>3, <3>4 DEF TypeOK, PushMsg, Signal
  <2>2. ASSUME NEW s \in Sizes, ResizeDisplay(s)
        PROVE  TypeOK'
    BY <2>2 DEF TypeOK, KeptBeyondLimit, ResizeDisplay, Signal
  <2>3. CASE CtlWait \/ CtlStop \/ CtlSpuriousWakeup
    BY <2>3 DEF TypeOK, KeptBeyondLimit, CtlWait, CtlStop, CtlSpuriousWakeup, Posted, chan
  <2>4. CASE CtlTakeResize
    BY <2>4 DEF TypeOK, KeptBeyondLimit, CtlTakeResize, ResizeFirst
  <2>5. CASE CtlTakeMsg
    <3>1. /\ Head(queue) \in Msgs /\ Tail(queue) \in Seq(Msgs)
          /\ Len(Tail(queue)) = Len(queue) - 1 /\ Len(queue) \in Nat
      BY <2>5, SequenceFacts DEF TypeOK, CtlTakeMsg
    <3>2. KeptBeyondLimit'
      <4>1. ASSUME NEW i \in 1 .. Len(Tail(queue)), i > QueueLimit
            PROVE  Tail(queue)[i] \in NonDroppable
        <5>1. Tail(queue)[i] = queue[i + 1]
          BY <2>5, <4>1, <3>1, HeadTailProperties DEF CtlTakeMsg, TypeOK
        <5>. QED
          BY <4>1, <5>1, <3>1 DEF KeptBeyondLimit, TypeOK
      <4>. QED
        BY <2>5, <4>1 DEF CtlTakeMsg, KeptBeyondLimit
    <3>. QED
      BY <2>5, <3>1, <3>2 DEF TypeOK, CtlTakeMsg
  <2>6. CASE CtlSend
    <3>1. wire' \in Seq(Msgs \cup Sizes) /\ Len(wire') <= SocketCap
      <4>1. CASE inflight = <<>>
        BY <2>6, <4>1, SequenceFacts DEF TypeOK, KeptBeyondLimit, CtlSend
      <4>2. ASSUME NEW m \in Msgs \cup Sizes, inflight = <<m>>
            PROVE  wire' \in Seq(Msgs \cup Sizes) /\ Len(wire') <= SocketCap
        BY <2>6, <4>2, SequenceFacts DEF TypeOK, KeptBeyondLimit, CtlSend
      <4>. QED
        BY <4>1, <4>2 DEF TypeOK, KeptBeyondLimit
    <3>. QED
      BY <2>6, <3>1 DEF TypeOK, KeptBeyondLimit, CtlSend, chan
  <2>7. CASE CtlSendFails \/ CtlSerializeFails
    BY <2>7 DEF TypeOK, KeptBeyondLimit, CtlSendFails, CtlSerializeFails, Posted, chan
  <2>8. ASSUME NEW error \in BOOLEAN, ReceiverEnds(error)
        PROVE  TypeOK'
    BY <2>8 DEF TypeOK, KeptBeyondLimit, ReceiverEnds, Posted, chan
  <2>9. CASE DeviceReads
    BY <2>9, SequenceFacts DEF TypeOK, KeptBeyondLimit, DeviceReads, chan, threads
  <2>10. CASE DeviceCloses
    BY <2>10 DEF TypeOK, KeptBeyondLimit, DeviceCloses, chan, threads
  <2>11. CASE StartThread \/ StartReceiver \/ StartReceiverFails \/ AbortJoin
    BY <2>11 DEF TypeOK, KeptBeyondLimit, StartThread, StartReceiver, StartReceiverFails,
                 AbortJoin, Signal, chan
  <2>12. CASE Stop \/ ServerStop \/ JoinThread \/ JoinReceiver
    BY <2>12 DEF TypeOK, KeptBeyondLimit, Stop, ServerStop, JoinThread, JoinReceiver, Signal,
                 chan, threads
  <2>13. CASE Destroy
    BY <2>13, EmptySeq DEF TypeOK, KeptBeyondLimit, Destroy, threads
  <2>14. CASE UNCHANGED vars
    BY <2>14 DEF TypeOK, KeptBeyondLimit, vars
  <2>. QED
    BY <2>1, <2>2, <2>3, <2>4, <2>5, <2>6, <2>7, <2>8, <2>9, <2>10, <2>11,
       <2>12, <2>13, <2>14 DEF Next, Threads, Ctl, Shutdown
<1>. QED
  BY <1>1, <1>2, PTL DEF Spec
-------------------------------------------------------------------------------
(* The invariant that both results below rest on: a thread that sleeps has *)
(* nothing to do, a message is in the hands of the thread exactly while it *)
(* sends it, and the controller is destroyed only after its thread.        *)
HandInv ==
  /\ NoLostWakeup
  /\ ctl = "sending" <=> inflight # <<>>
  /\ main \in {"joined", "destroyed"} => ctl = "joined"
  /\ main = "init" => ctl = "none"
  /\ main = "aborting" => stopped

LEMMA Handing == Spec => []HandInv
<1>1. Init => HandInv
  BY DEF Init, HandInv, NoLostWakeup
<1>2. TypeOK /\ HandInv /\ [Next]_vars => HandInv'
  <2>. SUFFICES ASSUME TypeOK, HandInv, [Next]_vars
                PROVE  HandInv'
    OBVIOUS
  <2>. USE DEF HandInv, NoLostWakeup
  <2>1. ASSUME NEW m \in Msgs, PushMsg(m)
        PROVE  HandInv'
    BY <2>1 DEF PushMsg, Signal, MayPush
  <2>2. ASSUME NEW s \in Sizes, ResizeDisplay(s)
        PROVE  HandInv'
    BY <2>2 DEF ResizeDisplay, ResizeSignals, Signal
  <2>3. CASE CtlWait \/ CtlSpuriousWakeup
    BY <2>3 DEF CtlWait, CtlSpuriousWakeup, MustStop, chan
  <2>11. CASE CtlStop
    BY <2>11 DEF CtlStop, chan
  <2>4. CASE CtlTakeResize \/ CtlTakeMsg
    BY <2>4 DEF CtlTakeResize, CtlTakeMsg
  <2>5. CASE CtlSend \/ CtlSendFails \/ CtlSerializeFails
    BY <2>5 DEF CtlSend, CtlSendFails, CtlSerializeFails, chan
  <2>6. CASE DeviceReads \/ DeviceCloses
    BY <2>6 DEF DeviceReads, DeviceCloses, chan, threads
  <2>10. ASSUME NEW error \in BOOLEAN, ReceiverEnds(error)
         PROVE  HandInv'
    BY <2>10 DEF ReceiverEnds, chan
  <2>7. CASE StartThread \/ StartReceiver \/ StartReceiverFails \/ AbortJoin
    BY <2>7 DEF StartThread, StartReceiver, StartReceiverFails, AbortJoin,
                Signal, chan
  <2>8. CASE Stop \/ ServerStop \/ JoinThread \/ JoinReceiver \/ Destroy
    BY <2>8 DEF Stop, ServerStop, JoinThread, JoinReceiver, Destroy, Signal,
                chan, threads
  <2>9. CASE UNCHANGED vars
    BY <2>9 DEF vars
  <2>. QED
    BY <2>1, <2>2, <2>3, <2>4, <2>5, <2>6, <2>7, <2>8, <2>9,
       <2>10, <2>11 DEF Next, Threads, Ctl, Shutdown
<1>. QED
  BY <1>1, <1>2, Typing, PTL DEF Spec

(* push_msg signals only when the queue was empty, resize_display only     *)
(* when the slot was: even so the controller thread never sleeps while     *)
(* there is something to send, for any queue limit.                        *)
THEOREM WakeupNotLost == Spec => []NoLostWakeup
<1>1. HandInv => NoLostWakeup
  BY DEF HandInv
<1>. QED
  BY <1>1, Handing, PTL

-------------------------------------------------------------------------------
(* Taking the first element out of a sequence that has a suffix, and       *)
(* removing that suffix.                                                   *)
LEMMA SuffixFacts ==
  ASSUME NEW S, NEW w \in Seq(S), NEW x \in S
  PROVE  /\ w # <<>> => Tail(w \o <<x>>) = Tail(w) \o <<x>>
         /\ w \o <<x>> # <<>>
         /\ SubSeq(w \o <<x>>, 1, Len(w \o <<x>>) - 1) = w
<1>1. w \o <<x>> = Append(w, x)
  BY SequenceFacts
<1>2. w # <<>> => Tail(w \o <<x>>) = Tail(w) \o <<x>>
  <2>. SUFFICES ASSUME w # <<>>
                PROVE  Tail(Append(w, x)) = Append(Tail(w), x)
    BY <1>1, SequenceFacts
  <2>. QED
    BY HeadTailAppend
<1>3. Append(w, x) # <<>> /\ Len(Append(w, x)) = Len(w) + 1
  BY AppendProperties
<1>4. SubSeq(w \o <<x>>, 1, Len(w)) = w
  <2>1. <<x>> \in Seq(S)
    OBVIOUS
  <2>2. SubSeq(w \o <<x>>, 1, Len(w)) = SubSeq(w, 1, Len(w))
    <3>1. CASE w = <<>>
      BY <3>1, <2>1
    <3>2. CASE w # <<>>
      <4>1. Len(w) \in Nat /\ Len(w) >= 1
        BY <3>2, EmptySeq
      <4>. QED
        BY <2>1, <4>1, SubSeqOfConcat1
    <3>. QED
      BY <3>1, <3>2
  <2>. QED
    BY <2>2, SubSeqFull
<1>5. Len(w \o <<x>>) - 1 = Len(w)
  BY <1>1, <1>3, LenProperties
<1>. QED
  BY <1>1, <1>2, <1>3, <1>4, <1>5

-------------------------------------------------------------------------------
(* For any limit and any interleaving of users, controller thread, device  *)
(* and shutdown, the controller delivers what it accepted in order, serves *)
(* the display size before the queue, and loses at most the message being  *)
(* written when the connection ends: every step of Controller is a step of *)
(* MsgChannel or leaves it unchanged.                                      *)
THEOREM ImplementsMsgChannel == Spec => ImplementsChannel
<1>1. Init => Channel!Init
  <2>. SUFFICES ASSUME Init PROVE Channel!Init
    OBVIOUS
  <2>1. wire \o inflight = <<>>
    BY EmptySeq, ConcatEmptySeq DEF Init
  <2>. QED
    BY <2>1 DEF Init, Channel!Init
<1>2. TypeOK /\ HandInv /\ [Next]_vars => [Channel!Next]_(Channel!vars)
  <2>. SUFFICES ASSUME TypeOK, HandInv, [Next]_vars
                PROVE  Channel!Next \/ UNCHANGED Channel!vars
    OBVIOUS
  <2>. DEFINE Out == wire \o inflight
              Open == ~stopped /\ ctl \notin {"ended", "joined"}
  <2>1. ASSUME NEW m \in Msgs, PushMsg(m)
        PROVE  Channel!Next \/ UNCHANGED Channel!vars
    <3>1. UNCHANGED <<Out, Open, resize>>
      BY <2>1 DEF PushMsg, Signal
    <3>2. queue' = Append(queue, m) \/ queue' = queue
      BY <2>1 DEF PushMsg
    <3>. QED
      BY <3>1, <3>2 DEF Channel!Next, Channel!Accept, Channel!vars
  <2>2. ASSUME NEW s \in Sizes, ResizeDisplay(s)
        PROVE  Channel!Next \/ UNCHANGED Channel!vars
    <3>1. UNCHANGED <<Out, Open, queue>> /\ resize' = s
      BY <2>2 DEF ResizeDisplay, ResizeSignals, Signal
    <3>. QED
      BY <3>1 DEF Channel!Next, Channel!Request
  <2>3. CASE CtlWait \/ CtlSpuriousWakeup \/ (\E error \in BOOLEAN : ReceiverEnds(error))
    BY <2>3 DEF CtlWait, CtlSpuriousWakeup, ReceiverEnds, Channel!vars, chan
  <2>4. CASE CtlStop
    BY <2>4 DEF CtlStop, MustStop, Channel!vars, chan
  <2>5. CASE CtlTakeResize
    <3>1. Out = wire /\ Out' = Append(wire, resize)
      BY <2>5, SequenceFacts DEF CtlTakeResize, MustStop, ResizeFirst, HandInv, TypeOK
    <3>. QED
      BY <2>5, <3>1 DEF CtlTakeResize, MustStop, ResizeFirst, Channel!Next, Channel!DeliverSize
  <2>6. CASE CtlTakeMsg
    <3>1. Head(queue) \in Msgs
      BY <2>6, SequenceFacts DEF CtlTakeMsg, TypeOK
    <3>2. Out = wire /\ Out' = Append(wire, Head(queue))
      BY <2>6, <3>1, SequenceFacts DEF CtlTakeMsg, HandInv, TypeOK
    <3>. QED
      BY <2>6, <3>2 DEF CtlTakeMsg, MustStop, ResizeFirst, Channel!Next, Channel!DeliverMsg
  <2>7. CASE CtlSend
    <3>1. PICK m \in Msgs \cup Sizes : inflight = <<m>>
      BY <2>7 DEF CtlSend, HandInv, TypeOK
    <3>2. wire' \in Seq(Msgs \cup Sizes)
      BY <2>7, <3>1, SequenceFacts DEF CtlSend, TypeOK
    <3>3. Out' = Out
      BY <2>7, <3>2, SequenceFacts DEF CtlSend
    <3>. QED
      BY <2>7, <3>3 DEF CtlSend, Channel!vars, chan
  <2>8. CASE CtlSendFails \/ CtlSerializeFails
    <3>1. PICK m \in Msgs \cup Sizes : inflight = <<m>>
      BY <2>8 DEF CtlSendFails, CtlSerializeFails, HandInv, TypeOK
    <3>2. Out # <<>> /\ SubSeq(Out, 1, Len(Out) - 1) = wire
      BY <3>1, SuffixFacts DEF TypeOK
    <3>3. Out' = wire
      BY <2>8, SequenceFacts DEF CtlSendFails, CtlSerializeFails, TypeOK
    <3>. QED
      BY <2>8, <3>2, <3>3
         DEF CtlSendFails, CtlSerializeFails, Channel!Next, Channel!Break, chan
  <2>9. CASE DeviceReads
    <3>1. Out # <<>> /\ Out' = Tail(Out)
      <4>1. CASE inflight = <<>>
        <5>1. Tail(wire) \in Seq(Msgs \cup Sizes)
          BY <2>9, SequenceFacts DEF DeviceReads, TypeOK
        <5>. QED
          BY <2>9, <4>1, <5>1, SequenceFacts DEF DeviceReads, TypeOK, threads
      <4>2. ASSUME NEW m \in Msgs \cup Sizes, inflight = <<m>>
            PROVE  Out # <<>> /\ Out' = Tail(Out)
        BY <2>9, <4>2, SuffixFacts DEF DeviceReads, TypeOK, threads
      <4>. QED
        BY <4>1, <4>2 DEF TypeOK
    <3>. QED
      BY <2>9, <3>1 DEF DeviceReads, Channel!Next, Channel!Consume, chan, threads
  <2>10. CASE DeviceCloses \/ StartThread \/ StartReceiver
    BY <2>10 DEF DeviceCloses, StartThread, StartReceiver, HandInv,
                 Channel!vars, chan, threads
  <2>11. CASE StartReceiverFails \/ Stop
    <3>1. UNCHANGED <<Out, queue, resize>> /\ ~Open'
      BY <2>11 DEF StartReceiverFails, Stop, chan
    <3>. QED
      BY <3>1 DEF Channel!Next, Channel!Close, Channel!vars
  <2>12. CASE AbortJoin \/ ServerStop \/ JoinThread \/ JoinReceiver
    BY <2>12 DEF AbortJoin, ServerStop, JoinThread, JoinReceiver,
                 Channel!vars, chan, threads
  <2>13. CASE Destroy
    BY <2>13 DEF Destroy, HandInv, Channel!Next, Channel!Discard, threads
  <2>14. CASE UNCHANGED vars
    BY <2>14 DEF vars, Channel!vars
  <2>. QED
    BY <2>1, <2>2, <2>3, <2>4, <2>5, <2>6, <2>7, <2>8, <2>9, <2>10, <2>11,
       <2>12, <2>13, <2>14 DEF Next, Threads, Ctl, Shutdown
<1>. QED
  BY <1>1, <1>2, Typing, Handing, PTL DEF Spec, ImplementsChannel, Channel!Spec

-------------------------------------------------------------------------------
(* The inductive invariant of the gamepads.                                *)

PadTypes ==
  /\ phase \in {"await", "setup", "loop"}
  /\ plugged \subseteq Pads /\ IsFiniteSet(plugged)
  /\ gone \subseteq Pads \ plugged
  /\ sdl \in Seq([type : {"ADDED", "REMOVED"}, pad : Pads])
  /\ slots \in [Slots -> [pad : Pads \cup {NoPad}, down : BOOLEAN]]
  /\ server \in BOOLEAN /\ stale \subseteq Slots

(* Nobody resizes the display here. *)
WireInv ==
  /\ resize = NoSize
  /\ wire \in Seq(UhidMsgs) /\ queue \in Seq(UhidMsgs)
  /\ inflight = <<>> \/ \E m \in UhidMsgs : inflight = <<m>>

DevStates == [Slots -> {"closed", "up", "down"}]

(* The device has the id of a message it handles, unless it creates it.    *)
Understood(d, m) == m.kind = "UHID_CREATE" <=> d[m.id] = "closed"

(* From the devices d, the messages q are all understood and lead to e: h  *)
(* holds the devices after each of them.                                   *)
Run(d, q, h) ==
  /\ h \in [0 .. Len(q) -> DevStates] /\ h[0] = d
  /\ \A i \in 1 .. Len(q) : Understood(h[i - 1], q[i]) /\ h[i] = Applied(h[i - 1], q[i])
Leads(d, q, e) == \E h : Run(d, q, h) /\ h[Len(q)] = e

(* The devices e are those of the slots. *)
Mirrors(e) ==
  \A s \in Slots :
    /\ e[s] = "closed" <=> slots[s].pad = NoPad
    /\ e[s] # "closed" /\ s \notin stale => e[s] = State(slots[s].down)

(* What the server will handle: once the controller thread ended, nothing  *)
(* but what is in the socket.                                              *)
Ended == ctl \in {"ended", "joined"}
Path == IF Ended THEN wire ELSE Pending
MirrorInv ==
  server => \E e \in DevStates : Leads(dev, Path, e) /\ (~Ended => Mirrors(e))

PadInv == PadTypes /\ WireInv /\ dev \in DevStates /\ MirrorInv

-------------------------------------------------------------------------------
(* Messages and devices.                                                   *)

LEMMA MsgShape ==
  /\ \A m \in UhidMsgs : /\ m.kind \in {"UHID_CREATE", "UHID_INPUT", "UHID_DESTROY"}
                         /\ m.id \in Slots /\ m.down \in BOOLEAN
  /\ \A s \in Slots, b \in BOOLEAN :
       /\ Create(s) \in UhidMsgs /\ Create(s).kind = "UHID_CREATE" /\ Create(s).id = s
       /\ Input(s, b) \in UhidMsgs /\ Input(s, b).kind = "UHID_INPUT"
       /\ Input(s, b).id = s /\ Input(s, b).down = b
       /\ Destroyed(s) \in UhidMsgs
       /\ Destroyed(s).kind = "UHID_DESTROY" /\ Destroyed(s).id = s
<1>1. ASSUME NEW s \in Slots, NEW b \in BOOLEAN
      PROVE  /\ Create(s).kind = "UHID_CREATE" /\ Create(s).id = s /\ Create(s).down = FALSE
             /\ Input(s, b).kind = "UHID_INPUT"
             /\ Input(s, b).id = s /\ Input(s, b).down = b
             /\ Destroyed(s).kind = "UHID_DESTROY" /\ Destroyed(s).id = s
             /\ Destroyed(s).down = FALSE
  BY DEF Create, Input, Destroyed
<1>2. ASSUME NEW m \in UhidMsgs
      PROVE  \/ \E s \in Slots : m = Create(s) \/ m = Destroyed(s)
             \/ \E s \in Slots, b \in BOOLEAN : m = Input(s, b)
  BY DEF UhidMsgs
<1>3. ASSUME NEW s \in Slots, NEW b \in BOOLEAN
      PROVE  Create(s) \in UhidMsgs /\ Input(s, b) \in UhidMsgs /\ Destroyed(s) \in UhidMsgs
  BY DEF UhidMsgs
<1>4. ASSUME NEW m \in UhidMsgs
      PROVE  /\ m.kind \in {"UHID_CREATE", "UHID_INPUT", "UHID_DESTROY"}
             /\ m.id \in Slots /\ m.down \in BOOLEAN
  <2>1. CASE \E s \in Slots : m = Create(s) \/ m = Destroyed(s)
    <3>1. PICK s \in Slots : m = Create(s) \/ m = Destroyed(s)
      BY <2>1
    <3>2. /\ Create(s).kind = "UHID_CREATE" /\ Create(s).id = s /\ Create(s).down = FALSE
          /\ Destroyed(s).kind = "UHID_DESTROY" /\ Destroyed(s).id = s
          /\ Destroyed(s).down = FALSE
      BY <1>1
    <3>3. FALSE \in BOOLEAN
      OBVIOUS
    <3>4. CASE m = Create(s)
      BY <3>2, <3>3, <3>4
    <3>5. CASE m = Destroyed(s)
      BY <3>2, <3>3, <3>5
    <3>. QED
      BY <3>1, <3>4, <3>5
  <2>2. CASE \E s \in Slots, b \in BOOLEAN : m = Input(s, b)
    <3>1. PICK s \in Slots, b \in BOOLEAN : m = Input(s, b)
      BY <2>2
    <3>2. Input(s, b).kind = "UHID_INPUT" /\ Input(s, b).id = s /\ Input(s, b).down = b
      BY <1>1
    <3>. QED
      BY <3>1, <3>2
  <2>. QED
    BY <1>2, <2>1, <2>2
<1>5. ASSUME NEW s \in Slots, NEW b \in BOOLEAN
      PROVE  /\ Create(s) \in UhidMsgs /\ Create(s).kind = "UHID_CREATE" /\ Create(s).id = s
             /\ Input(s, b) \in UhidMsgs /\ Input(s, b).kind = "UHID_INPUT"
             /\ Input(s, b).id = s /\ Input(s, b).down = b
             /\ Destroyed(s) \in UhidMsgs
             /\ Destroyed(s).kind = "UHID_DESTROY" /\ Destroyed(s).id = s
  BY <1>1, <1>3
<1>. QED
  BY <1>4, <1>5

(* A message changes the device of its id only. *)
LEMMA AppliedFacts ==
  ASSUME NEW d \in DevStates, NEW m \in UhidMsgs, Understood(d, m)
  PROVE  /\ Applied(d, m) \in DevStates
         /\ \A s \in Slots : s # m.id => Applied(d, m)[s] = d[s]
         /\ m.kind = "UHID_CREATE" => Applied(d, m)[m.id] = State(FALSE)
         /\ m.kind = "UHID_INPUT" => Applied(d, m)[m.id] = State(m.down)
         /\ m.kind = "UHID_DESTROY" => Applied(d, m)[m.id] = "closed"
<1>1. /\ m.kind \in {"UHID_CREATE", "UHID_INPUT", "UHID_DESTROY"}
      /\ m.id \in Slots /\ m.down \in BOOLEAN
  BY MsgShape
<1>2. State(FALSE) \in {"up", "down"} /\ State(m.down) \in {"up", "down"}
  BY DEF State
<1>. QED
  BY <1>1, <1>2 DEF Applied, Understood, DevStates

LEMMA StateOpen == \A b : State(b) # "closed"
BY DEF State

LEMMA LeadsNone ==
  ASSUME NEW d \in DevStates
  PROVE  Leads(d, <<>>, d)
<1>. DEFINE h == [i \in {0} |-> d]
<1>1. Len(<<>>) = 0 /\ 0 .. 0 = {0}
  OBVIOUS
<1>2. h \in [{0} -> DevStates] /\ h[0] = d
  OBVIOUS
<1>. HIDE DEF h
<1>3. Run(d, <<>>, h) /\ h[Len(<<>>)] = d
  BY <1>1, <1>2 DEF Run
<1>. QED
  BY <1>3 DEF Leads

LEMMA LeadsNext ==
  ASSUME NEW d, NEW q \in Seq(UhidMsgs), NEW e \in DevStates, Leads(d, q, e),
         NEW m \in UhidMsgs, Understood(e, m)
  PROVE  Leads(d, Append(q, m), Applied(e, m))
<1>1. PICK h : Run(d, q, h) /\ h[Len(q)] = e
  BY DEF Leads
<1>. DEFINE n == Len(q)
            r == Append(q, m)
            g == [i \in 0 .. n + 1 |-> IF i = n + 1 THEN Applied(e, m) ELSE h[i]]
<1>2. /\ n \in Nat /\ Len(r) = n + 1 /\ r[n + 1] = m
      /\ \A i \in 1 .. n : r[i] = q[i]
      /\ \A i \in 1 .. n + 1 : i \in 1 .. n \/ i = n + 1
  BY AppendProperties, LenProperties
<1>3. /\ h \in [0 .. n -> DevStates] /\ h[0] = d /\ h[n] = e
      /\ \A i \in 1 .. n : Understood(h[i - 1], q[i]) /\ h[i] = Applied(h[i - 1], q[i])
  BY <1>1 DEF Run
<1>4. Applied(e, m) \in DevStates
  BY AppliedFacts
<1>. HIDE DEF n, r
<1>5. /\ g[n + 1] = Applied(e, m) /\ \A i \in 0 .. n : g[i] = h[i]
      /\ g \in [0 .. n + 1 -> DevStates]
  <2>1. \A i \in 0 .. n + 1 : i # n + 1 => i \in 0 .. n
    BY <1>2
  <2>2. \A i \in 0 .. n : i \in 0 .. n + 1 /\ i # n + 1
    BY <1>2
  <2>3. n + 1 \in 0 .. n + 1
    BY <1>2
  <2>. QED
    BY <1>3, <1>4, <2>1, <2>2, <2>3
<1>. HIDE DEF g
<1>6. ASSUME NEW i \in 1 .. n + 1
      PROVE  Understood(g[i - 1], r[i]) /\ g[i] = Applied(g[i - 1], r[i])
  <2>1. CASE i \in 1 .. n
    <3>1. i - 1 \in 0 .. n /\ i \in 0 .. n
      BY <1>2, <2>1
    <3>2. g[i - 1] = h[i - 1] /\ g[i] = h[i] /\ r[i] = q[i]
      BY <1>2, <1>5, <2>1, <3>1
    <3>. QED
      BY <1>3, <2>1, <3>2
  <2>2. CASE i = n + 1
    <3>1. i - 1 = n /\ n \in 0 .. n
      BY <1>2, <2>2
    <3>. QED
      BY <1>2, <1>3, <1>5, <2>2, <3>1
  <2>. QED
    BY <1>2, <2>1, <2>2
<1>7. g[0] = d
  <2>1. 0 \in 0 .. n
    BY <1>2
  <2>. QED
    BY <1>3, <1>5, <2>1
<1>8. Run(d, r, g) /\ g[Len(r)] = Applied(e, m)
  BY <1>2, <1>5, <1>6, <1>7 DEF Run
<1>. QED
  BY <1>8 DEF Leads, r

LEMMA LeadsTail ==
  ASSUME NEW d, NEW q \in Seq(UhidMsgs), NEW e, Leads(d, q, e), q # <<>>
  PROVE  Understood(d, Head(q)) /\ Leads(Applied(d, Head(q)), Tail(q), e)
<1>1. PICK h : Run(d, q, h) /\ h[Len(q)] = e
  BY DEF Leads
<1>. DEFINE n == Len(q) - 1
            r == Tail(q)
            g == [i \in 0 .. n |-> h[i + 1]]
<1>2. /\ Len(q) \in Nat /\ Len(q) = n + 1 /\ n \in Nat /\ Len(r) = n /\ Head(q) = q[1]
      /\ \A i \in 1 .. n : r[i] = q[i + 1]
  BY HeadTailProperties, EmptySeq, LenProperties
<1>. HIDE DEF n, r
<1>3. /\ h \in [0 .. n + 1 -> DevStates] /\ h[0] = d /\ h[n + 1] = e
      /\ \A i \in 1 .. n + 1 : Understood(h[i - 1], q[i]) /\ h[i] = Applied(h[i - 1], q[i])
  BY <1>1, <1>2 DEF Run
<1>4. Understood(d, Head(q)) /\ h[1] = Applied(d, Head(q))
  <2>1. 1 \in 1 .. n + 1 /\ 1 - 1 = 0
    BY <1>2
  <2>2. Understood(h[1 - 1], q[1]) /\ h[1] = Applied(h[1 - 1], q[1])
    BY <1>3, <2>1
  <2>. QED
    BY <1>2, <1>3, <2>1, <2>2
<1>5. g \in [0 .. n -> DevStates] /\ \A i \in 0 .. n : g[i] = h[i + 1]
  <2>1. \A i \in 0 .. n : i + 1 \in 0 .. n + 1
    BY <1>2
  <2>. QED
    BY <1>3, <2>1
<1>. HIDE DEF g
<1>6. ASSUME NEW i \in 1 .. n
      PROVE  Understood(g[i - 1], r[i]) /\ g[i] = Applied(g[i - 1], r[i])
  <2>1. i - 1 \in 0 .. n /\ i \in 0 .. n /\ i + 1 \in 1 .. n + 1 /\ (i - 1) + 1 = i /\ (i + 1) - 1 = i
    BY <1>2
  <2>2. g[i - 1] = h[i] /\ g[i] = h[i + 1] /\ r[i] = q[i + 1]
    BY <1>2, <1>5, <2>1
  <2>3. Understood(h[(i + 1) - 1], q[i + 1]) /\ h[i + 1] = Applied(h[(i + 1) - 1], q[i + 1])
    BY <1>3, <2>1
  <2>. QED
    BY <2>1, <2>2, <2>3
<1>7. g[0] = h[1] /\ g[n] = e
  <2>1. 0 \in 0 .. n /\ n \in 0 .. n /\ 0 + 1 = 1
    BY <1>2
  <2>. QED
    BY <1>3, <1>5, <2>1
<1>8. Run(Applied(d, Head(q)), r, g) /\ g[Len(r)] = e
  BY <1>2, <1>4, <1>5, <1>6, <1>7 DEF Run
<1>. QED
  BY <1>4, <1>8 DEF Leads, r

LEMMA LeadsPrefix ==
  ASSUME NEW d, NEW p \in Seq(UhidMsgs), NEW q \in Seq(UhidMsgs), NEW e, Leads(d, p \o q, e)
  PROVE  \E f \in DevStates : Leads(d, p, f)
<1>1. PICK h : Run(d, p \o q, h)
  BY DEF Leads
<1>. DEFINE n == Len(p)
            g == [i \in 0 .. n |-> h[i]]
<1>2. /\ n \in Nat /\ Len(p \o q) \in Nat /\ n <= Len(p \o q)
      /\ \A i \in 1 .. n : i \in 1 .. Len(p \o q) /\ (p \o q)[i] = p[i]
  BY ConcatProperties, LenProperties
<1>. HIDE DEF n
<1>3. g \in [0 .. n -> DevStates] /\ \A i \in 0 .. n : g[i] = h[i]
  <2>1. \A i \in 0 .. n : i \in 0 .. Len(p \o q)
    BY <1>2
  <2>. QED
    BY <1>1, <2>1 DEF Run
<1>. HIDE DEF g
<1>4. ASSUME NEW i \in 1 .. n
      PROVE  Understood(g[i - 1], p[i]) /\ g[i] = Applied(g[i - 1], p[i])
  <2>1. i - 1 \in 0 .. n /\ i \in 0 .. n
    BY <1>2
  <2>2. g[i - 1] = h[i - 1] /\ g[i] = h[i] /\ (p \o q)[i] = p[i]
    BY <1>2, <1>3, <2>1
  <2>3. Understood(h[i - 1], (p \o q)[i]) /\ h[i] = Applied(h[i - 1], (p \o q)[i])
    BY <1>1, <1>2 DEF Run
  <2>. QED
    BY <2>2, <2>3
<1>5. 0 \in 0 .. n /\ n \in 0 .. n
  BY <1>2
<1>6. g[0] = d /\ g[n] \in DevStates
  BY <1>1, <1>3, <1>5 DEF Run
<1>7. Run(d, p, g)
  BY <1>3, <1>4, <1>6 DEF Run, n
<1>. QED
  BY <1>6, <1>7 DEF Leads, n

(* A set of natural numbers that is not empty has a least one.             *)
LEMMA LeastNat ==
  ASSUME NEW I \in SUBSET Nat, I # {}
  PROVE  \E n \in I : \A m \in I : n <= m
<1>. DEFINE R == OpToRel(<, Nat)
<1>1. \A x, y \in Nat : y < x => <<y, x>> \in R
  BY DEF OpToRel
<1>2. IsWellFoundedOn(R, Nat)
  BY NatLessThanWellFounded
<1>. HIDE DEF R
<1>3. PICK x \in I : \A y \in I : ~ (<<y, x>> \in R)
  BY <1>2, WFMin
<1>4. \A y \in I : ~(y < x)
  BY <1>1, <1>3
<1>. QED
  BY <1>3, <1>4

(* What Handled computes, from its recursive equation. *)
LEMMA HandledLeads ==
  ASSUME Pending \in Seq(UhidMsgs), NEW e, Leads(dev, Pending, e)
  PROVE  Handled[Len(Pending)] = e
<1>1. PICK h : Run(dev, Pending, h) /\ h[Len(Pending)] = e
  BY DEF Leads
<1>. DEFINE n == Len(Pending)
            Rec(f) == f = [i \in 0 .. n |->
                             IF i = 0 THEN dev ELSE Applied(f[i - 1], Pending[i])]
<1>2. n \in Nat
  BY LenProperties
<1>3. Handled = CHOOSE f : Rec(f)
  BY DEF Handled
<1>4. Rec(h)
  <2>1. \A i \in 0 .. n : i = 0 \/ i \in 1 .. n
    BY <1>2
  <2>. QED
    BY <1>1, <2>1 DEF Run
<1>5. Rec(Handled)
  BY <1>3, <1>4
<1>. DEFINE Bad == {i \in 0 .. n : Handled[i] # h[i]}
<1>6. \A i \in 0 .. n : /\ Handled[i] = IF i = 0 THEN dev ELSE Applied(Handled[i - 1], Pending[i])
                        /\ h[i] = IF i = 0 THEN dev ELSE Applied(h[i - 1], Pending[i])
  BY <1>4, <1>5
<1>. HIDE DEF Rec
<1>7. Bad = {}
  <2>. SUFFICES ASSUME Bad # {} PROVE FALSE
    OBVIOUS
  <2>1. Bad \in SUBSET Nat
    BY <1>2
  <2>2. PICK k \in Bad : \A i \in Bad : k <= i
    BY <2>1, LeastNat
  <2>3. k \in 0 .. n /\ k # 0 /\ Handled[k] # h[k]
    BY <1>6, <2>2
  <2>4. k - 1 \in 0 .. n /\ ~(k <= k - 1)
    BY <1>2, <2>3
  <2>5. Handled[k - 1] = h[k - 1]
    BY <2>2, <2>4
  <2>. QED
    BY <1>6, <2>3, <2>5
<1>8. n \in 0 .. n
  BY <1>2
<1>. QED
  BY <1>1, <1>7, <1>8

(* sc_hid_gamepad_slot_find() returns a slot of that gamepad. *)
LEMMA SlotFound ==
  ASSUME MaxPads \in Nat, NEW p, SlotOf(p) # 0
  PROVE  SlotOf(p) \in Slots /\ slots[SlotOf(p)].pad = p
<1>. DEFINE S == {s \in Slots : slots[s].pad = p}
<1>1. S # {} /\ SlotOf(p) = Min(S)
  BY DEF SlotOf
<1>2. S \in SUBSET Nat
  BY DEF Slots
<1>3. \E n \in S : \A m \in S : n <= m
  BY <1>1, <1>2, LeastNat
<1>4. Min(S) \in S
  BY <1>3 DEF Min
<1>. QED
  BY <1>1, <1>4

-------------------------------------------------------------------------------
(* The controller under the gamepads.                                      *)

(* Every step of the gamepads is a step of the controller, or leaves it    *)
(* alone: the users of the controller that GamepadUhid models push         *)
(* messages that Controller allows, when it allows them.                   *)
THEOREM UsesTheController == PadSpec => Spec
<1>1. PadInit => Init
  BY DEF PadInit
<1>2. [PadNext]_allvars => [Next]_vars
  <2>. SUFFICES ASSUME [PadNext]_allvars PROVE [Next]_vars
    OBVIOUS
  <2>1. ASSUME NEW p \in Pads, Plug(p) \/ Unplug(p) PROVE [Next]_vars
    BY <2>1 DEF Plug, Unplug, vars
  <2>2. CASE AwaitForServer \/ InitSdlGamepads
    BY <2>2 DEF AwaitForServer, InitSdlGamepads, vars
  <2>3. ASSUME NEW m \in UhidMsgs, PushMsg(m) PROVE Next
    BY <2>3, GamepadAssumption DEF Next
  <2>4. ASSUME NEW p \in Pads, GamepadAdded(p) PROVE [Next]_vars
    <3>1. (SlotOf(NoPad) # 0 /\ PushMsg(Create(SlotOf(NoPad)))) \/ UNCHANGED vars
      BY <2>4 DEF GamepadAdded
    <3>. QED
      BY <2>3, <3>1, MsgShape, SlotFound, GamepadAssumption
  <2>5. ASSUME NEW p \in Pads, GamepadRemoved(p) PROVE [Next]_vars
    <3>1. (SlotOf(p) # 0 /\ PushMsg(Destroyed(SlotOf(p)))) \/ UNCHANGED vars
      BY <2>5 DEF GamepadRemoved
    <3>. QED
      BY <2>3, <3>1, MsgShape, SlotFound, GamepadAssumption
  <2>6. ASSUME NEW p \in Pads, GamepadButton(p) PROVE [Next]_vars
    <3>1. SlotOf(p) # 0 /\ \E b \in BOOLEAN : PushMsg(Input(SlotOf(p), b))
      BY <2>6 DEF GamepadButton
    <3>. QED
      BY <2>3, <3>1, MsgShape, SlotFound, GamepadAssumption
  <2>7. CASE HandleMessage \/ ServerFails \/ EndOfStream
    BY <2>7 DEF HandleMessage, ServerFails, EndOfStream, Next, vars
  <2>8. CASE Threads
    BY <2>8 DEF Next
  <2>9. CASE UNCHANGED allvars
    BY <2>9 DEF allvars
  <2>. QED
    BY <2>1, <2>2, <2>4, <2>5, <2>6, <2>7, <2>8, <2>9 DEF PadNext
<1>. QED
  BY <1>1, <1>2, PTL DEF PadSpec, Spec

(* What a step of the controller does to the path of the messages.         *)
LEMMA PathFacts ==
  ASSUME WireInv
  PROVE  /\ Pending \in Seq(UhidMsgs) /\ Path \in Seq(UhidMsgs)
         /\ inflight \in Seq(UhidMsgs) /\ inflight \o queue \in Seq(UhidMsgs)
         /\ Pending = wire \o (inflight \o queue)
<1>1. inflight \in Seq(UhidMsgs)
  <2>1. CASE inflight = <<>>
    BY <2>1, EmptySeq
  <2>2. ASSUME NEW m \in UhidMsgs, inflight = <<m>> PROVE inflight \in Seq(UhidMsgs)
    BY <2>2
  <2>. QED
    BY <2>1, <2>2 DEF WireInv
<1>2. inflight \o queue \in Seq(UhidMsgs) /\ wire \o inflight \in Seq(UhidMsgs)
  BY <1>1, ConcatProperties DEF WireInv
<1>3. Pending = wire \o (inflight \o queue)
  BY <1>1, ConcatAssociative DEF WireInv, Pending
<1>4. Pending \in Seq(UhidMsgs)
  BY <1>2, <1>3, ConcatProperties DEF WireInv
<1>. QED
  BY <1>1, <1>2, <1>3, <1>4 DEF WireInv, Path

LEMMA ConcatParts ==
  ASSUME NEW S, NEW p \in Seq(S), NEW q \in Seq(S)
  PROVE  /\ p \o q \in Seq(S) /\ Len(p \o q) = Len(p) + Len(q)
         /\ \A i \in 1 .. Len(p) : (p \o q)[i] = p[i]
         /\ \A i \in 1 .. Len(q) : (p \o q)[Len(p) + i] = q[i]
BY ConcatProperties, LenProperties

LEMMA ConcatHeadTail ==
  ASSUME NEW S, NEW p \in Seq(S), NEW q \in Seq(S), p # <<>>
  PROVE  p \o q # <<>> /\ Head(p \o q) = Head(p) /\ Tail(p \o q) = Tail(p) \o q
<1>1. /\ Len(p) \in Nat /\ Len(p) >= 1 /\ Len(q) \in Nat /\ p \o q \in Seq(S)
      /\ Len(p \o q) = Len(p) + Len(q)
      /\ \A i \in 1 .. Len(p) : (p \o q)[i] = p[i]
      /\ \A i \in 1 .. Len(q) : (p \o q)[Len(p) + i] = q[i]
  BY ConcatParts, EmptySeq, LenProperties
<1>2. p \o q # <<>> /\ Head(p \o q) = Head(p)
  BY <1>1, HeadTailProperties, EmptySeq
<1>3. /\ Tail(p) \in Seq(S) /\ Tail(p \o q) \in Seq(S) /\ Tail(p) \o q \in Seq(S)
      /\ Len(Tail(p)) = Len(p) - 1 /\ Len(Tail(p \o q)) = Len(p) + Len(q) - 1
      /\ \A i \in 1 .. Len(Tail(p)) : Tail(p)[i] = p[i + 1]
      /\ \A i \in 1 .. Len(Tail(p \o q)) : Tail(p \o q)[i] = (p \o q)[i + 1]
  BY <1>1, <1>2, HeadTailProperties, ConcatProperties
<1>4. /\ Len(Tail(p) \o q) = Len(p) - 1 + Len(q)
      /\ \A i \in 1 .. Len(p) - 1 : (Tail(p) \o q)[i] = Tail(p)[i]
      /\ \A i \in 1 .. Len(q) : (Tail(p) \o q)[Len(p) - 1 + i] = q[i]
  BY <1>3, ConcatProperties
<1>5. ASSUME NEW i \in 1 .. Len(p) + Len(q) - 1
      PROVE  Tail(p \o q)[i] = (Tail(p) \o q)[i]
  <2>1. CASE i <= Len(p) - 1
    <3>1. i \in 1 .. Len(p) - 1 /\ i + 1 \in 1 .. Len(p)
      BY <1>1, <2>1
    <3>. QED
      BY <1>1, <1>3, <1>4, <3>1
  <2>2. CASE ~(i <= Len(p) - 1)
    <3>. DEFINE k == i - (Len(p) - 1)
    <3>1. k \in 1 .. Len(q) /\ Len(p) - 1 + k = i /\ Len(p) + k = i + 1
      BY <1>1, <2>2
    <3>. HIDE DEF k
    <3>. QED
      BY <1>1, <1>3, <1>4, <3>1
  <2>. QED
    BY <2>1, <2>2
<1>6. Tail(p \o q) = Tail(p) \o q
  BY <1>1, <1>3, <1>4, <1>5, SeqEqual
<1>. QED
  BY <1>2, <1>6

(* The message that is being sent, and a message that is queued.           *)
LEMMA Moved ==
  ASSUME NEW w \in Seq(UhidMsgs), NEW q \in Seq(UhidMsgs)
  PROVE  /\ w \o <<>> = w
         /\ q # <<>> => (w \o <<Head(q)>>) \o Tail(q) = w \o q
         /\ \A m \in UhidMsgs, i \in Seq(UhidMsgs) :
              (w \o i) \o Append(q, m) = Append((w \o i) \o q, m)
<1>1. w \o <<>> = w
  BY ConcatEmptySeq
<1>2. ASSUME q # <<>> PROVE (w \o <<Head(q)>>) \o Tail(q) = w \o q
  <2>1. /\ Head(q) \in UhidMsgs /\ Tail(q) \in Seq(UhidMsgs) /\ Len(q) \in Nat
        /\ Len(Tail(q)) = Len(q) - 1 /\ Len(q) >= 1 /\ Head(q) = q[1]
        /\ \A i \in 1 .. Len(q) - 1 : Tail(q)[i] = q[i + 1]
    BY <1>2, HeadTailProperties, EmptySeq, LenProperties
  <2>. DEFINE x == <<Head(q)>>
  <2>2. x \in Seq(UhidMsgs) /\ Len(x) = 1 /\ x[1] = q[1]
    BY <2>1
  <2>. HIDE DEF x
  <2>3. x \o Tail(q) = q
    <3>1. /\ x \o Tail(q) \in Seq(UhidMsgs) /\ Len(x \o Tail(q)) = Len(q)
          /\ (x \o Tail(q))[1] = q[1]
          /\ \A i \in 1 .. Len(q) - 1 : (x \o Tail(q))[1 + i] = Tail(q)[i]
      <4>1. Len(x) + Len(Tail(q)) = Len(q) /\ 1 \in 1 .. Len(x)
        BY <2>1, <2>2
      <4>2. /\ x \o Tail(q) \in Seq(UhidMsgs) /\ Len(x \o Tail(q)) = Len(x) + Len(Tail(q))
            /\ \A i \in 1 .. Len(x) : (x \o Tail(q))[i] = x[i]
            /\ \A i \in 1 .. Len(Tail(q)) : (x \o Tail(q))[Len(x) + i] = Tail(q)[i]
        <5>1. x \in Seq(UhidMsgs) /\ Tail(q) \in Seq(UhidMsgs)
          BY <2>1, <2>2
        <5>. QED
          BY <5>1, ConcatParts
      <4>. QED
        BY <2>1, <2>2, <4>1, <4>2
    <3>2. ASSUME NEW i \in 1 .. Len(q) PROVE (x \o Tail(q))[i] = q[i]
      <4>1. CASE i = 1
        BY <3>1, <4>1
      <4>2. CASE i # 1
        <5>1. i - 1 \in 1 .. Len(q) - 1 /\ 1 + (i - 1) = i /\ (i - 1) + 1 = i
          BY <2>1, <4>2
        <5>. QED
          BY <2>1, <3>1, <5>1
      <4>. QED
        BY <4>1, <4>2
    <3>. QED
      BY <3>1, <3>2, SeqEqual
  <2>. QED
    BY <2>1, <2>2, <2>3, ConcatAssociative DEF x
<1>3. ASSUME NEW m \in UhidMsgs, NEW i \in Seq(UhidMsgs)
      PROVE  (w \o i) \o Append(q, m) = Append((w \o i) \o q, m)
  <2>1. w \o i \in Seq(UhidMsgs) /\ <<m>> \in Seq(UhidMsgs) /\ (w \o i) \o q \in Seq(UhidMsgs)
    BY ConcatProperties
  <2>2. Append(q, m) = q \o <<m>> /\ Append((w \o i) \o q, m) = ((w \o i) \o q) \o <<m>>
    BY <2>1, AppendIsConcat
  <2>. QED
    BY <2>1, <2>2, ConcatAssociative
<1>. QED
  BY <1>1, <1>2, <1>3

(* The server keeps the same messages to handle; or it loses those that    *)
(* are not in the socket.                                                  *)
LEMMA Shortened ==
  ASSUME WireInv, dev \in DevStates, MirrorInv, UNCHANGED <<dev, slots, stale>>,
         server' => server,
         (Path' = Path /\ Ended' = Ended) \/ (Ended' /\ Path' = wire)
  PROVE  MirrorInv'
<1>. SUFFICES ASSUME server'
              PROVE  \E e \in DevStates : Leads(dev, Path', e) /\ (~Ended' => Mirrors(e)')
  BY DEF MirrorInv
<1>1. PICK e \in DevStates : Leads(dev, Path, e) /\ (~Ended => Mirrors(e))
  BY DEF MirrorInv
<1>2. Mirrors(e)' <=> Mirrors(e)
  BY DEF Mirrors
<1>3. CASE Path' = Path /\ Ended' = Ended
  BY <1>1, <1>2, <1>3
<1>4. CASE Ended' /\ Path' = wire
  <2>1. \E f \in DevStates : Leads(dev, wire, f)
    <3>1. CASE Ended
      BY <1>1, <3>1 DEF Path
    <3>2. CASE ~Ended
      <4>1. /\ Leads(dev, wire \o (inflight \o queue), e)
            /\ wire \in Seq(UhidMsgs) /\ inflight \o queue \in Seq(UhidMsgs)
        BY <1>1, <3>2, PathFacts DEF Path, WireInv
      <4>. QED
        BY <4>1, LeadsPrefix
    <3>. QED
      BY <3>1, <3>2
  <2>. QED
    BY <1>4, <2>1
<1>. QED
  BY <1>3, <1>4

(* A message is pushed, or dropped: what was to be handled leads to the    *)
(* slots, and so does the new message.                                     *)
LEMMA Pushed ==
  ASSUME WireInv, MirrorInv, UNCHANGED <<dev, server>>, NEW m \in UhidMsgs, PushMsg(m),
         \A e \in DevStates : Mirrors(e) =>
           /\ Understood(e, m)
           /\ HasRoom(m) => Mirrors(Applied(e, m))'
           /\ ~HasRoom(m) => Mirrors(e)'
  PROVE  WireInv' /\ MirrorInv'
<1>1. /\ UNCHANGED <<resize, wire, inflight>>
      /\ (queue' = Append(queue, m) /\ HasRoom(m)) \/ (queue' = queue /\ ~HasRoom(m))
      /\ Ended' = Ended
  BY DEF PushMsg, Signal, Ended
<1>2. queue' \in Seq(UhidMsgs)
  BY <1>1, AppendProperties DEF WireInv
<1>3. WireInv'
  BY <1>1, <1>2 DEF WireInv
<1>4. /\ Ended => Path' = Path
      /\ ~Ended /\ HasRoom(m) => Path' = Append(Path, m)
      /\ ~HasRoom(m) => Path' = Path
  <2>1. ~HasRoom(m) => Path' = Path
    BY <1>1 DEF Path, Pending
  <2>2. Ended => Path' = Path
    BY <1>1 DEF Path
  <2>3. ASSUME ~Ended, HasRoom(m) PROVE Path' = Append(Path, m)
    <3>1. queue' = Append(queue, m)
      BY <1>1, <2>3
    <3>2. (wire \o inflight) \o Append(queue, m) = Append((wire \o inflight) \o queue, m)
      <4>1. wire \in Seq(UhidMsgs) /\ queue \in Seq(UhidMsgs) /\ inflight \in Seq(UhidMsgs)
        BY PathFacts DEF WireInv
      <4>. QED
        BY <4>1, Moved
    <3>. QED
      BY <1>1, <2>3, <3>1, <3>2 DEF Path, Pending
  <2>. QED
    BY <2>1, <2>2, <2>3
<1>5. MirrorInv'
  <2>. SUFFICES ASSUME server
                PROVE  \E e \in DevStates : Leads(dev, Path', e) /\ (~Ended' => Mirrors(e)')
    BY DEF MirrorInv
  <2>1. PICK e \in DevStates : Leads(dev, Path, e) /\ (~Ended => Mirrors(e))
    BY DEF MirrorInv
  <2>2. CASE Ended
    BY <1>1, <1>4, <2>1, <2>2
  <2>3. CASE ~Ended /\ HasRoom(m)
    <3>1. Understood(e, m) /\ Mirrors(Applied(e, m))'
      BY <2>1, <2>3
    <3>2. Applied(e, m) \in DevStates
      BY <3>1, AppliedFacts
    <3>3. Leads(dev, Path', Applied(e, m))
      BY <1>4, <2>1, <2>3, <3>1, PathFacts, LeadsNext
    <3>. QED
      BY <3>1, <3>2, <3>3
  <2>4. CASE ~Ended /\ ~HasRoom(m)
    BY <1>4, <2>1, <2>4
  <2>. QED
    BY <2>2, <2>3, <2>4
<1>. QED
  BY <1>3, <1>5

-------------------------------------------------------------------------------
(* The steps.                                                              *)

LEMMA ThreadsKeep ==
  ASSUME HandInv, PadInv, Threads, UNCHANGED padvars
  PROVE  PadInv'
<1>1. /\ PadTypes /\ WireInv /\ dev \in DevStates /\ MirrorInv
      /\ UNCHANGED <<phase, plugged, gone, sdl, slots, dev, server, stale>>
      /\ resize = NoSize /\ wire \in Seq(UhidMsgs) /\ queue \in Seq(UhidMsgs)
  BY DEF PadInv, WireInv, padvars
<1>2. PadTypes' /\ dev' \in DevStates
  BY <1>1 DEF PadTypes
<1>3. CASE \/ CtlWait \/ CtlSpuriousWakeup \/ \E error \in BOOLEAN : ReceiverEnds(error)
           \/ StartThread \/ StartReceiver \/ StartReceiverFails \/ AbortJoin \/ Stop
           \/ ServerStop \/ JoinThread \/ JoinReceiver
  <2>1. UNCHANGED <<resize, queue, inflight, wire>> /\ Ended' = Ended
    BY <1>3 DEF CtlWait, CtlSpuriousWakeup, ReceiverEnds, StartThread, StartReceiver,
                StartReceiverFails, AbortJoin, Stop, ServerStop, JoinThread, JoinReceiver,
                chan, threads, Signal, Ended, HandInv
  <2>2. WireInv' /\ Path' = Path
    BY <1>1, <2>1 DEF WireInv, Path, Pending
  <2>. QED
    BY <1>1, <1>2, <2>1, <2>2, Shortened DEF PadInv
<1>4. CASE CtlStop \/ CtlSendFails \/ CtlSerializeFails \/ Destroy
  <2>1. /\ UNCHANGED <<resize, wire>> /\ Ended' /\ inflight' \in {inflight, <<>>}
        /\ queue' \in {queue, <<>>}
    BY <1>4 DEF CtlStop, CtlSendFails, CtlSerializeFails, Destroy, chan, threads,
      Ended, HandInv
  <2>2. WireInv' /\ Path' = wire
    BY <1>1, <2>1, EmptySeq DEF WireInv, Path
  <2>. QED
    BY <1>1, <1>2, <2>1, <2>2, Shortened DEF PadInv
<1>5. CASE CtlTakeResize
  BY <1>1, <1>5 DEF CtlTakeResize, ResizeFirst
<1>6. CASE CtlTakeMsg
  <2>1. /\ UNCHANGED <<resize, wire>> /\ ~Ended
        /\ Ended' = Ended /\ inflight = <<>> /\ queue # <<>>
        /\ inflight' = <<Head(queue)>> /\ queue' = Tail(queue)
    BY <1>6 DEF CtlTakeMsg, Ended, HandInv
  <2>2. Head(queue) \in UhidMsgs /\ queue' \in Seq(UhidMsgs)
    BY <1>1, <2>1, HeadTailProperties
  <2>3. WireInv'
    BY <1>1, <2>1, <2>2 DEF WireInv
  <2>4. Path' = Path
    BY <1>1, <2>1, Moved DEF Path, Pending
  <2>. QED
    BY <1>1, <1>2, <2>1, <2>3, <2>4, Shortened DEF PadInv
<1>7. CASE CtlSend
  <2>1. /\ UNCHANGED <<resize, queue>> /\ ~Ended
        /\ Ended' = Ended /\ wire' = wire \o inflight
        /\ inflight' = <<>>
    BY <1>7 DEF CtlSend, Ended, chan
  <2>2. wire' \in Seq(UhidMsgs)
    BY <1>1, <2>1, PathFacts, ConcatProperties
  <2>3. WireInv'
    BY <1>1, <2>1, <2>2 DEF WireInv
  <2>4. wire' \o inflight' = wire \o inflight
    BY <2>1, <2>2, Moved
  <2>5. Path' = Path
    BY <2>1, <2>4 DEF Path, Pending
  <2>. QED
    BY <1>1, <1>2, <2>1, <2>3, <2>5, Shortened DEF PadInv
<1>. QED
  BY <1>3, <1>4, <1>5, <1>6, <1>7 DEF Threads, Ctl, Shutdown

(* A message is handled by the server: it has the device that the message  *)
(* is for, and the messages that are left lead from the new devices to the *)
(* same ones.                                                              *)
LEMMA FirstUnderstood ==
  ASSUME PadInv, server, wire # <<>>
  PROVE  Head(wire) \in UhidMsgs /\ Understood(dev, Head(wire))
<1>1. Path # <<>> /\ Head(Path) = Head(wire)
  <2>1. wire \in Seq(UhidMsgs) /\ inflight \o queue \in Seq(UhidMsgs)
    BY PathFacts DEF PadInv, WireInv
  <2>2. wire \o (inflight \o queue) # <<>> /\ Head(wire \o (inflight \o queue)) = Head(wire)
    BY <2>1, ConcatHeadTail
  <2>. QED
    BY <2>2, PathFacts DEF PadInv, Path
<1>2. PICK e \in DevStates : Leads(dev, Path, e)
  BY DEF PadInv, MirrorInv
<1>3. Path \in Seq(UhidMsgs)
  BY PathFacts DEF PadInv
<1>4. Understood(dev, Head(Path))
  BY <1>1, <1>2, <1>3, LeadsTail
<1>. QED
  BY <1>1, <1>4, HeadTailProperties DEF PadInv, WireInv

LEMMA HandleKeeps ==
  ASSUME PadInv, HandleMessage
  PROVE  PadInv'
<1>1. /\ server /\ wire # <<>> /\ wire' = Tail(wire) /\ dev' = Applied(dev, Head(wire))
      /\ UNCHANGED <<queue, resize, ctl, inflight>>
      /\ UNCHANGED <<phase, plugged, gone, sdl, slots, server, stale>>
  BY DEF HandleMessage, DeviceReads, chan, threads
<1>2. PadTypes /\ WireInv /\ dev \in DevStates /\ wire \in Seq(UhidMsgs)
  BY DEF PadInv, WireInv
<1>3. Head(wire) \in UhidMsgs /\ Understood(dev, Head(wire))
  BY <1>1, FirstUnderstood
<1>4. PadTypes' /\ dev' \in DevStates
  BY <1>1, <1>2, <1>3, AppliedFacts DEF PadTypes
<1>5. wire' \in Seq(UhidMsgs)
  BY <1>1, <1>2, HeadTailProperties
<1>6. WireInv'
  BY <1>1, <1>2, <1>5 DEF WireInv
<1>7. /\ Path \in Seq(UhidMsgs) /\ Path # <<>>
      /\ Head(Path) = Head(wire) /\ Path' = Tail(Path) /\ Ended' = Ended
  <2>1. inflight \o queue \in Seq(UhidMsgs) /\ inflight \in Seq(UhidMsgs)
        /\ queue \in Seq(UhidMsgs)
    BY <1>2, PathFacts DEF WireInv
  <2>2. /\ wire \o (inflight \o queue) # <<>>
        /\ Head(wire \o (inflight \o queue)) = Head(wire)
        /\ Tail(wire \o (inflight \o queue)) = Tail(wire) \o (inflight \o queue)
    BY <1>1, <1>2, <2>1, ConcatHeadTail
  <2>3. (Tail(wire) \o inflight) \o queue = Tail(wire) \o (inflight \o queue)
    BY <1>1, <1>5, <2>1, ConcatAssociative
  <2>4. Ended' = Ended
    BY <1>1 DEF Ended
  <2>5. CASE Ended
    BY <1>1, <1>2, <2>4, <2>5 DEF Path
  <2>6. CASE ~Ended
    <3>1. Path = wire \o (inflight \o queue) /\ Path \in Seq(UhidMsgs)
      BY <1>2, <2>6, PathFacts DEF Path
    <3>2. Path' = (Tail(wire) \o inflight) \o queue
      BY <1>1, <2>4, <2>6 DEF Path, Pending
    <3>. QED
      BY <2>2, <2>3, <2>4, <3>1, <3>2
  <2>. QED
    BY <2>5, <2>6
<1>8. PICK e \in DevStates : Leads(dev, Path, e) /\ (~Ended => Mirrors(e))
  BY <1>1 DEF PadInv, MirrorInv
<1>9. Leads(dev', Path', e)
  BY <1>1, <1>7, <1>8, LeadsTail
<1>10. Mirrors(e)' <=> Mirrors(e)
  BY <1>1 DEF Mirrors
<1>11. MirrorInv'
  BY <1>7, <1>8, <1>9, <1>10 DEF MirrorInv
<1>. QED
  BY <1>4, <1>6, <1>11 DEF PadInv

(* Once the server has ended, there is nothing to mirror. *)
LEMMA EndKeeps ==
  ASSUME PadInv, ServerFails \/ EndOfStream
  PROVE  PadInv'
<1>1. /\ UNCHANGED <<queue, resize, inflight, wire>> /\ server' = FALSE /\ dev' = AllClosed
      /\ UNCHANGED <<phase, plugged, gone, sdl, slots, stale>>
  BY DEF ServerFails, EndOfStream, DeviceCloses, chan, threads, vars
<1>2. dev' \in DevStates
  BY <1>1 DEF AllClosed, DevStates
<1>. QED
  BY <1>1, <1>2 DEF PadInv, PadTypes, WireInv, MirrorInv

(* The queue of SDL events. *)
LEMMA EventsKeep ==
  ASSUME PadInv, UNCHANGED <<vars, slots, dev, server, stale>>, PadTypes'
  PROVE  PadInv'
<1>1. UNCHANGED <<queue, resize, inflight, wire, ctl>> /\ UNCHANGED <<slots, dev, server, stale>>
  BY DEF vars
<1>2. WireInv' /\ dev' \in DevStates /\ Path' = Path /\ Ended' = Ended
  BY <1>1 DEF PadInv, WireInv, Path, Pending, Ended
<1>. QED
  BY <1>1, <1>2, Shortened DEF PadInv

SdlEvents == [type : {"ADDED", "REMOVED"}, pad : Pads]

LEMMA SdlKeeps ==
  ASSUME PadInv,
         (\E p \in Pads : Plug(p) \/ Unplug(p)) \/ AwaitForServer \/ InitSdlGamepads
  PROVE  PadInv'
<1>1. PadTypes /\ sdl \in Seq(SdlEvents) /\ plugged \subseteq Pads /\ IsFiniteSet(plugged)
  BY DEF PadInv, PadTypes, SdlEvents
<1>2. UNCHANGED <<vars, slots, dev, server, stale>>
  BY DEF Plug, Unplug, AwaitForServer, InitSdlGamepads
<1>3. ASSUME NEW p \in Pads, Plug(p) PROVE PadTypes'
  <2>1. Added(p) \in SdlEvents
    BY DEF Added, SdlEvents
  <2>2. sdl' \in Seq(SdlEvents) /\ IsFiniteSet(plugged')
    BY <1>1, <1>3, <2>1, AppendProperties, FS_AddElement DEF Plug
  <2>. QED
    BY <1>1, <1>3, <2>2 DEF PadTypes, Plug, SdlEvents
<1>4. ASSUME NEW p \in Pads, Unplug(p) PROVE PadTypes'
  <2>1. Removed(p) \in SdlEvents
    BY DEF Removed, SdlEvents
  <2>2. sdl' \in Seq(SdlEvents) /\ IsFiniteSet(plugged')
    BY <1>1, <1>4, <2>1, AppendProperties, FS_RemoveElement DEF Unplug
  <2>. QED
    BY <1>1, <1>4, <2>2 DEF PadTypes, Unplug, SdlEvents
<1>5. ASSUME AwaitForServer PROVE PadTypes'
  <2>1. PICK k \in 0 .. Len(sdl) : sdl' = SubSeq(sdl, k + 1, Len(sdl))
    BY <1>5 DEF AwaitForServer
  <2>2. Len(sdl) \in Nat /\ \A i \in 1 .. Len(sdl) : sdl[i] \in SdlEvents
    BY <1>1, ElementOfSeq, LenProperties
  <2>3. k + 1 \in Int /\ Len(sdl) \in Int /\ \A i \in k + 1 .. Len(sdl) : sdl[i] \in SdlEvents
    BY <2>2
  <2>4. sdl' \in Seq(SdlEvents)
    BY <2>1, <2>3, SubSeqProperties
  <2>5. phase' = "setup" /\ UNCHANGED <<plugged, gone, slots, server, stale>>
    BY <1>5 DEF AwaitForServer
  <2>. QED
    BY <1>1, <2>4, <2>5 DEF PadTypes, SdlEvents
<1>6. ASSUME InitSdlGamepads PROVE PadTypes'
  <2>1. PICK order \in SetToSeqs(plugged) : sdl' = sdl \o [i \in DOMAIN order |-> Added(order[i])]
    BY <1>6 DEF InitSdlGamepads
  <2>. DEFINE n == Cardinality(plugged)
              added == [i \in DOMAIN order |-> Added(order[i])]
  <2>2. n \in Nat
    BY <1>1, FS_CardinalityType
  <2>3. order \in [1 .. n -> plugged]
    BY <2>1 DEF SetToSeqs
  <2>. HIDE DEF n
  <2>4. \A i \in 1 .. n : Added(order[i]) \in SdlEvents
    BY <1>1, <2>3 DEF Added, SdlEvents
  <2>5. added \in [1 .. n -> SdlEvents]
    BY <2>3, <2>4
  <2>6. added \in Seq(SdlEvents)
    BY <2>2, <2>5, SeqDef
  <2>. HIDE DEF added
  <2>7. sdl \o added \in Seq(SdlEvents)
    BY <1>1, <2>6, ConcatProperties
  <2>8. sdl' \in Seq(SdlEvents)
    BY <2>1, <2>7 DEF added
  <2>9. phase' = "loop" /\ UNCHANGED <<plugged, gone, slots, server, stale>>
    BY <1>6 DEF InitSdlGamepads
  <2>. QED
    BY <1>1, <2>8, <2>9 DEF PadTypes, SdlEvents
<1>7. PadTypes'
  <2>1. ASSUME \E p \in Pads : Plug(p) \/ Unplug(p) PROVE PadTypes'
    BY <1>3, <1>4, <2>1
  <2>. QED
    BY <1>5, <1>6, <2>1
<1>. QED
  BY <1>2, <1>7, EventsKeep

-------------------------------------------------------------------------------
(* The events of the gamepads.                                             *)

LEMMA EventTaken ==
  ASSUME PadTypes, NEW ev, NextEvent(ev)
  PROVE  sdl' \in Seq([type : {"ADDED", "REMOVED"}, pad : Pads])
BY HeadTailProperties DEF NextEvent, PadTypes

LEMMA AddedKeeps ==
  ASSUME PadInv, NEW p \in Pads, GamepadAdded(p)
  PROVE  PadInv'
<1>. PICK s : s = SlotOf(NoPad)
  OBVIOUS
<1>. PICK m : m = Create(s)
  OBVIOUS
<1>1. PadTypes /\ WireInv /\ dev \in DevStates /\ MirrorInv
  BY DEF PadInv
<1>2. /\ sdl' \in Seq([type : {"ADDED", "REMOVED"}, pad : Pads])
      /\ UNCHANGED <<phase, plugged, gone, dev, server>>
  BY <1>1, EventTaken DEF GamepadAdded
<1>3. CASE UNCHANGED <<vars, slots, stale>>
  <2>1. PadTypes'
    BY <1>1, <1>2, <1>3 DEF PadTypes
  <2>. QED
    BY <1>2, <1>3, <2>1, EventsKeep
<1>4. CASE /\ s # 0 /\ slots' = [slots EXCEPT ![s] = SlotInit(s, p)]
           /\ stale' = stale \ {s} /\ PushMsg(m)
  <2>1. s \in Slots /\ slots[s].pad = NoPad
    BY <1>4, GamepadAssumption, SlotFound
  <2>2. m \in UhidMsgs /\ m.kind = "UHID_CREATE" /\ m.id = s
    BY <2>1, MsgShape
  <2>3. HasRoom(m)
    BY <2>2, GamepadAssumption DEF HasRoom, UhidNonDroppable
  <2>4. p # NoPad
    BY GamepadAssumption
  <2>5. /\ slots' \in [Slots -> [pad : Pads \cup {NoPad}, down : BOOLEAN]]
        /\ slots'[s].pad = p /\ slots'[s].down = FALSE
        /\ \A t \in Slots : t # s => slots'[t] = slots[t]
    BY <1>1, <1>4, <2>1 DEF PadTypes, SlotInit
  <2>6. PadTypes'
    BY <1>1, <1>2, <1>4, <2>5 DEF PadTypes
  <2>7. ASSUME NEW e \in DevStates, Mirrors(e)
        PROVE  Understood(e, m) /\ Mirrors(Applied(e, m))'
    <3>1. e[s] = "closed"
      BY <2>1, <2>7 DEF Mirrors
    <3>2. Understood(e, m)
      BY <2>2, <3>1 DEF Understood
    <3>3. /\ Applied(e, m)[s] = State(FALSE)
          /\ \A t \in Slots : t # s => Applied(e, m)[t] = e[t]
      <4>1. /\ Applied(e, m)[m.id] = State(FALSE)
            /\ \A t \in Slots : t # m.id => Applied(e, m)[t] = e[t]
        BY <2>2, <3>2, AppliedFacts
      <4>. QED
        BY <2>2, <4>1
    <3>. DEFINE f == Applied(e, m)
    <3>4. ASSUME NEW t \in Slots
          PROVE  /\ f[t] = "closed" <=> slots'[t].pad = NoPad
                 /\ f[t] # "closed" /\ t \notin stale' => f[t] = State(slots'[t].down)
      <4>1. CASE t = s
        BY <2>4, <2>5, <3>3, <4>1, StateOpen
      <4>2. CASE t # s
        <5>1. f[t] = e[t] /\ slots'[t] = slots[t] /\ (t \in stale' <=> t \in stale)
          BY <1>4, <2>5, <3>3, <4>2
        <5>. QED
          BY <2>7, <5>1 DEF Mirrors
      <4>. QED
        BY <4>1, <4>2
    <3>. HIDE DEF f
    <3>5. Mirrors(f)'
      BY <3>4 DEF Mirrors
    <3>. QED
      BY <3>2, <3>5 DEF f
  <2>8. WireInv' /\ MirrorInv'
    BY <1>1, <1>2, <1>4, <2>2, <2>3, <2>7, Pushed
  <2>. QED
    BY <1>1, <1>2, <2>6, <2>8 DEF PadInv
<1>. QED
  BY <1>3, <1>4 DEF GamepadAdded

LEMMA RemovedKeeps ==
  ASSUME PadInv, NEW p \in Pads, GamepadRemoved(p)
  PROVE  PadInv'
<1>. PICK s : s = SlotOf(p)
  OBVIOUS
<1>. PICK m : m = Destroyed(s)
  OBVIOUS
<1>1. PadTypes /\ WireInv /\ dev \in DevStates /\ MirrorInv
  BY DEF PadInv
<1>2. /\ sdl' \in Seq([type : {"ADDED", "REMOVED"}, pad : Pads])
      /\ UNCHANGED <<phase, plugged, gone, dev, server, stale>>
  BY <1>1, EventTaken DEF GamepadRemoved
<1>3. CASE UNCHANGED <<vars, slots>>
  <2>1. PadTypes'
    BY <1>1, <1>2, <1>3 DEF PadTypes
  <2>. QED
    BY <1>2, <1>3, <2>1, EventsKeep
<1>4. CASE s # 0 /\ slots' = [slots EXCEPT ![s].pad = NoPad] /\ PushMsg(m)
  <2>1. s \in Slots /\ slots[s].pad = p
    BY <1>4, GamepadAssumption, SlotFound
  <2>2. m \in UhidMsgs /\ m.kind = "UHID_DESTROY" /\ m.id = s
    BY <2>1, MsgShape
  <2>3. HasRoom(m)
    BY <2>2, GamepadAssumption DEF HasRoom, UhidNonDroppable
  <2>4. p # NoPad
    BY GamepadAssumption
  <2>5. /\ slots' \in [Slots -> [pad : Pads \cup {NoPad}, down : BOOLEAN]]
        /\ slots'[s].pad = NoPad
        /\ \A t \in Slots : t # s => slots'[t] = slots[t]
    BY <1>1, <1>4, <2>1 DEF PadTypes
  <2>6. PadTypes'
    BY <1>1, <1>2, <2>5 DEF PadTypes
  <2>7. ASSUME NEW e \in DevStates, Mirrors(e)
        PROVE  Understood(e, m) /\ Mirrors(Applied(e, m))'
    <3>1. e[s] # "closed"
      BY <2>1, <2>4, <2>7 DEF Mirrors
    <3>2. Understood(e, m)
      BY <2>2, <3>1 DEF Understood
    <3>. DEFINE f == Applied(e, m)
    <3>3. f[s] = "closed" /\ \A t \in Slots : t # s => f[t] = e[t]
      <4>1. /\ Applied(e, m)[m.id] = "closed"
            /\ \A t \in Slots : t # m.id => Applied(e, m)[t] = e[t]
        BY <2>2, <3>2, AppliedFacts
      <4>. QED
        BY <2>2, <4>1
    <3>. HIDE DEF f
    <3>4. ASSUME NEW t \in Slots
          PROVE  /\ f[t] = "closed" <=> slots'[t].pad = NoPad
                 /\ f[t] # "closed" /\ t \notin stale' => f[t] = State(slots'[t].down)
      <4>1. CASE t = s
        BY <2>5, <3>3, <4>1
      <4>2. CASE t # s
        <5>1. f[t] = e[t] /\ slots'[t] = slots[t] /\ stale' = stale
          BY <1>2, <2>5, <3>3, <4>2
        <5>. QED
          BY <2>7, <5>1 DEF Mirrors
      <4>. QED
        BY <4>1, <4>2
    <3>5. Mirrors(f)'
      BY <3>4 DEF Mirrors
    <3>. QED
      BY <3>2, <3>5 DEF f
  <2>8. WireInv' /\ MirrorInv'
    BY <1>1, <1>2, <1>4, <2>2, <2>3, <2>7, Pushed
  <2>. QED
    BY <1>1, <1>2, <2>6, <2>8 DEF PadInv
<1>. QED
  BY <1>3, <1>4 DEF GamepadRemoved

LEMMA ButtonKeeps ==
  ASSUME PadInv, NEW p \in Pads, GamepadButton(p)
  PROVE  PadInv'
<1>. PICK s : s = SlotOf(p)
  OBVIOUS
<1>. PICK b : b = ~slots[s].down
  OBVIOUS
<1>. PICK m : m = Input(s, b)
  OBVIOUS
<1>1. PadTypes /\ WireInv /\ dev \in DevStates /\ MirrorInv
  BY DEF PadInv
<1>2. /\ s # 0 /\ slots' = [slots EXCEPT ![s].down = b] /\ PushMsg(m)
      /\ stale' = IF Len(queue) < QueueLimit THEN stale \ {s} ELSE stale \cup {s}
      /\ UNCHANGED <<phase, plugged, gone, sdl, dev, server>>
  BY DEF GamepadButton
<1>3. s \in Slots /\ slots[s].pad = p /\ p # NoPad
  BY <1>2, GamepadAssumption, SlotFound
<1>4. b \in BOOLEAN
  OBVIOUS
<1>5. m \in UhidMsgs /\ m.kind = "UHID_INPUT" /\ m.id = s /\ m.down = b
  BY <1>3, <1>4, MsgShape
<1>6. HasRoom(m) <=> Len(queue) < QueueLimit
  BY <1>5, GamepadAssumption DEF HasRoom, UhidNonDroppable
<1>7. /\ slots' \in [Slots -> [pad : Pads \cup {NoPad}, down : BOOLEAN]]
      /\ slots'[s].pad = p /\ slots'[s].down = b
      /\ \A t \in Slots : t # s => slots'[t] = slots[t]
  BY <1>1, <1>2, <1>3, <1>4 DEF PadTypes
<1>8. PadTypes'
  BY <1>1, <1>2, <1>3, <1>7 DEF PadTypes
<1>9. \A t \in Slots : t # s => (t \in stale' <=> t \in stale)
  BY <1>2
<1>10. ASSUME NEW e \in DevStates, Mirrors(e)
       PROVE  /\ Understood(e, m)
              /\ HasRoom(m) => Mirrors(Applied(e, m))'
              /\ ~HasRoom(m) => Mirrors(e)'
  <2>1. e[s] # "closed"
    BY <1>3, <1>10 DEF Mirrors
  <2>2. Understood(e, m)
    BY <1>5, <2>1 DEF Understood
  <2>. DEFINE f == Applied(e, m)
  <2>3. f[s] = State(b) /\ \A t \in Slots : t # s => f[t] = e[t]
    <3>1. /\ Applied(e, m)[m.id] = State(m.down)
          /\ \A t \in Slots : t # m.id => Applied(e, m)[t] = e[t]
      BY <1>5, <2>2, AppliedFacts
    <3>. QED
      BY <1>5, <3>1
  <2>. HIDE DEF f
  <2>4. ASSUME NEW t \in Slots, t # s
        PROVE  /\ e[t] = "closed" <=> slots'[t].pad = NoPad
               /\ e[t] # "closed" /\ t \notin stale' => e[t] = State(slots'[t].down)
    BY <1>7, <1>9, <1>10, <2>4 DEF Mirrors
  <2>5. Mirrors(f)'
    <3>1. ASSUME NEW t \in Slots
          PROVE  /\ f[t] = "closed" <=> slots'[t].pad = NoPad
                 /\ f[t] # "closed" /\ t \notin stale' => f[t] = State(slots'[t].down)
      <4>1. CASE t = s
        BY <1>3, <1>7, <2>3, <4>1, StateOpen
      <4>2. CASE t # s
        BY <2>3, <2>4, <4>2
      <4>. QED
        BY <4>1, <4>2
    <3>. QED
      BY <3>1 DEF Mirrors
  <2>6. ASSUME ~HasRoom(m) PROVE Mirrors(e)'
    <3>1. s \in stale'
      BY <1>2, <1>6, <2>6
    <3>2. ASSUME NEW t \in Slots
          PROVE  /\ e[t] = "closed" <=> slots'[t].pad = NoPad
                 /\ e[t] # "closed" /\ t \notin stale' => e[t] = State(slots'[t].down)
      <4>1. CASE t = s
        BY <1>3, <1>7, <2>1, <3>1, <4>1
      <4>2. CASE t # s
        BY <2>4, <4>2
      <4>. QED
        BY <4>1, <4>2
    <3>. QED
      BY <3>2 DEF Mirrors
  <2>. QED
    BY <2>2, <2>5, <2>6 DEF f
<1>11. WireInv' /\ MirrorInv'
  BY <1>1, <1>2, <1>5, <1>10, Pushed
<1>. QED
  BY <1>1, <1>2, <1>8, <1>11 DEF PadInv

-------------------------------------------------------------------------------
(* PadInv is inductive, with the invariants of the controller: wherever    *)
(* the queue is full, the device is unplugged, a thread ends or the server *)
(* dies, what is on its way still leads from the devices to the slots.     *)
THEOREM PadInvariant == PadSpec => []PadInv
<1>1. PadInit => PadInv
  <2>. SUFFICES ASSUME PadInit PROVE PadInv
    OBVIOUS
  <2>1. /\ queue = <<>> /\ wire = <<>> /\ inflight = <<>> /\ resize = NoSize /\ ctl = "none"
        /\ phase = "await" /\ plugged = {} /\ gone = {} /\ sdl = <<>>
        /\ slots = [s \in Slots |-> [pad |-> NoPad, down |-> FALSE]]
        /\ dev = [s \in Slots |-> "closed"] /\ server = TRUE /\ stale = {}
    BY DEF PadInit, Init
  <2>2. PadTypes
    BY <2>1, EmptySeq, FS_EmptySet DEF PadTypes
  <2>3. WireInv
    BY <2>1, EmptySeq DEF WireInv
  <2>4. dev \in DevStates
    BY <2>1 DEF DevStates
  <2>5. ~Ended /\ Path = <<>>
    BY <2>1 DEF Ended, Path, Pending
  <2>6. Mirrors(dev)
    BY <2>1 DEF Mirrors
  <2>7. MirrorInv
    BY <2>4, <2>5, <2>6, LeadsNone DEF MirrorInv
  <2>. QED
    BY <2>2, <2>3, <2>4, <2>7 DEF PadInv
<1>2. HandInv /\ PadInv /\ [PadNext]_allvars => PadInv'
  <2>. SUFFICES ASSUME HandInv, PadInv, [PadNext]_allvars PROVE PadInv'
    OBVIOUS
  <2>1. CASE (\E p \in Pads : Plug(p) \/ Unplug(p)) \/ AwaitForServer \/ InitSdlGamepads
    BY <2>1, SdlKeeps
  <2>2. ASSUME NEW p \in Pads, GamepadAdded(p) \/ GamepadRemoved(p) \/ GamepadButton(p)
        PROVE  PadInv'
    BY <2>2, AddedKeeps, RemovedKeeps, ButtonKeeps
  <2>3. CASE HandleMessage
    BY <2>3, HandleKeeps
  <2>4. CASE ServerFails \/ EndOfStream
    BY <2>4, EndKeeps
  <2>5. CASE Threads /\ UNCHANGED padvars
    BY <2>5, ThreadsKeep
  <2>6. CASE UNCHANGED allvars
    <3>1. UNCHANGED <<vars, slots, dev, server, stale>> /\ UNCHANGED <<phase, plugged, gone, sdl>>
      BY <2>6 DEF allvars, padvars
    <3>2. PadTypes'
      BY <3>1 DEF PadInv, PadTypes
    <3>. QED
      BY <3>1, <3>2, EventsKeep
  <2>. QED
    BY <2>1, <2>2, <2>3, <2>4, <2>5, <2>6 DEF PadNext
<1>3. PadSpec => []HandInv
  BY UsesTheController, Handing, PTL
<1>. QED
  BY <1>1, <1>2, <1>3, PTL DEF PadSpec

(* push_msg() drops reports but never a UHID_CREATE or a UHID_DESTROY:     *)
(* whatever is dropped and whenever gamepads come and go, UhidManager      *)
(* never meets a report for an id it does not know, nor creates one twice, *)
(* for any number of slots and any limit of the queue.                     *)
THEOREM NeverConfused == PadSpec => []DeviceNeverConfused
<1>1. TypeOK /\ PadInv => DeviceNeverConfused
  <2>. SUFFICES ASSUME TypeOK, PadInv PROVE DeviceNeverConfused
    OBVIOUS
  <2>1. PadTypeOK
    BY DEF PadTypeOK, PadInv, PadTypes, DevStates
  <2>2. ASSUME server, wire # <<>>
        PROVE  LET m == Head(wire) IN
                 /\ m.kind = "UHID_CREATE" => dev[m.id] = "closed"
                 /\ m.kind \in {"UHID_INPUT", "UHID_DESTROY"} => dev[m.id] # "closed"
    BY <2>2, FirstUnderstood DEF Understood
  <2>. QED
    BY <2>1, <2>2 DEF DeviceNeverConfused
<1>2. PadSpec => []TypeOK
  BY UsesTheController, Typing, PTL
<1>. QED
  BY <1>1, <1>2, PadInvariant, PTL

(* What the device will have handled is one virtual gamepad per used slot  *)
(* of sc_hid_gamepad and no other, in the state of the slot unless its     *)
(* last report was dropped at the limit of the queue.                      *)
THEOREM SlotsAreMirrored == PadSpec => []DevicesMirrorSlots
<1>1. PadInv => DevicesMirrorSlots
  <2>. SUFFICES ASSUME PadInv, server, ctl \notin {"ended", "joined"}
                PROVE  \A s \in Slots :
                         /\ (Handled[Len(Pending)][s] = "closed") <=> (slots[s].pad = NoPad)
                         /\ Handled[Len(Pending)][s] # "closed" /\ s \notin stale =>
                              Handled[Len(Pending)][s] = State(slots[s].down)
    BY DEF DevicesMirrorSlots
  <2>1. ~Ended /\ Path = Pending
    BY DEF Ended, Path
  <2>2. PICK e \in DevStates : Leads(dev, Pending, e) /\ Mirrors(e)
    BY <2>1 DEF PadInv, MirrorInv
  <2>3. Pending \in Seq(UhidMsgs)
    BY PathFacts DEF PadInv
  <2>4. Handled[Len(Pending)] = e
    BY <2>2, <2>3, HandledLeads
  <2>. QED
    BY <2>2, <2>4 DEF Mirrors
<1>. QED
  BY <1>1, PadInvariant, PTL
===============================================================================
