------------------------------- MODULE AoaProofs ------------------------------
(***************************************************************************)
(* Proofs about AoaHid, for any sessions and any limits of the two queues: *)
(* a Ctrl+v never pastes a clipboard older than its own, except after a    *)
(* discarded one.                                                          *)
(***************************************************************************)
EXTENDS AoaHid, SequenceTheorems, WellFoundedInduction, TLAPS

-------------------------------------------------------------------------------
(* The inductive invariant.                                                *)

(* The types, by the part of the system that writes the variables. *)
MainTypes ==
  /\ cfg \in Configs
  /\ main \in {"setup", "loop", "stop", "interrupt", "stop usb", "join",
               "join usb", "done"}
  /\ posted \subseteq {"open error", "disconnected"}
  /\ keys \subseteq Keys /\ synced \in BOOLEAN /\ plugged \in BOOLEAN
  /\ nextSequence \in Nat \ {0} /\ paste \in 0 .. nextSequence
ThreadTypes ==
  /\ queue \in Seq(Events) /\ stopped \in BOOLEAN
  /\ thread \in {"off", "idle", "waiting", "ack", "sending", "ending", "ended"}
  /\ event \in Events /\ vecOpen \in Seq(HidIds)
  /\ ack \in [value : Nat, stopped : BOOLEAN]
UsbTypes ==
  /\ connected \in BOOLEAN /\ notified \in BOOLEAN /\ usbStopped \in BOOLEAN
  /\ watcher \in {"none", "running", "ended"}
ServerTypes ==
  /\ control \in Seq(Nat) /\ outbox \in Seq(Nat) /\ inbox \in Seq(Nat)
  /\ handled \in Nat /\ alive \in BOOLEAN
  /\ Len(outbox) <= SenderCapacity
DeviceTypes ==
  /\ registered \subseteq HidIds /\ devKeys \subseteq Keys
  /\ pasted \in 0 .. nextSequence /\ unregisterFailed \in BOOLEAN
TypeInv == MainTypes /\ ThreadTypes /\ UsbTypes /\ ServerTypes /\ DeviceTypes

(* The acknowledgements follow the requests: what is on its way to the     *)
(* server is newer than what it handled, and no answer is newer.           *)
Answers(q) == \A i, j \in 1 .. Len(q) : i < j /\ q[i] # 0 /\ q[j] # 0 => q[i] <= q[j]
OrderInv ==
  /\ handled < nextSequence /\ ack.value <= handled
  /\ \A i \in 1 .. Len(control) : handled < control[i] /\ control[i] < nextSequence
  /\ \A i, j \in 1 .. Len(control) : i < j => control[i] < control[j]
  /\ \A i \in 1 .. Len(outbox) : /\ outbox[i] <= handled
                                 /\ outbox[i] # 0 => ack.value <= outbox[i]
  /\ \A i \in 1 .. Len(inbox) : /\ inbox[i] <= handled
                                /\ inbox[i] # 0 => ack.value <= inbox[i]
  /\ Answers(outbox) /\ Answers(inbox)
  /\ \A i \in 1 .. Len(inbox), j \in 1 .. Len(outbox) :
       inbox[i] # 0 /\ outbox[j] # 0 => inbox[i] <= outbox[j]

(* What waits for an acknowledgement is a Ctrl+v, for its own request.     *)
Waits(e) == e.type = "input" /\ e.ack # 0
WaiterOK(e) == Waits(e) => e.id = "keyboard" /\ e.paste = e.ack /\ cfg.autosync
WaitInv ==
  /\ \A i \in 1 .. Len(queue) : WaiterOK(queue[i])
  /\ WaiterOK(event)
  /\ thread = "ack" => Waits(event)
  /\ ~cfg.autosync => paste = 0

(* The device may be told to paste for these requests: its clipboard is    *)
(* recent enough, or the Ctrl+v of the request was discarded ...           *)
Safe == {seq \in Nat : handled >= seq \/ seq \in discarded}
(* ... or this Ctrl+v still waits, among the n first events.               *)
Covered(n) ==
  {seq \in Nat : \/ seq \in Safe
                 \/ thread = "ack" /\ event.ack = seq
                 \/ \E i \in 1 .. n : Waits(queue[i]) /\ queue[i].ack = seq}

Pastes(e) == e.type = "input" /\ "v" \in e.keys
FreshInv ==
  /\ pasted \in Safe
  /\ thread \notin {"ending", "ended"} =>
       /\ \A i \in 1 .. Len(queue) : Pastes(queue[i]) => queue[i].paste \in Covered(i)
       /\ thread = "sending" /\ Pastes(event) => event.paste \in Safe
       /\ "v" \in keys => paste \in Covered(Len(queue))

(* The thread runs from sc_aoa_start() only. *)
StartInv == main = "setup" => thread = "off"

AoaInv == TypeInv /\ OrderInv /\ WaitInv /\ FreshInv /\ StartInv

-------------------------------------------------------------------------------
(* Events and queues.                                                      *)

Seqs == 0 .. nextSequence

LEMMA InputIsEvent ==
  ASSUME NEW id \in HidIds, NEW ks \in SUBSET Keys, NEW seq \in Seqs, NEW wait \in Seqs
  PROVE  Input(id, ks, seq, wait) \in Events
BY DEF Events, Seqs

LEMMA OtherEvents ==
  /\ None \in Events /\ Close("gamepad") \in Events
  /\ \A id \in HidIds : Open(id) \in Events
BY DEF Events

LEMMA EventShape ==
  ASSUME NEW e \in Events
  PROVE  /\ e.type \in {"none", "open", "close", "input"}
         /\ e.type = "open" => e.id \in HidIds
         /\ e.type = "close" => e.id = "gamepad"
         /\ e.type = "input" => /\ e.id \in HidIds /\ e.keys \subseteq Keys
                                /\ e.paste \in Seqs /\ e.ack \in Seqs
<1>1. CASE e = None
  BY <1>1 DEF None
<1>2. ASSUME NEW id \in HidIds, e = Open(id) PROVE e.type = "open" /\ e.id = id
  BY <1>2 DEF Open
<1>3. CASE e = Close("gamepad")
  BY <1>3 DEF Close
<1>4. ASSUME NEW id \in HidIds, NEW ks \in SUBSET Keys, NEW seq \in Seqs, NEW wait \in Seqs,
             e = Input(id, ks, seq, wait)
      PROVE  e.type = "input" /\ e.id = id /\ e.keys = ks /\ e.paste = seq /\ e.ack = wait
  BY <1>4 DEF Input
<1>5. \/ e = None \/ e = Close("gamepad") \/ \E id \in HidIds : e = Open(id)
      \/ \E id \in HidIds, ks \in SUBSET Keys, seq \in Seqs, wait \in Seqs :
           e = Input(id, ks, seq, wait)
  BY DEF Events, Seqs
<1>. QED
  BY <1>1, <1>2, <1>3, <1>4, <1>5

LEMMA EventsGrow ==
  ASSUME nextSequence \in Nat, nextSequence' \in Nat, nextSequence <= nextSequence'
  PROVE  Events \subseteq Events'
<1>1. 0 .. nextSequence \subseteq 0 .. nextSequence'
  OBVIOUS
<1>. QED
  BY <1>1 DEF Events

LEMMA EventsSame ==
  ASSUME nextSequence' = nextSequence
  PROVE  Events' = Events
BY DEF Events

LEMMA SeqGrows ==
  ASSUME NEW S, NEW T, S \subseteq T, NEW q \in Seq(S)
  PROVE  q \in Seq(T)
OBVIOUS

(* What a queue becomes when an element is added, or the first removed.    *)
LEMMA Appended ==
  ASSUME NEW S, NEW q \in Seq(S), NEW e \in S, NEW r, r = Append(q, e)
  PROVE  /\ r \in Seq(S) /\ Len(q) \in Nat /\ Len(r) = Len(q) + 1 /\ r[Len(r)] = e
         /\ \A i \in 1 .. Len(q) : i \in 1 .. Len(r) /\ r[i] = q[i]
         /\ \A i \in 1 .. Len(r) : i \in 1 .. Len(q) \/ i = Len(r)
OBVIOUS

LEMMA Popped ==
  ASSUME NEW S, NEW q \in Seq(S), q # <<>>, NEW r, r = Tail(q)
  PROVE  /\ r \in Seq(S) /\ Len(q) \in Nat /\ Len(r) = Len(q) - 1
         /\ 1 \in 1 .. Len(q) /\ Head(q) = q[1] /\ Head(q) \in S
         /\ \A i \in 1 .. Len(r) : i + 1 \in 1 .. Len(q) /\ r[i] = q[i + 1]
<1>1. Len(q) \in Nat /\ Len(q) > 0 /\ Head(q) \in S /\ Head(q) = q[1]
      /\ r \in Seq(S) /\ Len(r) = Len(q) - 1
  BY HeadTailProperties, EmptySeq, LenProperties
<1>2. \A i \in 1 .. Len(r) : r[i] = q[i + 1]
  BY HeadTailProperties
<1>. QED
  BY <1>1, <1>2

(* A set of natural numbers that is not empty has a least one.             *)
LEMMA LeastNat ==
  ASSUME NEW I \in SUBSET Nat, I # {}
  PROVE  \E n \in I : \A m \in I : n <= m
<1>. DEFINE R == OpToRel(<, Nat)
<1>1. \A x, y \in Nat : y < x => <<y, x>> \in R
  BY DEF OpToRel
<1>2. IsWellFoundedOn(R, Nat)
  BY NatLessThanWellFounded
<1>. HIDE DEF R
<1>3. PICK x \in I : \A y \in I : ~ (<<y, x>> \in R)
  BY <1>2, WFMin
<1>4. \A y \in I : ~(y < x)
  BY <1>1, <1>3
<1>. QED
  BY <1>3, <1>4

(* The vector of the ids, when one is removed.                             *)
LEMMA RemovedFirst ==
  ASSUME NEW S, NEW q \in Seq(S), NEW e
  PROVE  RemoveFirst(q, e) \in Seq(S)
<1>. DEFINE I == {i \in 1 .. Len(q) : q[i] = e}
<1>1. CASE ~ \E i \in 1 .. Len(q) : q[i] = e
  BY <1>1 DEF RemoveFirst
<1>2. CASE \E i \in 1 .. Len(q) : q[i] = e
  <2>1. I # {} /\ I \in SUBSET Nat
    BY <1>2
  <2>2. \E n \in I : \A m \in I : n <= m
    BY <2>1, LeastNat
  <2>. DEFINE k == Min(I)
  <2>3. k \in I
    BY <2>2 DEF Min
  <2>4. k = SelectInSeq(q, LAMBDA v : v = e)
    BY <2>1 DEF SelectInSeq
  <2>5. Len(q) \in Nat /\ k \in 1 .. Len(q)
    BY <2>3, LenProperties
  <2>. HIDE DEF k, I
  <2>6. SubSeq(q, 1, k - 1) \in Seq(S)
    <3>1. \A i \in 1 .. k - 1 : q[i] \in S
      BY <2>5
    <3>. QED
      BY <2>5, <3>1, SubSeqProperties
  <2>7. SubSeq(q, k + 1, Len(q)) \in Seq(S)
    <3>1. \A i \in k + 1 .. Len(q) : q[i] \in S
      BY <2>5
    <3>. QED
      BY <2>5, <3>1, SubSeqProperties
  <2>8. RemoveFirst(q, e) = SubSeq(q, 1, k - 1) \o SubSeq(q, k + 1, Len(q))
    BY <1>2, <2>4 DEF RemoveFirst, RemoveAt
  <2>. QED
    BY <2>6, <2>7, <2>8, ConcatProperties
<1>. QED
  BY <1>1, <1>2

-------------------------------------------------------------------------------
(* The requests and their answers.                                         *)

LEMMA OrderIdle ==
  ASSUME OrderInv, UNCHANGED <<handled, control, outbox, inbox, nextSequence>>,
         ack'.value = ack.value
  PROVE  OrderInv'
BY DEF OrderInv, Answers

LEMMA RequestKeeps ==
  ASSUME OrderInv, ServerTypes, nextSequence \in Nat, nextSequence' = nextSequence + 1,
         control' = IF alive THEN Append(control, nextSequence) ELSE control,
         UNCHANGED <<handled, outbox, inbox, ack>>
  PROVE  OrderInv'
<1>1. control \in Seq(Nat) /\ Len(control) \in Nat /\ handled \in Nat
  BY DEF ServerTypes
<1>2. CASE control' = control
  BY <1>1, <1>2 DEF OrderInv, Answers, ServerTypes
<1>3. CASE control' = Append(control, nextSequence)
  <2>1. /\ Len(control') = Len(control) + 1 /\ control'[Len(control')] = nextSequence
        /\ \A i \in 1 .. Len(control) : control'[i] = control[i]
        /\ \A i \in 1 .. Len(control') : i \in 1 .. Len(control) \/ i = Len(control')
    BY <1>1, <1>3, Appended
  <2>2. \A i \in 1 .. Len(control) : control[i] \in Nat
    BY <1>1
  <2>3. \A i \in 1 .. Len(control') : handled < control'[i] /\ control'[i] < nextSequence'
    BY <1>1, <2>1, <2>2 DEF OrderInv
  <2>4. ASSUME NEW i \in 1 .. Len(control'), NEW j \in 1 .. Len(control'), i < j
        PROVE  control'[i] < control'[j]
    <3>1. i \in 1 .. Len(control)
      BY <1>1, <2>1, <2>4
    <3>2. CASE j \in 1 .. Len(control)
      BY <2>1, <2>4, <3>1, <3>2 DEF OrderInv
    <3>3. CASE j = Len(control')
      BY <2>1, <3>1, <3>3 DEF OrderInv
    <3>. QED
      BY <2>1, <3>2, <3>3
  <2>. QED
    BY <1>1, <2>3, <2>4 DEF OrderInv, Answers
<1>. QED
  BY <1>2, <1>3

(* An answer is offered to the sender, which drops it when it is full.     *)
LEMMA OfferKeeps ==
  ASSUME OrderInv, ServerTypes, NEW m \in Nat, Offer(m),
         handled' \in Nat, handled <= handled', m <= handled',
         m # 0 => handled <= m,
         UNCHANGED <<inbox, ack, nextSequence>>, ack \in [value : Nat, stopped : BOOLEAN],
         handled' < nextSequence',
         \A i \in 1 .. Len(control') : handled' < control'[i] /\ control'[i] < nextSequence',
         \A i, j \in 1 .. Len(control') : i < j => control'[i] < control'[j]
  PROVE  OrderInv' /\ outbox' \in Seq(Nat) /\ (SenderCapacity \in Nat => Len(outbox') <= SenderCapacity)
<1>1. outbox \in Seq(Nat) /\ inbox \in Seq(Nat) /\ handled \in Nat /\ Len(outbox) \in Nat
      /\ ack.value \in Nat /\ Len(outbox) <= SenderCapacity
  BY DEF ServerTypes
<1>0. /\ \A i \in 1 .. Len(outbox) : outbox[i] \in Nat
      /\ \A i \in 1 .. Len(inbox) : inbox[i] \in Nat
  BY <1>1
<1>2. CASE outbox' = outbox
  BY <1>0, <1>1, <1>2 DEF OrderInv, Answers
<1>3. CASE outbox' = Append(outbox, m) /\ Len(outbox) < SenderCapacity
  <2>1. /\ outbox' \in Seq(Nat) /\ Len(outbox') = Len(outbox) + 1
        /\ outbox'[Len(outbox')] = m
        /\ \A i \in 1 .. Len(outbox) : outbox'[i] = outbox[i]
        /\ \A i \in 1 .. Len(outbox') : i \in 1 .. Len(outbox) \/ i = Len(outbox')
    BY <1>1, <1>3, Appended
  <2>2. \A i \in 1 .. Len(outbox') : /\ outbox'[i] <= handled'
                                     /\ outbox'[i] # 0 => ack.value <= outbox'[i]
    <3>. SUFFICES ASSUME NEW i \in 1 .. Len(outbox')
                  PROVE  /\ outbox'[i] <= handled'
                         /\ outbox'[i] # 0 => ack.value <= outbox'[i]
      OBVIOUS
    <3>1. CASE i \in 1 .. Len(outbox)
      <4>1. outbox'[i] = outbox[i] /\ outbox[i] <= handled /\ outbox[i] \in Nat
            /\ (outbox[i] # 0 => ack.value <= outbox[i])
        BY <1>0, <2>1, <3>1 DEF OrderInv
      <4>. QED
        BY <1>1, <4>1
    <3>2. CASE i = Len(outbox')
      <4>1. outbox'[i] = m
        BY <2>1, <3>2
      <4>. QED
        BY <1>1, <4>1 DEF OrderInv
    <3>. QED
      BY <2>1, <3>1, <3>2
  <2>3. Answers(outbox')
    <3>. SUFFICES ASSUME NEW i \in 1 .. Len(outbox'), NEW j \in 1 .. Len(outbox'), i < j,
                         outbox'[i] # 0, outbox'[j] # 0
                  PROVE  outbox'[i] <= outbox'[j]
      BY DEF Answers
    <3>1. i \in 1 .. Len(outbox)
      BY <1>1, <2>1
    <3>2. CASE j \in 1 .. Len(outbox)
      BY <2>1, <3>1, <3>2 DEF OrderInv, Answers
    <3>3. CASE j = Len(outbox')
      <4>1. outbox'[j] = m /\ outbox'[i] = outbox[i] /\ outbox[i] <= handled /\ outbox[i] \in Nat
        BY <1>0, <2>1, <3>1, <3>3 DEF OrderInv
      <4>. QED
        BY <1>1, <4>1
    <3>. QED
      BY <2>1, <3>2, <3>3
  <2>4. ASSUME NEW i \in 1 .. Len(inbox), NEW j \in 1 .. Len(outbox'),
               inbox[i] # 0, outbox'[j] # 0
        PROVE  inbox[i] <= outbox'[j]
    <3>1. CASE j \in 1 .. Len(outbox)
      BY <2>1, <2>4, <3>1 DEF OrderInv
    <3>2. CASE j = Len(outbox')
      <4>1. outbox'[j] = m /\ inbox[i] <= handled /\ inbox[i] \in Nat
        BY <1>0, <2>1, <3>2 DEF OrderInv
      <4>. QED
        BY <1>1, <2>4, <4>1
    <3>. QED
      BY <2>1, <3>1, <3>2
  <2>5. \A i \in 1 .. Len(inbox) : inbox[i] <= handled'
    BY <1>0, <1>1 DEF OrderInv
  <2>6. ack.value <= handled'
    BY <1>1 DEF OrderInv
  <2>. QED
    BY <1>1, <1>3, <2>1, <2>2, <2>3, <2>4, <2>5, <2>6 DEF OrderInv, Answers
<1>. QED
  BY <1>2, <1>3 DEF Offer

LEMMA SetClipboardKeeps ==
  ASSUME OrderInv, ServerTypes, ack \in [value : Nat, stopped : BOOLEAN],
         nextSequence' = nextSequence, nextSequence \in Nat, SenderCapacity \in Nat, SetClipboard
  PROVE  OrderInv' /\ ServerTypes' /\ handled' >= handled
<1>1. control \in Seq(Nat) /\ control # <<>> /\ control' = Tail(control) /\ handled' = Head(control)
      /\ Offer(Head(control)) /\ UNCHANGED <<inbox, alive, ack>>
  BY DEF SetClipboard, ServerTypes
<1>2. /\ control' \in Seq(Nat) /\ Len(control) \in Nat /\ 1 \in 1 .. Len(control)
      /\ handled' = control[1] /\ handled' \in Nat
      /\ \A i \in 1 .. Len(control') : i + 1 \in 1 .. Len(control) /\ control'[i] = control[i + 1]
  BY <1>1, Popped
<1>3. handled < handled' /\ handled' < nextSequence /\ handled \in Nat
  BY <1>2 DEF OrderInv, ServerTypes
<1>4. ASSUME NEW i \in 1 .. Len(control')
      PROVE  handled' < control'[i] /\ control'[i] < nextSequence'
  <2>1. 1 < i + 1 /\ i + 1 \in 1 .. Len(control)
    BY <1>2
  <2>2. control[1] < control[i + 1] /\ control[i + 1] < nextSequence
    BY <1>2, <2>1 DEF OrderInv
  <2>. QED
    BY <1>2, <2>2
<1>5. ASSUME NEW i \in 1 .. Len(control'), NEW j \in 1 .. Len(control'), i < j
      PROVE  control'[i] < control'[j]
  <2>1. i + 1 < j + 1 /\ i + 1 \in 1 .. Len(control) /\ j + 1 \in 1 .. Len(control)
    BY <1>2, <1>5
  <2>2. control[i + 1] < control[j + 1]
    BY <2>1 DEF OrderInv
  <2>. QED
    BY <1>2, <2>2
<1>6. OrderInv' /\ outbox' \in Seq(Nat) /\ (SenderCapacity \in Nat => Len(outbox') <= SenderCapacity)
  BY <1>1, <1>2, <1>3, <1>4, <1>5, OfferKeeps
<1>. QED
  BY <1>1, <1>2, <1>3, <1>6 DEF ServerTypes

LEMMA ClipboardChangedKeeps ==
  ASSUME OrderInv, ServerTypes, ack \in [value : Nat, stopped : BOOLEAN],
         nextSequence' = nextSequence, nextSequence \in Nat, SenderCapacity \in Nat, ClipboardChanged
  PROVE  OrderInv' /\ ServerTypes'
<1>1. Offer(0) /\ UNCHANGED <<control, handled, inbox, alive, ack>> /\ handled \in Nat
  BY DEF ClipboardChanged, ServerTypes
<1>2. OrderInv' /\ outbox' \in Seq(Nat) /\ (SenderCapacity \in Nat => Len(outbox') <= SenderCapacity)
  BY <1>1, OfferKeeps DEF OrderInv
<1>. QED
  BY <1>1, <1>2 DEF ServerTypes

LEMMA SendDeviceMessageKeeps ==
  ASSUME OrderInv, ServerTypes, SenderCapacity \in Nat, nextSequence' = nextSequence,
         SendDeviceMessage
  PROVE  OrderInv' /\ ServerTypes'
<1>1. /\ outbox # <<>> /\ outbox' = Tail(outbox) /\ inbox' = Append(inbox, Head(outbox))
      /\ UNCHANGED <<control, handled, alive, ack>>
      /\ outbox \in Seq(Nat) /\ inbox \in Seq(Nat)
  BY DEF SendDeviceMessage, ServerTypes
<1>2. /\ outbox' \in Seq(Nat) /\ Len(outbox) \in Nat /\ Len(outbox') = Len(outbox) - 1
      /\ 1 \in 1 .. Len(outbox) /\ Head(outbox) = outbox[1] /\ Head(outbox) \in Nat
      /\ \A i \in 1 .. Len(outbox') : i + 1 \in 1 .. Len(outbox) /\ outbox'[i] = outbox[i + 1]
  BY <1>1, Popped
<1>3. /\ inbox' \in Seq(Nat) /\ Len(inbox) \in Nat /\ Len(inbox') = Len(inbox) + 1
      /\ inbox'[Len(inbox')] = outbox[1]
      /\ \A i \in 1 .. Len(inbox) : inbox'[i] = inbox[i]
      /\ \A i \in 1 .. Len(inbox') : i \in 1 .. Len(inbox) \/ i = Len(inbox')
  BY <1>1, <1>2, Appended
<1>4. \A i \in 1 .. Len(outbox') : /\ outbox'[i] <= handled
                                   /\ outbox'[i] # 0 => ack.value <= outbox'[i]
  BY <1>2 DEF OrderInv
<1>5. \A i \in 1 .. Len(inbox') : /\ inbox'[i] <= handled
                                  /\ inbox'[i] # 0 => ack.value <= inbox'[i]
  BY <1>2, <1>3 DEF OrderInv
<1>6. Answers(outbox')
  <2>. SUFFICES ASSUME NEW i \in 1 .. Len(outbox'), NEW j \in 1 .. Len(outbox'), i < j,
                       outbox'[i] # 0, outbox'[j] # 0
                PROVE  outbox'[i] <= outbox'[j]
    BY DEF Answers
  <2>1. i + 1 < j + 1 /\ i + 1 \in 1 .. Len(outbox) /\ j + 1 \in 1 .. Len(outbox)
        /\ outbox'[i] = outbox[i + 1] /\ outbox'[j] = outbox[j + 1]
    BY <1>2
  <2>. QED
    BY <2>1 DEF OrderInv, Answers
<1>7. Answers(inbox')
  <2>. SUFFICES ASSUME NEW i \in 1 .. Len(inbox'), NEW j \in 1 .. Len(inbox'), i < j,
                       inbox'[i] # 0, inbox'[j] # 0
                PROVE  inbox'[i] <= inbox'[j]
    BY DEF Answers
  <2>1. i \in 1 .. Len(inbox)
    BY <1>3
  <2>2. CASE j \in 1 .. Len(inbox)
    BY <1>3, <2>1, <2>2 DEF OrderInv, Answers
  <2>3. CASE j = Len(inbox')
    BY <1>2, <1>3, <2>1, <2>3 DEF OrderInv
  <2>. QED
    BY <1>3, <2>2, <2>3
<1>8. ASSUME NEW i \in 1 .. Len(inbox'), NEW j \in 1 .. Len(outbox'),
             inbox'[i] # 0, outbox'[j] # 0
      PROVE  inbox'[i] <= outbox'[j]
  <2>1. j + 1 \in 1 .. Len(outbox) /\ outbox'[j] = outbox[j + 1] /\ 1 < j + 1
    BY <1>2
  <2>2. CASE i \in 1 .. Len(inbox)
    BY <1>3, <1>8, <2>1, <2>2 DEF OrderInv
  <2>3. CASE i = Len(inbox')
    BY <1>2, <1>3, <1>8, <2>1, <2>3 DEF OrderInv, Answers
  <2>. QED
    BY <1>3, <2>2, <2>3
<1>9. OrderInv'
  BY <1>1, <1>4, <1>5, <1>6, <1>7, <1>8 DEF OrderInv, Answers
<1>. QED
  BY <1>1, <1>2, <1>3, <1>9 DEF ServerTypes

LEMMA ReceiveKeeps ==
  ASSUME OrderInv, ServerTypes, ack \in [value : Nat, stopped : BOOLEAN],
         nextSequence' = nextSequence, Receive
  PROVE  /\ OrderInv' /\ ServerTypes'
         /\ ack' \in [value : Nat, stopped : BOOLEAN] /\ ack'.stopped = ack.stopped
<1>1. /\ inbox \in Seq(Nat) /\ inbox # <<>> /\ inbox' = Tail(inbox)
      /\ UNCHANGED <<control, handled, outbox, alive>>
      /\ ack' = IF Head(inbox) = 0 THEN ack ELSE [ack EXCEPT !.value = Head(inbox)]
  BY DEF Receive, ServerTypes, Acknowledged
<1>2. /\ inbox' \in Seq(Nat) /\ 1 \in 1 .. Len(inbox) /\ Head(inbox) = inbox[1]
      /\ Head(inbox) \in Nat /\ Len(inbox) \in Nat
      /\ \A i \in 1 .. Len(inbox') : i + 1 \in 1 .. Len(inbox) /\ inbox'[i] = inbox[i + 1]
  BY <1>1, Popped
<1>3. /\ ack' \in [value : Nat, stopped : BOOLEAN] /\ ack'.stopped = ack.stopped
      /\ ack'.value = IF inbox[1] = 0 THEN ack.value ELSE inbox[1]
  BY <1>1, <1>2
<1>4. ack'.value <= handled
  BY <1>2, <1>3 DEF OrderInv
<1>5. \A i \in 1 .. Len(outbox) : outbox[i] # 0 => ack'.value <= outbox[i]
  BY <1>2, <1>3 DEF OrderInv
<1>6. ASSUME NEW i \in 1 .. Len(inbox')
      PROVE  inbox'[i] <= handled /\ (inbox'[i] # 0 => ack'.value <= inbox'[i])
  <2>1. i + 1 \in 1 .. Len(inbox) /\ inbox'[i] = inbox[i + 1] /\ 1 < i + 1
    BY <1>2
  <2>. QED
    BY <1>2, <1>3, <2>1 DEF OrderInv, Answers
<1>7. Answers(inbox')
  <2>. SUFFICES ASSUME NEW i \in 1 .. Len(inbox'), NEW j \in 1 .. Len(inbox'), i < j,
                       inbox'[i] # 0, inbox'[j] # 0
                PROVE  inbox'[i] <= inbox'[j]
    BY DEF Answers
  <2>1. i + 1 < j + 1 /\ i + 1 \in 1 .. Len(inbox) /\ j + 1 \in 1 .. Len(inbox)
        /\ inbox'[i] = inbox[i + 1] /\ inbox'[j] = inbox[j + 1]
    BY <1>2
  <2>. QED
    BY <2>1 DEF OrderInv, Answers
<1>8. \A i \in 1 .. Len(inbox'), j \in 1 .. Len(outbox) :
        inbox'[i] # 0 /\ outbox[j] # 0 => inbox'[i] <= outbox[j]
  BY <1>2 DEF OrderInv
<1>9. OrderInv'
  BY <1>1, <1>4, <1>5, <1>6, <1>7, <1>8 DEF OrderInv, Answers
<1>. QED
  BY <1>1, <1>2, <1>3, <1>9 DEF ServerTypes

LEMMA ServerDiesKeeps ==
  ASSUME OrderInv, ServerTypes, SenderCapacity \in Nat, nextSequence' = nextSequence, ServerDies
  PROVE  OrderInv' /\ ServerTypes'
<1>1. /\ control' = <<>> /\ outbox' = <<>> /\ alive' = FALSE
      /\ UNCHANGED <<handled, inbox, ack>>
      /\ Len(control') = 0 /\ Len(outbox') = 0
  BY DEF ServerDies
<1>2. OrderInv'
  BY <1>1 DEF OrderInv, Answers
<1>3. control' \in Seq(Nat) /\ outbox' \in Seq(Nat) /\ Len(outbox') <= SenderCapacity
  BY <1>1
<1>. QED
  BY <1>1, <1>2, <1>3 DEF ServerTypes

-------------------------------------------------------------------------------
(* The Ctrl+v that wait.                                                   *)

(* What leaves the keyboard alone: the clipboard only becomes more recent, *)
(* and the discarded ones stay discarded.                                  *)
LEMMA FreshIdle ==
  ASSUME WaitInv, FreshInv, UNCHANGED <<cfg, queue, event, keys, paste, pasted>>,
         handled \in Nat, handled' \in Nat, handled <= handled', discarded \subseteq discarded',
         thread' \in {"ack", "sending"} \/ thread \in {"ack", "sending"} => thread' = thread,
         thread \in {"ending", "ended"} => thread' \in {"ending", "ended"}
  PROVE  WaitInv' /\ FreshInv'
<1>1. Safe \subseteq Safe'
  BY DEF Safe
<1>2. ASSUME NEW n, NEW seq \in Covered(n) PROVE seq \in Covered(n)'
  BY <1>1, <1>2 DEF Covered
<1>3. WaitInv'
  BY DEF WaitInv, WaiterOK
<1>4. pasted' \in Safe'
  BY <1>1 DEF FreshInv
<1>5. CASE thread' \in {"ending", "ended"}
  BY <1>3, <1>4, <1>5 DEF FreshInv
<1>6. CASE thread' \notin {"ending", "ended"}
  <2>1. ASSUME NEW i \in 1 .. Len(queue'), Pastes(queue'[i])
        PROVE  queue'[i].paste \in Covered(i)'
    <3>1. queue[i].paste \in Covered(i)
      BY <1>6, <2>1 DEF FreshInv
    <3>. QED
      BY <1>2, <3>1
  <2>2. thread' = "sending" /\ Pastes(event') => event'.paste \in Safe'
    BY <1>1, <1>6 DEF FreshInv
  <2>3. "v" \in keys' => paste' \in Covered(Len(queue))'
    BY <1>1, <1>6 DEF FreshInv, Covered
  <2>. QED
    BY <1>3, <1>4, <2>1, <2>2, <2>3 DEF FreshInv
<1>. QED
  BY <1>5, <1>6

LEMMA PopKeeps ==
  ASSUME WaitInv, FreshInv, queue \in Seq(Events), handled \in Nat, Pop
  PROVE  /\ WaitInv' /\ FreshInv'
         /\ queue' \in Seq(Events) /\ event' \in Events
         /\ thread' \in {"ack", "sending"}
<1>1. /\ thread = "idle" /\ queue # <<>> /\ event' = Head(queue) /\ queue' = Tail(queue)
      /\ thread' = IF event'.type = "input" /\ event'.ack # 0 THEN "ack" ELSE "sending"
      /\ UNCHANGED <<cfg, keys, paste, pasted, discarded, handled>>
  BY DEF Pop, ThreadUnchanged, deviceVars, serverVars
<1>2. /\ queue' \in Seq(Events) /\ Len(queue) \in Nat /\ Len(queue') = Len(queue) - 1
      /\ 1 \in 1 .. Len(queue) /\ event' = queue[1] /\ event' \in Events
      /\ \A i \in 1 .. Len(queue') : i + 1 \in 1 .. Len(queue) /\ queue'[i] = queue[i + 1]
  BY <1>1, Popped
<1>3. WaitInv'
  BY <1>1, <1>2 DEF WaitInv, WaiterOK, Waits
<1>4. Safe' = Safe
  BY <1>1 DEF Safe
<1>5. ASSUME NEW n \in 1 .. Len(queue), NEW k \in 0 .. Len(queue'), k + 1 = n, NEW seq \in Covered(n)
      PROVE  seq \in Covered(k)'
  <2>1. CASE seq \in Safe
    BY <1>4, <2>1 DEF Covered, Safe
  <2>2. ASSUME NEW i \in 1 .. n, Waits(queue[i]), queue[i].ack = seq
        PROVE  seq \in Covered(k)'
    <3>1. CASE i = 1
      <4>1. thread' = "ack" /\ event'.ack = seq
        BY <1>1, <1>2, <2>2, <3>1 DEF Waits
      <4>. QED
        BY <1>5, <4>1 DEF Covered
    <3>2. CASE i # 1
      <4>1. i - 1 \in 1 .. k /\ i - 1 \in 1 .. Len(queue') /\ (i - 1) + 1 = i
        BY <1>2, <1>5, <2>2, <3>2
      <4>2. queue'[i - 1] = queue[i]
        BY <1>2, <4>1
      <4>. QED
        BY <1>5, <2>2, <4>1, <4>2 DEF Covered
    <3>. QED
      BY <3>1, <3>2
  <2>. QED
    BY <1>1, <1>5, <2>1, <2>2 DEF Covered
<1>6. ASSUME NEW i \in 1 .. Len(queue'), Pastes(queue'[i])
      PROVE  queue'[i].paste \in Covered(i)'
  <2>1. i + 1 \in 1 .. Len(queue) /\ queue'[i] = queue[i + 1] /\ i \in 0 .. Len(queue')
    BY <1>2
  <2>2. queue[i + 1].paste \in Covered(i + 1)
    BY <1>1, <1>6, <2>1 DEF FreshInv
  <2>. QED
    BY <1>5, <2>1, <2>2
<1>7. thread' = "sending" /\ Pastes(event') => event'.paste \in Safe'
  <2>. SUFFICES ASSUME thread' = "sending", Pastes(event') PROVE event'.paste \in Safe
    BY <1>4
  <2>1. queue[1].paste \in Covered(1)
    BY <1>1, <1>2 DEF FreshInv
  <2>2. ~Waits(queue[1])
    BY <1>1, <1>2 DEF Waits
  <2>. QED
    BY <1>1, <1>2, <2>1, <2>2 DEF Covered
<1>8. "v" \in keys' => paste' \in Covered(Len(queue))'
  <2>. SUFFICES ASSUME "v" \in keys PROVE paste \in Covered(Len(queue))'
    BY <1>1
  <2>1. Len(queue) \in 1 .. Len(queue) /\ paste \in Covered(Len(queue))
        /\ Len(queue') \in 0 .. Len(queue') /\ Len(queue') + 1 = Len(queue)
    BY <1>1, <1>2 DEF FreshInv
  <2>2. \A k : k = Len(queue') => paste \in Covered(k)'
    BY <1>5, <2>1
  <2>. QED
    BY <2>2 DEF Covered
<1>9. FreshInv'
  BY <1>1, <1>4, <1>6, <1>7, <1>8 DEF FreshInv
<1>. QED
  BY <1>1, <1>2, <1>3, <1>9

LEMMA AckKeeps ==
  ASSUME WaitInv, FreshInv, ack.value \in Nat, handled \in Nat, ack.value <= handled,
         event \in Events, WaitAck \/ AckTimeout
  PROVE  WaitInv' /\ FreshInv'
<1>1. /\ thread = "ack" /\ Waits(event) /\ WaiterOK(event) /\ event.ack \in Nat
      /\ UNCHANGED <<cfg, queue, keys, paste, pasted, handled>>
  <2>1. Waits(event) /\ WaiterOK(event)
    BY DEF WaitInv, WaitAck, AckTimeout
  <2>2. event.ack \in 0 .. nextSequence
    BY <2>1, EventShape DEF Waits, Seqs
  <2>. QED
    BY <2>1, <2>2 DEF WaitAck, AckTimeout, ThreadUnchanged, deviceVars, serverVars
<1>2. CASE thread' = "ending"
  <2>1. event' = event /\ discarded' = discarded
    BY <1>2 DEF WaitAck, AckTimeout
  <2>2. Safe' = Safe
    BY <1>1, <2>1 DEF Safe
  <2>. QED
    BY <1>1, <1>2, <2>1, <2>2 DEF WaitInv, WaiterOK, FreshInv
<1>3. CASE thread' \in {"sending", "idle"}
  <2>1. /\ handled >= event.ack \/ event.ack \in discarded'
        /\ discarded \subseteq discarded'
        /\ thread' = "sending" => event' = event
        /\ thread' = "idle" => event' = None
    BY <1>1, <1>3 DEF WaitAck, AckTimeout, Covers
  <2>2. Safe \subseteq Safe'
    BY <1>1, <2>1 DEF Safe
  <2>3. event.ack \in Safe'
    BY <1>1, <2>1 DEF Safe
  <2>4. ASSUME NEW n, NEW seq \in Covered(n) PROVE seq \in Covered(n)'
    BY <1>1, <2>2, <2>3 DEF Covered
  <2>5. ASSUME NEW i \in 1 .. Len(queue'), Pastes(queue'[i])
        PROVE  queue'[i].paste \in Covered(i)'
    <3>1. queue[i].paste \in Covered(i)
      BY <1>1, <2>5 DEF FreshInv
    <3>. QED
      BY <1>1, <2>4, <3>1
  <2>6. thread' = "sending" /\ Pastes(event') => event'.paste \in Safe'
    BY <1>1, <2>1, <2>3 DEF WaiterOK
  <2>7. "v" \in keys' => paste' \in Covered(Len(queue))'
    BY <1>1, <2>2, <2>3 DEF FreshInv, Covered
  <2>8. pasted' \in Safe'
    BY <1>1, <2>2 DEF FreshInv
  <2>9. FreshInv'
    BY <1>1, <2>5, <2>6, <2>7, <2>8 DEF FreshInv
  <2>10. WaitInv'
    BY <1>1, <1>3, <2>1 DEF WaitInv, WaiterOK, Waits, None
  <2>. QED
    BY <2>9, <2>10
<1>. QED
  BY <1>2, <1>3 DEF WaitAck, AckTimeout

(* The event is sent, or it was not an input.                              *)
LEMMA DoneKeeps ==
  ASSUME WaitInv, FreshInv, thread = "sending", thread' = "idle", event' = None,
         UNCHANGED <<cfg, queue, keys, paste, handled, discarded>>,
         pasted' = pasted \/ (Pastes(event) /\ pasted' = event.paste)
  PROVE  WaitInv' /\ FreshInv'
<1>1. Safe' = Safe
  BY DEF Safe
<1>2. ASSUME NEW n, NEW seq \in Covered(n) PROVE seq \in Covered(n)'
  BY <1>1 DEF Covered
<1>3. pasted' \in Safe'
  BY <1>1 DEF FreshInv
<1>4. ASSUME NEW i \in 1 .. Len(queue'), Pastes(queue'[i])
      PROVE  queue'[i].paste \in Covered(i)'
  <2>1. queue[i].paste \in Covered(i)
    BY <1>4 DEF FreshInv
  <2>. QED
    BY <1>2, <2>1
<1>5. "v" \in keys' => paste' \in Covered(Len(queue))'
  BY <1>1 DEF FreshInv, Covered
<1>6. FreshInv'
  BY <1>3, <1>4, <1>5 DEF FreshInv
<1>. QED
  BY <1>6 DEF WaitInv, WaiterOK, Waits, None

(* Another event is pushed, or dropped.                                    *)
LEMMA PushKeeps ==
  ASSUME WaitInv, FreshInv, queue \in Seq(Events), NEW e \in Events, ~Pastes(e), ~Waits(e),
         queue' \in {queue, Append(queue, e)}, Signal(queue),
         UNCHANGED <<cfg, event, keys, paste, pasted, handled, discarded>>
  PROVE  WaitInv' /\ FreshInv' /\ queue' \in Seq(Events)
<1>1. /\ queue' \in Seq(Events) /\ Len(queue) \in Nat /\ Len(queue') \in Nat
      /\ Len(queue) <= Len(queue')
      /\ \A i \in 1 .. Len(queue) : i \in 1 .. Len(queue') /\ queue'[i] = queue[i]
      /\ \A i \in 1 .. Len(queue') : i \in 1 .. Len(queue) \/ queue'[i] = e
  <2>1. CASE queue' = queue
    BY <2>1
  <2>2. CASE queue' = Append(queue, e)
    BY <2>2, Appended
  <2>. QED
    BY <2>1, <2>2
<1>2. /\ thread' \in {"ack", "sending", "ending", "ended"}
           \/ thread \in {"ack", "sending", "ending", "ended"} => thread' = thread
  BY DEF Signal
<1>3. Safe' = Safe
  BY DEF Safe
<1>4. ASSUME NEW n \in 0 .. Len(queue), NEW k \in Nat, n <= k, NEW seq \in Covered(n)
      PROVE  seq \in Covered(k)'
  <2>1. \A i \in 1 .. n : i \in 1 .. k /\ queue'[i] = queue[i]
    BY <1>1, <1>4
  <2>. QED
    BY <1>2, <1>3, <2>1 DEF Covered
<1>5. CASE thread' \notin {"ending", "ended"}
  <2>1. ASSUME NEW i \in 1 .. Len(queue'), Pastes(queue'[i])
        PROVE  queue'[i].paste \in Covered(i)'
    <3>1. i \in 1 .. Len(queue) /\ queue'[i] = queue[i]
      BY <1>1, <2>1
    <3>2. queue[i].paste \in Covered(i)
      BY <1>2, <1>5, <2>1, <3>1 DEF FreshInv
    <3>. QED
      BY <1>1, <1>4, <3>1, <3>2
  <2>2. "v" \in keys' => paste' \in Covered(Len(queue))'
    <3>1. "v" \in keys => \A k : k = Len(queue') => paste \in Covered(k)'
      BY <1>1, <1>2, <1>4, <1>5 DEF FreshInv
    <3>. QED
      BY <3>1 DEF Covered
  <2>. QED
    BY <1>1, <1>2, <1>3, <1>5, <2>1, <2>2 DEF FreshInv, WaitInv, WaiterOK
<1>6. CASE thread' \in {"ending", "ended"}
  BY <1>1, <1>2, <1>3, <1>6 DEF FreshInv, WaitInv, WaiterOK
<1>. QED
  BY <1>5, <1>6

(* A key is reported, perhaps after the state of the lock keys.            *)
LEMMA ProcessKeyKeeps ==
  ASSUME WaitInv, FreshInv, queue \in Seq(Events), handled \in Nat, QueueLimit \in Nat,
         nextSequence \in Nat, nextSequence' \in Nat, nextSequence <= nextSequence',
         NEW ks \in SUBSET Keys, NEW seq \in 0 .. nextSequence', NEW wait \in 0 .. nextSequence',
         ProcessKey(ks, seq, wait), UNCHANGED <<cfg, pasted, handled>>,
         ~cfg.autosync => seq = 0,
         \/ wait # 0 /\ wait = seq /\ cfg.autosync
         \/ wait = 0 /\ seq = paste /\ ("v" \in ks => "v" \in keys \/ ~cfg.autosync)
  PROVE  /\ WaitInv' /\ FreshInv' /\ queue' \in Seq(Events')
<1>. DEFINE E == Input("keyboard", ks, seq, wait)
            A == AfterSync
<1>1. /\ keys' = ks /\ paste' = seq /\ queue' = PushInput(A, E) /\ Signal(queue)
      /\ discarded' = IF wait # 0 /\ ~Room(A) THEN discarded \cup {wait} ELSE discarded
      /\ UNCHANGED <<event>>
  BY DEF ProcessKey, Enqueue
<1>2. queue \in Seq(Events') /\ E \in Events' /\ LockReport \in Events'
  <2>1. queue \in Seq(Events')
    BY EventsGrow, SeqGrows
  <2>. QED
    BY <2>1 DEF Events, HidIds, LockReport
<1>3. /\ E.type = "input" /\ E.id = "keyboard"
      /\ E.keys = ks /\ E.paste = seq /\ E.ack = wait
      /\ ~Waits(LockReport) /\ ~Pastes(LockReport)
  BY DEF Input, LockReport, Waits, Pastes
<1>4. A = queue \/ A = Append(queue, LockReport)
  BY DEF AfterSync, PushInput
<1>5. (queue' = A /\ ~Room(A)) \/ (queue' = Append(A, E) /\ Room(A))
  BY <1>1 DEF PushInput, Room
<1>. HIDE DEF A, E
<1>6. /\ A \in Seq(Events') /\ Len(A) \in Nat /\ Len(queue) \in Nat /\ Len(queue) <= Len(A)
      /\ \A i \in 1 .. Len(queue) : i \in 1 .. Len(A) /\ A[i] = queue[i]
      /\ \A i \in 1 .. Len(A) : i \in 1 .. Len(queue) \/ A[i] = LockReport
  <2>1. CASE A = queue
    BY <1>2, <2>1
  <2>2. CASE A = Append(queue, LockReport)
    BY <1>2, <2>2, Appended
  <2>. QED
    BY <1>4, <2>1, <2>2
<1>7. /\ queue' \in Seq(Events') /\ Len(queue') \in Nat /\ Len(A) <= Len(queue')
      /\ \A i \in 1 .. Len(A) : i \in 1 .. Len(queue') /\ queue'[i] = A[i]
      /\ \A i \in 1 .. Len(queue') : i \in 1 .. Len(A) \/ (i = Len(queue') /\ queue'[i] = E)
      /\ Room(A) => Len(queue') \in 1 .. Len(queue') /\ queue'[Len(queue')] = E
  <2>1. CASE queue' = A /\ ~Room(A)
    BY <1>6, <2>1 DEF Room
  <2>2. CASE queue' = Append(A, E)
    <3>1. /\ queue' \in Seq(Events') /\ Len(queue') = Len(A) + 1 /\ queue'[Len(queue')] = E
          /\ \A i \in 1 .. Len(A) : i \in 1 .. Len(queue') /\ queue'[i] = A[i]
          /\ \A i \in 1 .. Len(queue') : i \in 1 .. Len(A) \/ i = Len(queue')
      BY <1>2, <1>6, <2>2, Appended
    <3>2. Len(queue') \in Nat /\ Len(queue') \in 1 .. Len(queue') /\ Len(A) <= Len(queue')
      BY <1>6, <3>1
    <3>. QED
      BY <3>1, <3>2
  <2>. QED
    BY <1>5, <2>1, <2>2
<1>8. /\ Len(queue) <= Len(queue')
      /\ \A i \in 1 .. Len(queue) : i \in 1 .. Len(queue') /\ queue'[i] = queue[i]
      /\ \A i \in 1 .. Len(queue') :
           \/ i \in 1 .. Len(queue)
           \/ queue'[i] = LockReport
           \/ (i = Len(queue') /\ queue'[i] = E)
  BY <1>6, <1>7
<1>9. /\ thread' \in {"ack", "sending", "ending", "ended"}
           \/ thread \in {"ack", "sending", "ending", "ended"} => thread' = thread
  BY <1>1 DEF Signal
<1>10. Safe \subseteq Safe'
  BY <1>1 DEF Safe
<1>11. ASSUME NEW n \in 0 .. Len(queue), NEW k \in Nat, n <= k, NEW s \in Covered(n)
       PROVE  s \in Covered(k)'
  <2>1. \A i \in 1 .. n : i \in 1 .. k /\ queue'[i] = queue[i]
    BY <1>6, <1>8, <1>11
  <2>. QED
    BY <1>1, <1>9, <1>10, <2>1 DEF Covered
<1>12. ASSUME thread' \notin {"ending", "ended"}, "v" \in ks
       PROVE  \A k : k = Len(queue') => seq \in Covered(k)'
  <2>1. seq \in Nat
    OBVIOUS
  <2>2. CASE wait # 0 /\ wait = seq /\ Room(A)
    BY <1>3, <1>7, <2>1, <2>2 DEF Covered, Waits
  <2>3. CASE wait # 0 /\ wait = seq /\ ~Room(A)
    BY <1>1, <2>1, <2>3 DEF Covered, Safe
  <2>4. CASE "v" \in keys /\ seq = paste
    <3>1. paste \in Covered(Len(queue)) /\ Len(queue) \in 0 .. Len(queue)
      BY <1>6, <1>9, <1>12, <2>4 DEF FreshInv
    <3>. QED
      BY <1>7, <1>8, <1>11, <2>4, <3>1
  <2>5. CASE seq = 0
    BY <1>1, <2>5 DEF Covered, Safe
  <2>. QED
    BY <1>12, <2>2, <2>3, <2>4, <2>5
<1>13. ASSUME thread' \notin {"ending", "ended"}, NEW i \in 1 .. Len(queue'), Pastes(queue'[i])
       PROVE  queue'[i].paste \in Covered(i)'
  <2>1. CASE i \in 1 .. Len(queue)
    <3>1. queue[i].paste \in Covered(i) /\ queue'[i] = queue[i]
      BY <1>8, <1>9, <1>13, <2>1 DEF FreshInv
    <3>. QED
      BY <1>6, <1>11, <2>1, <3>1
  <2>2. CASE i = Len(queue') /\ queue'[i] = E
    BY <1>3, <1>12, <1>13, <2>2 DEF Pastes
  <2>. QED
    BY <1>3, <1>8, <1>13, <2>1, <2>2
<1>14. FreshInv'
  <2>1. "v" \in keys' /\ thread' \notin {"ending", "ended"} => paste' \in Covered(Len(queue))'
    <3>. SUFFICES ASSUME "v" \in keys', thread' \notin {"ending", "ended"}
                  PROVE  paste' \in Covered(Len(queue))'
      OBVIOUS
    <3>1. \A k : k = Len(queue') => paste' \in Covered(k)'
      BY <1>1, <1>12
    <3>. QED
      BY <3>1 DEF Covered
  <2>2. pasted' \in Safe'
    BY <1>10 DEF FreshInv
  <2>3. thread' = "sending" /\ Pastes(event') => event'.paste \in Safe'
    BY <1>1, <1>9, <1>10 DEF FreshInv
  <2>. QED
    BY <1>13, <2>1, <2>2, <2>3 DEF FreshInv
<1>15. WaitInv'
  <2>1. WaiterOK(E)
    BY <1>3 DEF WaiterOK, Waits
  <2>2. \A i \in 1 .. Len(queue') : WaiterOK(queue'[i])
    <3>1. WaiterOK(LockReport)
      BY <1>3 DEF WaiterOK
    <3>. QED
      BY <1>8, <2>1, <3>1 DEF WaitInv
  <2>3. WaiterOK(event') /\ (thread' = "ack" => Waits(event'))
    BY <1>1, <1>9 DEF WaitInv
  <2>4. ~cfg'.autosync => paste' = 0
    BY <1>1
  <2>. QED
    BY <2>2, <2>3, <2>4 DEF WaitInv, WaiterOK
<1>. QED
  BY <1>7, <1>14, <1>15

-------------------------------------------------------------------------------
(* The steps.                                                              *)

LEMMA AoaInit == Init => AoaInv
<1>. SUFFICES ASSUME Init PROVE AoaInv
  OBVIOUS
<1>1. MainTypes /\ UsbTypes /\ DeviceTypes
  <2>1. watcher \in {"none", "running", "ended"}
    BY DEF Init
  <2>2. UsbTypes
    BY <2>1 DEF Init, UsbTypes
  <2>0. nextSequence = 1 /\ 0 \in 0 .. nextSequence /\ nextSequence \in Nat \ {0}
    BY DEF Init
  <2>3. MainTypes
    BY <2>0 DEF Init, MainTypes
  <2>4. DeviceTypes
    BY <2>0 DEF Init, DeviceTypes
  <2>. QED
    BY <2>2, <2>3, <2>4
<1>2. ServerTypes
  BY AoaAssumption, EmptySeq DEF Init, ServerTypes
<1>3. /\ queue \in Seq(Events)
      /\ \A i \in 1 .. Len(queue) : queue[i].type = "open"
  <2>1. \A id \in HidIds : Open(id) \in Events /\ Open(id).type = "open"
    BY OtherEvents DEF Open
  <2>. DEFINE S == {Open(id) : id \in HidIds}
  <2>2. S \subseteq Events /\ \A e \in S : e.type = "open"
    BY <2>1
  <2>3. \A id \in HidIds : Opens(id) \in Seq(S)
    <3>. SUFFICES ASSUME NEW id \in HidIds PROVE Opens(id) \in Seq(S)
      OBVIOUS
    <3>1. Open(id) \in S
      OBVIOUS
    <3>. HIDE DEF S
    <3>2. <<Open(id)>> \in Seq(S)
      BY <3>1
    <3>. QED
      BY <3>2, EmptySeq DEF Opens
  <2>4. "keyboard" \in HidIds /\ "mouse" \in HidIds
    BY DEF HidIds
  <2>. HIDE DEF S
  <2>5. queue \in Seq(S)
    BY <2>3, <2>4, ConcatProperties DEF Init
  <2>6. queue \in Seq(Events)
    BY <2>2, <2>5, SeqGrows
  <2>. QED
    BY <2>2, <2>5, <2>6
<1>4. ThreadTypes
  BY <1>3, OtherEvents, EmptySeq DEF Init, ThreadTypes
<1>5. OrderInv
  BY DEF Init, OrderInv, Answers
<1>6. WaitInv
  BY <1>3 DEF Init, WaitInv, WaiterOK, Waits, None
<1>7. FreshInv
  BY <1>3 DEF Init, FreshInv, Safe, Pastes
<1>. QED
  BY <1>1, <1>2, <1>4, <1>5, <1>6, <1>7 DEF Init, AoaInv, TypeInv, StartInv

(* What the events of the user leave alone.                                *)
LEMMA UserFrame ==
  ASSUME AoaInv, UserEvent, UNCHANGED <<stopped, vecOpen, ack>>,
         nextSequence' \in Nat, nextSequence <= nextSequence',
         keys' \subseteq Keys, synced' \in BOOLEAN, plugged' \in BOOLEAN,
         paste' \in 0 .. nextSequence', Signal(queue),
         queue' \in Seq(Events'), UNCHANGED event,
         ServerTypes', OrderInv', WaitInv', FreshInv'
  PROVE  AoaInv'
<1>1. TypeInv /\ UNCHANGED <<cfg, main, posted, usbVars, deviceVars>>
  BY DEF AoaInv, UserEvent
<1>2. nextSequence \in Nat \ {0} /\ nextSequence' \in Nat \ {0}
  <2>1. nextSequence \in Nat \ {0}
    BY <1>1 DEF TypeInv, MainTypes
  <2>. QED
    BY <2>1
<1>3. MainTypes'
  BY <1>1, <1>2 DEF TypeInv, MainTypes
<1>4. UsbTypes' /\ DeviceTypes'
  <2>1. pasted \in 0 .. nextSequence /\ pasted' = pasted
    BY <1>1 DEF TypeInv, DeviceTypes, deviceVars
  <2>2. pasted' \in 0 .. nextSequence'
    BY <1>2, <2>1
  <2>3. DeviceTypes'
    BY <1>1, <2>2 DEF TypeInv, DeviceTypes, deviceVars
  <2>. QED
    BY <1>1, <2>3 DEF TypeInv, UsbTypes, usbVars
<1>5. thread' \in {"off", "idle", "waiting", "ack", "sending", "ending", "ended"}
  BY <1>1 DEF TypeInv, ThreadTypes, Signal
<1>6. event' \in Events'
  BY <1>1, EventsGrow DEF TypeInv, ThreadTypes, MainTypes
<1>7. ThreadTypes'
  BY <1>1, <1>5, <1>6 DEF TypeInv, ThreadTypes
<1>8. StartInv'
  BY <1>1 DEF UserEvent, StartInv
<1>. QED
  BY <1>3, <1>4, <1>7, <1>8 DEF AoaInv, TypeInv

(* A key is pressed or released, without a request.                        *)
LEMMA KeyKeeps ==
  ASSUME AoaInv, QueueLimit \in Nat, UserEvent, NEW ks \in SUBSET Keys,
         ProcessKey(ks, paste, 0), "v" \in ks => "v" \in keys \/ ~cfg.autosync,
         UNCHANGED <<nextSequence, serverVars>>
  PROVE  AoaInv'
<1>1. /\ UNCHANGED <<cfg, pasted, handled, stopped, vecOpen, ack, event, plugged>>
      /\ keys' = ks /\ paste' = paste /\ Signal(queue)
      /\ synced' = (synced \/ ~NeedsSync \/ Room(queue))
  BY DEF UserEvent, deviceVars, serverVars, ProcessKey, Enqueue
<1>2. /\ queue \in Seq(Events) /\ handled \in Nat
      /\ nextSequence \in Nat /\ paste \in 0 .. nextSequence
      /\ WaitInv /\ FreshInv /\ OrderInv /\ ServerTypes
      /\ plugged \in BOOLEAN /\ synced \in BOOLEAN
      /\ (~cfg.autosync => paste = 0)
  BY DEF AoaInv, TypeInv, ThreadTypes, ServerTypes, MainTypes, WaitInv
<1>3. WaitInv' /\ FreshInv' /\ queue' \in Seq(Events')
  BY <1>1, <1>2, ProcessKeyKeeps
<1>4. ServerTypes' /\ OrderInv'
  BY <1>1, <1>2, OrderIdle DEF ServerTypes, serverVars
<1>. QED
  BY <1>1, <1>2, <1>3, <1>4, UserFrame

LEMMA CtrlVKeeps ==
  ASSUME AoaInv, QueueLimit \in Nat, CtrlV
  PROVE  AoaInv'
<1>1. /\ UserEvent /\ ProcessKey(keys \cup {"v"}, nextSequence, nextSequence)
      /\ UNCHANGED <<cfg, pasted, handled, outbox, inbox, alive, stopped, vecOpen, ack, event, plugged>>
      /\ keys' = keys \cup {"v"} /\ paste' = nextSequence /\ Signal(queue) /\ cfg.autosync
      /\ synced' = (synced \/ ~NeedsSync \/ Room(queue))
      /\ nextSequence' = nextSequence + 1
      /\ control' = IF alive THEN Append(control, nextSequence) ELSE control
  BY DEF CtrlV, UserEvent, deviceVars, ProcessKey, Enqueue
<1>2. /\ queue \in Seq(Events) /\ handled \in Nat /\ nextSequence \in Nat \ {0}
      /\ WaitInv /\ FreshInv /\ OrderInv /\ ServerTypes
      /\ plugged \in BOOLEAN /\ synced \in BOOLEAN
      /\ keys \in SUBSET Keys
  BY DEF AoaInv, TypeInv, ThreadTypes, ServerTypes, MainTypes
<1>3. keys \cup {"v"} \in SUBSET Keys
  BY <1>2 DEF Keys
<1>4. WaitInv' /\ FreshInv' /\ queue' \in Seq(Events')
  <2>1. nextSequence' \in Nat /\ nextSequence <= nextSequence' /\ nextSequence \in 0 .. nextSequence'
        /\ nextSequence # 0
    BY <1>1, <1>2
  <2>. QED
    BY <1>1, <1>2, <1>3, <2>1, ProcessKeyKeeps
<1>5. OrderInv'
  BY <1>1, <1>2, RequestKeeps
<1>6. ServerTypes'
  BY <1>1, <1>2 DEF ServerTypes
<1>. QED
  BY <1>1, <1>2, <1>3, <1>4, <1>5, <1>6, UserFrame

(* An event of another device, or the opening or closing of the gamepad.   *)
LEMMA OtherUserEventKeeps ==
  ASSUME AoaInv, UserEvent, UNCHANGED <<keys, paste, synced, nextSequence, serverVars, discarded>>,
         plugged' \in BOOLEAN, NEW e \in Events, ~Pastes(e), ~Waits(e),
         Enqueue(PushInput(queue, e)) \/ Enqueue(Append(queue, e))
  PROVE  AoaInv'
<1>1. /\ UNCHANGED <<cfg, pasted, handled, stopped, vecOpen, ack, event>>
      /\ Signal(queue) /\ queue' \in {queue, Append(queue, e)}
  BY DEF UserEvent, deviceVars, serverVars, Enqueue, PushInput
<1>2. /\ queue \in Seq(Events) /\ nextSequence \in Nat /\ paste \in 0 .. nextSequence
      /\ WaitInv /\ FreshInv /\ OrderInv /\ ServerTypes
      /\ synced \in BOOLEAN /\ keys \subseteq Keys
  BY DEF AoaInv, TypeInv, ThreadTypes, MainTypes
<1>3. WaitInv' /\ FreshInv' /\ queue' \in Seq(Events)
  BY <1>1, <1>2, PushKeeps
<1>4. Events' = Events
  BY EventsSame
<1>5. ServerTypes' /\ OrderInv'
  BY <1>1, <1>2, OrderIdle DEF ServerTypes, serverVars
<1>. QED
  BY <1>1, <1>2, <1>3, <1>4, <1>5, UserFrame

LEMMA UserKeeps ==
  ASSUME AoaInv, QueueLimit \in Nat, User
  PROVE  AoaInv'
<1>1. keys \subseteq Keys /\ plugged \in BOOLEAN
  BY DEF AoaInv, TypeInv, MainTypes
<1>2. ASSUME NEW k \in Keys, KeyPress(k) PROVE AoaInv'
  <2>1. /\ UserEvent /\ ProcessKey(keys \cup {k}, paste, 0)
        /\ UNCHANGED <<nextSequence, serverVars>> /\ (k = "v" => ~cfg.autosync)
    BY <1>2 DEF KeyPress
  <2>2. keys \cup {k} \in SUBSET Keys /\ ("v" \in keys \cup {k} => "v" \in keys \/ ~cfg.autosync)
    BY <1>1, <2>1
  <2>. QED
    BY <2>1, <2>2, KeyKeeps
<1>3. ASSUME NEW k \in Keys, KeyRelease(k) PROVE AoaInv'
  <2>1. /\ UserEvent /\ ProcessKey(keys \ {k}, paste, 0)
        /\ UNCHANGED <<nextSequence, serverVars>>
    BY <1>3 DEF KeyRelease
  <2>2. keys \ {k} \in SUBSET Keys /\ ("v" \in keys \ {k} => "v" \in keys)
    BY <1>1
  <2>. QED
    BY <2>1, <2>2, KeyKeeps
<1>4. ASSUME NEW id \in HidIds
      PROVE  LET e == Input(id, {}, 0, 0) IN e \in Events /\ ~Pastes(e) /\ ~Waits(e)
  <2>1. 0 \in 0 .. nextSequence
    <3>1. nextSequence \in Nat
      BY DEF AoaInv, TypeInv, MainTypes
    <3>. QED
      BY <3>1
  <2>2. Input(id, {}, 0, 0) \in Events
    BY <2>1, InputIsEvent DEF Seqs
  <2>. QED
    BY <2>2 DEF Input, Pastes, Waits
<1>5. /\ Open("gamepad") \in Events /\ Close("gamepad") \in Events
      /\ Open("gamepad").type = "open" /\ Close("gamepad").type = "close"
  BY OtherEvents DEF Open, Close, HidIds
<1>6. CASE MouseEvent
  <2>1. /\ UserEvent /\ Enqueue(PushInput(queue, Input("mouse", {}, 0, 0)))
        /\ plugged' = plugged
        /\ UNCHANGED <<keys, paste, synced, nextSequence, serverVars, discarded>>
    BY <1>6 DEF MouseEvent
  <2>2. "mouse" \in HidIds
    BY DEF HidIds
  <2>. QED
    BY <1>1, <1>4, <2>1, <2>2, OtherUserEventKeeps
<1>7. CASE GamepadInput
  <2>1. /\ UserEvent /\ Enqueue(PushInput(queue, Input("gamepad", {}, 0, 0)))
        /\ plugged' = plugged
        /\ UNCHANGED <<keys, paste, synced, nextSequence, serverVars, discarded>>
    BY <1>7 DEF GamepadInput
  <2>2. "gamepad" \in HidIds
    BY DEF HidIds
  <2>. QED
    BY <1>1, <1>4, <2>1, <2>2, OtherUserEventKeeps
<1>8. CASE GamepadAdded
  <2>1. /\ UserEvent /\ Enqueue(Append(queue, Open("gamepad"))) /\ plugged' = TRUE
        /\ UNCHANGED <<keys, paste, synced, nextSequence, serverVars, discarded>>
    BY <1>8 DEF GamepadAdded
  <2>. QED
    BY <1>5, <2>1, OtherUserEventKeeps DEF Pastes, Waits
<1>9. CASE GamepadRemoved
  <2>1. /\ UserEvent /\ Enqueue(Append(queue, Close("gamepad"))) /\ plugged' = FALSE
        /\ UNCHANGED <<keys, paste, synced, nextSequence, serverVars, discarded>>
    BY <1>9 DEF GamepadRemoved
  <2>. QED
    BY <1>5, <2>1, OtherUserEventKeeps DEF Pastes, Waits
<1>. QED
  BY <1>2, <1>3, <1>6, <1>7, <1>8, <1>9, CtrlVKeeps DEF User

LEMMA ServerKeeps ==
  ASSUME AoaInv, SenderCapacity \in Nat, Server
  PROVE  AoaInv'
<1>1. /\ UNCHANGED <<cfg, mainVars, queue, stopped, thread, event, vecOpen, usbVars, deviceVars, discarded>>
      /\ handled' = handled \/ SetClipboard
  BY DEF Server, SetClipboard, ClipboardChanged, SendDeviceMessage, Receive,
    ServerDies, ServerUnchanged
<1>2. /\ TypeInv /\ OrderInv /\ WaitInv /\ FreshInv /\ StartInv /\ ServerTypes
      /\ nextSequence \in Nat /\ nextSequence' = nextSequence
      /\ ack \in [value : Nat, stopped : BOOLEAN] /\ handled \in Nat
  BY <1>1 DEF AoaInv, TypeInv, MainTypes, ThreadTypes, ServerTypes, mainVars
<1>3. /\ OrderInv' /\ ServerTypes' /\ handled <= handled'
      /\ ack' \in [value : Nat, stopped : BOOLEAN] /\ ack'.stopped = ack.stopped
  <2>1. CASE SetClipboard
    BY <1>2, <2>1, SetClipboardKeeps DEF SetClipboard, ServerTypes
  <2>2. CASE ClipboardChanged
    BY <1>2, <2>2, ClipboardChangedKeeps DEF ClipboardChanged
  <2>3. CASE SendDeviceMessage
    BY <1>2, <2>3, SendDeviceMessageKeeps DEF SendDeviceMessage
  <2>4. CASE Receive
    BY <1>2, <2>4, ReceiveKeeps DEF Receive
  <2>5. CASE ServerDies
    <3>1. handled' = handled /\ ack' = ack
      BY <2>5 DEF ServerDies
    <3>2. OrderInv' /\ ServerTypes'
      BY <1>2, <2>5, ServerDiesKeeps
    <3>. QED
      BY <1>2, <3>1, <3>2
  <2>. QED
    BY <2>1, <2>2, <2>3, <2>4, <2>5 DEF Server
<1>4. handled' \in Nat
  BY <1>3 DEF ServerTypes
<1>5. WaitInv' /\ FreshInv'
  BY <1>1, <1>2, <1>3, <1>4, FreshIdle DEF mainVars, deviceVars
<1>6. MainTypes' /\ UsbTypes' /\ DeviceTypes'
  BY <1>1, <1>2 DEF TypeInv, MainTypes, UsbTypes, DeviceTypes, mainVars, usbVars,
    deviceVars
<1>7. ThreadTypes'
  BY <1>1, <1>2, <1>3, EventsSame DEF TypeInv, ThreadTypes
<1>8. StartInv'
  BY <1>1, <1>2, <1>3 DEF StartInv, mainVars
<1>. QED
  BY <1>3, <1>5, <1>6, <1>7, <1>8 DEF AoaInv, TypeInv

(* What the AOA thread leaves alone.                                       *)
LEMMA ThreadFrame ==
  ASSUME AoaInv, ThreadUnchanged, UNCHANGED ack,
         posted' \subseteq {"open error", "disconnected"}, notified' \in BOOLEAN,
         DeviceTypes', queue' \in Seq(Events), event' \in Events, vecOpen' \in Seq(HidIds),
         thread' \in {"off", "idle", "waiting", "ack", "sending", "ending", "ended"},
         thread # "off", WaitInv', FreshInv'
  PROVE  AoaInv'
<1>1. /\ UNCHANGED <<cfg, main, events, keys, paste, synced, plugged, nextSequence, stopped,
                     watcher, usbStopped, connected, serverVars>>
      /\ TypeInv /\ OrderInv /\ StartInv
  BY DEF AoaInv, ThreadUnchanged
<1>2. MainTypes' /\ UsbTypes'
  BY <1>1 DEF TypeInv, MainTypes, UsbTypes
<1>3. ServerTypes' /\ OrderInv'
  BY <1>1, OrderIdle DEF TypeInv, ServerTypes, serverVars
<1>4. ThreadTypes'
  BY <1>1, EventsSame DEF TypeInv, ThreadTypes
<1>5. StartInv'
  BY <1>1 DEF StartInv
<1>. QED
  BY <1>2, <1>3, <1>4, <1>5 DEF AoaInv, TypeInv

(* What the thread may tell the main thread.                               *)
LEMMA Told ==
  ASSUME AoaInv, posted' \subseteq posted \cup Disconnection(~connected) \cup {"open error"},
         Notify(~connected)
  PROVE  posted' \subseteq {"open error", "disconnected"} /\ notified' \in BOOLEAN
BY DEF AoaInv, TypeInv, MainTypes, UsbTypes, Disconnection, Notify, Listens

LEMMA ThreadKeeps ==
  ASSUME AoaInv, Thread
  PROVE  AoaInv'
<1>1. /\ TypeInv /\ MainTypes /\ ThreadTypes
      /\ DeviceTypes /\ WaitInv /\ FreshInv /\ OrderInv
      /\ queue \in Seq(Events) /\ event \in Events
      /\ vecOpen \in Seq(HidIds) /\ handled \in Nat
      /\ ack.value \in Nat /\ ack.value <= handled /\ ack.stopped \in BOOLEAN
      /\ posted \subseteq {"open error", "disconnected"} /\ notified \in BOOLEAN
  BY DEF AoaInv, TypeInv, MainTypes, ThreadTypes, UsbTypes, ServerTypes, OrderInv
<1>2. ThreadUnchanged /\ UNCHANGED <<cfg, keys, paste, handled, nextSequence, ack>>
  BY DEF Thread, Wait, Stopped, Pop, WaitAck, AckTimeout, SendInput, SetupHid, CloseHid,
         CloseNext, Ended, ThreadUnchanged, serverVars
<1>3. None \in Events /\ handled' = handled /\ handled <= handled
  <2>1. handled' = handled
    BY <1>2
  <2>2. handled \in Nat
    BY <1>1
  <2>3. handled <= handled
    BY <2>2
  <2>. QED
    BY <2>1, <2>3, OtherEvents
<1>4. CASE Wait \/ Stopped \/ Ended
  <2>1. /\ UNCHANGED <<queue, event, vecOpen, posted, notified, deviceVars, discarded>>
        /\ thread \in {"idle", "ending"} /\ thread' \in {"waiting", "ending", "ended"}
        /\ (thread = "ending" => thread' = "ended")
    BY <1>4 DEF Wait, Stopped, Ended
  <2>2. WaitInv' /\ FreshInv'
    <3>1. handled' \in Nat /\ handled <= handled' /\ pasted' = pasted
      BY <1>1, <1>3, <2>1 DEF deviceVars
    <3>. QED
      BY <1>1, <1>2, <2>1, <3>1, FreshIdle
  <2>3. DeviceTypes'
    BY <1>1, <1>2, <2>1 DEF DeviceTypes, deviceVars
  <2>. QED
    BY <1>1, <1>2, <2>1, <2>2, <2>3, ThreadFrame
<1>5. CASE Pop
  <2>1. thread = "idle" /\ UNCHANGED <<vecOpen, posted, notified, deviceVars, discarded>>
    BY <1>5 DEF Pop
  <2>2. /\ WaitInv' /\ FreshInv' /\ queue' \in Seq(Events) /\ event' \in Events
        /\ thread' \in {"ack", "sending"}
    BY <1>1, <1>5, PopKeeps
  <2>3. DeviceTypes'
    BY <1>1, <1>2, <2>1 DEF DeviceTypes, deviceVars
  <2>. QED
    BY <1>1, <1>2, <2>1, <2>2, <2>3, ThreadFrame
<1>6. CASE WaitAck \/ AckTimeout
  <2>1. /\ UNCHANGED <<queue, vecOpen, posted, notified, deviceVars>>
        /\ event' \in {event, None}
        /\ thread = "ack" /\ thread' \in {"sending", "ending", "idle"}
    BY <1>6 DEF WaitAck, AckTimeout
  <2>2. WaitInv' /\ FreshInv'
    BY <1>1, <1>6, AckKeeps
  <2>3. DeviceTypes'
    BY <1>1, <1>2, <2>1 DEF DeviceTypes, deviceVars
  <2>. QED
    BY <1>1, <1>2, <1>3, <2>1, <2>2, <2>3, ThreadFrame
<1>7. CASE SendInput
  <2>1. /\ thread = "sending" /\ thread' = "idle" /\ event' = None /\ event.type = "input"
        /\ UNCHANGED <<queue, vecOpen, registered, unregisterFailed, discarded>>
        /\ \/ UNCHANGED <<posted, notified>>
           \/ posted' = posted \cup Disconnection(~connected) /\ Notify(~connected)
        /\ devKeys' \in {devKeys, event.keys}
        /\ pasted' = pasted \/ ("v" \in event.keys /\ pasted' = event.paste)
    BY <1>7 DEF SendInput
  <2>2. posted' \subseteq {"open error", "disconnected"} /\ notified' \in BOOLEAN
    BY <1>1, <2>1, Told
  <2>3. event.keys \subseteq Keys /\ event.paste \in 0 .. nextSequence
    BY <1>1, <2>1, EventShape DEF Seqs
  <2>4. DeviceTypes'
    BY <1>1, <1>2, <2>1, <2>3 DEF DeviceTypes
  <2>5. WaitInv' /\ FreshInv'
    BY <1>1, <1>2, <2>1, DoneKeeps DEF Pastes
  <2>. QED
    BY <1>1, <1>2, <1>3, <2>1, <2>2, <2>4, <2>5, ThreadFrame
<1>8. CASE SetupHid
  <2>1. /\ thread = "sending" /\ thread' = "idle" /\ event' = None /\ event.type = "open"
        /\ UNCHANGED <<queue, devKeys, pasted, discarded>>
    BY <1>8 DEF SetupHid
  <2>2. event.id \in HidIds
    BY <1>1, <2>1, EventShape
  <2>3. /\ \/ UNCHANGED <<posted, notified>>
           \/ /\ posted' \subseteq posted \cup Disconnection(~connected) \cup {"open error"}
              /\ Notify(~connected)
        /\ registered' \in {registered \cup {event.id}, registered \ {event.id}}
        /\ unregisterFailed' \in BOOLEAN
        /\ vecOpen' \in {vecOpen, Append(vecOpen, event.id)}
    BY <1>1, <1>8 DEF SetupHid, Opened, DeviceTypes
  <2>4. posted' \subseteq {"open error", "disconnected"} /\ notified' \in BOOLEAN
    BY <1>1, <2>3, Told
  <2>5. DeviceTypes'
    BY <1>1, <1>2, <2>1, <2>2, <2>3 DEF DeviceTypes
  <2>6. vecOpen' \in Seq(HidIds)
    <3>1. Append(vecOpen, event.id) \in Seq(HidIds)
      BY <1>1, <2>2, AppendProperties
    <3>. QED
      BY <1>1, <2>3, <3>1
  <2>7. WaitInv' /\ FreshInv'
    BY <1>1, <1>2, <2>1, DoneKeeps
  <2>. QED
    BY <1>1, <1>2, <1>3, <2>1, <2>4, <2>5, <2>6, <2>7, ThreadFrame
<1>9. CASE CloseHid \/ CloseNext
  <2>1. /\ UNCHANGED <<queue, devKeys, pasted, discarded>>
        /\ \/ vecOpen' \in {vecOpen, RemoveFirst(vecOpen, event.id)}
           \/ vecOpen # <<>> /\ vecOpen' = Tail(vecOpen)
        /\ \E id : Unregistered(id) \/ NotUnregistered(id)
        /\ \/ thread = "sending" /\ thread' = "idle" /\ event' = None
           \/ thread = "ending" /\ UNCHANGED <<thread, event>>
    BY <1>9 DEF CloseHid, CloseNext
  <2>2. /\ UNCHANGED <<posted, notified>> \/ (posted' = posted \cup Disconnection(~connected) /\ Notify(~connected))
        /\ registered' \subseteq registered /\ unregisterFailed' \in BOOLEAN
    BY <1>1, <2>1 DEF Unregistered, NotUnregistered, DeviceTypes
  <2>3. posted' \subseteq {"open error", "disconnected"} /\ notified' \in BOOLEAN
    BY <1>1, <2>2, Told
  <2>4. DeviceTypes'
    BY <1>1, <1>2, <2>1, <2>2 DEF DeviceTypes
  <2>5. vecOpen' \in Seq(HidIds)
    <3>1. RemoveFirst(vecOpen, event.id) \in Seq(HidIds)
      BY <1>1, RemovedFirst
    <3>2. vecOpen # <<>> => Tail(vecOpen) \in Seq(HidIds)
      BY <1>1, HeadTailProperties
    <3>. QED
      BY <1>1, <2>1, <3>1, <3>2
  <2>6. WaitInv' /\ FreshInv'
    <3>1. CASE thread = "sending" /\ thread' = "idle" /\ event' = None
      BY <1>1, <1>2, <2>1, <3>1, DoneKeeps
    <3>2. CASE thread = "ending" /\ UNCHANGED <<thread, event>>
      <4>1. handled' \in Nat /\ handled <= handled'
        BY <1>1, <1>3
      <4>. QED
        BY <1>1, <1>2, <2>1, <3>2, <4>1, FreshIdle
    <3>. QED
      BY <2>1, <3>1, <3>2
  <2>. QED
    BY <1>1, <1>2, <1>3, <2>1, <2>3, <2>4, <2>5, <2>6, ThreadFrame DEF ThreadTypes
<1>. QED
  BY <1>4, <1>5, <1>6, <1>7, <1>8, <1>9 DEF Thread

(* The start, the end, the cable and its watcher.                          *)
LEMMA RestKeeps ==
  ASSUME AoaInv, Start \/ Disconnect \/ Watcher \/ Quit \/ End
  PROVE  AoaInv'
<1>1. /\ TypeInv /\ MainTypes /\ ThreadTypes /\ UsbTypes /\ DeviceTypes /\ ServerTypes
      /\ WaitInv /\ FreshInv /\ OrderInv /\ StartInv /\ handled \in Nat
  BY DEF AoaInv, TypeInv, ServerTypes
<1>2. UNCHANGED <<cfg, events, keys, paste, synced, plugged, nextSequence, queue, event, vecOpen,
                  control, handled, outbox, inbox, alive, pasted, unregisterFailed, discarded>>
  BY DEF Start, Disconnect, Watcher, SeesDisconnection, WatcherEnds,
    WatcherUnchanged, Quit, End,
         HandlePosted, Quit, StopThread, InterruptAck, StopUsb, JoinThread, JoinUsb, EndUnchanged,
         mainVars, threadVars, usbVars, serverVars, deviceVars
<1>3. /\ main' \in {"setup", "loop", "stop", "interrupt", "stop usb", "join", "join usb", "done"}
      /\ posted' \subseteq {"open error", "disconnected"}
      /\ thread' = thread \/ (thread \in {"off", "waiting"} /\ thread' = "idle")
      /\ ack' \in [value : Nat, stopped : BOOLEAN] /\ ack'.value = ack.value
      /\ stopped' \in BOOLEAN
      /\ connected' \in BOOLEAN /\ notified' \in BOOLEAN /\ usbStopped' \in BOOLEAN
      /\ watcher' \in {"none", "running", "ended"}
      /\ registered' \subseteq registered /\ devKeys' \subseteq devKeys
  <2>1. CASE Start
    BY <1>1, <2>1 DEF Start, StartInv, usbVars, deviceVars, MainTypes, ThreadTypes,
      UsbTypes
  <2>2. CASE Disconnect
    BY <1>1, <2>2 DEF Disconnect, mainVars, threadVars, MainTypes, ThreadTypes, UsbTypes
  <2>3. CASE Watcher
    BY <1>1, <2>3 DEF Watcher, SeesDisconnection, WatcherEnds, WatcherUnchanged,
      threadVars, deviceVars,
                      MainTypes, ThreadTypes, UsbTypes
  <2>4. CASE Quit \/ End
    BY <1>1, <2>4 DEF Quit, End, HandlePosted, StopThread, InterruptAck, StopUsb,
      JoinThread, JoinUsb,
                      EndUnchanged, Goes, deviceVars, MainTypes, ThreadTypes, UsbTypes
  <2>. QED
    BY <2>1, <2>2, <2>3, <2>4
<1>4. MainTypes' /\ UsbTypes' /\ DeviceTypes'
  BY <1>1, <1>2, <1>3 DEF MainTypes, UsbTypes, DeviceTypes
<1>5. ServerTypes' /\ OrderInv'
  BY <1>1, <1>2, <1>3, OrderIdle DEF ServerTypes
<1>6. ThreadTypes'
  BY <1>1, <1>2, <1>3, EventsSame DEF ThreadTypes
<1>7. StartInv'
  <2>1. CASE Start
    BY <2>1 DEF Start, StartInv
  <2>2. CASE Disconnect
    BY <1>1, <2>2 DEF Disconnect, StartInv, mainVars, threadVars
  <2>3. CASE Watcher
    BY <1>1, <2>3 DEF Watcher, SeesDisconnection, WatcherEnds, WatcherUnchanged,
      StartInv, threadVars
  <2>4. CASE Quit \/ End
    BY <2>4 DEF Quit, End, HandlePosted, StopThread, InterruptAck, StopUsb,
      JoinThread, JoinUsb, Goes,
                StartInv
  <2>. QED
    BY <2>1, <2>2, <2>3, <2>4
<1>8. WaitInv' /\ FreshInv'
  <2>1. handled' \in Nat /\ handled <= handled'
    BY <1>1, <1>2
  <2>2. /\ thread' \in {"ack", "sending"} \/ thread \in {"ack", "sending"} => thread' = thread
        /\ thread \in {"ending", "ended"} => thread' \in {"ending", "ended"}
    BY <1>3
  <2>. QED
    BY <1>1, <1>2, <2>1, <2>2, FreshIdle
<1>. QED
  BY <1>4, <1>5, <1>6, <1>7, <1>8 DEF AoaInv, TypeInv

-------------------------------------------------------------------------------
(* AoaInv holds in every reachable state.                                  *)
THEOREM AoaInvariant == Spec => []AoaInv
<1>1. QueueLimit \in Nat /\ SenderCapacity \in Nat
  BY AoaAssumption
<1>2. AoaInv /\ [Next]_vars => AoaInv'
  <2>. SUFFICES ASSUME AoaInv, [Next]_vars PROVE AoaInv'
    OBVIOUS
  <2>1. CASE Next
    BY <1>1, <2>1, UserKeeps, ServerKeeps, ThreadKeeps, RestKeeps DEF Next
  <2>2. CASE UNCHANGED vars
    <3>1. /\ UNCHANGED <<cfg, main, posted, keys, synced, plugged, nextSequence, paste>>
          /\ UNCHANGED <<queue, stopped, thread, event, vecOpen, ack>>
          /\ UNCHANGED <<connected, notified, usbStopped, watcher>>
          /\ UNCHANGED <<control, outbox, inbox, handled, alive>>
          /\ UNCHANGED <<registered, devKeys, pasted, unregisterFailed, discarded>>
      BY <2>2 DEF vars, mainVars, threadVars, usbVars, serverVars, deviceVars
    <3>2. TypeInv'
      <4>0. MainTypes /\ UsbTypes /\ ServerTypes /\ DeviceTypes
        BY DEF AoaInv, TypeInv
      <4>1. MainTypes' /\ UsbTypes' /\ ServerTypes' /\ DeviceTypes'
        <5>1. MainTypes'
          BY <3>1, <4>0 DEF MainTypes
        <5>2. UsbTypes' /\ ServerTypes'
          BY <3>1, <4>0 DEF UsbTypes, ServerTypes
        <5>3. DeviceTypes'
          BY <3>1, <4>0 DEF DeviceTypes
        <5>. QED
          BY <5>1, <5>2, <5>3
      <4>2. ThreadTypes'
        BY <3>1, EventsSame DEF AoaInv, TypeInv, ThreadTypes
      <4>. QED
        BY <4>1, <4>2 DEF TypeInv
    <3>3. OrderInv'
      BY <3>1, OrderIdle DEF AoaInv
    <3>4. handled \in Nat /\ handled' \in Nat /\ handled <= handled'
      BY <3>1 DEF AoaInv, TypeInv, ServerTypes
    <3>5. WaitInv' /\ FreshInv'
      BY <3>1, <3>4, FreshIdle DEF AoaInv
    <3>6. StartInv'
      BY <3>1 DEF AoaInv, StartInv
    <3>. QED
      BY <3>2, <3>3, <3>5, <3>6 DEF AoaInv
  <2>. QED
    BY <2>1, <2>2
<1>. QED
  BY <1>2, AoaInit, PTL DEF Spec

(* When the device sees a Ctrl+v, its clipboard is at least as recent as   *)
(* the one this Ctrl+v was to paste, unless that Ctrl+v was discarded      *)
(* (keyboard_aoa.c, aoa_hid.c, acksync.c), whatever the limits of the      *)
(* queues and the answers that the server drops.                           *)
THEOREM PasteIsAlwaysFresh == Spec => []PasteIsFresh
<1>1. AoaInv => PasteIsFresh
  <2>. SUFFICES ASSUME AoaInv PROVE PasteIsFresh
    OBVIOUS
  <2>1. MainTypes /\ ThreadTypes /\ UsbTypes /\ ServerTypes /\ DeviceTypes /\ OrderInv /\ WaitInv
    BY DEF AoaInv, TypeInv
  <2>2. ToSet(queue) \subseteq Events /\ ToSet(vecOpen) \subseteq HidIds
    BY <2>1 DEF ThreadTypes, ToSet
  <2>3. {paste, pasted, handled, ack.value} \subseteq 0 .. nextSequence
    <3>1. /\ nextSequence \in Nat /\ handled \in Nat /\ ack.value \in Nat
          /\ handled < nextSequence /\ ack.value <= handled
      BY <2>1 DEF MainTypes, ServerTypes, ThreadTypes, OrderInv
    <3>2. handled \in 0 .. nextSequence /\ ack.value \in 0 .. nextSequence
      BY <3>1
    <3>. QED
      BY <2>1, <3>2 DEF MainTypes, DeviceTypes
  <2>4. \A i \in DOMAIN inbox : inbox[i] # 0 => inbox[i] >= ack.value
    <3>1. DOMAIN inbox = 1 .. Len(inbox) /\ \A i \in 1 .. Len(inbox) : inbox[i] \in Nat
      BY <2>1 DEF ServerTypes
    <3>. QED
      BY <2>1, <3>1 DEF OrderInv, ThreadTypes
  <2>5. thread = "ack" => event.id = "keyboard" /\ cfg.mode = "mirror"
    <3>. SUFFICES ASSUME thread = "ack" PROVE event.id = "keyboard" /\ cfg.mode = "mirror"
      OBVIOUS
    <3>1. event.id = "keyboard" /\ cfg.autosync
      BY <2>1 DEF WaitInv, WaiterOK
    <3>2. ConfigOK(cfg)
      BY <2>1, AoaAssumption DEF MainTypes
    <3>. QED
      BY <3>1, <3>2 DEF ConfigOK
  <2>6. AoaTypeOK
    BY <2>1, <2>2, <2>3, <2>4, <2>5 DEF AoaTypeOK, MainTypes, ThreadTypes, UsbTypes,
      ServerTypes, DeviceTypes
  <2>. QED
    BY <2>6 DEF AoaInv, FreshInv, Safe, PasteIsFresh
<1>. QED
  BY <1>1, AoaInvariant, PTL
=============================================================================
