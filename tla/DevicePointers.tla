---------------------------- MODULE DevicePointers ----------------------------
(***************************************************************************)
(* The pointers the server believes to be down (PointersState.java,        *)
(* Pointer.java): a list of the pointer ids received from the client, each *)
(* with the lowest local id that was free when it appeared.  Android sees  *)
(* the local ids, and the index of the pointer in the list.                *)
(***************************************************************************)
EXTENDS Integers, Sequences, FiniteSets

CONSTANT MaxPointers    (* MAX_POINTERS: 10 in the code *)

ASSUME PointersAssumption == MaxPointers \in Nat \ {0}

LocalIds == 0 .. MaxPointers - 1

IndexOf(ps, id) ==
  IF \E i \in DOMAIN ps : ps[i].id = id
  THEN CHOOSE i \in DOMAIN ps : ps[i].id = id
  ELSE 0

UsedLocalIds(ps) == {ps[i].local : i \in DOMAIN ps}

NextUnusedLocalId(ps) ==
  CHOOSE n \in LocalIds \ UsedLocalIds(ps) :
    \A m \in LocalIds \ UsedLocalIds(ps) : n <= m

Full(ps) == Len(ps) >= MaxPointers

(* getPointerIndex: the pointer is added if it is new and there is room. *)
WithPointer(ps, id) ==
  IF IndexOf(ps, id) # 0 \/ Full(ps)
  THEN ps
  ELSE Append(ps, [id |-> id, local |-> NextUnusedLocalId(ps)])

(* cleanUp: the pointer at index i leaves the list, the next ones shift. *)
CleanUp(ps, i) == SubSeq(ps, 1, i - 1) \o SubSeq(ps, i + 1, Len(ps))

WellFormed(ps) ==
  /\ Len(ps) <= MaxPointers
  /\ UsedLocalIds(ps) \subseteq LocalIds
  /\ \A i, j \in DOMAIN ps :
       i # j => ps[i].id # ps[j].id /\ ps[i].local # ps[j].local
=============================================================================
