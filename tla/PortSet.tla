------------------------------ MODULE PortSet -------------------------------
(***************************************************************************)
(* The hash set of runtime/vm/port_set.h: open addressing with linear      *)
(* probing, where deleted entries leave a marker.  A set is a record of    *)
(* the fields of the class; a slot holds the port and, in data, the rest   *)
(* of the entry.                                                           *)
(***************************************************************************)
EXTENDS Integers, Sequences, FiniteSets

SeqExt == INSTANCE SequencesExt

CONSTANTS kInitialCapacity, NoData

ILLEGAL_PORT == 0
kFreePort == 0
kDeletedPort == 3
Markers == {kFreePort, kDeletedPort}

FreeSlot == [port |-> kFreePort, data |-> NoData]
DeletedSlot == [port |-> kDeletedPort, data |-> NoData]

EmptyMap(capacity) == [i \in 0..capacity - 1 |-> FreeSlot]

NewPortSet ==
    [map_ |-> EmptyMap(kInitialCapacity), capacity_ |-> kInitialCapacity,
     used_ |-> 0, deleted_ |-> 0]

IsEmpty(s) == s.used_ = 0

(* Probing from the slot of port for the first slot that holds one of      *)
(* stops.                                                                  *)
FirstSlot(map, capacity, port, stops) ==
    LET Slot(k) == (port + k) % capacity
        Stops(k) == map[Slot(k)].port \in stops
    IN  Slot(CHOOSE k \in 0..capacity - 1 :
               Stops(k) /\ \A j \in 0..k - 1 : ~ Stops(j))

(* Mutant: a search also ends at a deleted entry.                          *)
MutFindIndexOfPort(s, port) ==
    LET i == FirstSlot(s.map_, s.capacity_, port, {kFreePort, kDeletedPort, port})
    IN  IF s.map_[i].port = port THEN i ELSE -1

(* -1 when the port is not there.                                          *)
FindIndexOfPort(s, port) ==
    IF port = ILLEGAL_PORT THEN -1
    ELSE LET i == FirstSlot(s.map_, s.capacity_, port, {kFreePort, port})
         IN  IF s.map_[i].port = port THEN i ELSE -1

Contains(s, port) == FindIndexOfPort(s, port) >= 0

(* The entries in the order of an iterator.                                *)
Entries(s) ==
    SelectSeq([i \in 1..s.capacity_ |-> s.map_[i - 1]],
              LAMBDA e : e.port \notin Markers)

Rehash(s, new_capacity) ==
    LET Place(map, e) ==
          [map EXCEPT ![FirstSlot(map, new_capacity, e.port, {kFreePort})] = e]
    IN  [s EXCEPT !.map_ = SeqExt!FoldLeft(Place, EmptyMap(new_capacity), Entries(s)),
                  !.capacity_ = new_capacity, !.deleted_ = 0]

MaintainInvariants(s) ==
    IF s.used_ > (s.capacity_ \div 4) * 3
    THEN Rehash(s, s.capacity_ * 2)
    ELSE IF s.capacity_ - s.used_ - s.deleted_ < s.deleted_
         THEN Rehash(s, s.capacity_)
         ELSE s

Insert(s, e) ==
    LET i == FirstSlot(s.map_, s.capacity_, e.port, Markers)
        reused == IF s.map_[i].port = kDeletedPort THEN 1 ELSE 0
    IN  MaintainInvariants([s EXCEPT !.map_[i] = e, !.used_ = @ + 1,
                                     !.deleted_ = @ - reused])

(* Iterator::Delete at each of the slots; the caller rebalances.           *)
DeleteAt(s, slots) ==
    [s EXCEPT !.map_ = [i \in DOMAIN s.map_ |->
                          IF i \in slots THEN DeletedSlot ELSE s.map_[i]],
              !.used_ = @ - Cardinality(slots),
              !.deleted_ = @ + Cardinality(slots)]

Rebalance(s) == MaintainInvariants(s)

(* The slots that hold an entry, and what is in the set.                   *)
UsedSlots(s) == {i \in DOMAIN s.map_ : s.map_[i].port \notin Markers}
Ports(s) == {s.map_[i].port : i \in UsedSlots(s)}
DataOf(s, port) == s.map_[FindIndexOfPort(s, port)].data
=============================================================================
