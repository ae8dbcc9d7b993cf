------------------------------ MODULE PortMap -------------------------------
(***************************************************************************)
(* runtime/vm/port.cc: the VM-wide map from ports to message handlers, the *)
(* set of ports every handler keeps (MessageHandler::ports_), and the      *)
(* handlers' counts of live ports.  A function of PortMap is one critical  *)
(* section of PortMap::mutex_ and hence one action.                        *)
(***************************************************************************)
EXTENDS PortSet

CONSTANTS Handlers, NativeHandlers, PortIds,
    States,       \* the states the callers of SetPortState set
    NoPorts,      \* ports_ is a null pointer
    MaxCapacity   \* bound: a set does not grow further

ASSUME PortMapAssumption ==
    /\ NativeHandlers \subseteq Handlers
    /\ PortIds \subseteq {n \in Nat : n % 4 = 3}
    /\ States \subseteq {"live", "inactive"}
    /\ kInitialCapacity \in {2^k : k \in 2..5}

VARIABLES
    ports_,         \* PortMap::ports_
    handler_ports_, \* MessageHandler::ports_
    live_ports_,    \* MessageHandler::live_ports_
    alive           \* the handlers that have not been deleted

vars == <<ports_, handler_ports_, live_ports_, alive>>

Init ==
    /\ ports_ = NewPortSet
    /\ handler_ports_ = [h \in Handlers |-> NewPortSet]
    /\ live_ports_ = [h \in Handlers |-> 0]
    /\ alive = {}

NewHandler(h) ==
    /\ ports_ # NoPorts
    /\ h \notin alive
    /\ alive' = alive \cup {h}
    /\ handler_ports_' = [handler_ports_ EXCEPT ![h] = NewPortSet]
    /\ live_ports_' = [live_ports_ EXCEPT ![h] = 0]
    /\ UNCHANGED ports_

(* Mutant: a number is drawn without a look at the map.                    *)
MutAllocatePort(port) == TRUE

(* The numbers the do-while loop may end with: continue goes on to the     *)
(* condition of the loop, also for a number that is one of the markers.    *)
AllocatePort(port) == ~ Contains(ports_, port)

NewEntry(h, port) ==
    [port |-> port, data |-> [handler |-> h, state |-> "new"]]

CreatePort(h, port) ==
    /\ ports_ # NoPorts
    /\ h \in alive
    /\ h \in NativeHandlers => IsEmpty(handler_ports_[h])
    /\ ports_.used_ < (MaxCapacity \div 4) * 3
    /\ AllocatePort(port)
    /\ handler_ports_' = [handler_ports_ EXCEPT
                            ![h] = Insert(@, [port |-> port, data |-> NoData])]
    /\ ports_' = Insert(ports_, NewEntry(h, port))
    /\ UNCHANGED <<live_ports_, alive>>

Decrement(state) == IF state = "live" THEN 1 ELSE 0

(* Mutant: an inactive port that is made inactive again counts once more.  *)
MutLiveChange(old, state) ==
    IF state = "live" THEN 1 ELSE IF state = "inactive" THEN -1 ELSE 0

LiveChange(old, state) ==
    IF state = "live" THEN 1
    ELSE IF state = "inactive" /\ old = "live" THEN -1 ELSE 0

(* The callers make a port live that is not, and inactive one that has     *)
(* been live.                                                              *)
SetPortState(port, state) ==
    /\ ports_ # NoPorts
    /\ Contains(ports_, port)
    /\ LET entry == DataOf(ports_, port) IN
         /\ state = "live" => entry.state # "live"
         /\ state = "inactive" =>
               entry.state # "new" /\ entry.handler \notin NativeHandlers
         /\ ports_' = [ports_ EXCEPT
                         !.map_[FindIndexOfPort(ports_, port)].data.state = state]
         /\ live_ports_' = [live_ports_ EXCEPT
                              ![entry.handler] = @ + LiveChange(entry.state, state)]
    /\ UNCHANGED <<handler_ports_, alive>>

(* After the critical section a handler that the map owns is deleted, as   *)
(* soon as it is not busy: nothing reaches it through the map any more.    *)
(* Dart_NewNativePort hands out a port only when it is live.               *)
ClosePort(port) ==
    /\ ports_ # NoPorts
    /\ Contains(ports_, port)
    /\ LET entry == DataOf(ports_, port)
           h == entry.handler
           set == handler_ports_[h]
       IN  /\ h \in NativeHandlers => entry.state = "live"
           /\ live_ports_' = [live_ports_ EXCEPT ![h] = @ - Decrement(entry.state)]
           /\ ports_' = Rebalance(DeleteAt(ports_, {FindIndexOfPort(ports_, port)}))
           /\ handler_ports_' =
                 [handler_ports_ EXCEPT
                    ![h] = Rebalance(DeleteAt(set, {FindIndexOfPort(set, port)}))]
           /\ alive' = IF live_ports_'[h] <= 0 THEN alive \ ({h} \cap NativeHandlers)
                                               ELSE alive

(* Mutant: the handler's own set keeps its entries, so that the next close *)
(* of the same handler looks for ports that are gone.                      *)
MutClosedSet(s) == s

(* What is left of a handler's own set, which nobody rebalances.           *)
ClosedSet(s) == DeleteAt(s, UsedSlots(s))

(* Isolate::LowLevelShutdown, which deletes the handler right after.       *)
ClosePorts(h) ==
    /\ ports_ # NoPorts
    /\ h \in alive \ NativeHandlers
    /\ LET closed == Ports(handler_ports_[h])
           live == {p \in closed : DataOf(ports_, p).state = "live"}
       IN  /\ ports_' = Rebalance(DeleteAt(ports_,
                                    {FindIndexOfPort(ports_, p) : p \in closed}))
           /\ live_ports_' = [live_ports_ EXCEPT ![h] = @ - Cardinality(live)]
    /\ handler_ports_' = [handler_ports_ EXCEPT ![h] = ClosedSet(@)]
    /\ alive' = alive \ {h}

(* Dart::Cleanup, when all isolates are gone.                              *)
Cleanup ==
    /\ ports_ # NoPorts
    /\ alive \subseteq NativeHandlers
    /\ LET left == {ports_.map_[i].data : i \in UsedSlots(ports_)}
           Live(h) == {i \in UsedSlots(ports_) :
                         ports_.map_[i].data = [handler |-> h, state |-> "live"]}
       IN  /\ live_ports_' = [h \in Handlers |-> live_ports_[h] - Cardinality(Live(h))]
           /\ alive' = alive \ {entry.handler : entry \in left}
    /\ ports_' = NoPorts
    /\ UNCHANGED handler_ports_

Next ==
    \/ \E h \in Handlers :
          NewHandler(h) \/ ClosePorts(h) \/ \E p \in PortIds : CreatePort(h, p)
    \/ \E p \in PortIds :
          ClosePort(p) \/ \E state \in States : SetPortState(p, state)
    \/ Cleanup

Spec == Init /\ [][Next]_vars
-----------------------------------------------------------------------------
PortState == {"new", "live", "inactive"}
Data == [handler : Handlers, state : PortState] \cup {NoData}
IsPortSet(s) ==
    /\ s.capacity_ \in {2^k : k \in 2..5} /\ DOMAIN s.map_ = 0..s.capacity_ - 1
    /\ \A i \in DOMAIN s.map_ : /\ s.map_[i].port \in PortIds \cup Markers
                                /\ s.map_[i].data \in Data
    /\ s.used_ \in 0..s.capacity_ /\ s.deleted_ \in 0..s.capacity_

TypeOK ==
    /\ ports_ = NoPorts \/ IsPortSet(ports_)
    /\ \A h \in Handlers : IsPortSet(handler_ports_[h])
    /\ live_ports_ \in [Handlers -> Nat]
    /\ alive \subseteq Handlers

(* The sets that are in use.                                               *)
Sets == {ports_} \cup {handler_ports_[h] : h \in alive}

(* Every entry is found where it is, however the entries before it were    *)
(* deleted, reused and moved: FindIndexOfPort returns its slot.  used_ and *)
(* deleted_ count what they say, and a slot is always free, so that a      *)
(* search for a port that is not there ends (the assertion against endless *)
(* loops in FindIndexOfPort).                                              *)
PortsFindable ==
    ports_ # NoPorts =>
      \A s \in Sets :
         /\ \A i \in UsedSlots(s) : FindIndexOfPort(s, s.map_[i].port) = i
         /\ s.used_ = Cardinality(UsedSlots(s))
         /\ s.deleted_ = Cardinality({i \in DOMAIN s.map_ :
                                        s.map_[i].port = kDeletedPort})
         /\ s.used_ + s.deleted_ < s.capacity_

(* A handler's own set holds exactly the ports that lead to it, and a      *)
(* handler whose ports have been closed keeps none: the assertions of      *)
(* ClosePort and ClosePorts.                                               *)
SetsAgree ==
    ports_ # NoPorts =>
      /\ \A h \in alive :
            Ports(handler_ports_[h]) =
               {p \in Ports(ports_) : DataOf(ports_, p).handler = h}
      /\ \A h \in Handlers \ alive : IsEmpty(handler_ports_[h])

(* The port map implements the registry: the entries are what the slots    *)
(* hold.                                                                   *)
RegistryEntries ==
    IF ports_ = NoPorts THEN [p \in {} |-> p]
    ELSE [p \in Ports(ports_) |-> DataOf(ports_, p)]
Registry == INSTANCE PortRegistry WITH entries <- RegistryEntries
ImplementsRegistry == Registry!RegistrySpec
=============================================================================
