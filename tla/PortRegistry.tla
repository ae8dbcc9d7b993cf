---------------------------- MODULE PortRegistry ----------------------------
(***************************************************************************)
(* What the port map of runtime/vm/port.cc promises, without its hash      *)
(* tables: ports are opened for a message handler, change their state and  *)
(* are closed, and every handler knows how many of its ports are live.  An *)
(* isolate runs for as long as it has live ports.                          *)
(***************************************************************************)
EXTENDS Integers, FiniteSets

CONSTANTS
    Handlers,         \* message handlers
    NativeHandlers,   \* those of native ports, which own a single port
    PortIds           \* the port numbers AllocatePort may draw

VARIABLES
    entries,      \* the open ports, each with its handler and its state
    live_ports_,  \* MessageHandler::live_ports_
    alive         \* the handlers that have not been deleted

registry == <<entries, live_ports_, alive>>

PortState == {"new", "live", "inactive"}
Entry == [handler : Handlers, state : PortState]

PortsOf(h) == {p \in DOMAIN entries : entries[p].handler = h}
LivePortsOf(h) == {p \in PortsOf(h) : entries[p].state = "live"}

RegistryInit ==
    /\ entries = [p \in {} |-> p]
    /\ live_ports_ = [h \in Handlers |-> 0]
    /\ alive = {}

(* A new isolate or a new native port brings its handler.                  *)
NewHandler(h) ==
    /\ h \notin alive
    /\ alive' = alive \cup {h}
    /\ live_ports_' = [live_ports_ EXCEPT ![h] = 0]
    /\ UNCHANGED entries

CreatePort(h, p) ==
    /\ h \in alive /\ p \notin DOMAIN entries
    /\ h \in NativeHandlers => PortsOf(h) = {}
    /\ entries' = [q \in DOMAIN entries \cup {p} |->
                     IF q = p THEN [handler |-> h, state |-> "new"]
                              ELSE entries[q]]
    /\ UNCHANGED <<live_ports_, alive>>

(* The change of a handler's count when a port of it changes from old to   *)
(* state.                                                                  *)
LiveChange(old, state) ==
    IF state = "live" THEN 1 ELSE IF old = "live" THEN -1 ELSE 0

(* The callers do not make a live port live again: a port becomes live     *)
(* when its ReceivePort is created, and a timer's port is switched off and *)
(* on in turn.                                                             *)
SetPortState(p, state) ==
    /\ p \in DOMAIN entries
    /\ state = "live" => entries[p].state # "live"
    /\ state = "inactive" => entries[p].state # "new"
    /\ state = "inactive" => entries[p].handler \notin NativeHandlers
    /\ entries' = [entries EXCEPT ![p].state = state]
    /\ live_ports_' = [live_ports_ EXCEPT
                         ![entries[p].handler] =
                            @ + LiveChange(entries[p].state, state)]
    /\ UNCHANGED alive

(* The handler of a native port goes with its port.                        *)
ClosePort(p) ==
    /\ p \in DOMAIN entries
    /\ LET h == entries[p].handler IN
         /\ h \in NativeHandlers => entries[p].state = "live"
         /\ live_ports_' = [live_ports_ EXCEPT
                              ![h] = @ + LiveChange(entries[p].state, "closed")]
         /\ alive' = alive \ ({h} \cap NativeHandlers)
    /\ entries' = [q \in DOMAIN entries \ {p} |-> entries[q]]

(* An isolate that shuts down closes its ports and deletes its handler.    *)
ClosePorts(h) ==
    /\ h \in alive \ NativeHandlers
    /\ entries' = [q \in DOMAIN entries \ PortsOf(h) |-> entries[q]]
    /\ live_ports_' = [live_ports_ EXCEPT ![h] = @ - Cardinality(LivePortsOf(h))]
    /\ alive' = alive \ {h}

(* The VM goes down: only native ports are left, and nothing is opened any *)
(* more.                                                                   *)
Cleanup ==
    /\ alive \subseteq NativeHandlers
    /\ entries' = [p \in {} |-> p]
    /\ live_ports_' = [h \in Handlers |-> live_ports_[h] - Cardinality(LivePortsOf(h))]
    /\ alive' = alive \ {entries[p].handler : p \in DOMAIN entries}

RegistryNext ==
    \/ \E h \in Handlers :
          NewHandler(h) \/ ClosePorts(h) \/ \E p \in PortIds : CreatePort(h, p)
    \/ \E p \in PortIds :
          ClosePort(p) \/ \E state \in {"live", "inactive"} : SetPortState(p, state)
    \/ Cleanup

RegistrySpec == RegistryInit /\ [][RegistryNext]_registry
-----------------------------------------------------------------------------
RegistryTypeOK ==
    /\ DOMAIN entries \subseteq PortIds /\ IsFiniteSet(DOMAIN entries)
    /\ \A p \in DOMAIN entries : entries[p] \in Entry
    /\ live_ports_ \in [Handlers -> Nat]
    /\ alive \subseteq Handlers

(* A handler's count is the number of its ports that are live, so that     *)
(* HasLivePorts is true exactly while the isolate must keep running.       *)
LiveCount == \A h \in Handlers : live_ports_[h] = Cardinality(LivePortsOf(h))

(* A port never leads to a handler that has been deleted: PostMessage may  *)
(* use what it finds for as long as it holds the port map's mutex.         *)
NoDanglingHandler == \A p \in DOMAIN entries : entries[p].handler \in alive
=============================================================================
