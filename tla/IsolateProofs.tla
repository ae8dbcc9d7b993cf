--------------------------- MODULE IsolateProofs ----------------------------
(***************************************************************************)
(* Two things an isolate is reached by: the interrupts of its mutator, for *)
(* any number of OS threads, any depth of nested invocations and any       *)
(* number of messages; and its ports, for any number of handlers and       *)
(* ports: the registry's counts are right and its handlers exist.          *)
(***************************************************************************)
EXTENDS Interrupts, PortRegistry, FiniteSetTheorems, TLAPS

(* Where the mutator is inside a Dart invocation.                          *)
Inside == {"dart", "vm", "trap", "handle"}

(* The words, the places SetStackLimit and HandleInterrupts return to, and *)
(* the conditions that interrupts are scheduled for.                       *)
Types ==
    /\ stack_limit_ \in Word /\ saved_stack_limit_ \in Word
    /\ stack_limit_.bits # {} => IsInterruptLimit(stack_limit_)
    /\ pc \in PC /\ back \in {"dart", "vm"} /\ os \in OSLimit
    /\ set.then \in {"dart", "vm", "loop", "done"} /\ set.had \in BOOLEAN
    /\ frames \in Seq(Word)
    /\ safepoint_requested \in BOOLEAN /\ store_buffer_overflowed \in BOOLEAN

(* The saved limits on the stack: 0 from outside the outermost invocation, *)
(* and the OS thread's for each of those nested in it.                     *)
Frames ==
    \A i \in 1..Len(frames) :
       frames[i] = IF i = 1 THEN Limit("zero") ELSE Limit(os)

(* The limit in force, or about to be, is the one for where the mutator    *)
(* is, or is about to be.                                                  *)
LimitFor(place, limit) ==
    /\ place \in Inside => frames # <<>> /\ limit = Limit(os)
    /\ place = "loop" => frames = <<>> /\ limit = Limit("zero")
    /\ place = "done" => limit = AllOnes
Places ==
    /\ pc # "store" => LimitFor(pc, saved_stack_limit_)
    /\ pc = "store" => LimitFor(set.then, set.limit)

(* SetStackLimit is about to overwrite the word only if no interrupt but   *)
(* one for messages or samples can have come since it was loaded, and      *)
(* about to keep it only if it still is an interrupt limit.                *)
Stores ==
    pc = "store" =>
       /\ set.had => IsInterruptLimit(stack_limit_)
       /\ ~set.had => ~safepoint_requested /\ ~store_buffer_overflowed

IInv == Types /\ Frames /\ Places /\ Stores /\ VMWorkSignalled /\ LimitInForce

-----------------------------------------------------------------------------
(* The words are distinct and typed.                                       *)
LEMMA Words ==
    /\ \A l \in OSLimit \cup {"zero"} :
          /\ Limit(l) \in Word /\ Limit(l).bits = {} /\ Limit(l).base = l
          /\ ~IsInterruptLimit(Limit(l))
    /\ AllOnes \in Word /\ IsInterruptLimit(AllOnes) /\ kVMInterrupt \in AllOnes.bits
  BY InterruptsAssumption DEF Word, Limit, AllOnes, IsInterruptLimit, kInterruptsMask

(* A stack without its top is a stack.                                     *)
LEMMA Popped ==
    ASSUME NEW W, NEW q \in Seq(W), q # <<>>
    PROVE  /\ SubSeq(q, 1, Len(q) - 1) \in Seq(W)
           /\ Len(SubSeq(q, 1, Len(q) - 1)) = Len(q) - 1
           /\ \A i \in 1..(Len(q) - 1) : SubSeq(q, 1, Len(q) - 1)[i] = q[i]
<1>1. PICK n \in Nat : n = Len(q) - 1
  OBVIOUS
<1>2. SubSeq(q, 1, n) \in Seq(W) /\ Len(SubSeq(q, 1, n)) = n
  BY <1>1
<1>3. \A i \in 1..n : SubSeq(q, 1, n)[i] = q[i]
  BY <1>1
<1> QED BY <1>1, <1>2, <1>3

(* ScheduleInterrupts leaves the interrupt limit with its bits added.      *)
LEMMA Scheduled ==
    ASSUME stack_limit_ \in Word, NEW bits \in SUBSET kInterruptsMask, ScheduleInterrupts(bits)
    PROVE  /\ stack_limit_' \in Word /\ IsInterruptLimit(stack_limit_)'
           /\ bits \subseteq stack_limit_'.bits
           /\ stack_limit_.bits # {} /\ IsInterruptLimit(stack_limit_)
                 => stack_limit_.bits \subseteq stack_limit_'.bits
  BY DEF Word, ScheduleInterrupts, IsInterruptLimit

(* Interrupting the mutator, wherever it is, keeps the invariant: nothing  *)
(* else changes but the reasons the interrupt is for.                      *)
LEMMA ScheduleStep ==
    ASSUME IInv, NEW bits \in SUBSET kInterruptsMask, ScheduleInterrupts(bits),
           UNCHANGED <<saved_stack_limit_, pc, frames, set, taken, back, os>>,
           \/ UNCHANGED <<safepoint_requested, store_buffer_overflowed>>
           \/ /\ pc # "store" /\ kVMInterrupt \in bits
              /\ safepoint_requested' \in BOOLEAN /\ store_buffer_overflowed' \in BOOLEAN
    PROVE  IInv'
<1>1. /\ stack_limit_' \in Word /\ IsInterruptLimit(stack_limit_)'
      /\ bits \subseteq stack_limit_'.bits
      /\ stack_limit_.bits \subseteq stack_limit_'.bits
  <2>1. stack_limit_ \in Word /\ (stack_limit_.bits # {} => IsInterruptLimit(stack_limit_))
    BY DEF IInv, Types
  <2> QED BY <2>1, Scheduled DEF Word
<1>2. Types' /\ Frames' /\ Places'
  BY <1>1 DEF IInv, Types, Frames, Places, LimitFor
<1>3. Stores'
  BY <1>1 DEF IInv, Stores
<1>4. VMWorkSignalled'
  BY <1>1 DEF IInv, VMWorkSignalled, Taking
<1>5. LimitInForce'
  BY <1>1 DEF IInv, LimitInForce
<1> QED BY <1>2, <1>3, <1>4, <1>5 DEF IInv

(* SetStackLimit, from a place where the mutator runs, keeps the invariant *)
(* if the limit is the one for the place it returns to.                    *)
LEMMA SetStep ==
    ASSUME IInv, NEW limit, NEW then \in {"dart", "vm", "loop", "done"},
           SetStackLimit(limit, then), pc \notin {"store", "handle"},
           UNCHANGED <<safepoint_requested, store_buffer_overflowed, back>>,
           os' \in OSLimit, frames' \in Seq(Word), Frames', LimitFor(then, limit)'
    PROVE  IInv'
<1>1. /\ UNCHANGED limits /\ pc' = "store" /\ set'.limit = limit
      /\ set'.had = (stack_limit_.bits # {}) /\ set'.then = then
  BY DEF SetStackLimit, HasScheduledInterrupts
<1>2. Types'
  BY <1>1 DEF IInv, Types, limits, PC
<1>3. Places' /\ LimitInForce'
  BY <1>1 DEF Places, LimitFor, LimitInForce
<1>4. Stores' /\ VMWorkSignalled'
  BY <1>1 DEF IInv, Types, Stores, VMWorkSignalled, Taking, limits, kVMInterrupt
<1> QED BY <1>2, <1>3, <1>4 DEF IInv

-----------------------------------------------------------------------------
(* Each step of the mutator keeps the invariant.                           *)
LEMMA MutatorStep == ASSUME IInv, Mutator PROVE IInv'
<1> USE DEF reasons, handling, mail, limits
<1>0. Types /\ Frames /\ Places /\ Stores /\ VMWorkSignalled /\ LimitInForce
  BY DEF IInv
<1>1. CASE SetStackLimitStore
  <2>1. /\ set.limit \in Word /\ (set.limit.bits # {} => IsInterruptLimit(set.limit))
        /\ (set.then = "done" => kVMInterrupt \in set.limit.bits)
    BY <1>0, <1>1, Words DEF SetStackLimitStore, Types, Places, LimitFor, Inside
  <2>2. Types'
    BY <1>0, <1>1, <2>1 DEF SetStackLimitStore, Types, PC
  <2>3. Frames' /\ Places' /\ Stores'
    BY <1>0, <1>1 DEF SetStackLimitStore, Frames, Places, LimitFor, Stores, Types
  <2>4. VMWorkSignalled'
    BY <1>0, <1>1 DEF SetStackLimitStore, VMWorkSignalled, Stores, Taking, Types
  <2>5. LimitInForce'
    BY <1>0, <1>1 DEF SetStackLimitStore, LimitInForce, Stores, Places, LimitFor, Inside, Types
  <2> QED BY <2>2, <2>3, <2>4, <2>5 DEF IInv
<1>2. CASE InvokeFunction
  <2>1. /\ pc \in {"loop", "vm"} /\ os' \in OSLimit
        /\ frames' = Append(frames, saved_stack_limit_)
        /\ SetStackLimit(Limit(os'), "dart")
        /\ UNCHANGED <<safepoint_requested, store_buffer_overflowed, back>>
        /\ (pc = "vm" => os' = os)
    BY <1>0, <1>2 DEF InvokeFunction, Types
  <2>2. frames' \in Seq(Word) /\ frames' # <<>>
    BY <1>0, <2>1 DEF Types
  <2>3. Frames'
    BY <1>0, <2>1 DEF Types, Frames, Places, LimitFor, Inside
  <2>4. PICK limit : limit = Limit(os')
    OBVIOUS
  <2>5. LimitFor("dart", limit)'
    BY <2>2, <2>4 DEF LimitFor, Limit
  <2> QED BY <2>1, <2>2, <2>3, <2>4, <2>5, SetStep
<1>3. CASE Leave
  <2>1. /\ pc \in {"dart", "vm"} /\ os' = os /\ frames # <<>>
        /\ frames' = SubSeq(frames, 1, Len(frames) - 1)
        /\ SetStackLimit(frames[Len(frames)], IF Len(frames) = 1 THEN "loop" ELSE "vm")
        /\ UNCHANGED <<safepoint_requested, store_buffer_overflowed, back>>
    BY <1>0, <1>3 DEF Leave, RestoredLimit, Places, LimitFor, Inside
  <2>2. frames \in Seq(Word) /\ Len(frames) \in Nat /\ Len(frames) > 0
    BY <1>0, <2>1 DEF Types
  <2>3. /\ frames' \in Seq(Word) /\ Len(frames') = Len(frames) - 1
        /\ \A i \in 1..Len(frames') : frames'[i] = frames[i]
    BY <2>1, <2>2, Popped
  <2>4. Frames'
    BY <1>0, <2>1, <2>2, <2>3 DEF Frames
  <2>5. PICK limit, then : limit = frames[Len(frames)] /\ then = IF Len(frames) = 1 THEN "loop" ELSE "vm"
    OBVIOUS
  <2>6. LimitFor(then, limit)'
    <3>1. CASE Len(frames) = 1
      <4>1. frames' = <<>> /\ limit = Limit("zero") /\ then = "loop"
        BY <1>0, <2>2, <2>3, <2>5, <3>1 DEF Frames
      <4> QED BY <4>1 DEF LimitFor, Inside, Limit
    <3>2. CASE Len(frames) # 1
      <4>1. frames' # <<>>
        BY <2>2, <2>3, <3>2
      <4>2. Len(frames) \in 1..Len(frames)
        BY <2>2
      <4>3. frames[Len(frames)] = Limit(os)
        BY <1>0, <3>2, <4>2 DEF Frames
      <4>4. limit = Limit(os) /\ then = "vm"
        BY <2>5, <3>2, <4>3
      <4> QED BY <2>1, <4>1, <4>4 DEF LimitFor, Inside, Limit
    <3> QED BY <3>1, <3>2
  <2> QED BY <1>0, <2>1, <2>3, <2>4, <2>5, <2>6, SetStep DEF Types
<1>4. CASE Shutdown
  <2>1. SetStackLimit(AllOnes, "done") /\ pc = "loop" /\ UNCHANGED <<frames, os>>
        /\ UNCHANGED <<safepoint_requested, store_buffer_overflowed, back>>
    BY <1>4 DEF Shutdown
  <2>2. PICK limit : limit = AllOnes
    OBVIOUS
  <2>3. LimitFor("done", limit)' /\ Frames' /\ os' \in OSLimit /\ frames' \in Seq(Word)
    BY <1>0, <2>1, <2>2 DEF LimitFor, Frames, Types, AllOnes, Inside
  <2> QED BY <2>1, <2>2, <2>3, SetStep
<1>5. CASE RuntimeCall \/ ReturnToDart \/ StackCheck \/ ThrowStackOverflow
  <2>1. /\ UNCHANGED <<limits, frames, set, back, os, store_buffer_overflowed>>
        /\ pc \in Inside \ {"handle"} /\ pc' \in Inside \ {"handle"}
        /\ safepoint_requested' \in {FALSE, safepoint_requested}
    BY <1>5 DEF RuntimeCall, ReturnToDart, StackCheck, ThrowStackOverflow, Inside
  <2>2. Types' /\ Frames' /\ Places' /\ Stores'
    BY ZenonT(30), <1>0, <2>1 DEF Types, Frames, Places, LimitFor, Stores, Inside, PC
  <2>3. VMWorkSignalled'
    BY <1>0, <2>1 DEF VMWorkSignalled, Taking, Inside, Types
  <2>4. LimitInForce'
    BY <1>0, <2>1 DEF LimitInForce, Places, LimitFor, Inside
  <2> QED BY <2>2, <2>3, <2>4 DEF IInv
<1>6. CASE GetAndClearInterrupts
  <2>1. /\ pc \in {"trap", "vm"} /\ pc' = "handle" /\ back' \in {"dart", "vm"}
        /\ stack_limit_' = IF IsInterruptLimit(stack_limit_) THEN saved_stack_limit_
                                                             ELSE stack_limit_
        /\ taken' = InterruptBits
        /\ UNCHANGED <<saved_stack_limit_, frames, set, os>>
        /\ UNCHANGED <<safepoint_requested, store_buffer_overflowed>>
    BY <1>6 DEF GetAndClearInterrupts
  <2>2. saved_stack_limit_ = Limit(os) /\ saved_stack_limit_.bits = {}
    BY <1>0, <2>1, Words DEF Places, LimitFor, Inside, Types
  <2>3. Types' /\ Frames' /\ Places' /\ Stores'
    BY <1>0, <2>1, <2>2 DEF Types, Frames, Places, LimitFor, Stores, Inside, PC
  <2>4. VMWorkSignalled'
    BY <1>0, <2>1 DEF VMWorkSignalled, Taking, InterruptBits, Types
  <2>5. LimitInForce'
    BY <1>0, <2>1 DEF LimitInForce
  <2> QED BY <2>3, <2>4, <2>5 DEF IInv
<1>7. CASE HandleInterrupts
  <2>1. /\ pc = "handle" /\ pc' = back
        /\ UNCHANGED <<limits, frames, set, back, os>>
        /\ IF kVMInterrupt \in taken
           THEN safepoint_requested' = FALSE /\ store_buffer_overflowed' = FALSE
           ELSE UNCHANGED <<safepoint_requested, store_buffer_overflowed>>
    BY <1>7 DEF HandleInterrupts
  <2>2. Types' /\ Frames' /\ Places' /\ Stores'
    BY <1>0, <2>1 DEF Types, Frames, Places, LimitFor, Stores, Inside, PC
  <2>3. VMWorkSignalled' /\ LimitInForce'
    BY <1>0, <2>1 DEF VMWorkSignalled, Taking, LimitInForce, Places, LimitFor, Inside, Types
  <2> QED BY <2>2, <2>3 DEF IInv
<1>8. CASE HandleOOBMessages
  BY <1>0, <1>8 DEF HandleOOBMessages, IInv, Types, Frames, Places, LimitFor, Stores,
                   VMWorkSignalled, Taking, LimitInForce
<1>9. CASE StoreBufferOverflow
  BY <1>0, <1>9, ScheduleStep DEF StoreBufferOverflow, kInterruptsMask, Types
<1> QED BY <1>1, <1>2, <1>3, <1>4, <1>5, <1>6, <1>7, <1>8, <1>9 DEF Mutator

(* So does each step of the threads that interrupt it.                     *)
LEMMA OthersStep == ASSUME IInv, Others PROVE IInv'
<1> USE DEF reasons, handling, mail, limits, kInterruptsMask
<1>0. Types
  BY DEF IInv
<1>1. CASE RequestSafepoint
  BY <1>0, <1>1, ScheduleStep DEF RequestSafepoint, ThreadLockFree, Types
<1>2. CASE ReserveSample
  BY <1>2, ScheduleStep DEF ReserveSample
<1>3. CASE MessageNotify
  BY <1>3, ScheduleStep DEF MessageNotify
<1>4. CASE PostMessage
  BY <1>4 DEF PostMessage, IInv, Types, Frames, Places, LimitFor, Stores,
              VMWorkSignalled, Taking, LimitInForce
<1> QED BY <1>1, <1>2, <1>3, <1>4 DEF Others

-----------------------------------------------------------------------------
(* IInv is an inductive invariant.                                         *)
THEOREM Inductive == Spec => []IInv
<1>1. Init => IInv
  <2> SUFFICES ASSUME Init PROVE IInv
    OBVIOUS
  <2>1. frames = <<>> /\ frames \in Seq(Word) /\ Len(frames) = 0
    BY DEF Init
  <2>2. /\ stack_limit_ \in Word /\ saved_stack_limit_ \in Word
        /\ stack_limit_.bits = {}
    BY Words DEF Init
  <2>3. set.then = "loop" /\ set.had = FALSE
    BY DEF Init
  <2>4. Types
    BY <2>1, <2>2, <2>3 DEF Init, Types, PC
  <2>5. Frames
    BY <2>1 DEF Frames
  <2>6. Places /\ Stores /\ VMWorkSignalled /\ LimitInForce
    BY DEF Init, Places, LimitFor, Stores, VMWorkSignalled, LimitInForce, Inside
  <2> QED BY <2>4, <2>5, <2>6 DEF IInv
<1>2. IInv /\ [Next]_vars => IInv'
  <2> SUFFICES ASSUME IInv, [Next]_vars PROVE IInv'
    OBVIOUS
  <2>1. CASE UNCHANGED vars
    BY <2>1 DEF vars, limits, handling, reasons, IInv, Types, Frames, Places, LimitFor,
                Stores, VMWorkSignalled, Taking, LimitInForce
  <2> QED BY <2>1, MutatorStep, OthersStep DEF Next
<1> QED BY <1>1, <1>2, PTL DEF Spec

(* An interrupt for a safepoint or a full store buffer survives every      *)
(* SetStackLimit: the first because its sender holds thread_lock_, the     *)
(* second because its sender is the mutator itself (thread.cc,             *)
(* ScheduleInterruptsLocked and SetStackLimit).                            *)
THEOREM VMInterruptsSurvive == Spec => []VMWorkSignalled
<1>1. IInv => VMWorkSignalled
  BY DEF IInv
<1> QED BY <1>1, Inductive, PTL

(* InvokeFunction and ScopedIsolateStackLimits put the right limit in      *)
(* force at any depth of nesting, whichever OS thread runs the isolate.    *)
THEOREM StackLimitIsRight == Spec => []LimitInForce
<1>1. IInv => LimitInForce
  BY DEF IInv
<1> QED BY <1>1, Inductive, PTL

-----------------------------------------------------------------------------
(* No two ports lead to the same native handler: ClosePort may delete it.  *)
SinglePort ==
    \A p, q \in DOMAIN entries :
       entries[p].handler = entries[q].handler
          /\ entries[p].handler \in NativeHandlers => p = q

(* The count of a new handler is right only because no port leads to a     *)
(* handler that is gone, and none does because a native handler has one    *)
(* port: the facts are proved together.                                    *)
RegistryInv == RegistryTypeOK /\ LiveCount /\ NoDanglingHandler /\ SinglePort

(* The ports of a handler are finitely many, and can be counted.           *)
LEMMA LiveFinite ==
    ASSUME RegistryTypeOK, NEW h \in Handlers
    PROVE  IsFiniteSet(LivePortsOf(h)) /\ Cardinality(LivePortsOf(h)) \in Nat
  <1>1. LivePortsOf(h) \subseteq DOMAIN entries
    BY DEF LivePortsOf, PortsOf
  <1>2. IsFiniteSet(LivePortsOf(h))
    BY <1>1, FS_Subset DEF RegistryTypeOK
  <1>3. QED  BY <1>2, FS_CardinalityType

(* A handler that is new has no ports.                                     *)
LEMMA NewHandlerInv ==
    ASSUME RegistryInv, NEW h \in Handlers, NewHandler(h)
    PROVE  RegistryInv'
  <1>1. RegistryTypeOK'
    BY DEF RegistryInv, RegistryTypeOK, NewHandler
  <1>2. LivePortsOf(h) = {}
    BY DEF RegistryInv, NoDanglingHandler, LivePortsOf, PortsOf, NewHandler
  <1>3. LiveCount'
    <2>1. \A g \in Handlers : LivePortsOf(g)' = LivePortsOf(g)
      BY DEF LivePortsOf, PortsOf, NewHandler
    <2>2. live_ports_'[h] = 0 /\ \A g \in Handlers \ {h} : live_ports_'[g] = live_ports_[g]
      BY DEF RegistryInv, RegistryTypeOK, NewHandler
    <2>3. QED  BY <1>2, <2>1, <2>2, FS_EmptySet DEF RegistryInv, LiveCount
  <1>4. NoDanglingHandler' /\ SinglePort'
    BY DEF RegistryInv, NoDanglingHandler, SinglePort, NewHandler
  <1>5. QED  BY <1>1, <1>3, <1>4 DEF RegistryInv

(* A new port is not live.                                                 *)
LEMMA CreatePortInv ==
    ASSUME RegistryInv, NEW h \in Handlers, NEW p \in PortIds, CreatePort(h, p)
    PROVE  RegistryInv'
  <1>1. DOMAIN entries' = DOMAIN entries \cup {p}
    BY DEF CreatePort
  <1>2. /\ \A q \in DOMAIN entries : entries'[q] = entries[q]
        /\ entries'[p] = [handler |-> h, state |-> "new"]
    BY DEF CreatePort
  <1>3. RegistryTypeOK'
    <2>1. IsFiniteSet(DOMAIN entries')
      BY <1>1, FS_AddElement DEF RegistryInv, RegistryTypeOK
    <2>2. \A q \in DOMAIN entries' : entries'[q] \in Entry
      BY <1>1, <1>2 DEF RegistryInv, RegistryTypeOK, Entry, PortState
    <2>3. QED  BY <1>1, <2>1, <2>2 DEF RegistryInv, RegistryTypeOK, CreatePort
  <1>4. LiveCount'
    <2>1. \A g \in Handlers : LivePortsOf(g)' = LivePortsOf(g)
      BY <1>1, <1>2 DEF LivePortsOf, PortsOf, CreatePort
    <2>2. QED  BY <2>1 DEF RegistryInv, LiveCount, CreatePort
  <1>5. NoDanglingHandler' /\ SinglePort'
    BY <1>1, <1>2 DEF RegistryInv, NoDanglingHandler, SinglePort, CreatePort, PortsOf
  <1>6. QED  BY <1>3, <1>4, <1>5 DEF RegistryInv

(* A port that becomes live was not, and one that stops being live was.    *)
LEMMA SetPortStateInv ==
    ASSUME RegistryInv, NEW p \in PortIds, NEW state \in {"live", "inactive"},
           SetPortState(p, state)
    PROVE  RegistryInv'
  <1>0. PICK h \in Handlers : h = entries[p].handler
    BY DEF SetPortState, RegistryInv, RegistryTypeOK, Entry
  <1>1. /\ p \in DOMAIN entries /\ entries[p] \in Entry
        /\ DOMAIN entries' = DOMAIN entries
        /\ entries'[p] = [entries[p] EXCEPT !.state = state]
        /\ \A q \in DOMAIN entries \ {p} : entries'[q] = entries[q]
    BY DEF SetPortState, RegistryInv, RegistryTypeOK, Entry
  <1>2. entries'[p].handler = h /\ entries'[p].state = state /\ entries'[p] \in Entry
    BY <1>0, <1>1 DEF Entry, PortState
  <1>3. \A g \in Handlers \ {h} :
           live_ports_'[g] = live_ports_[g] /\ LivePortsOf(g)' = LivePortsOf(g)
    BY <1>0, <1>1, <1>2 DEF SetPortState, LivePortsOf, PortsOf, RegistryInv, RegistryTypeOK
  <1>4. live_ports_' \in [Handlers -> Int]
        /\ live_ports_'[h] = live_ports_[h] + LiveChange(entries[p].state, state)
    BY <1>0, <1>1 DEF SetPortState, RegistryInv, RegistryTypeOK, LiveChange
  <1>5. live_ports_'[h] = Cardinality(LivePortsOf(h)')
    <2>0. live_ports_[h] = Cardinality(LivePortsOf(h)) /\ IsFiniteSet(LivePortsOf(h))
          /\ Cardinality(LivePortsOf(h)) \in Nat
      BY <1>1, LiveFinite DEF RegistryInv, LiveCount
    <2>same. \A q : q # p => (q \in LivePortsOf(h)' <=> q \in LivePortsOf(h))
      BY Zenon, <1>1 DEF LivePortsOf, PortsOf
    <2>1. CASE state = "live"
      <3>1. entries[p].state # "live"  BY <2>1 DEF SetPortState
      <3>2. p \notin LivePortsOf(h) /\ LivePortsOf(h)' = LivePortsOf(h) \cup {p}
        <4>1. p \notin LivePortsOf(h) /\ p \in LivePortsOf(h)'
          BY Zenon, <1>0, <1>1, <1>2, <2>1, <3>1 DEF LivePortsOf, PortsOf
        <4>2. QED  BY Zenon, <2>same, <4>1
      <3>3. Cardinality(LivePortsOf(h) \cup {p}) = Cardinality(LivePortsOf(h)) + 1
        BY Zenon, <2>0, <3>2, FS_AddElement
      <3>4. QED  BY <1>4, <2>0, <2>1, <3>2, <3>3 DEF LiveChange
    <2>2. CASE state # "live" /\ entries[p].state = "live"
      <3>1. p \in LivePortsOf(h) /\ LivePortsOf(h)' = LivePortsOf(h) \ {p}
        <4>1. p \in LivePortsOf(h) /\ p \notin LivePortsOf(h)'
          BY Zenon, <1>0, <1>1, <1>2, <2>2 DEF LivePortsOf, PortsOf
        <4>2. QED  BY Zenon, <2>same, <4>1
      <3>2. Cardinality(LivePortsOf(h) \ {p}) = Cardinality(LivePortsOf(h)) - 1
        BY Zenon, <2>0, <3>1, FS_RemoveElement
      <3>3. QED  BY <1>4, <2>0, <2>2, <3>1, <3>2 DEF LiveChange
    <2>3. CASE state # "live" /\ entries[p].state # "live"
      <3>1. LivePortsOf(h)' = LivePortsOf(h)
        <4>1. p \notin LivePortsOf(h) /\ p \notin LivePortsOf(h)'
          BY Zenon, <1>2, <2>3 DEF LivePortsOf
        <4>2. QED  BY SMT, <2>same, <4>1
      <3>2. QED  BY <1>4, <2>0, <2>3, <3>1 DEF LiveChange
    <2>4. QED  BY <2>1, <2>2, <2>3
  <1>6. LiveCount'
    BY <1>3, <1>5 DEF RegistryInv, LiveCount
  <1>7. RegistryTypeOK'
    <2>1. DOMAIN entries' \subseteq PortIds /\ IsFiniteSet(DOMAIN entries')
          /\ \A q \in DOMAIN entries' : entries'[q] \in Entry
      BY <1>0, <1>1, <1>2 DEF RegistryInv, RegistryTypeOK
    <2>2. IsFiniteSet(LivePortsOf(h)') 
      <3>1. LivePortsOf(h)' \subseteq DOMAIN entries'  BY DEF LivePortsOf, PortsOf
      <3>2. QED  BY <2>1, <3>1, FS_Subset
    <2>3. live_ports_'[h] \in Nat
      BY <1>5, <2>2, FS_CardinalityType
    <2>4. live_ports_' \in [Handlers -> Nat]
      BY <1>3, <1>4, <2>3 DEF RegistryInv, RegistryTypeOK
    <2>5. QED  BY <2>1, <2>4 DEF RegistryInv, RegistryTypeOK, SetPortState
  <1>8. NoDanglingHandler' /\ SinglePort'
    BY <1>0, <1>1, <1>2 DEF RegistryInv, NoDanglingHandler, SinglePort, SetPortState
  <1>9. QED  BY <1>6, <1>7, <1>8 DEF RegistryInv

(* Closing a port that is live counts it off; no other port changes, and   *)
(* only a native handler, which has no other port, is deleted with it.     *)
LEMMA ClosePortInv ==
    ASSUME RegistryInv, NEW p \in PortIds, ClosePort(p)
    PROVE  RegistryInv'
  <1>0. PICK h \in Handlers : h = entries[p].handler
    BY DEF ClosePort, RegistryInv, RegistryTypeOK, Entry
  <1>1. /\ p \in DOMAIN entries
        /\ DOMAIN entries' = DOMAIN entries \ {p}
        /\ \A q \in DOMAIN entries \ {p} : entries'[q] = entries[q]
    BY DEF ClosePort
  <1>2. \A g \in Handlers \ {h} :
           live_ports_'[g] = live_ports_[g] /\ LivePortsOf(g)' = LivePortsOf(g)
    BY <1>0, <1>1 DEF ClosePort, LivePortsOf, PortsOf, RegistryInv, RegistryTypeOK
  <1>3. live_ports_' \in [Handlers -> Int]
        /\ live_ports_'[h] = live_ports_[h] + LiveChange(entries[p].state, "closed")
    BY <1>0 DEF ClosePort, RegistryInv, RegistryTypeOK, LiveChange
  <1>4. live_ports_'[h] = Cardinality(LivePortsOf(h)')
    <2>0. live_ports_[h] = Cardinality(LivePortsOf(h)) /\ IsFiniteSet(LivePortsOf(h))
          /\ Cardinality(LivePortsOf(h)) \in Nat
      BY LiveFinite DEF RegistryInv, LiveCount
    <2>1. CASE entries[p].state = "live"
      <3>1. p \in LivePortsOf(h) /\ LivePortsOf(h)' = LivePortsOf(h) \ {p}
        BY <1>0, <1>1, <2>1 DEF LivePortsOf, PortsOf
      <3>2. Cardinality(LivePortsOf(h) \ {p}) = Cardinality(LivePortsOf(h)) - 1
        BY <2>0, <3>1, FS_RemoveElement
      <3>3. QED  BY <1>3, <2>0, <2>1, <3>1, <3>2 DEF LiveChange
    <2>2. CASE entries[p].state # "live"
      <3>1. LivePortsOf(h)' = LivePortsOf(h)
        BY <1>0, <1>1, <2>2 DEF LivePortsOf, PortsOf
      <3>2. QED  BY <1>3, <2>0, <2>2, <3>1 DEF LiveChange
    <2>3. QED  BY <2>1, <2>2
  <1>5. LiveCount'
    BY <1>2, <1>4 DEF RegistryInv, LiveCount
  <1>6. RegistryTypeOK'
    <2>1. DOMAIN entries' \subseteq PortIds /\ IsFiniteSet(DOMAIN entries')
      BY <1>1, FS_RemoveElement DEF RegistryInv, RegistryTypeOK
    <2>2. \A q \in DOMAIN entries' : entries'[q] \in Entry
      BY <1>1 DEF RegistryInv, RegistryTypeOK
    <2>3. IsFiniteSet(LivePortsOf(h)')
      <3>1. LivePortsOf(h)' \subseteq DOMAIN entries'  BY DEF LivePortsOf, PortsOf
      <3>2. QED  BY <2>1, <3>1, FS_Subset
    <2>4. live_ports_' \in [Handlers -> Nat]
      <3>1. live_ports_'[h] \in Nat  BY <1>4, <2>3, FS_CardinalityType
      <3>2. QED  BY <1>2, <1>3, <3>1 DEF RegistryInv, RegistryTypeOK
    <2>5. alive' \subseteq Handlers
      BY DEF RegistryInv, RegistryTypeOK, ClosePort
    <2>6. QED  BY <2>1, <2>2, <2>4, <2>5 DEF RegistryTypeOK
  <1>7. NoDanglingHandler' /\ SinglePort'
    BY <1>0, <1>1 DEF RegistryInv, NoDanglingHandler, SinglePort, ClosePort
  <1>8. QED  BY <1>5, <1>6, <1>7 DEF RegistryInv

(* An isolate's ports go with its handler, and its count becomes zero.     *)
LEMMA ClosePortsInv ==
    ASSUME RegistryInv, NEW h \in Handlers, ClosePorts(h)
    PROVE  RegistryInv'
  <1>1. /\ DOMAIN entries' = DOMAIN entries \ PortsOf(h)
        /\ \A q \in DOMAIN entries' : entries'[q] = entries[q]
    BY DEF ClosePorts
  <1>2. LivePortsOf(h)' = {} /\ \A g \in Handlers \ {h} : LivePortsOf(g)' = LivePortsOf(g)
    BY <1>1 DEF LivePortsOf, PortsOf
  <1>3. live_ports_' = [live_ports_ EXCEPT ![h] = 0]
    <2>1. live_ports_[h] - Cardinality(LivePortsOf(h)) = 0
      BY DEF RegistryInv, LiveCount, RegistryTypeOK
    <2>2. live_ports_' = [live_ports_ EXCEPT
                            ![h] = live_ports_[h] - Cardinality(LivePortsOf(h))]
      BY DEF RegistryInv, RegistryTypeOK, ClosePorts
    <2>3. QED  BY <2>1, <2>2
  <1>4. LiveCount'
    BY <1>2, <1>3, FS_EmptySet DEF RegistryInv, LiveCount, RegistryTypeOK
  <1>5. RegistryTypeOK'
    <2>1. DOMAIN entries' \subseteq DOMAIN entries
      BY <1>1
    <2>2. IsFiniteSet(DOMAIN entries')
      BY <2>1, FS_Subset DEF RegistryInv, RegistryTypeOK
    <2>3. \A q \in DOMAIN entries' : entries'[q] \in Entry
      BY <1>1 DEF RegistryInv, RegistryTypeOK
    <2>4. QED  BY <1>3, <2>1, <2>2, <2>3 DEF RegistryInv, RegistryTypeOK, ClosePorts
  <1>6. NoDanglingHandler' /\ SinglePort'
    BY <1>1 DEF RegistryInv, NoDanglingHandler, SinglePort, ClosePorts, PortsOf
  <1>7. QED  BY <1>4, <1>5, <1>6 DEF RegistryInv

(* When the VM goes down nothing is left to count.                         *)
LEMMA CleanupInv ==
    ASSUME RegistryInv, Cleanup
    PROVE  RegistryInv'
  <1>1. DOMAIN entries' = {}
    BY DEF Cleanup
  <1>2. \A h \in Handlers : LivePortsOf(h)' = {}
    BY <1>1 DEF LivePortsOf, PortsOf
  <1>3. live_ports_' = [h \in Handlers |-> 0]
    <2>1. \A h \in Handlers : live_ports_[h] - Cardinality(LivePortsOf(h)) = 0
      BY DEF RegistryInv, LiveCount, RegistryTypeOK
    <2>2. QED  BY <2>1 DEF Cleanup
  <1>4. LiveCount'
    BY <1>2, <1>3, FS_EmptySet DEF LiveCount
  <1>5. RegistryTypeOK'
    BY <1>1, <1>3, FS_EmptySet DEF RegistryInv, RegistryTypeOK, Cleanup
  <1>6. NoDanglingHandler' /\ SinglePort'
    BY <1>1 DEF NoDanglingHandler, SinglePort
  <1>7. QED  BY <1>4, <1>5, <1>6 DEF RegistryInv

(* The registry starts empty.                                              *)
LEMMA RegistryInitInv == RegistryInit => RegistryInv
  <1> SUFFICES ASSUME RegistryInit PROVE RegistryInv
    OBVIOUS
  <1>1. DOMAIN entries = {}
    BY DEF RegistryInit
  <1>2. \A h \in Handlers : LivePortsOf(h) = {}
    BY <1>1 DEF LivePortsOf, PortsOf
  <1>3. LiveCount
    BY <1>2, FS_EmptySet DEF LiveCount, RegistryInit
  <1>4. RegistryTypeOK
    BY <1>1, FS_EmptySet DEF RegistryTypeOK, RegistryInit
  <1>5. QED  BY <1>1, <1>3, <1>4 DEF RegistryInv, NoDanglingHandler, SinglePort

(* Every step keeps the invariant.                                         *)
LEMMA RegistryNextInv == RegistryInv /\ [RegistryNext]_registry => RegistryInv'
  <1> SUFFICES ASSUME RegistryInv, [RegistryNext]_registry PROVE RegistryInv'
    OBVIOUS
  <1>1. ASSUME NEW h \in Handlers, NewHandler(h) PROVE RegistryInv'
    BY <1>1, NewHandlerInv
  <1>2. ASSUME NEW h \in Handlers, ClosePorts(h) PROVE RegistryInv'
    BY <1>2, ClosePortsInv
  <1>3. ASSUME NEW h \in Handlers, NEW p \in PortIds, CreatePort(h, p) PROVE RegistryInv'
    BY <1>3, CreatePortInv
  <1>4. ASSUME NEW p \in PortIds, ClosePort(p) PROVE RegistryInv'
    BY <1>4, ClosePortInv
  <1>5. ASSUME NEW p \in PortIds, NEW state \in {"live", "inactive"},
               SetPortState(p, state)
        PROVE  RegistryInv'
    BY <1>5, SetPortStateInv
  <1>6. CASE Cleanup
    BY <1>6, CleanupInv
  <1>7. CASE UNCHANGED registry
    BY <1>7 DEF registry, RegistryInv, RegistryTypeOK, LiveCount, NoDanglingHandler, SinglePort,
                LivePortsOf, PortsOf
  <1>8. QED  BY <1>1, <1>2, <1>3, <1>4, <1>5, <1>6, <1>7 DEF RegistryNext
-----------------------------------------------------------------------------
(* The invariant of every behaviour of the registry.                       *)
LEMMA RegistrySpecInv == RegistrySpec => []RegistryInv
  BY RegistryInitInv, RegistryNextInv, PTL DEF RegistrySpec

(* For any handlers and ports, live_ports_ never goes below zero           *)
(* (DecrementLivePorts).                                                   *)
THEOREM RegistryTyped == RegistrySpec => []RegistryTypeOK
  BY RegistrySpecInv, PTL DEF RegistryInv

(* For any handlers and ports, HasLivePorts of a handler is true exactly   *)
(* while one of its ports is live.                                         *)
THEOREM RegistryLiveCount == RegistrySpec => []LiveCount
  BY RegistrySpecInv, PTL DEF RegistryInv

(* For any handlers and ports, what PostMessage finds in the port map is a *)
(* handler that has not been deleted.                                      *)
THEOREM RegistryNoDanglingHandler == RegistrySpec => []NoDanglingHandler
  BY RegistrySpecInv, PTL DEF RegistryInv
=============================================================================
