-------------------------- MODULE SafepointProofs ---------------------------
(***************************************************************************)
(* Safepoint operations run alone, for any number of threads, no thread    *)
(* sleeps through its wake-up, and Safepoint implements StopTheWorld.      *)
(***************************************************************************)
EXTENDS Safepoint, SetSizes, TLAPS

(* What the bits of a thread say about where it is.                        *)
ThreadState(t) ==
    /\ t \in active_list_ <=> pc[t] \notin {"out", "waitSchedule"}
    /\ pc[t] \in RunningPC => at[t] = {}
    /\ t \in active_list_ /\ pc[t] \notin RunningPC =>
          at[t] = AtSafepointBits(current_safepoint_level[t])
    /\ t \in bypass_ => pc[t] \in {"vm", "native"} /\ t \notin Mutator
    /\ t \in bypass_ \/ t \notin active_list_ => req[t] = {}
    /\ t \in blocked_ <=> pc[t] = "blocked"
    /\ pc[t] \in OwnerPC \cup {"waitLevel"} =>
          want[t] <= current_safepoint_level[t]
    /\ pc[t] = "waitLower" => want[t] = kGCAndDeopt

(* threads_lock() is a lock, what its holder visits is active, and the     *)
(* levels below an operation that ends are free.                           *)
LockPC == {"notify", "continue"}
LockState ==
    \A t \in Thread : pc[t] \in LockPC =>
       /\ todo \subseteq active_list_ \ {t}
       /\ \A u \in Thread : pc[u] \in LockPC => u = t
       /\ pc[t] = "continue" =>
             \A l \in Level : l < want[t] => owner_[l] = NoThread

(* How far the request of an operation has got.                            *)
RequestState(t) ==
    /\ pc[t] = "notify" =>
          \A u \in Others(t) : want[t] \in req[u] <=> u \notin todo
    /\ pc[t] \in {"waitParked", "waitLower", "op"} =>
          \A u \in Others(t) : want[t] \in req[u]
    /\ pc[t] \in {"waitLower", "op"} =>
          \A u \in Others(t) : want[t] \in at[u]
    /\ pc[t] = "continue" =>
          \A u \in Others(t) : /\ u \in todo => want[t] \in at[u]
                               /\ want[t] \in req[u] <=> u \in todo

IInv ==
    /\ TypeOK /\ ParkedCount /\ OwnerConsistent /\ LockState
    /\ \A t \in Thread : ThreadState(t) /\ RequestState(t)

USE DEF word, handlers, kGC, kGCAndDeopt, Level, RunningPC, OwnerPC, LockPC,
        ThreadsLockWaitPC

(* The levels up to one of the two.                                        *)
LEMMA LevelFact ==
    ASSUME NEW l \in Level
    PROVE  AtSafepointBits(l) = {x \in Level : x <= l}
  BY DEF AtSafepointBits

(* The group starts without threads.                                      *)
LEMMA InitIInv ==
    ASSUME SizeFacts, Init
    PROVE  IInv
  <1>1. TypeOK
    BY SafepointAssumption DEF Init, TypeOK, WordTypeOK, HandlerTypeOK, PC
  <1>2. ParkedCount
    <2>1. \A l \in Level : NotParked(l) = {}  BY Zenon DEF Init, NotParked
    <2>2. QED  BY Zenon, <2>1 DEF SizeFacts, SizeEmpty, Init, ParkedCount
  <1>3. OwnerConsistent
    BY SafepointAssumption DEF Init, OwnerConsistent, Owns
  <1>4. LockState  BY Zenon DEF Init, LockState
  <1>5. \A t \in Thread : ThreadState(t) /\ RequestState(t)
    BY Zenon DEF Init, ThreadState, RequestState
  <1>6. QED  BY Zenon, <1>1, <1>2, <1>3, <1>4, <1>5 DEF IInv

(* A step that changes no thread's standing leaves the count right.        *)
LEMMA SameParked ==
    ASSUME IInv, \A l \in Level : NotParked(l)' = NotParked(l),
           UNCHANGED num_threads_not_parked_
    PROVE  ParkedCount' /\ num_threads_not_parked_' \in [Level -> Nat]
  BY Zenon DEF IInv, ParkedCount, TypeOK, HandlerTypeOK

(* NotifyWeAreParked counts a thread that goes to a safepoint as parked at *)
(* the levels that were requested of it and that it reaches.               *)
LEMMA Parking ==
    ASSUME SizeFacts, IInv, NEW t \in active_list_, at[t] = {},
           NEW A, A = AtSafepointBits(current_safepoint_level[t]),
           \A l \in Level : NotParked(l)' =
              IF l \in A THEN NotParked(l) \ {t} ELSE NotParked(l),
           NotifyWeAreParked(t)
    PROVE  ParkedCount' /\ num_threads_not_parked_' \in [Level -> Nat]
  <1>0. t \in Thread  BY Zenon DEF IInv, TypeOK, WordTypeOK
  <1> SUFFICES ASSUME NEW l \in Level
               PROVE  /\ num_threads_not_parked_'[l] = Cardinality(NotParked(l)')
                      /\ num_threads_not_parked_'[l] \in Nat
    BY Zenon DEF ParkedCount, NotifyWeAreParked
  <1>1. IsFiniteSet(NotParked(l))
    BY Zenon, SafepointAssumption DEF SizeFacts, SizeSubset, NotParked, IInv, TypeOK, WordTypeOK
  <1>2. num_threads_not_parked_[l] = Cardinality(NotParked(l))
    BY Zenon DEF IInv, ParkedCount
  <1>3. CASE ParksAt(t, l)
    <2>1. t \in NotParked(l)  BY Zenon, <1>3 DEF ParksAt, NotParked
    <2>2. NotParked(l)' = NotParked(l) \ {t}
      BY <1>0, <1>3, LevelFact DEF ParksAt, IInv, TypeOK, WordTypeOK
    <2>3. Cardinality(NotParked(l)) # 0 /\ Cardinality(NotParked(l)) \in Nat
      BY Zenon, <1>1, <2>1 DEF SizeFacts, SizeEmpty, SizeIsNat
    <2>4. Cardinality(NotParked(l)') = Cardinality(NotParked(l)) - 1
      BY <1>1, <2>1, <2>2, Zenon DEF SizeFacts, SizeRemove
    <2>5. num_threads_not_parked_'[l] = num_threads_not_parked_[l] - 1
      BY Zenon, <1>3 DEF NotifyWeAreParked
    <2>6. QED  BY <1>2, <2>3, <2>4, <2>5
  <1>4. CASE ~ParksAt(t, l)
    <2>1. NotParked(l)' = NotParked(l)
      <3>1. l \in A => l \notin req[t]
        BY <1>0, <1>4, LevelFact DEF ParksAt, IInv, TypeOK, WordTypeOK
      <3>2. l \in A => t \notin NotParked(l)  BY Zenon, <3>1 DEF NotParked
      <3>3. QED  BY <3>2
    <2>2. Cardinality(NotParked(l)) \in Nat  BY Zenon, <1>1 DEF SizeFacts, SizeIsNat
    <2>3. num_threads_not_parked_'[l] = num_threads_not_parked_[l]
      BY <1>2, <1>4, <2>2 DEF NotifyWeAreParked
    <2>4. QED  BY Zenon, <1>2, <2>1, <2>2, <2>3
  <1>5. QED  BY Zenon, <1>3, <1>4

(* A running thread that sets its bits has exactly those of its level.     *)
LEMMA SetAtFact ==
    ASSUME NEW t \in Thread, at[t] = {}, SetAtSafepoint(t)
    PROVE  at' = [at EXCEPT ![t] = AtSafepointBits(current_safepoint_level[t])]
  <1>1. at[t] \cup AtSafepointBits(current_safepoint_level[t])
           = AtSafepointBits(current_safepoint_level[t])
    BY Zenon
  <1>2. QED  BY Zenon, <1>1 DEF SetAtSafepoint

(* A thread that goes to native code, or blocks, is parked.                *)
LEMMA EnterNativeInv ==
    ASSUME SizeFacts, IInv, NEW t \in Thread, EnterNative(t)
    PROVE  IInv'
  <1>1. ParkedCount' /\ num_threads_not_parked_' \in [Level -> Nat]
    <2>1. t \in active_list_ /\ at[t] = {}
      BY Zenon DEF IInv, ThreadState, EnterNative
    <2>2. NotifyWeAreParked(t)
      BY DEF NotifyWeAreParked, ParksAt, FastEnter, IInv, TypeOK,
          HandlerTypeOK, EnterNative, EnterSafepoint, EnterSafepointLocked
    <2>3. \A l \in Level : NotParked(l)' =
             IF l \in AtSafepointBits(current_safepoint_level[t])
             THEN NotParked(l) \ {t} ELSE NotParked(l)
      BY <2>1, LevelFact DEF NotParked, SetAtSafepoint, IInv, TypeOK,
          WordTypeOK, EnterNative, EnterSafepoint, EnterSafepointLocked
    <2>4. QED  BY Zenon, <2>1, <2>2, <2>3, Parking
  <1>2. TypeOK'
    <2>1. WordTypeOK'
      BY LevelFact, SafepointAssumption DEF IInv, TypeOK, WordTypeOK,
          EnterNative, EnterSafepoint, SetAtSafepoint, EnterSafepointLocked
    <2>2. pc' \in [Thread -> PC] /\ want' \in [Thread -> Level] /\ todo' \subseteq Thread
      BY Zenon DEF IInv, TypeOK, WordTypeOK, HandlerTypeOK, PC, EnterNative,
          EnterSafepoint, SetAtSafepoint, EnterSafepointLocked
    <2>3. wake' \in [Thread -> BOOLEAN]
      BY Zenon DEF IInv, TypeOK, HandlerTypeOK, EnterNative, EnterSafepoint,
          SetAtSafepoint, EnterSafepointLocked
    <2>4. owner_' \in [Level -> Thread \cup {NoThread}]
          /\ operation_count_' \in [Level -> 0..MaxOperationCount]
      BY Zenon, SafepointAssumption DEF IInv, TypeOK, HandlerTypeOK, EnterNative,
          EnterSafepoint, SetAtSafepoint, EnterSafepointLocked
    <2>5. QED  BY Zenon, <1>1, <2>1, <2>2, <2>3, <2>4 DEF TypeOK, HandlerTypeOK
  <1>3. OwnerConsistent'
    BY SafepointAssumption DEF IInv, TypeOK, WordTypeOK, HandlerTypeOK,
        OwnerConsistent, Owns, ThreadState, EnterNative, EnterSafepoint,
        SetAtSafepoint, EnterSafepointLocked
  <1>4. LockState'
    BY SafepointAssumption DEF IInv, TypeOK, WordTypeOK, HandlerTypeOK,
        LockState, ThreadState, EnterNative, EnterSafepoint, SetAtSafepoint,
        EnterSafepointLocked
  <1>5. \A u \in Thread : ThreadState(u)'
    BY SetAtFact, SafepointAssumption DEF IInv, TypeOK, WordTypeOK,
        HandlerTypeOK, ThreadState, EnterNative, EnterSafepoint,
        EnterSafepointLocked
  <1>6. \A u \in Thread : RequestState(u)'
    BY LevelFact DEF IInv, TypeOK, WordTypeOK, HandlerTypeOK, ThreadState,
        RequestState, Others, EnterNative, EnterSafepoint, SetAtSafepoint,
        EnterSafepointLocked
  <1>7. QED  BY Zenon, <1>1, <1>2, <1>3, <1>4, <1>5, <1>6 DEF IInv

(* A thread leaves its safepoint only if no level it takes part in is      *)
(* requested.                                                              *)
LEMMA ExitSafepointInv ==
    ASSUME IInv, NEW t \in Thread, ExitSafepoint(t) \/ WakeUp(t)
    PROVE  IInv'
  <1>1. ParkedCount' /\ num_threads_not_parked_' \in [Level -> Nat]
    <2>1. \A l \in Level : NotParked(l)' = NotParked(l)
      BY LevelFact DEF NotParked, ClearAtSafepoint, Requested, FastExit,
          IInv, TypeOK, WordTypeOK, ThreadState, ExitSafepoint, WakeUp,
          ExitSafepointLocked
    <2>2. QED  BY Zenon, <2>1, SameParked DEF ExitSafepoint, WakeUp
  <1>2. TypeOK'
    <2>1. WordTypeOK'
      BY LevelFact, SafepointAssumption DEF IInv, TypeOK, WordTypeOK,
          ExitSafepoint, WakeUp, FastExit, ExitSafepointLocked,
          ClearAtSafepoint, Requested
    <2>2. pc' \in [Thread -> PC] /\ want' \in [Thread -> Level] /\ todo' \subseteq Thread
      BY Zenon DEF IInv, TypeOK, WordTypeOK, HandlerTypeOK, PC, ExitSafepoint,
          WakeUp, FastExit, ExitSafepointLocked, ClearAtSafepoint, Requested
    <2>3. wake' \in [Thread -> BOOLEAN]
      BY Zenon DEF IInv, TypeOK, HandlerTypeOK, ExitSafepoint, WakeUp, FastExit,
          ExitSafepointLocked, ClearAtSafepoint, Requested
    <2>4. owner_' \in [Level -> Thread \cup {NoThread}]
          /\ operation_count_' \in [Level -> 0..MaxOperationCount]
      BY Zenon, SafepointAssumption DEF IInv, TypeOK, HandlerTypeOK, ExitSafepoint,
          WakeUp, FastExit, ExitSafepointLocked, ClearAtSafepoint, Requested
    <2>5. QED  BY Zenon, <1>1, <2>1, <2>2, <2>3, <2>4 DEF TypeOK, HandlerTypeOK
  <1>3. OwnerConsistent'
    BY SafepointAssumption DEF IInv, TypeOK, WordTypeOK, HandlerTypeOK,
        OwnerConsistent, Owns, ThreadState, ExitSafepoint, WakeUp, FastExit,
        ExitSafepointLocked, ClearAtSafepoint, Requested
  <1>4. LockState'
    BY SafepointAssumption DEF IInv, TypeOK, WordTypeOK, HandlerTypeOK,
        LockState, ThreadState, ExitSafepoint, WakeUp, FastExit,
        ExitSafepointLocked, ClearAtSafepoint, Requested
  <1>5. \A u \in Thread : ThreadState(u)'
    BY SafepointAssumption DEF IInv, TypeOK, WordTypeOK, HandlerTypeOK,
        ThreadState, ExitSafepoint, WakeUp, FastExit, ExitSafepointLocked,
        ClearAtSafepoint, Requested
  <1>6. \A u \in Thread : RequestState(u)'
    BY LevelFact DEF IInv, TypeOK, WordTypeOK, HandlerTypeOK, ThreadState,
        RequestState, Others, ExitSafepoint, WakeUp, FastExit,
        ExitSafepointLocked, ClearAtSafepoint, Requested
  <1>7. QED  BY Zenon, <1>1, <1>2, <1>3, <1>4, <1>5, <1>6 DEF IInv

(* Runtime calls, returns, polls and spurious wakeups touch no bit that    *)
(* others look at.                                                         *)
LEMMA QuietInv ==
    ASSUME IInv, NEW t \in Thread, 
           \/ ToGenerated(t) \/ ReturnToVM(t) \/ Poll(t)
           \/ \E l \in Level : RuntimeCall(t, l)
           \/ HandleInterrupts(t) \/ SpuriousWakeup(t)
    PROVE  IInv'
  <1>1. ParkedCount' /\ num_threads_not_parked_' \in [Level -> Nat]
    <2>1. \A l \in Level : NotParked(l)' = NotParked(l)
      BY Zenon DEF NotParked, ToGenerated, ReturnToVM, RuntimeCall, Poll,
          HandleInterrupts, SpuriousWakeup
    <2>2. QED
      BY Zenon, <2>1, SameParked DEF ToGenerated, ReturnToVM, RuntimeCall, Poll,
          HandleInterrupts, SpuriousWakeup
  <1>2. TypeOK'
    <2>1. WordTypeOK'
      BY Zenon, LevelFact, SafepointAssumption DEF IInv, TypeOK, WordTypeOK,
          ToGenerated, ReturnToVM, RuntimeCall, Poll, HandleInterrupts,
          CheckForSafepoint, SpuriousWakeup, Asleep, Requested
    <2>2. pc' \in [Thread -> PC] /\ want' \in [Thread -> Level] /\ todo' \subseteq Thread
      BY Zenon DEF IInv, TypeOK, WordTypeOK, HandlerTypeOK, PC, ToGenerated,
          ReturnToVM, RuntimeCall, Poll, HandleInterrupts,
          CheckForSafepoint, SpuriousWakeup, Asleep, Requested
    <2>3. wake' \in [Thread -> BOOLEAN]
      BY Zenon DEF IInv, TypeOK, HandlerTypeOK, ToGenerated, ReturnToVM,
          RuntimeCall, Poll, HandleInterrupts, CheckForSafepoint,
          SpuriousWakeup, Asleep, Requested
    <2>4. owner_' \in [Level -> Thread \cup {NoThread}]
          /\ operation_count_' \in [Level -> 0..MaxOperationCount]
      BY Zenon, SafepointAssumption DEF IInv, TypeOK, HandlerTypeOK, ToGenerated,
          ReturnToVM, RuntimeCall, Poll, HandleInterrupts,
          CheckForSafepoint, SpuriousWakeup, Asleep, Requested
    <2>5. QED  BY Zenon, <1>1, <2>1, <2>2, <2>3, <2>4 DEF TypeOK, HandlerTypeOK
  <1>3. OwnerConsistent'
    BY SafepointAssumption DEF IInv, TypeOK, WordTypeOK, HandlerTypeOK,
        OwnerConsistent, Owns, ThreadState, ToGenerated, ReturnToVM,
        RuntimeCall, Poll, HandleInterrupts, CheckForSafepoint,
        SpuriousWakeup, Asleep, Requested
  <1>4. LockState'
    BY SafepointAssumption DEF IInv, TypeOK, WordTypeOK, HandlerTypeOK,
        LockState, ThreadState, ToGenerated, ReturnToVM, RuntimeCall, Poll,
        HandleInterrupts, CheckForSafepoint, SpuriousWakeup, Asleep,
        Requested
  <1>5. \A u \in Thread : ThreadState(u)'
    BY SafepointAssumption DEF IInv, TypeOK, WordTypeOK, HandlerTypeOK,
        ThreadState, ToGenerated, ReturnToVM, RuntimeCall, Poll,
        HandleInterrupts, CheckForSafepoint, SpuriousWakeup, Asleep,
        Requested
  <1>6. \A u \in Thread : RequestState(u)'
    BY LevelFact DEF IInv, TypeOK, WordTypeOK, HandlerTypeOK, ThreadState,
        RequestState, Others, ToGenerated, ReturnToVM, RuntimeCall, Poll,
        HandleInterrupts, CheckForSafepoint, SpuriousWakeup, Asleep,
        Requested
  <1>7. QED  BY Zenon, <1>1, <1>2, <1>3, <1>4, <1>5, <1>6 DEF IInv

(* BlockForSafepoint parks the thread, or finds the request gone.          *)
LEMMA BlockForSafepointInv ==
    ASSUME SizeFacts, IInv, NEW t \in Thread, BlockForSafepoint(t)
    PROVE  IInv'
  <1>1. ParkedCount' /\ num_threads_not_parked_' \in [Level -> Nat]
    <2>1. CASE Requested(t)
      <3>1. t \in active_list_ /\ at[t] = {}
        BY Zenon, <2>1 DEF IInv, ThreadState, BlockForSafepoint
      <3>2. NotifyWeAreParked(t)
        BY Zenon, <2>1 DEF NotifyWeAreParked, ParksAt, FastEnter, IInv, TypeOK,
          HandlerTypeOK, BlockForSafepoint, EnterSafepointLocked
      <3>3. \A l \in Level : NotParked(l)' =
             IF l \in AtSafepointBits(current_safepoint_level[t])
             THEN NotParked(l) \ {t} ELSE NotParked(l)
        BY <2>1, <3>1, LevelFact DEF NotParked, SetAtSafepoint, IInv, TypeOK,
          WordTypeOK, BlockForSafepoint, EnterSafepointLocked
      <3>4. QED  BY Zenon, <3>1, <3>2, <3>3, Parking
    <2>2. CASE ~Requested(t)
      <3>1. \A l \in Level : NotParked(l)' = NotParked(l)
        BY Zenon, <2>2 DEF NotParked, BlockForSafepoint
      <3>2. QED  BY Zenon, <2>2, <3>1, SameParked DEF BlockForSafepoint
    <2>3. QED  BY Zenon, <2>1, <2>2
  <1>2. TypeOK'
    <2>1. WordTypeOK'
      BY LevelFact, SafepointAssumption DEF IInv, TypeOK, WordTypeOK,
          BlockForSafepoint, EnterSafepointLocked, SetAtSafepoint
    <2>2. pc' \in [Thread -> PC] /\ want' \in [Thread -> Level] /\ todo' \subseteq Thread
      BY Zenon DEF IInv, TypeOK, WordTypeOK, HandlerTypeOK, PC, BlockForSafepoint,
          EnterSafepointLocked, SetAtSafepoint
    <2>3. wake' \in [Thread -> BOOLEAN]
      BY Zenon DEF IInv, TypeOK, HandlerTypeOK, BlockForSafepoint,
          EnterSafepointLocked, SetAtSafepoint
    <2>4. owner_' \in [Level -> Thread \cup {NoThread}]
          /\ operation_count_' \in [Level -> 0..MaxOperationCount]
      BY Zenon, SafepointAssumption DEF IInv, TypeOK, HandlerTypeOK,
          BlockForSafepoint, EnterSafepointLocked, SetAtSafepoint
    <2>5. QED  BY Zenon, <1>1, <2>1, <2>2, <2>3, <2>4 DEF TypeOK, HandlerTypeOK
  <1>3. OwnerConsistent'
    BY SafepointAssumption DEF IInv, TypeOK, WordTypeOK, HandlerTypeOK,
        OwnerConsistent, Owns, ThreadState, BlockForSafepoint,
        EnterSafepointLocked, SetAtSafepoint
  <1>4. LockState'
    BY SafepointAssumption DEF IInv, TypeOK, WordTypeOK, HandlerTypeOK,
        LockState, ThreadState, BlockForSafepoint, EnterSafepointLocked,
        SetAtSafepoint
  <1>5. \A u \in Thread : ThreadState(u)'
    BY SetAtFact, SafepointAssumption DEF IInv, TypeOK, WordTypeOK,
        HandlerTypeOK, ThreadState, BlockForSafepoint, EnterSafepointLocked
  <1>6. \A u \in Thread : RequestState(u)'
    BY LevelFact DEF IInv, TypeOK, WordTypeOK, HandlerTypeOK, ThreadState,
        RequestState, Others, BlockForSafepoint, EnterSafepointLocked,
        SetAtSafepoint
  <1>7. QED  BY Zenon, <1>1, <1>2, <1>3, <1>4, <1>5, <1>6 DEF IInv

(* A thread joins the group only while no operation is under way, unless   *)
(* it bypasses safepoints.                                                 *)
LEMMA ScheduleThreadInv ==
    ASSUME IInv, NEW t \in Thread, NEW b \in BOOLEAN, ScheduleThread(t, b)
    PROVE  IInv'
  <1>1. ParkedCount' /\ num_threads_not_parked_' \in [Level -> Nat]
    <2>1. \A l \in Level : NotParked(l)' = NotParked(l)
      BY Zenon DEF NotParked, IInv, TypeOK, WordTypeOK, ThreadState,
          ScheduleThread, set_safepoint_state
    <2>2. QED  BY Zenon, <2>1, SameParked DEF ScheduleThread
  <1>2. TypeOK'
    <2>1. WordTypeOK'
      BY LevelFact, SafepointAssumption DEF IInv, TypeOK, WordTypeOK,
          ScheduleThread, MustWait, set_safepoint_state,
          AnySafepointInProgress, SafepointInProgress, ThreadsLockFree
    <2>2. pc' \in [Thread -> PC] /\ want' \in [Thread -> Level] /\ todo' \subseteq Thread
      BY Zenon DEF IInv, TypeOK, WordTypeOK, HandlerTypeOK, PC, ScheduleThread,
          MustWait, set_safepoint_state, AnySafepointInProgress,
          SafepointInProgress, ThreadsLockFree
    <2>3. wake' \in [Thread -> BOOLEAN]
      BY Zenon DEF IInv, TypeOK, HandlerTypeOK, ScheduleThread, MustWait,
          set_safepoint_state, AnySafepointInProgress, SafepointInProgress,
          ThreadsLockFree
    <2>4. owner_' \in [Level -> Thread \cup {NoThread}]
          /\ operation_count_' \in [Level -> 0..MaxOperationCount]
      BY Zenon, SafepointAssumption DEF IInv, TypeOK, HandlerTypeOK,
          ScheduleThread, MustWait, set_safepoint_state,
          AnySafepointInProgress, SafepointInProgress, ThreadsLockFree
    <2>5. QED  BY Zenon, <1>1, <2>1, <2>2, <2>3, <2>4 DEF TypeOK, HandlerTypeOK
  <1>3. OwnerConsistent'
    BY SafepointAssumption DEF IInv, TypeOK, WordTypeOK, HandlerTypeOK,
        OwnerConsistent, Owns, ThreadState, ScheduleThread, MustWait,
        set_safepoint_state, AnySafepointInProgress, SafepointInProgress,
        ThreadsLockFree
  <1>4. LockState'
    BY SafepointAssumption DEF IInv, TypeOK, WordTypeOK, HandlerTypeOK,
        LockState, ThreadState, ScheduleThread, MustWait,
        set_safepoint_state, AnySafepointInProgress, SafepointInProgress,
        ThreadsLockFree
  <1>5. \A u \in Thread : ThreadState(u)'
    BY SafepointAssumption DEF IInv, TypeOK, WordTypeOK, HandlerTypeOK,
        ThreadState, ScheduleThread, MustWait, set_safepoint_state,
        AnySafepointInProgress, SafepointInProgress, ThreadsLockFree
  <1>6. \A u \in Thread : RequestState(u)'
    BY LevelFact, SafepointAssumption DEF IInv, TypeOK, WordTypeOK,
        HandlerTypeOK, ThreadState, RequestState, Others, ScheduleThread,
        MustWait, set_safepoint_state, AnySafepointInProgress,
        SafepointInProgress, ThreadsLockFree, OwnerConsistent, Owns
  <1>7. QED  BY Zenon, <1>1, <1>2, <1>3, <1>4, <1>5, <1>6 DEF IInv

(* A thread that leaves the group is taken off the count.                  *)
LEMMA UnscheduleThreadInv ==
    ASSUME SizeFacts, IInv, NEW t \in Thread, UnscheduleThread(t)
    PROVE  IInv'
  <1>1. ParkedCount' /\ num_threads_not_parked_' \in [Level -> Nat]
    <2>1. t \in active_list_ /\ at[t] = {}
      BY Zenon DEF IInv, ThreadState, UnscheduleThread
    <2>2. NotifyWeAreParked(t)
      BY DEF NotifyWeAreParked, ParksAt, ParkOnLeave, FastEnter, IInv, TypeOK,
          HandlerTypeOK, ThreadState, UnscheduleThread
    <2>3. \A l \in Level : NotParked(l)' =
             IF l \in AtSafepointBits(current_safepoint_level[t])
             THEN NotParked(l) \ {t} ELSE NotParked(l)
      BY <2>1, LevelFact DEF NotParked, IInv, TypeOK, WordTypeOK,
          UnscheduleThread, set_safepoint_state
    <2>4. QED  BY Zenon, <2>1, <2>2, <2>3, Parking
  <1>2. TypeOK'
    <2>1. WordTypeOK'
      BY Zenon, LevelFact, SafepointAssumption DEF IInv, TypeOK, WordTypeOK,
          UnscheduleThread, set_safepoint_state, ThreadsLockFree
    <2>2. pc' \in [Thread -> PC] /\ want' \in [Thread -> Level] /\ todo' \subseteq Thread
      BY Zenon DEF IInv, TypeOK, WordTypeOK, HandlerTypeOK, PC, UnscheduleThread,
          set_safepoint_state, ThreadsLockFree
    <2>3. wake' \in [Thread -> BOOLEAN]
      BY Zenon DEF IInv, TypeOK, HandlerTypeOK, UnscheduleThread,
          set_safepoint_state, ThreadsLockFree
    <2>4. owner_' \in [Level -> Thread \cup {NoThread}]
          /\ operation_count_' \in [Level -> 0..MaxOperationCount]
      BY Zenon, SafepointAssumption DEF IInv, TypeOK, HandlerTypeOK,
          UnscheduleThread, set_safepoint_state, ThreadsLockFree
    <2>5. QED  BY Zenon, <1>1, <2>1, <2>2, <2>3, <2>4 DEF TypeOK, HandlerTypeOK
  <1>3. OwnerConsistent'
    BY SafepointAssumption DEF IInv, TypeOK, WordTypeOK, HandlerTypeOK,
        OwnerConsistent, Owns, ThreadState, UnscheduleThread,
        set_safepoint_state, ThreadsLockFree
  <1>4. LockState'
    BY Zenon, SafepointAssumption DEF IInv, TypeOK, WordTypeOK, HandlerTypeOK,
        LockState, ThreadState, UnscheduleThread, set_safepoint_state,
        ThreadsLockFree
  <1>5. \A u \in Thread : ThreadState(u)'
    BY Zenon, SafepointAssumption DEF IInv, TypeOK, WordTypeOK, HandlerTypeOK,
        ThreadState, UnscheduleThread, set_safepoint_state, ThreadsLockFree
  <1>6. \A u \in Thread : RequestState(u)'
    BY LevelFact DEF IInv, TypeOK, WordTypeOK, HandlerTypeOK, ThreadState,
        RequestState, Others, UnscheduleThread, set_safepoint_state,
        ThreadsLockFree
  <1>7. QED  BY Zenon, <1>1, <1>2, <1>3, <1>4, <1>5, <1>6 DEF IInv

(* A thread that starts an operation parks itself, then has the level or   *)
(* waits for it.                                                           *)
LEMMA SafepointThreadsInv ==
    ASSUME SizeFacts, IInv, NEW t \in Thread, NEW l0 \in Level, SafepointThreads(t, l0)
    PROVE  IInv'
  <1>1. ParkedCount' /\ num_threads_not_parked_' \in [Level -> Nat]
    <2>1. t \in active_list_ /\ at[t] = {}
      BY Zenon DEF IInv, ThreadState, SafepointThreads
    <2>2. NotifyWeAreParked(t)
      BY Zenon DEF NotifyWeAreParked, ParksAt, FastEnter, IInv, TypeOK,
          HandlerTypeOK, SafepointThreads, EnterSafepointLocked
    <2>3. \A l \in Level : NotParked(l)' =
             IF l \in AtSafepointBits(current_safepoint_level[t])
             THEN NotParked(l) \ {t} ELSE NotParked(l)
      BY Zenon, <2>1, LevelFact DEF NotParked, SetAtSafepoint, IInv, TypeOK,
          WordTypeOK, SafepointThreads, EnterSafepointLocked
    <2>4. QED  BY Zenon, <2>1, <2>2, <2>3, Parking
  <1>2. TypeOK'
    <2>1. WordTypeOK'
      BY Zenon, LevelFact, SafepointAssumption DEF IInv, TypeOK, WordTypeOK,
          SafepointThreads, EnterSafepointLocked, SetAtSafepoint,
          ThreadsLockFree, OwnOrWait, CanOwn, SafepointInProgress
    <2>2. pc' \in [Thread -> PC] /\ want' \in [Thread -> Level] /\ todo' \subseteq Thread
      BY DEF IInv, TypeOK, WordTypeOK, HandlerTypeOK, PC, SafepointThreads,
          EnterSafepointLocked, SetAtSafepoint, ThreadsLockFree, OwnOrWait,
          CanOwn, SafepointInProgress
    <2>3. wake' \in [Thread -> BOOLEAN]
      BY Zenon DEF IInv, TypeOK, HandlerTypeOK, SafepointThreads,
          EnterSafepointLocked, SetAtSafepoint, ThreadsLockFree, OwnOrWait,
          CanOwn, SafepointInProgress
    <2>4. owner_' \in [Level -> Thread \cup {NoThread}]
          /\ operation_count_' \in [Level -> 0..MaxOperationCount]
      BY SafepointAssumption DEF IInv, TypeOK, HandlerTypeOK,
          SafepointThreads, EnterSafepointLocked, SetAtSafepoint,
          ThreadsLockFree, OwnOrWait, CanOwn, SafepointInProgress
    <2>5. QED  BY Zenon, <1>1, <2>1, <2>2, <2>3, <2>4 DEF TypeOK, HandlerTypeOK
  <1>3. OwnerConsistent'
    BY SafepointAssumption DEF IInv, TypeOK, WordTypeOK, HandlerTypeOK,
        OwnerConsistent, Owns, ThreadState, SafepointThreads,
        EnterSafepointLocked, SetAtSafepoint, ThreadsLockFree, OwnOrWait,
        CanOwn, SafepointInProgress
  <1>4. LockState'
    BY SafepointAssumption DEF IInv, TypeOK, WordTypeOK, HandlerTypeOK,
        LockState, ThreadState, SafepointThreads, EnterSafepointLocked,
        SetAtSafepoint, ThreadsLockFree, OwnOrWait, CanOwn,
        SafepointInProgress
  <1>5. \A u \in Thread : ThreadState(u)'
    BY SetAtFact, SafepointAssumption DEF IInv, TypeOK, WordTypeOK,
        HandlerTypeOK, ThreadState, SafepointThreads, EnterSafepointLocked,
        ThreadsLockFree, OwnOrWait, CanOwn, SafepointInProgress
  <1>6. \A u \in Thread : RequestState(u)'
    BY SetAtFact, LevelFact, SafepointAssumption DEF IInv, TypeOK,
        WordTypeOK, HandlerTypeOK, ThreadState, RequestState, Others,
        SafepointThreads, EnterSafepointLocked, SetAtSafepoint,
        ThreadsLockFree, OwnOrWait, CanOwn, SafepointInProgress,
        OwnerConsistent
  <1>7. QED  BY Zenon, <1>1, <1>2, <1>3, <1>4, <1>5, <1>6 DEF IInv

(* Nobody had a level that its waiter takes.                               *)
LEMMA RetryLevelInv ==
    ASSUME IInv, NEW t \in Thread, RetryLevel(t)
    PROVE  IInv'
  <1>1. ParkedCount' /\ num_threads_not_parked_' \in [Level -> Nat]
    <2>1. \A l \in Level : NotParked(l)' = NotParked(l)
      BY Zenon DEF NotParked, RetryLevel
    <2>2. QED  BY Zenon, <2>1, SameParked DEF RetryLevel
  <1>2. TypeOK'
    <2>1. WordTypeOK'
      BY Zenon, LevelFact, SafepointAssumption DEF IInv, TypeOK, WordTypeOK,
          RetryLevel, ThreadsLockFree, OwnOrWait, CanOwn,
          SafepointInProgress
    <2>2. pc' \in [Thread -> PC] /\ want' \in [Thread -> Level] /\ todo' \subseteq Thread
      BY Zenon DEF IInv, TypeOK, WordTypeOK, HandlerTypeOK, PC, RetryLevel,
          ThreadsLockFree, OwnOrWait, CanOwn, SafepointInProgress
    <2>3. wake' \in [Thread -> BOOLEAN]
      BY Zenon DEF IInv, TypeOK, HandlerTypeOK, RetryLevel, ThreadsLockFree,
          OwnOrWait, CanOwn, SafepointInProgress
    <2>4. owner_' \in [Level -> Thread \cup {NoThread}]
          /\ operation_count_' \in [Level -> 0..MaxOperationCount]
      BY SafepointAssumption DEF IInv, TypeOK, HandlerTypeOK, RetryLevel,
          ThreadsLockFree, OwnOrWait, CanOwn, SafepointInProgress
    <2>5. QED  BY Zenon, <1>1, <2>1, <2>2, <2>3, <2>4 DEF TypeOK, HandlerTypeOK
  <1>3. OwnerConsistent'
    BY SafepointAssumption DEF IInv, TypeOK, WordTypeOK, HandlerTypeOK,
        OwnerConsistent, Owns, ThreadState, RetryLevel, ThreadsLockFree,
        OwnOrWait, CanOwn, SafepointInProgress
  <1>4. LockState'
    BY SafepointAssumption DEF IInv, TypeOK, WordTypeOK, HandlerTypeOK,
        LockState, ThreadState, RetryLevel, ThreadsLockFree, OwnOrWait,
        CanOwn, SafepointInProgress
  <1>5. \A u \in Thread : ThreadState(u)'
    BY SafepointAssumption DEF IInv, TypeOK, WordTypeOK, HandlerTypeOK,
        ThreadState, RetryLevel, ThreadsLockFree, OwnOrWait, CanOwn,
        SafepointInProgress
  <1>6. \A u \in Thread : RequestState(u)'
    BY SafepointAssumption DEF IInv, TypeOK, WordTypeOK, HandlerTypeOK,
        ThreadState, RequestState, Others, RetryLevel, ThreadsLockFree,
        OwnOrWait, CanOwn, SafepointInProgress, OwnerConsistent
  <1>7. QED  BY Zenon, <1>1, <1>2, <1>3, <1>4, <1>5, <1>6 DEF IInv

-----------------------------------------------------------------------------
(* The steps of a safepoint operation keep the inductive invariant: the    *)
(* threads it notifies, the levels it takes, and the way back.             *)

(* The requester has asked everybody.                                      *)
LEMMA NotifyDoneInv ==
    ASSUME IInv, NEW t \in Thread, NotifyDone(t)
    PROVE  IInv'
  <1>1. ParkedCount' /\ num_threads_not_parked_' \in [Level -> Nat]
    <2>1. \A l \in Level : NotParked(l)' = NotParked(l)
      BY Zenon DEF NotParked, NotifyDone
    <2>2. QED  BY Zenon, <2>1, SameParked DEF NotifyDone
  <1>2. TypeOK'
    <2>1. WordTypeOK'
      BY Zenon, LevelFact, SafepointAssumption DEF IInv, TypeOK, WordTypeOK,
          NotifyDone
    <2>2. pc' \in [Thread -> PC] /\ want' \in [Thread -> Level] /\ todo' \subseteq Thread
      BY Zenon DEF IInv, TypeOK, WordTypeOK, HandlerTypeOK, PC, NotifyDone
    <2>3. wake' \in [Thread -> BOOLEAN]
      BY Zenon DEF IInv, TypeOK, HandlerTypeOK, NotifyDone
    <2>4. owner_' \in [Level -> Thread \cup {NoThread}]
          /\ operation_count_' \in [Level -> 0..MaxOperationCount]
      BY Zenon, SafepointAssumption DEF IInv, TypeOK, HandlerTypeOK, NotifyDone
    <2>5. QED  BY Zenon, <1>1, <2>1, <2>2, <2>3, <2>4 DEF TypeOK, HandlerTypeOK
  <1>3. OwnerConsistent'
    BY SafepointAssumption DEF IInv, TypeOK, WordTypeOK, HandlerTypeOK,
        OwnerConsistent, Owns, ThreadState, NotifyDone
  <1>4. LockState'
    BY Zenon, SafepointAssumption DEF IInv, TypeOK, WordTypeOK, HandlerTypeOK,
        LockState, ThreadState, NotifyDone
  <1>5. \A u \in Thread : ThreadState(u)'
    BY Zenon, SafepointAssumption DEF IInv, TypeOK, WordTypeOK, HandlerTypeOK,
        ThreadState, NotifyDone
  <1>6. \A u \in Thread : RequestState(u)'
    BY LevelFact DEF IInv, TypeOK, WordTypeOK, HandlerTypeOK, ThreadState,
        RequestState, Others, NotifyDone
  <1>7. QED  BY Zenon, <1>1, <1>2, <1>3, <1>4, <1>5, <1>6 DEF IInv

(* When the count is 0, all that were asked are at the level.              *)
LEMMA ReachedInv ==
    ASSUME SizeFacts, IInv, NEW t \in Thread, ReachedSafepointLevel(t)
    PROVE  IInv'
  <1>1. ParkedCount' /\ num_threads_not_parked_' \in [Level -> Nat]
    <2>1. \A l \in Level : NotParked(l)' = NotParked(l)
      BY Zenon DEF NotParked, ReachedSafepointLevel
    <2>2. QED  BY Zenon, <2>1, SameParked DEF ReachedSafepointLevel
  <1>2. TypeOK'
    <2>1. WordTypeOK'
      BY Zenon, LevelFact, SafepointAssumption DEF IInv, TypeOK, WordTypeOK,
          ReachedSafepointLevel, AllParked
    <2>2. pc' \in [Thread -> PC] /\ want' \in [Thread -> Level] /\ todo' \subseteq Thread
      BY Zenon DEF IInv, TypeOK, WordTypeOK, HandlerTypeOK, PC,
          ReachedSafepointLevel, AllParked
    <2>3. wake' \in [Thread -> BOOLEAN]
      BY Zenon DEF IInv, TypeOK, HandlerTypeOK, ReachedSafepointLevel, AllParked
    <2>4. owner_' \in [Level -> Thread \cup {NoThread}]
          /\ operation_count_' \in [Level -> 0..MaxOperationCount]
      BY Zenon, SafepointAssumption DEF IInv, TypeOK, HandlerTypeOK,
          ReachedSafepointLevel, AllParked
    <2>5. QED  BY Zenon, <1>1, <2>1, <2>2, <2>3, <2>4 DEF TypeOK, HandlerTypeOK
  <1>3. OwnerConsistent'
    BY SafepointAssumption DEF IInv, TypeOK, WordTypeOK, HandlerTypeOK,
        OwnerConsistent, Owns, ThreadState, ReachedSafepointLevel, AllParked
  <1>4. LockState'
    BY SafepointAssumption DEF IInv, TypeOK, WordTypeOK, HandlerTypeOK,
        LockState, ThreadState, ReachedSafepointLevel, AllParked
  <1>5. \A u \in Thread : ThreadState(u)'
    BY SafepointAssumption DEF IInv, TypeOK, WordTypeOK, HandlerTypeOK,
        ThreadState, ReachedSafepointLevel, AllParked
  <1>6. \A u \in Thread : RequestState(u)'
    <2>1. \A u \in Others(t) : want[t] \in at[u]
      <3>1. IsFiniteSet(NotParked(want[t]))
        <4>1. NotParked(want[t]) \subseteq Thread
          BY Zenon DEF IInv, TypeOK, WordTypeOK, NotParked
        <4>2. QED  BY Zenon, <4>1, SafepointAssumption DEF SizeFacts, SizeSubset
      <3>2. Cardinality(NotParked(want[t])) = 0
        BY Zenon DEF IInv, TypeOK, HandlerTypeOK, ParkedCount, ReachedSafepointLevel,
            AllParked
      <3>3. NotParked(want[t]) = {}  BY Zenon, <3>1, <3>2 DEF SizeFacts, SizeEmpty
      <3>4. \A u \in Others(t) : want[t] \in req[u]
        BY Zenon DEF IInv, RequestState, ReachedSafepointLevel
      <3>5. QED  BY Zenon, <3>3, <3>4 DEF NotParked, Others
    <2>2. QED
      BY <2>1 DEF IInv, TypeOK, WordTypeOK, HandlerTypeOK, RequestState, Others,
          ReachedSafepointLevel
  <1>7. QED  BY Zenon, <1>1, <1>2, <1>3, <1>4, <1>5, <1>6 DEF IInv

(* An operation at the higher level takes the lower one when it is free.   *)
LEMMA AcquireLowerInv ==
    ASSUME IInv, NEW t \in Thread, AcquireLowerLevelSafepoints(t)
    PROVE  IInv'
  <1>1. ParkedCount' /\ num_threads_not_parked_' \in [Level -> Nat]
    <2>1. \A l \in Level : NotParked(l)' = NotParked(l)
      BY Zenon DEF NotParked, AcquireLowerLevelSafepoints
    <2>2. QED  BY Zenon, <2>1, SameParked DEF AcquireLowerLevelSafepoints
  <1>2. TypeOK'
    <2>1. WordTypeOK'
      BY Zenon, LevelFact, SafepointAssumption DEF IInv, TypeOK, WordTypeOK,
          AcquireLowerLevelSafepoints, ThreadsLockFree, CanOwn,
          SafepointInProgress
    <2>2. pc' \in [Thread -> PC] /\ want' \in [Thread -> Level] /\ todo' \subseteq Thread
      BY Zenon DEF IInv, TypeOK, WordTypeOK, HandlerTypeOK, PC,
          AcquireLowerLevelSafepoints, ThreadsLockFree, CanOwn,
          SafepointInProgress
    <2>3. wake' \in [Thread -> BOOLEAN]
      BY Zenon DEF IInv, TypeOK, HandlerTypeOK, AcquireLowerLevelSafepoints,
          ThreadsLockFree, CanOwn, SafepointInProgress
    <2>4. owner_' \in [Level -> Thread \cup {NoThread}]
          /\ operation_count_' \in [Level -> 0..MaxOperationCount]
      BY SafepointAssumption DEF IInv, TypeOK, HandlerTypeOK,
          AcquireLowerLevelSafepoints, ThreadsLockFree, CanOwn,
          SafepointInProgress
    <2>5. QED  BY Zenon, <1>1, <2>1, <2>2, <2>3, <2>4 DEF TypeOK, HandlerTypeOK
  <1>3. OwnerConsistent'
    BY SafepointAssumption DEF IInv, TypeOK, WordTypeOK, HandlerTypeOK,
        OwnerConsistent, Owns, ThreadState, AcquireLowerLevelSafepoints,
        ThreadsLockFree, CanOwn, SafepointInProgress
  <1>4. LockState'
    BY SafepointAssumption DEF IInv, TypeOK, WordTypeOK, HandlerTypeOK,
        LockState, ThreadState, AcquireLowerLevelSafepoints,
        ThreadsLockFree, CanOwn, SafepointInProgress
  <1>5. \A u \in Thread : ThreadState(u)'
    BY SafepointAssumption DEF IInv, TypeOK, WordTypeOK, HandlerTypeOK,
        ThreadState, AcquireLowerLevelSafepoints, ThreadsLockFree, CanOwn,
        SafepointInProgress
  <1>6. \A u \in Thread : RequestState(u)'
    BY LevelFact DEF IInv, TypeOK, WordTypeOK, HandlerTypeOK, ThreadState,
        RequestState, Others, AcquireLowerLevelSafepoints, ThreadsLockFree,
        CanOwn, SafepointInProgress
  <1>7. QED  BY Zenon, <1>1, <1>2, <1>3, <1>4, <1>5, <1>6 DEF IInv

(* Nested operations only count.                                           *)
LEMMA NestedInv ==
    ASSUME IInv, NEW t \in Thread, NEW l0 \in Level,
           NestedSafepointThreads(t, l0) \/ NestedResumeThreads(t, l0)
    PROVE  IInv'
  <1>1. ParkedCount' /\ num_threads_not_parked_' \in [Level -> Nat]
    <2>1. \A l \in Level : NotParked(l)' = NotParked(l)
      BY Zenon DEF NotParked, NestedSafepointThreads, NestedResumeThreads
    <2>2. QED  BY Zenon, <2>1, SameParked
           DEF NestedSafepointThreads, NestedResumeThreads
  <1>2. TypeOK'
    <2>1. WordTypeOK'
      BY Zenon, LevelFact, SafepointAssumption DEF IInv, TypeOK, WordTypeOK,
          NestedSafepointThreads, NestedResumeThreads
    <2>2. pc' \in [Thread -> PC] /\ want' \in [Thread -> Level] /\ todo' \subseteq Thread
      BY Zenon DEF IInv, TypeOK, WordTypeOK, HandlerTypeOK, PC,
          NestedSafepointThreads, NestedResumeThreads
    <2>3. wake' \in [Thread -> BOOLEAN]
      BY Zenon DEF IInv, TypeOK, HandlerTypeOK, NestedSafepointThreads,
          NestedResumeThreads
    <2>4. owner_' \in [Level -> Thread \cup {NoThread}]
          /\ operation_count_' \in [Level -> 0..MaxOperationCount]
      BY SafepointAssumption DEF IInv, TypeOK, HandlerTypeOK,
          NestedSafepointThreads, NestedResumeThreads
    <2>5. QED  BY Zenon, <1>1, <2>1, <2>2, <2>3, <2>4 DEF TypeOK, HandlerTypeOK
  <1>3. OwnerConsistent'
    BY SafepointAssumption DEF IInv, TypeOK, WordTypeOK, HandlerTypeOK,
        OwnerConsistent, Owns, ThreadState, NestedSafepointThreads,
        NestedResumeThreads
  <1>4. LockState'
    BY SafepointAssumption DEF IInv, TypeOK, WordTypeOK, HandlerTypeOK,
        LockState, ThreadState, NestedSafepointThreads, NestedResumeThreads
  <1>5. \A u \in Thread : ThreadState(u)'
    BY Zenon, SafepointAssumption DEF IInv, TypeOK, WordTypeOK, HandlerTypeOK,
        ThreadState, NestedSafepointThreads, NestedResumeThreads
  <1>6. \A u \in Thread : RequestState(u)'
    BY LevelFact DEF IInv, TypeOK, WordTypeOK, HandlerTypeOK, ThreadState,
        RequestState, Others, NestedSafepointThreads, NestedResumeThreads
  <1>7. QED  BY Zenon, <1>1, <1>2, <1>3, <1>4, <1>5, <1>6 DEF IInv

(* The outermost scope releases the lower level first.                     *)
LEMMA ResumeThreadsInv ==
    ASSUME IInv, NEW t \in Thread, ResumeThreads(t)
    PROVE  IInv'
  <1>1. ParkedCount' /\ num_threads_not_parked_' \in [Level -> Nat]
    <2>1. \A l \in Level : NotParked(l)' = NotParked(l)
      BY Zenon DEF NotParked, ResumeThreads
    <2>2. QED  BY Zenon, <2>1, SameParked DEF ResumeThreads
  <1>2. TypeOK'
    <2>1. WordTypeOK'
      BY Zenon, LevelFact, SafepointAssumption DEF IInv, TypeOK, WordTypeOK,
          ResumeThreads, ThreadsLockFree
    <2>2. pc' \in [Thread -> PC] /\ want' \in [Thread -> Level] /\ todo' \subseteq Thread
      BY Zenon DEF IInv, TypeOK, WordTypeOK, HandlerTypeOK, PC, ResumeThreads,
          ThreadsLockFree
    <2>3. wake' \in [Thread -> BOOLEAN]
      BY Zenon DEF IInv, TypeOK, HandlerTypeOK, ResumeThreads, ThreadsLockFree
    <2>4. owner_' \in [Level -> Thread \cup {NoThread}]
          /\ operation_count_' \in [Level -> 0..MaxOperationCount]
      BY SafepointAssumption DEF IInv, TypeOK, HandlerTypeOK, ResumeThreads,
          ThreadsLockFree
    <2>5. QED  BY Zenon, <1>1, <2>1, <2>2, <2>3, <2>4 DEF TypeOK, HandlerTypeOK
  <1>3. OwnerConsistent'
    BY SafepointAssumption DEF IInv, TypeOK, WordTypeOK, HandlerTypeOK,
        OwnerConsistent, Owns, ThreadState, ResumeThreads, ThreadsLockFree
  <1>4. LockState'
    BY SafepointAssumption DEF IInv, TypeOK, WordTypeOK, HandlerTypeOK,
        LockState, ThreadState, ResumeThreads, ThreadsLockFree
  <1>5. \A u \in Thread : ThreadState(u)'
    BY Zenon, SafepointAssumption DEF IInv, TypeOK, WordTypeOK, HandlerTypeOK,
        ThreadState, ResumeThreads, ThreadsLockFree
  <1>6. \A u \in Thread : RequestState(u)'
    BY LevelFact DEF IInv, TypeOK, WordTypeOK, HandlerTypeOK, ThreadState,
        RequestState, Others, ResumeThreads, ThreadsLockFree
  <1>7. QED  BY Zenon, <1>1, <1>2, <1>3, <1>4, <1>5, <1>6 DEF IInv

(* The level is given up when no request is left.                          *)
LEMMA ContinueDoneInv ==
    ASSUME IInv, NEW t \in Thread, ContinueDone(t)
    PROVE  IInv'
  <1>1. ParkedCount' /\ num_threads_not_parked_' \in [Level -> Nat]
    <2>1. \A l \in Level : NotParked(l)' = NotParked(l)
      BY Zenon DEF NotParked, ContinueDone
    <2>2. QED  BY Zenon, <2>1, SameParked DEF ContinueDone
  <1>2. TypeOK'
    <2>1. WordTypeOK'
      BY Zenon, LevelFact, SafepointAssumption DEF IInv, TypeOK, WordTypeOK,
          ContinueDone, NotifyThreadsLock
    <2>2. pc' \in [Thread -> PC] /\ want' \in [Thread -> Level] /\ todo' \subseteq Thread
      BY Zenon DEF IInv, TypeOK, WordTypeOK, HandlerTypeOK, PC, ContinueDone,
          NotifyThreadsLock
    <2>3. wake' \in [Thread -> BOOLEAN]
      BY Zenon DEF IInv, TypeOK, HandlerTypeOK, ContinueDone, NotifyThreadsLock
    <2>4. owner_' \in [Level -> Thread \cup {NoThread}]
          /\ operation_count_' \in [Level -> 0..MaxOperationCount]
      BY SafepointAssumption DEF IInv, TypeOK, HandlerTypeOK, ContinueDone,
          NotifyThreadsLock
    <2>5. QED  BY Zenon, <1>1, <2>1, <2>2, <2>3, <2>4 DEF TypeOK, HandlerTypeOK
  <1>3. OwnerConsistent'
    <2>0. /\ OwnerConsistent /\ HandlerTypeOK /\ WordTypeOK /\ RequestState(t)
          /\ \A u \in Thread : ThreadState(u)
      BY Zenon DEF IInv, TypeOK
    <2>1. /\ pc[t] = "continue" /\ owner_[want[t]] = t
          /\ \A l \in Level : owner_[l] = t => l = want[t]
      BY <2>0 DEF HandlerTypeOK, OwnerConsistent, Owns, ContinueDone
    <2>2. ASSUME NEW u \in Thread PROVE want[t] \notin req[u]
      <3>1. u \in Others(t) => want[t] \notin req[u]
        BY Zenon, <2>0 DEF RequestState, ContinueDone
      <3>2. u = t => want[t] \notin req[u]
        <4> SUFFICES ASSUME want[t] \in req[t] PROVE FALSE
          BY Zenon
        <4>1. want[t] \in Level
          BY Zenon, <2>0 DEF HandlerTypeOK
        <4> HIDE DEF Level
        <4>2. PICK x \in Thread \ {t} : owner_[want[t]] = x
          BY Zenon, <2>0, <4>1 DEF OwnerConsistent
        <4>3. QED  BY Zenon, <2>1, <4>2
      <3>3. u # t /\ u \notin Others(t) => want[t] \notin req[u]
        BY Zenon, <2>0 DEF ThreadState, Others
      <3>4. QED  BY Zenon, <3>1, <3>2, <3>3
    <2>3. \A l \in Level : operation_count_'[l] > 0 <=> owner_'[l] # NoThread
      BY <2>0, SafepointAssumption DEF HandlerTypeOK, OwnerConsistent, ContinueDone
    <2>4. \A l \in Level, u \in Thread : owner_'[l] = u <=> Owns(u, l)'
      BY <2>0, <2>1, SafepointAssumption DEF HandlerTypeOK, OwnerConsistent, Owns,
          ContinueDone
    <2>5. ASSUME NEW l \in Level, NEW u \in Thread, l \in req[u]
          PROVE  \E v \in Thread \ {u} : owner_'[l] = v /\ want'[v] = l
      <3>1. PICK v \in Thread \ {u} : owner_[l] = v /\ want[v] = l
        BY Zenon, <2>0, <2>5 DEF OwnerConsistent
      <3>2. l # want[t] /\ v # t  BY Zenon, <2>1, <2>2, <2>5, <3>1
      <3>3. owner_'[l] = v /\ want'[v] = l
        BY Zenon, <3>1, <3>2 DEF IInv, TypeOK, HandlerTypeOK, ContinueDone
      <3>4. QED  BY Zenon, <3>3
    <2>6. req' = req
      BY Zenon DEF ContinueDone
    <2>7. QED  BY Zenon, <2>3, <2>4, <2>5, <2>6 DEF OwnerConsistent
  <1>4. LockState'
    BY Zenon, SafepointAssumption DEF IInv, TypeOK, WordTypeOK, HandlerTypeOK,
        LockState, ThreadState, ContinueDone, NotifyThreadsLock
  <1>5. \A u \in Thread : ThreadState(u)'
    BY Zenon, SafepointAssumption DEF IInv, TypeOK, WordTypeOK, HandlerTypeOK,
        ThreadState, ContinueDone, NotifyThreadsLock
  <1>6. \A u \in Thread : RequestState(u)'
    BY LevelFact DEF IInv, TypeOK, WordTypeOK, HandlerTypeOK, ThreadState,
        RequestState, Others, ContinueDone, NotifyThreadsLock
  <1>7. QED  BY Zenon, <1>1, <1>2, <1>3, <1>4, <1>5, <1>6 DEF IInv

(* A thread that is asked to park is counted if it is not parked already.  *)
LEMMA NotifyOneInv ==
    ASSUME SizeFacts, IInv, NEW t \in Thread, NEW u0 \in Thread, NotifyOne(t, u0)
    PROVE  IInv'
  <1>0. /\ req' \in [Thread -> SUBSET Level] /\ vm_interrupt' \subseteq Thread
        /\ \A u \in Thread \ {u0} : req'[u] = req[u]
        /\ u0 \in bypass_ => req'[u0] = req[u0]
        /\ u0 \notin bypass_ => req'[u0] = req[u0] \cup {want[t]}
    <2>1. CASE u0 \in bypass_
      BY Zenon, <2>1 DEF IInv, TypeOK, WordTypeOK, NotifyOne
    <2>2. CASE u0 \notin bypass_
      BY <2>2 DEF IInv, TypeOK, WordTypeOK, HandlerTypeOK, NotifyOne
    <2>3. QED  BY Zenon, <2>1, <2>2
  <1>1. ParkedCount' /\ num_threads_not_parked_' \in [Level -> Nat]
    <2>0. PICK w \in Level : w = want[t]
      BY Zenon DEF IInv, TypeOK, HandlerTypeOK
    <2>1. u0 \in active_list_ /\ u0 # t
      BY Zenon DEF IInv, TypeOK, HandlerTypeOK, LockState, NotifyOne
    <2>2. CASE u0 \in bypass_
      <3>1. \A l \in Level : NotParked(l)' = NotParked(l)
        BY Zenon, <2>2 DEF NotParked, NotifyOne
      <3>2. QED  BY Zenon, <2>2, <3>1, SameParked DEF NotifyOne
    <2>3. CASE u0 \notin bypass_
      <3>1. w \notin req[u0]
        BY Zenon, <2>0, <2>1, <2>3 DEF IInv, RequestState, Others, NotifyOne
      <3>2. MustPark(u0, w) <=> w \notin at[u0]
        BY <2>1, LevelFact DEF IInv, TypeOK, WordTypeOK, ThreadState, MustPark,
            IsAtSafepoint
      <3>3. req' = [req EXCEPT ![u0] = req[u0] \cup {w}]
        BY Zenon, <2>0, <2>3 DEF NotifyOne
      <3>4. \A l \in Level \ {w} : NotParked(l)' = NotParked(l)
        BY Zenon, <3>3 DEF NotParked, NotifyOne, IInv, TypeOK, WordTypeOK
      <3>5. CASE MustPark(u0, w)
        <4>1. NotParked(w)' = NotParked(w) \cup {u0} /\ u0 \notin NotParked(w)
          <5>1. /\ DOMAIN req = Thread /\ active_list_' = active_list_ /\ at' = at
                /\ u0 \in active_list_ /\ w \notin req[u0] /\ w \notin at[u0]
            BY Zenon, <2>1, <3>1, <3>2, <3>5 DEF NotifyOne, IInv, TypeOK, WordTypeOK
          <5>2. /\ req'[u0] = req[u0] \cup {w}
                /\ \A u \in active_list_ \ {u0} : req'[u] = req[u]
            BY Zenon, <3>3, <5>1 DEF IInv, TypeOK, WordTypeOK
          <5>3. \A u \in active_list_ : w \in req'[u] <=> w \in req[u] \/ u = u0
            BY Zenon, <5>2
          <5>4. QED  BY Zenon, <5>1, <5>3 DEF NotParked
        <4>2. IsFiniteSet(NotParked(w))
          <5>1. NotParked(w) \subseteq Thread
            BY Zenon DEF NotParked, IInv, TypeOK, WordTypeOK
          <5>2. QED  BY Zenon, <5>1, SafepointAssumption DEF SizeFacts, SizeSubset
        <4>3. Cardinality(NotParked(w)') = Cardinality(NotParked(w)) + 1
          BY Zenon, <4>1, <4>2 DEF SizeFacts, SizeAdd
        <4>4. num_threads_not_parked_' =
                 [num_threads_not_parked_ EXCEPT ![w] = @ + 1]
          BY Zenon, <2>0, <2>3, <3>5 DEF NotifyOne
        <4>5. num_threads_not_parked_' \in [Level -> Nat]
          BY <2>1, <4>4 DEF IInv, TypeOK, HandlerTypeOK
        <4>6. num_threads_not_parked_'[w] = Cardinality(NotParked(w)')
          BY Zenon, <2>1, <4>3, <4>4 DEF IInv, TypeOK, HandlerTypeOK, ParkedCount
        <4>7. ASSUME NEW l \in Level \ {w}
              PROVE  num_threads_not_parked_'[l] = Cardinality(NotParked(l)')
          BY Zenon, <2>1, <3>4, <4>4 DEF IInv, TypeOK, HandlerTypeOK, ParkedCount
        <4>8. QED  BY Zenon, <4>5, <4>6, <4>7 DEF ParkedCount
      <3>6. CASE ~MustPark(u0, w)
        <4>1. NotParked(w)' = NotParked(w)
          BY Zenon, <2>1, <3>2, <3>3, <3>6
             DEF NotParked, NotifyOne, IInv, TypeOK, WordTypeOK
        <4>2. num_threads_not_parked_' = num_threads_not_parked_
          BY Zenon, <2>0, <2>3, <3>6 DEF NotifyOne
        <4>3. QED  BY Zenon, <3>4, <4>1, <4>2, SameParked
      <3>7. QED  BY Zenon, <3>5, <3>6
    <2>4. QED  BY Zenon, <2>2, <2>3
  <1>2. TypeOK'
    <2>1. WordTypeOK'
      BY Zenon, <1>0, SafepointAssumption DEF IInv, TypeOK, WordTypeOK, NotifyOne,
          MustPark
    <2>2. pc' \in [Thread -> PC] /\ want' \in [Thread -> Level] /\ todo' \subseteq Thread
      BY Zenon DEF IInv, TypeOK, WordTypeOK, HandlerTypeOK, PC, NotifyOne,
          MustPark
    <2>3. wake' \in [Thread -> BOOLEAN]
      BY Zenon DEF IInv, TypeOK, HandlerTypeOK, NotifyOne, MustPark
    <2>4. owner_' \in [Level -> Thread \cup {NoThread}]
          /\ operation_count_' \in [Level -> 0..MaxOperationCount]
      BY Zenon, SafepointAssumption DEF IInv, TypeOK, HandlerTypeOK, NotifyOne,
          MustPark
    <2>5. QED  BY Zenon, <1>1, <2>1, <2>2, <2>3, <2>4 DEF TypeOK, HandlerTypeOK
  <1>3. OwnerConsistent'
    BY <1>0, SafepointAssumption DEF IInv, TypeOK, WordTypeOK,
        HandlerTypeOK, OwnerConsistent, Owns, ThreadState, NotifyOne,
        MustPark, LockState
  <1>4. LockState'
    BY Zenon, SafepointAssumption DEF IInv, TypeOK, WordTypeOK, HandlerTypeOK,
        LockState, ThreadState, NotifyOne, MustPark
  <1>5. \A u \in Thread : ThreadState(u)'
    BY Zenon, <1>0 DEF IInv, TypeOK, WordTypeOK, HandlerTypeOK, ThreadState,
        NotifyOne, MustPark, LockState
  <1>6. \A u \in Thread : RequestState(u)'
    <2>1. /\ pc \in [Thread -> PC] /\ want \in [Thread -> Level]
          /\ \A u \in Thread : RequestState(u) /\ ThreadState(u)
          /\ LockState /\ pc[t] = "notify" /\ active_list_ \subseteq Thread
          /\ UNCHANGED <<pc, want, at, active_list_, bypass_>>
          /\ u0 \in todo /\ todo' = todo \ {u0}
      BY Zenon DEF IInv, TypeOK, WordTypeOK, HandlerTypeOK, NotifyOne
    <2>2. RequestState(t)'
      <3>1. Others(t)' = Others(t) /\ pc'[t] = "notify" /\ want'[t] = want[t]
        BY Zenon, <2>1 DEF Others
      <3>2. ASSUME NEW u \in Others(t)
            PROVE  want[t] \in req'[u] <=> u \notin todo'
        <4>1. /\ u \in Thread /\ u \notin bypass_
              /\ want[t] \in req[u] <=> u \notin todo
          BY Zenon, <2>1 DEF RequestState, Others
        <4>2. QED  BY Zenon, <1>0, <2>1, <4>1
      <3>3. "notify" \notin {"waitParked", "waitLower", "op", "continue"}
        OBVIOUS
      <3>4. QED  BY Zenon, <3>1, <3>2, <3>3 DEF RequestState
    <2>3. ASSUME NEW u \in Thread, u # t  PROVE RequestState(u)'
      <3>1. pc[u] \notin {"notify", "continue"}
        BY Zenon, <2>1, <2>3 DEF LockState
      <3>2. \A v \in Thread : req[v] \subseteq req'[v]
        BY Zenon, <1>0
      <3>3. Others(u)' = Others(u) /\ Others(u) \subseteq Thread
        BY Zenon, <2>1 DEF Others
      <3>4. pc'[u] = pc[u] /\ want'[u] = want[u] /\ at' = at /\ RequestState(u)
        BY Zenon, <2>1
      <3>5. QED  BY Zenon, <3>1, <3>2, <3>3, <3>4 DEF RequestState
    <2>4. QED  BY Zenon, <2>2, <2>3
  <1>7. QED  BY Zenon, <1>1, <1>2, <1>3, <1>4, <1>5, <1>6 DEF IInv

(* A thread that may continue was parked at the level, and no other        *)
(* operation wants it parked at a level that is cleared.                   *)
LEMMA ContinueOneInv ==
    ASSUME IInv, NEW t \in Thread, NEW u0 \in Thread, ContinueOne(t, u0)
    PROVE  IInv'
  <1>1. ParkedCount' /\ num_threads_not_parked_' \in [Level -> Nat]
    <2>1. \A l \in Level : NotParked(l)' = NotParked(l)
      <3>1. want[t] \in Level /\ u0 \in active_list_ /\ u0 # t
        BY Zenon DEF IInv, TypeOK, HandlerTypeOK, LockState, ContinueOne
      <3>2. u0 \notin bypass_ => want[t] \in at[u0]
        BY Zenon, <3>1 DEF IInv, RequestState, Others, ContinueOne
      <3>3. u0 \notin bypass_ => \A l \in 0..want[t] : l \in at[u0]
        BY <3>1, <3>2, LevelFact DEF IInv, TypeOK, WordTypeOK, ThreadState
      <3>4. \A u \in Thread, l \in Level :
               l \in req[u] /\ l \notin at[u] <=> l \in req'[u] /\ l \notin at[u]
        BY <3>1, <3>3 DEF IInv, TypeOK, WordTypeOK, ContinueOne, ClearedLevels
      <3>5. QED
        BY <3>4, Zenon DEF NotParked, ContinueOne, IInv, TypeOK, WordTypeOK
    <2>2. QED  BY <2>1, SameParked, Zenon DEF ContinueOne
  <1>2. TypeOK'
    <2>1. WordTypeOK'
      BY LevelFact, SafepointAssumption DEF IInv, TypeOK, WordTypeOK,
          ContinueOne, ClearedLevels
    <2>2. pc' \in [Thread -> PC] /\ want' \in [Thread -> Level] /\ todo' \subseteq Thread
      BY Zenon DEF IInv, TypeOK, WordTypeOK, HandlerTypeOK, PC, ContinueOne,
          ClearedLevels
    <2>3. wake' \in [Thread -> BOOLEAN]
      BY Zenon DEF IInv, TypeOK, HandlerTypeOK, ContinueOne, ClearedLevels
    <2>4. owner_' \in [Level -> Thread \cup {NoThread}]
          /\ operation_count_' \in [Level -> 0..MaxOperationCount]
      BY Zenon, SafepointAssumption DEF IInv, TypeOK, HandlerTypeOK, ContinueOne,
          ClearedLevels
    <2>5. QED  BY Zenon, <1>1, <2>1, <2>2, <2>3, <2>4 DEF TypeOK, HandlerTypeOK
  <1>3. OwnerConsistent'
    BY SafepointAssumption DEF IInv, TypeOK, WordTypeOK, HandlerTypeOK,
        OwnerConsistent, Owns, ThreadState, ContinueOne, ClearedLevels
  <1>4. LockState'
    BY SafepointAssumption DEF IInv, TypeOK, WordTypeOK, HandlerTypeOK,
        LockState, ThreadState, ContinueOne, ClearedLevels
  <1>5. \A u \in Thread : ThreadState(u)'
    BY SafepointAssumption DEF IInv, TypeOK, WordTypeOK, HandlerTypeOK,
        ThreadState, ContinueOne, ClearedLevels
  <1>6. \A u \in Thread : RequestState(u)'
    BY SafepointAssumption DEF IInv, TypeOK, WordTypeOK, HandlerTypeOK,
        ThreadState, RequestState, Others, ContinueOne, ClearedLevels,
        LockState, OwnerConsistent, Owns
  <1>7. QED  BY Zenon, <1>1, <1>2, <1>3, <1>4, <1>5, <1>6 DEF IInv

-----------------------------------------------------------------------------
(* Every step preserves the invariant.                                     *)
LEMMA NextIInv ==
    ASSUME SizeFacts, IInv, [Next]_vars
    PROVE  IInv'
  <1>1. CASE UNCHANGED vars
    <2>1. UNCHANGED <<active_list_, at, req, blocked_, bypass_, current_safepoint_level,
                      vm_interrupt, owner_, operation_count_, num_threads_not_parked_,
                      pc, want, wake, todo>>
      BY Zenon, <1>1 DEF vars
    <2> HIDE DEF kGC, kGCAndDeopt, Level, RunningPC, OwnerPC, LockPC
    <2>2. TypeOK'
      BY Zenon, <2>1 DEF IInv, TypeOK, WordTypeOK, HandlerTypeOK
    <2>3. ParkedCount'
      BY Zenon, <2>1 DEF IInv, ParkedCount, NotParked
    <2>4. OwnerConsistent'
      <3> SUFFICES ASSUME NEW l \in Level
                   PROVE  /\ operation_count_'[l] > 0 <=> owner_'[l] # NoThread
                          /\ \A t \in Thread : owner_'[l] = t <=> Owns(t, l)'
                          /\ \A u \in Thread : l \in req'[u] =>
                                \E t \in Thread \ {u} : owner_'[l] = t /\ want'[t] = l
        BY Zenon DEF OwnerConsistent
      <3>1. \A t \in Thread : Owns(t, l)' <=> Owns(t, l)
        BY Zenon, <2>1 DEF Owns
      <3>2. operation_count_'[l] > 0 <=> owner_'[l] # NoThread
        BY Zenon, <2>1 DEF IInv, OwnerConsistent
      <3>3. \A t \in Thread : owner_'[l] = t <=> Owns(t, l)'
        BY Zenon, <2>1, <3>1 DEF IInv, OwnerConsistent
      <3>4. \A u \in Thread : l \in req'[u] =>
               \E t \in Thread \ {u} : owner_'[l] = t /\ want'[t] = l
        BY Zenon, <2>1 DEF IInv, OwnerConsistent
      <3>5. QED  BY Zenon, <3>2, <3>3, <3>4
    <2>5. LockState'
      BY Zenon, <2>1 DEF IInv, LockState
    <2>6. \A t \in Thread : ThreadState(t)'
      BY Zenon, <2>1 DEF IInv, ThreadState, AtSafepointBits
    <2>7. \A t \in Thread : RequestState(t)'
      BY Zenon, <2>1 DEF IInv, RequestState, Others
    <2>8. QED  BY Zenon, <2>2, <2>3, <2>4, <2>5, <2>6, <2>7 DEF IInv
  <1>2. ASSUME NEW t \in Thread,
               \/ EnterNative(t) \/ ExitSafepoint(t) \/ WakeUp(t)
               \/ ToGenerated(t) \/ ReturnToVM(t) \/ Poll(t) \/ HandleInterrupts(t)
               \/ BlockForSafepoint(t) \/ UnscheduleThread(t)
               \/ \E bypass \in BOOLEAN : ScheduleThread(t, bypass)
               \/ \E l \in Level :
                     \/ RuntimeCall(t, l)
                     \/ SafepointThreads(t, l)
                     \/ NestedSafepointThreads(t, l) \/ NestedResumeThreads(t, l)
        PROVE  IInv'
    BY Zenon, <1>2, EnterNativeInv, ExitSafepointInv, QuietInv, BlockForSafepointInv,
        UnscheduleThreadInv, ScheduleThreadInv, SafepointThreadsInv, NestedInv
  <1>3. ASSUME NEW t \in Thread,
               \/ \E u \in Thread : NotifyOne(t, u) \/ ContinueOne(t, u)
               \/ RetryLevel(t) \/ NotifyDone(t)
               \/ ReachedSafepointLevel(t) \/ AcquireLowerLevelSafepoints(t)
               \/ ResumeThreads(t) \/ ContinueDone(t)
               \/ SpuriousWakeup(t)
        PROVE  IInv'
    BY Zenon, <1>3, NotifyOneInv, ContinueOneInv, RetryLevelInv, NotifyDoneInv,
        ReachedInv, AcquireLowerInv, ResumeThreadsInv, ContinueDoneInv, QuietInv
  <1>4. QED  BY Zenon, <1>1, <1>2, <1>3 DEF Next

-----------------------------------------------------------------------------
(* A thread stopped by an operation is at its safepoint.                   *)
LEMMA InvWorldStopped ==
    ASSUME IInv
    PROVE  WorldStopped
  <1> SUFFICES ASSUME NEW t \in Thread, pc[t] = "op", NEW u \in Others(t)
               PROVE  /\ pc[u] \notin RunningPC \cup {"op"}
                      /\ current_safepoint_level[u] >= want[t]
    BY Zenon DEF WorldStopped
  <1>1. u \in Thread /\ u \in active_list_ /\ u # t /\ want[t] \in at[u]
    BY Zenon DEF IInv, TypeOK, WordTypeOK, Others, RequestState
  <1>2. pc[u] \notin RunningPC
    BY Zenon, <1>1 DEF IInv, ThreadState
  <1>3. current_safepoint_level[u] >= want[t]
    BY <1>1, <1>2, LevelFact
       DEF IInv, TypeOK, WordTypeOK, HandlerTypeOK, ThreadState
  <1>4. pc[u] # "op"
    <2>1. Owns(t, kGC) /\ (pc[u] = "op" => Owns(u, kGC))
      BY <1>1 DEF Owns, IInv, TypeOK, HandlerTypeOK
    <2>2. \A v \in Thread : owner_[kGC] = v <=> Owns(v, kGC)
      BY Zenon DEF IInv, OwnerConsistent
    <2>3. owner_[kGC] = t /\ (pc[u] = "op" => owner_[kGC] = u)
      BY Zenon, <1>1, <2>1, <2>2
    <2>4. QED  BY Zenon, <1>1, <2>3
  <1>5. QED  BY Zenon, <1>2, <1>3, <1>4

-----------------------------------------------------------------------------
(* Whoever does not wait has been woken up.                                *)
AwakeState ==
    \A t \in Thread : pc[t] \notin ThreadsLockWaitPC \cup {"blocked"} => wake[t]
WakeInv == NoLostWakeup /\ AwakeState

(* Whoever goes to sleep has something to wait for, and whoever ends what  *)
(* others wait for wakes them.                                             *)
LEMMA StepWakeInv ==
    ASSUME IInv, WakeInv, [Next]_vars
    PROVE  WakeInv'
  <1> USE DEF WakeInv, AwakeState, NoLostWakeup, Asleep, Requested,
          AnySafepointInProgress, SafepointInProgress
  <1>1. CASE UNCHANGED vars
    BY Zenon, <1>1 DEF IInv, TypeOK, WordTypeOK, HandlerTypeOK, vars
  <1>2. CASE \E v \in Thread : EnterNative(v) \/ ToGenerated(v) \/ ReturnToVM(v) \/ Poll(v) \/ HandleInterrupts(v)
    BY <1>2 DEF IInv, TypeOK, WordTypeOK, HandlerTypeOK, EnterNative,
        ToGenerated, ReturnToVM, Poll, HandleInterrupts, CheckForSafepoint
  <1>3. CASE \E v \in Thread : ExitSafepoint(v) \/ WakeUp(v)
    BY <1>3 DEF IInv, TypeOK, WordTypeOK, HandlerTypeOK, ExitSafepoint,
        WakeUp, ExitSafepointLocked
  <1>4. CASE \E v \in Thread : BlockForSafepoint(v)
    BY <1>4 DEF IInv, TypeOK, WordTypeOK, HandlerTypeOK, BlockForSafepoint
  <1>5. CASE \E v \in Thread : UnscheduleThread(v) \/ \E bypass \in BOOLEAN : ScheduleThread(v, bypass)
    BY <1>5 DEF IInv, TypeOK, WordTypeOK, HandlerTypeOK, UnscheduleThread,
        ScheduleThread, MustWait, set_safepoint_state
  <1>6. CASE \E v \in Thread, l \in Level : RuntimeCall(v, l)
    BY <1>6 DEF IInv, TypeOK, WordTypeOK, HandlerTypeOK, RuntimeCall,
        CheckForSafepoint
  <1>7. CASE \E v \in Thread : RetryLevel(v) \/ \E l \in Level : SafepointThreads(v, l)
    BY <1>7 DEF IInv, TypeOK, WordTypeOK, HandlerTypeOK, RetryLevel,
        SafepointThreads, OwnOrWait, CanOwn
  <1>8. CASE \E v \in Thread, l \in Level : NestedSafepointThreads(v, l) \/ NestedResumeThreads(v, l)
    BY <1>8 DEF IInv, TypeOK, WordTypeOK, HandlerTypeOK,
        NestedSafepointThreads, NestedResumeThreads
  <1>9. CASE \E v \in Thread, u \in Thread : NotifyOne(v, u)
    BY <1>9 DEF IInv, TypeOK, WordTypeOK, HandlerTypeOK, NotifyOne
  <1>10. CASE \E v \in Thread : NotifyDone(v) \/ ReachedSafepointLevel(v)
    BY <1>10 DEF IInv, TypeOK, WordTypeOK, HandlerTypeOK, NotifyDone,
        ReachedSafepointLevel
  <1>11. CASE \E v \in Thread : AcquireLowerLevelSafepoints(v)
    BY <1>11 DEF IInv, TypeOK, WordTypeOK, HandlerTypeOK,
        AcquireLowerLevelSafepoints, CanOwn
  <1>12. CASE \E v \in Thread : ResumeThreads(v)
    BY <1>12 DEF IInv, TypeOK, WordTypeOK, HandlerTypeOK, ResumeThreads
  <1>13. CASE \E v \in Thread : SpuriousWakeup(v)
    BY <1>13 DEF IInv, TypeOK, WordTypeOK, HandlerTypeOK, SpuriousWakeup
  <1>14. CASE \E v \in Thread, u \in Thread : ContinueOne(v, u)
    <2>1. PICK v \in Thread, u0 \in Thread : ContinueOne(v, u0)  BY Zenon, <1>14
    <2>2. \A x \in Thread : wake[x] => wake'[x]
      BY Zenon, <2>1 DEF ContinueOne, IInv, TypeOK, HandlerTypeOK
    <2>3. \A x \in Thread : pc[x] = "blocked" /\ req'[x] # req[x] => wake'[x]
      BY <2>1 DEF ContinueOne, Wakes, IInv, TypeOK, WordTypeOK, HandlerTypeOK,
          ThreadState
    <2>4. UNCHANGED <<pc, want, blocked_, current_safepoint_level, owner_>>
      BY Zenon, <2>1 DEF ContinueOne
    <2>5. QED  BY Zenon, <2>2, <2>3, <2>4
  <1>15. CASE \E v \in Thread : ContinueDone(v)
    <2>1. PICK v \in Thread : ContinueDone(v)  BY Zenon, <1>15
    <2>2. \A x \in Thread :
             /\ wake[x] => wake'[x]
             /\ pc[x] \in ThreadsLockWaitPC => wake'[x]
      BY <2>1, Zenon DEF ContinueDone, NotifyThreadsLock
    <2>3. /\ UNCHANGED <<req, blocked_, current_safepoint_level>>
          /\ pc[v] = "continue" /\ pc' = [pc EXCEPT ![v] = "exit"]
      BY Zenon, <2>1 DEF ContinueDone
    <2>4. QED  BY Zenon, <2>2, <2>3 DEF IInv, TypeOK, HandlerTypeOK
  <1>16. QED  BY Zenon, <1>1, <1>2, <1>3, <1>4, <1>5, <1>6, <1>7, <1>8, <1>9,
      <1>10, <1>11, <1>12, <1>13, <1>14, <1>15, Zenon DEF Next

-----------------------------------------------------------------------------
(* An operation has the lower level, so only its own thread has it.        *)
LEMMA OperationOwns ==
    ASSUME IInv, NEW v \in Thread, pc[v] = "op"
    PROVE  owner_[kGC] = v
  <1>1. Owns(v, kGC)
    BY DEF IInv, TypeOK, HandlerTypeOK, Owns
  <1>2. QED  BY Zenon, <1>1 DEF IInv, OwnerConsistent

(* While an operation runs, every other thread has a request it must obey. *)
LEMMA OperationBlocks ==
    ASSUME IInv, NEW v \in Thread, pc[v] = "op", NEW u \in Others(v)
    PROVE  Requested(u) /\ want[v] \in at[u]
  <1>1. u \in Thread /\ u \in active_list_ /\ want[v] \in req[u] /\ want[v] \in at[u]
    BY Zenon DEF IInv, TypeOK, WordTypeOK, Others, RequestState
  <1>2. want[v] <= current_safepoint_level[u]
    BY <1>1, LevelFact DEF IInv, TypeOK, WordTypeOK, HandlerTypeOK, ThreadState
  <1>3. QED  BY Zenon, <1>1, <1>2 DEF Requested

(* What the abstract state of one thread depends on.                       *)
SameMode(u) ==
    /\ u \in active_list_' <=> u \in active_list_
    /\ u \in bypass_' <=> u \in bypass_
    /\ pc'[u] \in RunningPC <=> pc[u] \in RunningPC
    /\ kGCAndDeopt \in at'[u] <=> kGCAndDeopt \in at[u]
SameOperation(u) == /\ pc'[u] = "op" <=> pc[u] = "op"
                    /\ pc[u] = "op" => want'[u] = want[u]

(* If that stays the same the abstract state does.                         *)
LEMMA ModeStays ==
    ASSUME \A u \in Thread : SameMode(u)
    PROVE  WorldMode' = WorldMode
  BY Zenon DEF SameMode, WorldMode

(* The same for the operations.                                            *)
LEMMA OperationStays ==
    ASSUME \A u \in Thread : SameOperation(u)
    PROVE  WorldOperation' = WorldOperation
  BY Zenon DEF SameOperation, WorldOperation

(* If it changes for one thread, the abstract step is one of that thread.  *)
LEMMA ModeMoves ==
    ASSUME NEW t \in Thread, \A u \in Thread \ {t} : SameMode(u)
    PROVE  WorldMode' = [WorldMode EXCEPT ![t] = WorldMode'[t]]
  BY Zenon DEF SameMode, WorldMode

(* No abstract operation runs if no thread is in one.                      *)
LEMMA NoOperationFact ==
    ASSUME \A v \in Thread : pc[v] # "op"
    PROVE  World!NoOperation
  BY Zenon DEF World!NoOperation, WorldOperation

-----------------------------------------------------------------------------
(* Going to native code, blocking and starting an operation stop a thread  *)
(* that was running; a bypassing thread stays exempt.                      *)
LEMMA StopRefines ==
    ASSUME IInv, NEW t \in Thread,
           \/ EnterNative(t) \/ BlockForSafepoint(t)
           \/ \E l \in Level : SafepointThreads(t, l)
    PROVE  [World!Next]_<<WorldMode, WorldOperation>>
  <1>1. \A u \in Thread \ {t} : SameMode(u)
    BY DEF SameMode, IInv, TypeOK, WordTypeOK, HandlerTypeOK, EnterNative,
        EnterSafepoint, EnterSafepointLocked, SetAtSafepoint, BlockForSafepoint,
        SafepointThreads, OwnOrWait
  <1>2. WorldOperation' = WorldOperation
    <2>1. \A u \in Thread : SameOperation(u)
      BY DEF SameOperation, IInv, TypeOK, HandlerTypeOK, EnterNative,
          BlockForSafepoint, SafepointThreads, OwnOrWait
    <2>2. QED  BY Zenon, <2>1, OperationStays
  <1>3. CASE t \in bypass_
    <2>1. WorldMode'[t] = WorldMode[t]
      <3>1. t \in active_list_
        BY Zenon DEF IInv, ThreadState, EnterNative, BlockForSafepoint, SafepointThreads
      <3>2. active_list_' = active_list_ /\ bypass_' = bypass_
        BY Zenon DEF EnterNative, BlockForSafepoint, SafepointThreads
      <3>3. QED  BY Zenon, <1>3, <3>1, <3>2 DEF WorldMode
    <2>2. WorldMode' = WorldMode
      <3>1. WorldMode' = [WorldMode EXCEPT ![t] = WorldMode'[t]]
        BY Zenon, <1>1, ModeMoves
      <3>2. QED  BY <2>1, <3>1, Zenon DEF WorldMode
    <2>3. QED  BY Zenon, <1>2, <2>2
  <1>4. CASE t \notin bypass_
    <2>1. WorldMode[t] = "running" /\ pc[t] \in RunningPC
      BY Zenon, <1>4 DEF WorldMode, IInv, ThreadState, EnterNative, BlockForSafepoint,
          SafepointThreads
    <2>2. WorldMode'[t] \in {"running", "gcSafe", "deoptSafe"}
      BY Zenon, <1>4, <2>1 DEF WorldMode, IInv, ThreadState, EnterNative,
          BlockForSafepoint, SafepointThreads
    <2>3. WorldMode' = [WorldMode EXCEPT ![t] = WorldMode'[t]]
      BY Zenon, <1>1, ModeMoves
    <2>4. CASE WorldMode'[t] = "running"
      BY <1>2, <2>1, <2>3, <2>4, Zenon DEF WorldMode
    <2>5. CASE WorldMode'[t] # "running"
      <3>1. World!Stop(t)
        BY Zenon, <1>2, <2>1, <2>2, <2>3, <2>5 DEF World!Stop
      <3>2. QED  BY Zenon, <3>1 DEF World!Next
    <2>6. QED  BY Zenon, <2>4, <2>5
  <1>5. QED  BY Zenon, <1>3, <1>4

(* A thread runs again only when it has no request, so when there is no    *)
(* operation it could disturb.                                             *)
LEMMA ExitRefines ==
    ASSUME IInv, NEW t \in Thread, ExitSafepoint(t) \/ WakeUp(t)
    PROVE  [World!Next]_<<WorldMode, WorldOperation>>
  <1>1. /\ active_list_' = active_list_ /\ bypass_' = bypass_
        /\ t \in active_list_ /\ pc[t] \notin RunningPC \cup {"op"}
        /\ \A u \in Thread \ {t} : pc'[u] = pc[u] /\ at'[u] = at[u]
        /\ want' = want
    BY Zenon DEF IInv, TypeOK, WordTypeOK, HandlerTypeOK, ThreadState, ExitSafepoint,
        WakeUp, ExitSafepointLocked, ClearAtSafepoint
  <1>2. \/ pc'[t] = "blocked" /\ at' = at
        \/ pc'[t] = "vm" /\ (FastExit(t) \/ ~Requested(t))
    BY Zenon DEF IInv, TypeOK, HandlerTypeOK, ExitSafepoint, WakeUp,
        ExitSafepointLocked
  <1>3. WorldOperation' = WorldOperation
    <2>1. \A u \in Thread : SameOperation(u)  BY Zenon, <1>1, <1>2 DEF SameOperation
    <2>2. QED  BY Zenon, <2>1, OperationStays
  <1>4. WorldMode' = [WorldMode EXCEPT ![t] = WorldMode'[t]]
    <2>1. \A u \in Thread \ {t} : SameMode(u)  BY Zenon, <1>1 DEF SameMode
    <2>2. QED  BY Zenon, <2>1, ModeMoves
  <1>5. CASE t \in bypass_ \/ pc'[t] = "blocked"
    <2>1. WorldMode'[t] = WorldMode[t]  BY Zenon, <1>1, <1>2, <1>5 DEF WorldMode
    <2>2. WorldMode' = WorldMode  BY <1>4, <2>1, Zenon DEF WorldMode
    <2>3. QED  BY Zenon, <1>3, <2>2
  <1>6. CASE t \notin bypass_ /\ pc'[t] # "blocked"
    <2>1. /\ WorldMode[t] \in {"gcSafe", "deoptSafe"}
          /\ WorldMode'[t] = "running"
      BY Zenon, <1>1, <1>2, <1>6 DEF WorldMode
    <2>2. ~Requested(t)  BY Zenon, <1>2, <1>6 DEF FastExit, Requested
    <2>3. World!NoOperation
      <3>1. ASSUME NEW v \in Thread, pc[v] = "op" PROVE FALSE
        <4>1. t \in Others(v)  BY Zenon, <1>1, <1>6, <3>1 DEF Others
        <4>2. QED  BY Zenon, <2>2, <3>1, <4>1, OperationBlocks
      <3>2. QED  BY Zenon, <3>1, NoOperationFact
    <2>4. World!Run(t)  BY Zenon, <1>3, <1>4, <2>1, <2>3 DEF World!Run
    <2>5. QED  BY Zenon, <2>4 DEF World!Next
  <1>7. QED  BY Zenon, <1>5, <1>6

(* Only an operation makes a level busy: a thread that need not wait       *)
(* arrives when there is none.                                             *)
LEMMA ScheduleRefines ==
    ASSUME IInv, NEW t \in Thread, NEW b \in BOOLEAN, ScheduleThread(t, b)
    PROVE  [World!Next]_<<WorldMode, WorldOperation>>
  <1>1. /\ t \notin active_list_ /\ pc[t] \notin RunningPC \cup {"op"}
        /\ pc'[t] # "op" /\ want' = want
        /\ \A u \in Thread \ {t} : SameMode(u) /\ pc'[u] = pc[u]
    BY DEF IInv, TypeOK, WordTypeOK, HandlerTypeOK, ThreadState, SameMode,
        ScheduleThread, set_safepoint_state
  <1>2. WorldOperation' = WorldOperation
    <2>1. \A u \in Thread : SameOperation(u)  BY Zenon, <1>1 DEF SameOperation
    <2>2. QED  BY Zenon, <2>1, OperationStays
  <1>3. WorldMode' = [WorldMode EXCEPT ![t] = WorldMode'[t]]
    BY Zenon, <1>1, ModeMoves
  <1>4. WorldMode[t] = "out"  BY Zenon, <1>1 DEF WorldMode
  <1>5. CASE MustWait(b)
    <2>1. active_list_' = active_list_  BY Zenon, <1>5 DEF ScheduleThread
    <2>2. WorldMode'[t] = "out"  BY Zenon, <1>1, <2>1 DEF WorldMode
    <2>3. WorldMode' = WorldMode  BY <1>3, <1>4, <2>2, Zenon DEF WorldMode
    <2>4. QED  BY Zenon, <1>2, <2>3
  <1>6. CASE ~MustWait(b)
    <2>1. /\ t \in active_list_' /\ pc'[t] = "vm"
          /\ t \in bypass_' <=> b
      BY Zenon, <1>6 DEF ScheduleThread, set_safepoint_state, IInv, TypeOK,
          HandlerTypeOK
    <2>2. CASE b
      <3>1. WorldMode'[t] = "exempt"  BY Zenon, <2>1, <2>2 DEF WorldMode
      <3>2. World!ComeOrGoExempt(t)
        BY Zenon, <1>2, <1>3, <1>4, <3>1 DEF World!ComeOrGoExempt
      <3>3. QED  BY Zenon, <3>2 DEF World!Next
    <2>3. CASE ~b
      <3>1. WorldMode'[t] = "running"  BY Zenon, <2>1, <2>3 DEF WorldMode
      <3>2. World!NoOperation
        <4>1. owner_[kGC] = NoThread
          BY Zenon, <1>6, <2>3 DEF MustWait, AnySafepointInProgress, SafepointInProgress
        <4>2. QED  BY Zenon, <4>1, OperationOwns, NoOperationFact, SafepointAssumption
      <3>3. World!Run(t)  BY Zenon, <1>2, <1>3, <1>4, <3>1, <3>2 DEF World!Run
      <3>4. QED  BY Zenon, <3>3 DEF World!Next
    <2>4. QED  BY Zenon, <2>2, <2>3
  <1>7. QED  BY Zenon, <1>5, <1>6

(* A thread that leaves was running or exempt.                             *)
LEMMA UnscheduleRefines ==
    ASSUME IInv, NEW t \in Thread, UnscheduleThread(t)
    PROVE  [World!Next]_<<WorldMode, WorldOperation>>
  <1>1. /\ t \in active_list_ /\ pc[t] = "vm" /\ t \notin active_list_'
        /\ pc'[t] = "out" /\ want' = want
        /\ \A u \in Thread \ {t} : SameMode(u) /\ pc'[u] = pc[u]
    BY Zenon DEF IInv, TypeOK, WordTypeOK, HandlerTypeOK, ThreadState, SameMode,
        UnscheduleThread, set_safepoint_state
  <1>2. WorldOperation' = WorldOperation
    <2>1. \A u \in Thread : SameOperation(u)  BY Zenon, <1>1 DEF SameOperation
    <2>2. QED  BY Zenon, <2>1, OperationStays
  <1>3. WorldMode' = [WorldMode EXCEPT ![t] = WorldMode'[t]]
    BY Zenon, <1>1, ModeMoves
  <1>4. WorldMode'[t] = "out" /\ WorldMode[t] \in {"running", "exempt"}
    BY Zenon, <1>1 DEF WorldMode
  <1>5. World!Stop(t) \/ World!ComeOrGoExempt(t)
    BY Zenon, <1>2, <1>3, <1>4 DEF World!Stop, World!ComeOrGoExempt
  <1>6. QED  BY Zenon, <1>5 DEF World!Next

(* An operation begins when it has its level and those below it, and all   *)
(* others are parked at its level.                                         *)
LEMMA BeginRefines ==
    ASSUME SizeFacts, IInv, NEW t \in Thread,
           ReachedSafepointLevel(t) \/ AcquireLowerLevelSafepoints(t)
    PROVE  [World!Next]_<<WorldMode, WorldOperation>>
  <1>1. /\ active_list_' = active_list_ /\ bypass_' = bypass_ /\ at' = at
        /\ want' = want /\ pc[t] \in {"waitParked", "waitLower"}
        /\ pc'[t] \in {"waitLower", "op"}
        /\ pc' = [pc EXCEPT ![t] = pc'[t]]
    BY Zenon DEF IInv, TypeOK, HandlerTypeOK, ReachedSafepointLevel,
        AcquireLowerLevelSafepoints
  <1>2. WorldMode' = WorldMode
    <2>1. \A u \in Thread : SameMode(u)
      BY Zenon, <1>1 DEF SameMode, IInv, TypeOK, HandlerTypeOK
    <2>2. QED  BY Zenon, <2>1, ModeStays
  <1>3. CASE pc'[t] = "waitLower"
    <2>1. \A u \in Thread : SameOperation(u)
      BY Zenon, <1>1, <1>3 DEF SameOperation, IInv, TypeOK, HandlerTypeOK
    <2>2. QED  BY Zenon, <1>2, <2>1, OperationStays
  <1>4. CASE pc'[t] = "op"
    <2>1. World!NoOperation
      <3>1. ASSUME NEW v \in Thread, pc[v] = "op" PROVE FALSE
        <4>1. owner_[kGC] = v  BY Zenon, <3>1, OperationOwns
        <4>2. CASE ReachedSafepointLevel(t)
          <5>1. want[t] = kGC /\ pc[t] = "waitParked"
            BY Zenon, <1>4, <4>2 DEF ReachedSafepointLevel, IInv, TypeOK, HandlerTypeOK
          <5>2. owner_[kGC] = t
            BY Zenon, <5>1 DEF IInv, OwnerConsistent, Owns
          <5>3. QED  BY Zenon, <3>1, <4>1, <5>1, <5>2
        <4>3. CASE AcquireLowerLevelSafepoints(t)
          BY Zenon, <1>1, <1>4, <4>1, <4>3, SafepointAssumption
             DEF AcquireLowerLevelSafepoints, CanOwn, SafepointInProgress
        <4>4. QED  BY Zenon, <4>2, <4>3
      <3>2. QED  BY Zenon, <3>1, NoOperationFact
    <2>2. IInv'  BY Zenon, ReachedInv, AcquireLowerInv
    <2>3. \A u \in Others(t) : want[t] \in at[u] /\ pc[u] \notin RunningPC
      <3>1. RequestState(t)' /\ \A u \in Thread : ThreadState(u)'
        BY Zenon, <2>2 DEF IInv
      <3>2. \A u \in Others(t) : u \in Thread /\ u \in Others(t)'
        BY Zenon, <1>1 DEF Others, IInv, TypeOK, WordTypeOK
      <3>3. \A u \in Others(t) : pc'[u] = pc[u]
        BY Zenon, <1>1, <3>2 DEF Others, IInv, TypeOK, HandlerTypeOK
      <3>4. QED  BY Zenon, <1>1, <1>4, <3>1, <3>2, <3>3 DEF RequestState, ThreadState
    <2> DEFINE o == IF want[t] = kGC THEN "gc" ELSE "deopt"
    <2>4. ASSUME NEW u \in Thread \ {t} PROVE WorldMode[u] \in World!SafeFor(o)
      BY Zenon, <2>3, <2>4 DEF WorldMode, World!SafeFor, World!Mode, Others, IInv,
          TypeOK, HandlerTypeOK
    <2>5. WorldMode[t] \in {"gcSafe", "deoptSafe"}
      BY Zenon, <1>1 DEF WorldMode, IInv, ThreadState
    <2>6. WorldOperation' = [WorldOperation EXCEPT ![t] = o]
      BY <1>1, <1>4, Zenon DEF WorldOperation, IInv, TypeOK, HandlerTypeOK
    <2>7. World!Begin(t)
      BY <1>2, <2>1, <2>4, <2>5, <2>6, Zenon DEF World!Begin
    <2>8. QED  BY Zenon, <2>7 DEF World!Next
  <1>5. QED  BY Zenon, <1>1, <1>3, <1>4

(* The outermost ResumeThreads ends the operation before anyone continues. *)
LEMMA EndRefines ==
    ASSUME IInv, NEW t \in Thread, ResumeThreads(t)
    PROVE  [World!Next]_<<WorldMode, WorldOperation>>
  <1>1. WorldMode' = WorldMode
    <2>1. \A u \in Thread : SameMode(u)
      BY Zenon DEF SameMode, ResumeThreads, IInv, TypeOK, HandlerTypeOK
    <2>2. QED  BY Zenon, <2>1, ModeStays
  <1>2. /\ WorldOperation[t] # "none"
        /\ WorldOperation' = [WorldOperation EXCEPT ![t] = "none"]
    BY Zenon DEF WorldOperation, ResumeThreads, IInv, TypeOK, HandlerTypeOK
  <1>3. World!End(t)  BY Zenon, <1>1, <1>2 DEF World!End
  <1>4. QED  BY Zenon, <1>3 DEF World!Next

(* Requests, waits, nesting and notifications are invisible.               *)
LEMMA QuietRefines ==
    ASSUME IInv, NEW t \in Thread,
           \/ ToGenerated(t) \/ ReturnToVM(t) \/ Poll(t) \/ HandleInterrupts(t)
           \/ \E l \in Level : \/ RuntimeCall(t, l)
                               \/ NestedSafepointThreads(t, l)
                               \/ NestedResumeThreads(t, l)
           \/ \E u \in Thread : NotifyOne(t, u) \/ ContinueOne(t, u)
           \/ RetryLevel(t) \/ NotifyDone(t) \/ ContinueDone(t)
           \/ SpuriousWakeup(t)
    PROVE  [World!Next]_<<WorldMode, WorldOperation>>
  <1> DEFINE Quiet ==
          /\ active_list_' = active_list_ /\ bypass_' = bypass_ /\ at' = at
          /\ \A u \in Thread \ {t} : pc'[u] = pc[u] /\ want'[u] = want[u]
          /\ \/ pc[t] \in RunningPC /\ pc'[t] \in RunningPC
             \/ pc'[t] = pc[t] /\ want'[t] = want[t]
             \/ /\ pc[t] \notin RunningPC \cup {"op"}
                /\ pc'[t] \notin RunningPC \cup {"op"}
  <1>1. pc \in [Thread -> PC] /\ want \in [Thread -> Level]
    BY Zenon DEF IInv, TypeOK, HandlerTypeOK
  <1>2. Quiet
    <2>1. CASE ToGenerated(t) \/ ReturnToVM(t)
      BY Zenon, <1>1, <2>1 DEF ToGenerated, ReturnToVM
    <2>2. CASE Poll(t) \/ HandleInterrupts(t)
      BY Zenon, <1>1, <2>2 DEF Poll, HandleInterrupts, CheckForSafepoint
    <2>3. CASE \E l \in Level : RuntimeCall(t, l)
      BY Zenon, <1>1, <2>3 DEF RuntimeCall, CheckForSafepoint
    <2>4. CASE \E l \in Level : \/ NestedSafepointThreads(t, l)
                               \/ NestedResumeThreads(t, l)
      BY Zenon, <1>1, <2>4 DEF NestedSafepointThreads, NestedResumeThreads
    <2>5. CASE \E u \in Thread : NotifyOne(t, u) \/ ContinueOne(t, u)
      BY Zenon, <1>1, <2>5 DEF NotifyOne, ContinueOne
    <2>6. CASE RetryLevel(t)
      BY Zenon, <1>1, <2>6 DEF RetryLevel, OwnOrWait
    <2>7. CASE NotifyDone(t) \/ ContinueDone(t) \/ SpuriousWakeup(t)
      BY Zenon, <1>1, <2>7 DEF NotifyDone, ContinueDone, SpuriousWakeup
    <2>8. QED  BY <2>1, <2>2, <2>3, <2>4, <2>5, <2>6, <2>7, Zenon
  <1> HIDE DEF Quiet
  <1>3. \A u \in Thread : SameMode(u)  BY <1>2, Zenon DEF Quiet, SameMode
  <1>4. \A u \in Thread : SameOperation(u)  BY <1>2, Zenon DEF Quiet, SameOperation
  <1>5. QED  BY Zenon, <1>3, <1>4, ModeStays, OperationStays

(* Every step maps to a step of StopTheWorld or to none.                   *)
LEMMA NextRefines ==
    ASSUME SizeFacts, IInv, [Next]_vars
    PROVE  [World!Next]_<<WorldMode, WorldOperation>>
  <1>1. CASE UNCHANGED vars
    BY Zenon, <1>1 DEF vars, WorldMode, WorldOperation
  <1>2. CASE Next
    BY Zenon, <1>2, StopRefines, ExitRefines, ScheduleRefines, UnscheduleRefines,
        BeginRefines, EndRefines, QuietRefines DEF Next
  <1>3. QED  BY Zenon, <1>1, <1>2

LEMMA InitRefines ==
    ASSUME Init
    PROVE  World!Init /\ WakeInv
  <1>1. World!Init
    BY Zenon DEF Init, World!Init, WorldMode, WorldOperation
  <1>2. WakeInv
    BY Zenon DEF Init, WakeInv, AwakeState, NoLostWakeup, Asleep
  <1>3. QED  BY Zenon, <1>1, <1>2

-----------------------------------------------------------------------------
FS == INSTANCE FiniteSetTheorems

(* The facts about sizes that the lemmas assume.                           *)
LEMMA SizesHold == SizeFacts
<1>1. \A S : IsFiniteSet(S) <=> FS!IsFiniteSet(S)
  BY Zenon DEF IsFiniteSet, FS!IsFiniteSet
<1>2. \A S : Cardinality(S) = FS!Cardinality(S)
  BY Zenon DEF Cardinality, FS!Cardinality
<1>3. SizeIsNat /\ SizeEmpty /\ SizeOne
  BY Zenon, <1>1, <1>2, FS!FS_CardinalityType, FS!FS_EmptySet, FS!FS_Singleton
     DEF SizeIsNat, SizeEmpty, SizeOne
<1>4. SizeAdd /\ SizeRemove
  BY Zenon, <1>1, <1>2, FS!FS_AddElement, FS!FS_RemoveElement DEF SizeAdd, SizeRemove
<1>5. SizeSubset
  BY Zenon, <1>1, <1>2, FS!FS_Subset DEF SizeSubset
<1>6. SizeInterval /\ SizeProduct
  BY Zenon, <1>1, <1>2, FS!FS_Interval, FS!FS_Product DEF SizeInterval, SizeProduct
<1> QED BY Zenon, <1>3, <1>4, <1>5, <1>6 DEF SizeFacts

(* IInv holds in every reachable state.                                    *)
LEMMA SpecIInv == Spec => []IInv
  <1>1. Init => IInv  BY Zenon, InitIInv, SizesHold
  <1>2. IInv /\ [Next]_vars => IInv'  BY Zenon, NextIInv, SizesHold
  <1>3. QED  BY <1>1, <1>2, PTL DEF Spec

(* num_threads_not_parked_ is the number of threads asked to park that     *)
(* have not, with any number of threads, at both levels, whoever enters,   *)
(* leaves, blocks or is scheduled in between.                              *)
THEOREM SafepointParkedCount == Spec => []ParkedCount
  <1>1. IInv => ParkedCount  BY Zenon DEF IInv
  <1>2. QED  BY <1>1, SpecIInv, PTL

(* A level in progress has one owner, which knows it, and only the         *)
(* operation in progress has requests pending.                             *)
THEOREM SafepointOwnerConsistent == Spec => []OwnerConsistent
  <1>1. IInv => OwnerConsistent  BY Zenon DEF IInv
  <1>2. QED  BY <1>1, SpecIInv, PTL

(* While a safepoint operation runs, every other thread of the group that  *)
(* does not bypass safepoints is stopped where the operation allows it,    *)
(* and none runs an operation of its own.                                  *)
THEOREM SafepointWorldStopped == Spec => []WorldStopped
  <1>1. IInv => WorldStopped  BY Zenon, InvWorldStopped
  <1>2. QED  BY <1>1, SpecIInv, PTL

(* No wakeup is lost: neither between a thread's look at its request and   *)
(* the wait, nor by those that wait for a level or to be scheduled.        *)
THEOREM SafepointNoLostWakeup == Spec => []NoLostWakeup
  <1>1. Init => WakeInv  BY Zenon, InitRefines
  <1>2. IInv /\ WakeInv /\ [Next]_vars => WakeInv'  BY Zenon, StepWakeInv
  <1>3. WakeInv => NoLostWakeup  BY Zenon DEF WakeInv
  <1>4. QED  BY <1>1, <1>2, <1>3, SpecIInv, PTL DEF Spec

(* Safepoint implements StopTheWorld.                                      *)
THEOREM SafepointStopsTheWorld == Spec => StopsTheWorld
  <1>1. Init => World!Init  BY Zenon, InitRefines
  <1>2. IInv /\ [Next]_vars => [World!Next]_<<WorldMode, WorldOperation>>
    BY Zenon, NextRefines, SizesHold
  <1>3. QED  BY <1>1, <1>2, SpecIInv, PTL DEF Spec, StopsTheWorld, World!Spec
=============================================================================
