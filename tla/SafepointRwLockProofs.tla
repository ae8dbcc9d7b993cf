----------------------- MODULE SafepointRwLockProofs ------------------------
(***************************************************************************)
(* The safety properties of SafepointRwLock for any number of threads and  *)
(* any depth of nested lock scopes.                                        *)
(***************************************************************************)
EXTENDS SafepointRwLock, FiniteSetTheorems, TLAPS

(* What the sections under monitor_ preserve: the lock's words agree with  *)
(* the scopes on the stacks.                                               *)
Stacks ==
    /\ state_ \in Int /\ writer_id_ \in Thread \cup {NoThread}
    /\ scopes \in [Thread -> Seq({"R", "W", "none"})]
    /\ \A t \in Thread : Len(scopes[t]) <= MaxNest

(* What else the waiting and the safepoints need: only waiters sleep, a    *)
(* waiter has room for the scope it waits to open, and an operation that   *)
(* runs owns the GC level.                                                 *)
Waiters ==
    /\ pc \in [Thread -> PC]
    /\ asleep \subseteq Thread
    /\ \A t \in asleep : pc[t] \in {"blockR", "blockW"}
    /\ \A t \in Thread : pc[t] \in {"slowR", "slowW", "blockR", "blockW"}
                            => Len(scopes[t]) < MaxNest
Owners ==
    /\ owner \in [Level -> Thread \cup {NoThread}]
    /\ want \in [Thread -> Level]
    /\ \A t \in Thread : pc[t] = "op" => owner[kGC] = t

IInv == Stacks /\ LockAgrees /\ Waiters /\ NoLostWakeup /\ Owners /\ WorldStopped

-----------------------------------------------------------------------------
(* Holds(s) is a finite set of pairs.                                      *)
LEMMA HoldsFinite == ASSUME NEW s PROVE IsFiniteSet(Holds(s)) /\ Holds(s) \subseteq Thread \X (1..MaxNest)
<1>1. IsFiniteSet(1..MaxNest)
  BY FS_Interval, RwLockAssumption
<1>2. IsFiniteSet(Thread \X (1..MaxNest))
  BY <1>1, FS_Product, RwLockAssumption
<1>3. Holds(s) \subseteq Thread \X (1..MaxNest)
  BY DEF Holds
<1> QED BY <1>2, <1>3, FS_Subset

(* A hold is a thread and a place on its stack.                            *)
LEMMA HoldsPairs ==
    ASSUME NEW r
    PROVE  /\ \A h \in Holds(r) : \E u \in Thread, i \in 1..MaxNest : h = <<u, i>>
           /\ \A u \in Thread, i \in 1..MaxNest :
                 <<u, i>> \in Holds(r) <=> i <= Len(scopes[u]) /\ scopes[u][i] = r
<1>1. \A h \in Holds(r) : \E u \in Thread, i \in 1..MaxNest : h = <<u, i>>
  BY DEF Holds
<1>2. ASSUME NEW u \in Thread, NEW i \in 1..MaxNest
      PROVE  <<u, i>> \in Holds(r) <=> i <= Len(scopes[u]) /\ scopes[u][i] = r
  BY DEF Holds
<1> QED BY <1>1, <1>2

(* The same in the next state.                                             *)
LEMMA HoldsPairsNext ==
    ASSUME NEW r
    PROVE  /\ \A h \in Holds(r)' : \E u \in Thread, i \in 1..MaxNest : h = <<u, i>>
           /\ \A u \in Thread, i \in 1..MaxNest :
                 <<u, i>> \in Holds(r)' <=> i <= Len(scopes'[u]) /\ scopes'[u][i] = r
<1>1. \A h \in Holds(r)' : \E u \in Thread, i \in 1..MaxNest : h = <<u, i>>
  BY DEF Holds
<1>2. ASSUME NEW u \in Thread, NEW i \in 1..MaxNest
      PROVE  <<u, i>> \in Holds(r)' <=> i <= Len(scopes'[u]) /\ scopes'[u][i] = r
  BY DEF Holds
<1> QED BY <1>1, <1>2

(* A locker put on a stack is one more hold of its kind, and no other.     *)
LEMMA HoldsPush ==
    ASSUME Stacks, NEW t \in Thread, NEW s \in {"R", "W", "none"}, Push(t, s),
           Len(scopes[t]) < MaxNest
    PROVE  /\ <<t, Len(scopes[t]) + 1>> \notin Holds(s)
           /\ Holds(s)' = Holds(s) \cup {<<t, Len(scopes[t]) + 1>>}
           /\ \A r : r # s => Holds(r)' = Holds(r)
           /\ Stacks' <=> (state_' \in Int /\ writer_id_' \in Thread \cup {NoThread})
<1> DEFINE n == Len(scopes[t]) + 1
<1>1. /\ scopes[t] \in Seq({"R", "W", "none"}) /\ n \in 1..MaxNest
      /\ scopes'[t] = Append(scopes[t], s)
      /\ scopes' \in [Thread -> Seq({"R", "W", "none"})]
      /\ \A u \in Thread \ {t} : scopes'[u] = scopes[u]
  BY RwLockAssumption DEF Stacks, Push
<1>2. /\ Len(scopes'[t]) = n /\ scopes'[t][n] = s
      /\ \A i \in 1..(n - 1) : scopes'[t][i] = scopes[t][i]
  BY <1>1
<1>3. \A r : \A u \in Thread, i \in 1..MaxNest :
         (i <= Len(scopes'[u]) /\ scopes'[u][i] = r)
           <=> \/ i <= Len(scopes[u]) /\ scopes[u][i] = r
               \/ u = t /\ i = n /\ r = s
  <2> TAKE r
  <2> TAKE u \in Thread, i \in 1..MaxNest
  <2>1. CASE u # t
    BY <2>1, <1>1
  <2>2. CASE u = t
    <3>1. CASE i = n
      BY <3>1, <2>2, <1>1, <1>2
    <3>2. CASE i < n
      BY <3>2, <2>2, <1>1, <1>2
    <3>3. CASE i > n
      BY <3>3, <2>2, <1>1, <1>2
    <3> QED BY <3>1, <3>2, <3>3, <1>1, RwLockAssumption
  <2> QED BY <2>1, <2>2
<1>4. <<t, n>> \notin Holds(s)
  BY <1>1 DEF Holds
<1>5. ASSUME NEW r, NEW u \in Thread, NEW i \in 1..MaxNest
      PROVE  <<u, i>> \in Holds(r)' <=> <<u, i>> \in Holds(r) \/ (<<u, i>> = <<t, n>> /\ r = s)
  BY <1>3, HoldsPairs, HoldsPairsNext
<1>8. Holds(s)' = Holds(s) \cup {<<t, n>>}
  <2>1. ASSUME NEW h \in Holds(s)' PROVE h \in Holds(s) \cup {<<t, n>>}
    <3>1. PICK u \in Thread, i \in 1..MaxNest : h = <<u, i>>
      BY HoldsPairsNext
    <3> QED BY <2>1, <3>1, <1>5
  <2>2. ASSUME NEW h \in Holds(s) PROVE h \in Holds(s)'
    <3>1. PICK u \in Thread, i \in 1..MaxNest : h = <<u, i>>
      BY HoldsPairs
    <3> QED BY <2>2, <3>1, <1>5
  <2>3. <<t, n>> \in Holds(s)'
    BY <1>1, <1>5
  <2> QED BY <2>1, <2>2, <2>3
<1>9. ASSUME NEW r, r # s PROVE Holds(r)' = Holds(r)
  <2>1. ASSUME NEW h \in Holds(r)' PROVE h \in Holds(r)
    <3>1. PICK u \in Thread, i \in 1..MaxNest : h = <<u, i>>
      BY HoldsPairsNext
    <3> QED BY <2>1, <3>1, <1>5, <1>9
  <2>2. ASSUME NEW h \in Holds(r) PROVE h \in Holds(r)'
    <3>1. PICK u \in Thread, i \in 1..MaxNest : h = <<u, i>>
      BY HoldsPairs
    <3> QED BY <2>2, <3>1, <1>5, <1>9
  <2> QED BY <2>1, <2>2
<1>7. ASSUME NEW u \in Thread PROVE Len(scopes'[u]) <= MaxNest
  <2>1. CASE u = t
    BY <2>1, <1>1, <1>2, RwLockAssumption
  <2>2. CASE u # t
    BY <2>2, <1>1 DEF Stacks
  <2> QED BY <2>1, <2>2
<1> QED BY <1>1, <1>4, <1>8, <1>9, <1>7 DEF Stacks

(* Taking the top locker off is the reverse.                               *)
LEMMA HoldsPop ==
    ASSUME Stacks, NEW t \in Thread, Pop(t), scopes[t] # <<>>,
           NEW s, s = Top(t), NEW k, k = <<t, Len(scopes[t])>>
    PROVE  /\ k \in Holds(s)
           /\ Holds(s)' = Holds(s) \ {k}
           /\ \A r : r # s => Holds(r)' = Holds(r)
           /\ Stacks' <=> (state_' \in Int /\ writer_id_' \in Thread \cup {NoThread})
<1> DEFINE n == Len(scopes[t])
<1>1. /\ scopes[t] \in Seq({"R", "W", "none"}) /\ n \in 1..MaxNest
      /\ scopes'[t] = SubSeq(scopes[t], 1, n - 1)
      /\ scopes' \in [Thread -> Seq({"R", "W", "none"})]
      /\ \A u \in Thread \ {t} : scopes'[u] = scopes[u]
  BY RwLockAssumption DEF Stacks, Pop
<1>2. /\ Len(scopes'[t]) = n - 1 /\ scopes[t][n] = s
      /\ \A i \in 1..(n - 1) : scopes'[t][i] = scopes[t][i]
  BY <1>1 DEF Top
<1>3. ASSUME NEW u \in Thread, NEW i \in 1..MaxNest, NEW r
      PROVE  (i <= Len(scopes'[u]) /\ scopes'[u][i] = r)
               <=> (i <= Len(scopes[u]) /\ scopes[u][i] = r /\ ~(u = t /\ i = n))
  <2>1. CASE u # t
    BY <2>1, <1>1
  <2>2. CASE u = t /\ i = n
    BY <2>2, <1>1, <1>2
  <2>3. CASE u = t /\ i < n
    BY <2>3, <1>1, <1>2
  <2>4. CASE u = t /\ i > n
    BY <2>4, <1>1, <1>2
  <2> QED BY <2>1, <2>2, <2>3, <2>4, <1>1, RwLockAssumption
<1>4. k \in Holds(s)
  BY <1>1, <1>2, HoldsPairs
<1>5. ASSUME NEW r, NEW u \in Thread, NEW i \in 1..MaxNest
      PROVE  <<u, i>> \in Holds(r)' <=> <<u, i>> \in Holds(r) /\ <<u, i>> # k
  BY SMTT(30), <1>3, HoldsPairs, HoldsPairsNext
<1>6. ASSUME NEW r PROVE Holds(r)' = Holds(r) \ {k}
  <2>1. ASSUME NEW h \in Holds(r)' PROVE h \in Holds(r) \ {k}
    <3>1. PICK u \in Thread, i \in 1..MaxNest : h = <<u, i>>
      BY HoldsPairsNext
    <3> QED BY <2>1, <3>1, <1>5
  <2>2. ASSUME NEW h \in Holds(r) \ {k} PROVE h \in Holds(r)'
    <3>1. PICK u \in Thread, i \in 1..MaxNest : h = <<u, i>>
      BY HoldsPairs
    <3> QED BY <2>2, <3>1, <1>5
  <2> QED BY <2>1, <2>2
<1>7. ASSUME NEW r, r # s PROVE k \notin Holds(r)
  BY <1>1, <1>2, <1>7, HoldsPairs
<1>8. \A r : r # s => Holds(r)' = Holds(r)
  BY <1>6, <1>7
<1>9. ASSUME NEW u \in Thread PROVE Len(scopes'[u]) <= MaxNest
  <2>1. CASE u = t
    BY <2>1, <1>1, <1>2, RwLockAssumption
  <2>2. CASE u # t
    BY <2>2, <1>1 DEF Stacks
  <2> QED BY <2>1, <2>2
<1> QED BY <1>1, <1>4, <1>6, <1>8, <1>9 DEF Stacks

(* Leaving the stacks alone leaves the holds alone.                        *)
LEMMA HoldsSame ==
    ASSUME UNCHANGED scopes, NEW r PROVE Holds(r)' = Holds(r)
  BY DEF Holds

-----------------------------------------------------------------------------
(* Admitting a reader keeps the lock and the stacks in agreement.          *)
LEMMA AcquireReadAgrees ==
    ASSUME Stacks, LockAgrees, NEW t \in Thread, Len(scopes[t]) < MaxNest,
           Readable, AcquireRead(t)
    PROVE  Stacks' /\ LockAgrees'
<1>0. state_ \in Int /\ state_ >= 0 /\ writer_id_ = NoThread
      /\ state_ = Cardinality(Holds("R")) /\ Holds("W") = {}
  BY DEF LockAgrees, Readable, Stacks
<1>1. ReadScope(t) = "R"
  BY <1>0, RwLockAssumption DEF ReadScope, IsCurrentThreadWriter
<1>2. Push(t, "R") /\ state_' = state_ + 1 /\ writer_id_' = writer_id_
  BY <1>1 DEF AcquireRead
<1>3. PICK k : k = <<t, Len(scopes[t]) + 1>>
  OBVIOUS
<1>4. /\ k \notin Holds("R") /\ Holds("R")' = Holds("R") \cup {k}
      /\ Holds("W")' = Holds("W")
      /\ Stacks' <=> (state_' \in Int /\ writer_id_' \in Thread \cup {NoThread})
  BY <1>2, <1>3, HoldsPush
<1>5. Cardinality(Holds("R")') = Cardinality(Holds("R")) + 1
  BY <1>4, HoldsFinite, FS_AddElement
<1>6. Stacks'
  BY <1>0, <1>2, <1>4
<1> QED BY <1>0, <1>2, <1>4, <1>5, <1>6 DEF LockAgrees

(* Admitting a writer does.                                                *)
LEMMA AcquireWriteAgrees ==
    ASSUME Stacks, LockAgrees, NEW t \in Thread, Len(scopes[t]) < MaxNest,
           Writable, AcquireWrite(t)
    PROVE  Stacks' /\ LockAgrees'
<1>1. Push(t, "W") /\ state_' = -1 /\ writer_id_' = t
  BY DEF AcquireWrite
<1>2. Holds("W") = {} /\ Holds("R") = {}
  <2>1. Cardinality(Holds("R")) = 0 /\ IsFiniteSet(Holds("R"))
    BY HoldsFinite DEF LockAgrees, Writable
  <2> QED BY <2>1, FS_EmptySet DEF LockAgrees, Writable
<1>3. PICK k : k = <<t, Len(scopes[t]) + 1>>
  OBVIOUS
<1>4. /\ Holds("W")' = Holds("W") \cup {k} /\ Holds("R")' = Holds("R")
      /\ Stacks' <=> (state_' \in Int /\ writer_id_' \in Thread \cup {NoThread})
  BY <1>1, <1>3, HoldsPush
<1>5. Holds("W")' = {k} /\ Holds("R")' = {} /\ Stacks'
  BY <1>1, <1>2, <1>4
<1>6. Cardinality(Holds("W")') = 1 /\ k[1] = t
  BY <1>3, <1>5, FS_Singleton
<1> QED BY <1>1, <1>5, <1>6 DEF LockAgrees

(* So does a nested write scope.                                           *)
LEMMA NestedWriteAgrees ==
    ASSUME Stacks, LockAgrees, NEW t \in Thread, Len(scopes[t]) < MaxNest,
           IsCurrentThreadWriter(t), Push(t, "W"),
           state_' = state_ - 1, writer_id_' = writer_id_
    PROVE  Stacks' /\ LockAgrees'
<1>1. /\ state_ \in Int /\ state_ < 0 /\ writer_id_ = t
      /\ state_ = -Cardinality(Holds("W")) /\ Holds("R") = {}
      /\ \A h \in Holds("W") : h[1] = t
  BY RwLockAssumption DEF Stacks, LockAgrees, IsCurrentThreadWriter
<1>2. PICK k : k = <<t, Len(scopes[t]) + 1>>
  OBVIOUS
<1>3. /\ k \notin Holds("W") /\ Holds("W")' = Holds("W") \cup {k}
      /\ Holds("R")' = Holds("R")
      /\ Stacks' <=> (state_' \in Int /\ writer_id_' \in Thread \cup {NoThread})
  BY <1>2, HoldsPush
<1>4. /\ Cardinality(Holds("W")') = Cardinality(Holds("W")) + 1
      /\ Cardinality(Holds("W")) \in Nat
  BY <1>3, HoldsFinite, FS_AddElement, FS_CardinalityType
<1>5. Stacks' /\ k[1] = t
  BY <1>1, <1>2, <1>3
<1> QED BY <1>1, <1>3, <1>4, <1>5 DEF LockAgrees

(* Closing a scope does, and whoever still sleeps afterwards has the same  *)
(* reason to as before.                                                    *)
LEMMA LeaveAgrees ==
    ASSUME Stacks, LockAgrees, NEW t \in Thread, Leave(t)
    PROVE  /\ Stacks' /\ LockAgrees'
           /\ asleep' # {} => /\ asleep' = asleep
                              /\ state_ < 0 => state_' < 0
                              /\ state_ # 0 => state_' # 0
<1>1. PICK s, k : s = Top(t) /\ k = <<t, Len(scopes[t])>>
  OBVIOUS
<1>2. /\ k \in Holds(s) /\ Holds(s)' = Holds(s) \ {k}
      /\ \A r : r # s => Holds(r)' = Holds(r)
      /\ Stacks' <=> (state_' \in Int /\ writer_id_' \in Thread \cup {NoThread})
  BY <1>1, HoldsPop DEF Leave
<1>3. /\ IsFiniteSet(Holds(s)) /\ Cardinality(Holds(s)) \in Nat
      /\ Cardinality(Holds(s)') = Cardinality(Holds(s)) - 1
      /\ IsFiniteSet(Holds(s)')
  BY <1>2, HoldsFinite, FS_RemoveElement, FS_CardinalityType
<1>7. state_ \in Int /\ writer_id_ \in Thread \cup {NoThread}
  BY DEF Stacks
<1>4. CASE s = "R"
  <2>1. state_ >= 0 /\ state_ = Cardinality(Holds("R")) /\ Holds("W") = {}
        /\ writer_id_ = NoThread
    BY <1>2, <1>4, <1>7 DEF LockAgrees
  <2>2. state_' = state_ - 1 /\ writer_id_' = writer_id_
        /\ asleep' = IF state_ = 1 THEN {} ELSE asleep
    BY <1>1, <1>4 DEF Leave, ReadersGone
  <2>3. Cardinality(Holds("R")) # 0
    BY <1>2, <1>3, <1>4, FS_EmptySet
  <2>4. state_' >= 0 /\ state_' \in Int /\ state_' = Cardinality(Holds("R")')
    BY <1>3, <1>4, <1>7, <2>1, <2>2, <2>3
  <2>5. Holds("W")' = {}
    BY <1>2, <1>4, <2>1
  <2>6. Stacks'
    BY <1>2, <1>7, <2>2, <2>4
  <2>7. LockAgrees'
    BY <2>1, <2>2, <2>4, <2>5 DEF LockAgrees
  <2> QED BY <1>7, <2>1, <2>2, <2>3, <2>4, <2>6, <2>7
<1>5. CASE s = "W"
  <2>1. state_ < 0 /\ state_ = -Cardinality(Holds("W")) /\ Holds("R") = {}
        /\ \A h \in Holds("W") : h[1] = writer_id_
    BY <1>2, <1>5, <1>7 DEF LockAgrees
  <2>2. /\ state_' = state_ + 1
        /\ writer_id_' = IF state_ = -1 THEN NoThread ELSE writer_id_
        /\ asleep' = IF state_ = -1 THEN {} ELSE asleep
    BY <1>1, <1>5 DEF Leave, WriterGone
  <2>3. Stacks' /\ state_' \in Int /\ Holds("R")' = {}
    BY <1>2, <1>5, <1>7, <2>1, <2>2
  <2>4. CASE state_ = -1
    <3>1. state_' = 0 /\ Cardinality(Holds("W")') = 0
      BY <1>3, <1>5, <2>1, <2>2, <2>4
    <3>2. Holds("W")' = {} /\ Cardinality(Holds("R")') = 0
      BY <1>3, <1>5, <2>3, <3>1, FS_EmptySet
    <3>3. LockAgrees'
      BY <2>2, <2>3, <2>4, <3>1, <3>2 DEF LockAgrees
    <3> QED BY <2>2, <2>3, <2>4, <3>3
  <2>5. CASE state_ # -1
    <3>1. state_' < 0 /\ state_' = -Cardinality(Holds("W")')
      BY <1>3, <1>5, <1>7, <2>1, <2>2, <2>5
    <3>2. \A h \in Holds("W")' : h[1] = writer_id_'
      BY <1>2, <1>5, <2>1, <2>2, <2>5
    <3>3. LockAgrees'
      BY <2>3, <3>1, <3>2 DEF LockAgrees
    <3> QED BY <2>2, <2>3, <2>5, <3>1, <3>3
  <2> QED BY <2>4, <2>5
<1>6. CASE s \notin {"R", "W"}
  <2>1. UNCHANGED <<state_, writer_id_, asleep>>
    BY <1>1, <1>6 DEF Leave
  <2>2. Holds("R")' = Holds("R") /\ Holds("W")' = Holds("W")
    BY <1>2, <1>6
  <2>3. LockAgrees'
    BY SMTT(30), <2>1, <2>2 DEF LockAgrees
  <2> QED BY <1>2, <1>7, <2>1, <2>3
<1> QED BY <1>4, <1>5, <1>6

-----------------------------------------------------------------------------
(* Every step keeps the lock in agreement with the scopes on the stacks.   *)
LEMMA LockStep == IInv /\ [Next]_vars => Stacks' /\ LockAgrees'
<1> SUFFICES ASSUME IInv, [Next]_vars PROVE Stacks' /\ LockAgrees'
  OBVIOUS
<1>0. Stacks /\ LockAgrees
  BY DEF IInv
<1>1. CASE UNCHANGED lock
  <2>1. Holds("R")' = Holds("R") /\ Holds("W")' = Holds("W")
    BY <1>1, HoldsSame DEF lock
  <2> QED BY <1>0, <1>1, <2>1 DEF Stacks, LockAgrees, lock
<1>2. ASSUME NEW t \in Thread, EnterRead(t) PROVE Stacks' /\ LockAgrees'
  <2>1. CASE IsCurrentThreadWriter(t)
    <3>1. Push(t, "none") /\ UNCHANGED <<state_, writer_id_>> /\ Len(scopes[t]) < MaxNest
      BY <1>2, <2>1 DEF EnterRead, ReadScope
    <3>2. Holds("R")' = Holds("R") /\ Holds("W")' = Holds("W")
          /\ (Stacks' <=> (state_' \in Int /\ writer_id_' \in Thread \cup {NoThread}))
      BY <1>0, <3>1, HoldsPush
    <3>3. state_ \in Int /\ writer_id_ \in Thread \cup {NoThread}
      BY <1>0 DEF Stacks
    <3>4. LockAgrees'
      BY <1>0, <3>1, <3>2 DEF LockAgrees
    <3> QED BY <3>1, <3>2, <3>3, <3>4
  <2>2. CASE AcquireRead(t) /\ Readable
    BY <1>0, <1>2, <2>2, AcquireReadAgrees DEF EnterRead
  <2> QED BY <1>1, <1>2, <2>1, <2>2 DEF EnterRead
<1>3. ASSUME NEW t \in Thread, EnterWrite(t) PROVE Stacks' /\ LockAgrees'
  <2>1. CASE IsCurrentThreadWriter(t)
    BY <1>0, <1>3, <2>1, NestedWriteAgrees DEF EnterWrite
  <2>2. CASE AcquireWrite(t) /\ Writable
    BY <1>0, <1>3, <2>2, AcquireWriteAgrees DEF EnterWrite
  <2> QED BY <1>1, <1>3, <2>1, <2>2 DEF EnterWrite
<1>4. ASSUME NEW t \in Thread, Leave(t) PROVE Stacks' /\ LockAgrees'
  BY <1>0, <1>4, LeaveAgrees
<1>5. ASSUME NEW t \in Thread, Admitted(t) PROVE Stacks' /\ LockAgrees'
  <2>1. Len(scopes[t]) < MaxNest
    BY SMTT(30), <1>5 DEF IInv, Waiters, Admitted
  <2> QED BY <1>0, <1>5, <2>1, AcquireReadAgrees, AcquireWriteAgrees DEF Admitted
<1> QED BY <1>1, <1>2, <1>3, <1>4, <1>5
        DEF Next, vars, EnterSafepoint, WaitAgain, SpuriousWakeup, BlockForSafepoint,
            ExitSafepoint, AllocationEntry, AllocationReturn, RequestOperation,
            BeginOperation, EndOperation

(* Every step keeps the sleepers' reasons.                                 *)
LEMMA WaitStep == IInv /\ [Next]_vars => Waiters' /\ NoLostWakeup'
<1> SUFFICES ASSUME IInv, [Next]_vars PROVE Waiters' /\ NoLostWakeup'
  OBVIOUS
<1> USE DEF PC, SafePC, Goto
<1>0. /\ Stacks /\ LockAgrees /\ Waiters /\ NoLostWakeup
      /\ state_ \in Int
  BY DEF IInv, Stacks
<1>1. ASSUME NEW t \in Thread, NEW s \in {"R", "W", "none"}, Push(t, s)
      PROVE  \A u \in Thread \ {t} : scopes'[u] = scopes[u]
  BY <1>0, <1>1 DEF Stacks, Push
<1>2. ASSUME NEW t \in Thread, EnterRead(t) PROVE Waiters' /\ NoLostWakeup'
  <2>1. CASE UNCHANGED <<pc, asleep>> /\ Push(t, ReadScope(t)) /\ state_' \in {state_, state_ + 1}
             /\ (state_' = state_ + 1 => Readable)
    <3>1. Waiters'
      BY <1>0, <1>1, <1>2, <2>1 DEF Waiters, ReadScope, EnterRead
    <3>2. NoLostWakeup'
      BY <1>0, <2>1 DEF NoLostWakeup, Readable, Waiters
    <3> QED BY <3>1, <3>2
  <2>2. CASE ~Readable /\ UNCHANGED lock
             /\ pc' = [pc EXCEPT ![t] = IF t \in Detached THEN "blockR" ELSE "slowR"]
             /\ asleep' = asleep \cup ({t} \cap Detached)
    <3>1. Waiters'
      BY <1>0, <1>2, <2>2 DEF Waiters, EnterRead, lock
    <3>2. NoLostWakeup'
      BY <1>0, <1>2, <2>2 DEF Waiters, NoLostWakeup, EnterRead, lock, Readable
    <3> QED BY <3>1, <3>2
  <2> QED BY <1>0, <1>2, <2>1, <2>2 DEF EnterRead, AcquireRead
<1>3. ASSUME NEW t \in Thread, EnterWrite(t) PROVE Waiters' /\ NoLostWakeup'
  <2>1. CASE UNCHANGED <<pc, asleep>> /\ Push(t, "W")
             /\ \/ Writable /\ state_' = -1
                \/ IsCurrentThreadWriter(t) /\ state_' = state_ - 1
    <3>1. Waiters'
      BY <1>0, <1>1, <1>3, <2>1 DEF Waiters, EnterWrite
    <3>2. IsCurrentThreadWriter(t) => state_ < 0
      BY <1>0, RwLockAssumption DEF LockAgrees, IsCurrentThreadWriter
    <3>3. NoLostWakeup'
      BY <1>0, <2>1, <3>2 DEF NoLostWakeup, Writable, Waiters
    <3> QED BY <3>1, <3>3
  <2>2. CASE ~Writable /\ UNCHANGED lock
             /\ pc' = [pc EXCEPT ![t] = IF t \in Detached THEN "blockW" ELSE "slowW"]
             /\ asleep' = asleep \cup ({t} \cap Detached)
    <3>1. Waiters'
      BY <1>0, <1>3, <2>2 DEF Waiters, EnterWrite, lock
    <3>2. NoLostWakeup'
      BY <1>0, <1>3, <2>2 DEF Waiters, NoLostWakeup, EnterWrite, lock, Writable
    <3> QED BY <3>1, <3>2
  <2> QED BY <1>3, <2>1, <2>2 DEF EnterWrite, AcquireWrite
<1>4. ASSUME NEW t \in Thread, Admitted(t) PROVE Waiters' /\ NoLostWakeup'
  <2>1. \A u \in Thread \ {t} : scopes'[u] = scopes[u]
    BY <1>1, <1>4 DEF Admitted, AcquireRead, AcquireWrite, ReadScope
  <2>2. Waiters'
    BY <1>0, <1>4, <2>1 DEF Waiters, Admitted
  <2>3. \/ Readable /\ state_' = state_ + 1
        \/ Writable /\ state_' = -1
    BY <1>0, <1>4 DEF Admitted, AcquireRead, AcquireWrite
  <2>4. NoLostWakeup'
    BY <1>0, <1>4, <2>3 DEF Waiters, NoLostWakeup, Admitted, Readable, Writable
  <2> QED BY <2>2, <2>4
<1>5. ASSUME NEW t \in Thread, Leave(t) PROVE Waiters' /\ NoLostWakeup'
  <2>1. \A u \in Thread \ {t} : scopes'[u] = scopes[u]
    BY <1>0, <1>5 DEF Stacks, Leave, Pop
  <2>2. asleep' # {} => /\ asleep' = asleep
                        /\ state_ < 0 => state_' < 0
                        /\ state_ # 0 => state_' # 0
    BY <1>0, <1>5, LeaveAgrees
  <2>3. pc' = pc /\ pc[t] = "run"
    BY <1>5 DEF Leave
  <2>4. CASE asleep' = {}
    BY <1>0, <2>1, <2>3, <2>4 DEF Waiters, NoLostWakeup
  <2>5. CASE asleep' # {}
    <3>0. asleep' = asleep /\ (state_ < 0 => state_' < 0) /\ (state_ # 0 => state_' # 0)
      BY <2>2, <2>5
    <3>1. Waiters'
      BY <1>0, <2>1, <2>3, <3>0 DEF Waiters
    <3>2. NoLostWakeup'
      BY <1>0, <2>3, <3>0 DEF NoLostWakeup
    <3> QED BY <3>1, <3>2
  <2> QED BY <2>4, <2>5
<1>6. CASE UNCHANGED <<lock, pc>> /\ asleep' \subseteq asleep
  BY <1>0, <1>6 DEF Waiters, NoLostWakeup, lock
<1>9. ASSUME NEW t \in Thread, WaitAgain(t) PROVE Waiters' /\ NoLostWakeup'
  BY <1>0, <1>9 DEF Waiters, NoLostWakeup, lock, WaitAgain, Readable, Writable
<1>7. ASSUME NEW t \in Thread, NEW l \in PC \ {"slowR", "slowW", "blockR", "blockW"},
             pc[t] \notin {"blockR", "blockW"}, Goto(t, l), UNCHANGED <<lock, asleep>>
      PROVE  Waiters' /\ NoLostWakeup'
  BY <1>0, <1>7 DEF Waiters, NoLostWakeup, lock
<1>8. ASSUME NEW t \in Thread, EnterSafepoint(t) PROVE Waiters' /\ NoLostWakeup'
  BY SMTT(30), <1>0, <1>8 DEF Waiters, NoLostWakeup, lock, EnterSafepoint
<1> QED BY <1>2, <1>3, <1>4, <1>5, <1>6, <1>7, <1>8, <1>9
        DEF Next, vars, SpuriousWakeup, BlockForSafepoint,
            ExitSafepoint, AllocationEntry, AllocationReturn, RequestOperation,
            BeginOperation, EndOperation

(* Every step keeps the world stopped while an operation runs.  A thread   *)
(* that could leave its safepoint sees the owner of the GC level.          *)
LEMMA SafeStep == IInv /\ [Next]_vars => Owners' /\ WorldStopped'
<1> SUFFICES ASSUME IInv, [Next]_vars PROVE Owners' /\ WorldStopped'
  OBVIOUS
<1> USE DEF PC, SafePC, Goto, Level, kGC, kGCAndDeopt
<1>0. Waiters /\ Owners /\ WorldStopped
  BY DEF IInv
<1>1. ASSUME NEW t \in Thread, NEW l \in PC \ {"op"}, Goto(t, l),
             t \in Detached \/ l \in SafePC \/ \A x \in Thread : pc[x] # "op",
             UNCHANGED <<lazy, owner, want>>
      PROVE  Owners' /\ WorldStopped'
  BY <1>0, <1>1 DEF Waiters, Owners, WorldStopped
<1>2. ASSUME NEW t \in Thread, t \notin Detached, pc[t] \in {"run", "slowR", "slowW"}
      PROVE  \A x \in Thread : pc[x] # "op"
  BY <1>0, <1>2 DEF WorldStopped
<1>3. CASE UNCHANGED <<pc, lazy, owner, want>>
  BY <1>0, <1>3 DEF Waiters, Owners, WorldStopped
<1>4. ASSUME NEW t \in Thread, EnterRead(t) PROVE Owners' /\ WorldStopped'
  BY SMTT(30), <1>1, <1>2, <1>3, <1>4 DEF EnterRead
<1>5. ASSUME NEW t \in Thread, EnterWrite(t) PROVE Owners' /\ WorldStopped'
  BY <1>1, <1>2, <1>3, <1>5 DEF EnterWrite
<1>6. ASSUME NEW t \in Thread, EnterSafepoint(t) PROVE Owners' /\ WorldStopped'
  BY <1>1, <1>6 DEF EnterSafepoint
<1>7. ASSUME NEW t \in Thread, Admitted(t) PROVE Owners' /\ WorldStopped'
  BY <1>1, <1>7 DEF Admitted
<1>8. ASSUME NEW t \in Thread, BlockForSafepoint(t) PROVE Owners' /\ WorldStopped'
  BY <1>1, <1>8 DEF BlockForSafepoint
<1>9. ASSUME NEW t \in Thread, ExitSafepoint(t) PROVE Owners' /\ WorldStopped'
  <2>2. owner[kGC] \in {NoThread, t}
    BY <1>9 DEF ExitSafepoint, Requested
  <2>3. \A x \in Thread : pc[x] # "op"
    BY <1>0, <1>9, <2>2, RwLockAssumption DEF Owners, ExitSafepoint
  <2> QED BY <1>1, <1>9, <2>3 DEF ExitSafepoint
<1>10. ASSUME NEW t \in Thread, AllocationEntry(t) \/ AllocationReturn(t)
       PROVE  Owners' /\ WorldStopped'
  <2>1. CASE AllocationEntry(t)
    BY <1>0, <1>2, <2>1 DEF AllocationEntry, Owners, WorldStopped
  <2>2. CASE AllocationReturn(t)
    BY <1>0, <2>2 DEF AllocationReturn, Owners, WorldStopped
  <2> QED BY <1>10, <2>1, <2>2
<1>11. ASSUME NEW t \in Thread, NEW l \in Level, RequestOperation(t, l)
       PROVE  Owners' /\ WorldStopped'
  <2>1. \A x \in Thread : pc[x] # "op" /\ pc'[x] # "op"
    BY <1>0, <1>2, <1>11 DEF RequestOperation, Waiters
  <2> QED BY <1>0, <1>11, <2>1 DEF RequestOperation, Owners, WorldStopped
<1>12. ASSUME NEW t \in Thread, BeginOperation(t) PROVE Owners' /\ WorldStopped'
  <2>1. \A x \in Thread : pc[x] # "op"
    BY <1>0, <1>12, RwLockAssumption DEF Owners, BeginOperation
  <2>2. /\ pc' \in [Thread -> PC] /\ pc'[t] = "op"
        /\ \A x \in Thread \ {t} : pc'[x] = pc[x] /\ pc'[x] # "op"
    BY <1>0, <1>12, <2>1 DEF BeginOperation, Waiters
  <2>3. Owners'
    BY <1>0, <1>12, <2>2 DEF Owners, BeginOperation
  <2>4. ASSUME NEW u \in Thread \ (Detached \cup {t})
        PROVE  pc'[u] \in SafePC \ {"op"} /\ (want'[t] = kGCAndDeopt => u \notin lazy')
    BY <1>12, <2>2, <2>4 DEF BeginOperation, Safe
  <2> QED BY <2>2, <2>3, <2>4 DEF WorldStopped
<1>13. ASSUME NEW t \in Thread, EndOperation(t) PROVE Owners' /\ WorldStopped'
  <2>1. \A x \in Thread : pc'[x] # "op"
    BY <1>0, <1>13 DEF EndOperation, Waiters, Owners
  <2>2. Owners'
    BY <1>0, <1>13, <2>1 DEF EndOperation, Owners
  <2> QED BY <2>1, <2>2 DEF WorldStopped
<1>14. ASSUME NEW t \in Thread, WaitAgain(t) \/ SpuriousWakeup(t) \/ Leave(t)
       PROVE  Owners' /\ WorldStopped'
  BY Zenon, <1>3, <1>14 DEF WaitAgain, SpuriousWakeup, Leave
<1>15. CASE UNCHANGED vars
  BY Zenon, <1>3, <1>15 DEF vars
<1> QED BY Zenon, <1>4, <1>5, <1>6, <1>7, <1>8, <1>9, <1>10, <1>11, <1>12, <1>13, <1>14, <1>15
        DEF Next

-----------------------------------------------------------------------------
(* IInv is an inductive invariant.                                         *)
THEOREM Inductive == Spec => []IInv
<1>1. Init => IInv
  <2> SUFFICES ASSUME Init PROVE IInv
    OBVIOUS
  <2>1. Holds("R") = {} /\ Holds("W") = {}
    BY DEF Init, Holds
  <2>2. Stacks
    BY RwLockAssumption DEF Init, Stacks
  <2>3. Cardinality(Holds("R")) = 0
    BY <2>1, FS_EmptySet
  <2>4. LockAgrees
    BY <2>1, <2>3 DEF Init, LockAgrees
  <2> QED BY <2>2, <2>4 DEF Init, IInv, Waiters, Owners, NoLostWakeup, WorldStopped, PC, Level, kGC
<1>2. IInv /\ [Next]_vars => IInv'
  BY LockStep, WaitStep, SafeStep DEF IInv
<1> QED BY <1>1, <1>2, PTL DEF Spec

(* The lock excludes readers and writers and counts its scopes exactly,    *)
(* for any number of threads and any depth of nesting (EnterRead,          *)
(* EnterWrite, LeaveRead and LeaveWrite of SafepointRwLock).               *)
THEOREM LockIsExclusive == Spec => []LockAgrees
<1>1. IInv => LockAgrees
  BY DEF IInv
<1> QED BY <1>1, Inductive, PTL

(* LeaveRead and LeaveWrite notify whenever a sleeper could go on.         *)
THEOREM NobodySleepsInVain == Spec => []NoLostWakeup
<1>1. IInv => NoLostWakeup
  BY DEF IInv
<1> QED BY <1>1, Inductive, PTL

(* Threads that block on the lock count as stopped and stay so until the   *)
(* operation is over, even those that were given the lock meanwhile.       *)
THEOREM OperationsAreAlone == Spec => []WorldStopped
<1>1. IInv => WorldStopped
  BY DEF IInv
<1> QED BY <1>1, Inductive, PTL
=============================================================================
