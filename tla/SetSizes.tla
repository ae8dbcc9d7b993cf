------------------------------ MODULE SetSizes ------------------------------
(***************************************************************************)
(* The facts about sizes of finite sets that the proofs use.  The counters *)
(* of the VM (of workers, parked threads, readers, live ports, tasks at a  *)
(* barrier) are shown to be sizes of sets that change by one element at a  *)
(* time.  Every module of proofs that needs SizeFacts also proves it, at   *)
(* its end, from the library: lemmas that have it as an assumption are     *)
(* checked without the library in their context.                           *)
(***************************************************************************)
EXTENDS Integers, FiniteSets

SizeIsNat == \A S : IsFiniteSet(S) => Cardinality(S) \in Nat

SizeEmpty ==
    /\ IsFiniteSet({}) /\ Cardinality({}) = 0
    /\ \A S : IsFiniteSet(S) => (Cardinality(S) = 0 <=> S = {})

SizeOne ==
    /\ \A x : IsFiniteSet({x}) /\ Cardinality({x}) = 1
    /\ \A S : IsFiniteSet(S) => (Cardinality(S) = 1 <=> \E x : S = {x})

SizeAdd ==
    \A S, x : IsFiniteSet(S) =>
       /\ IsFiniteSet(S \cup {x})
       /\ Cardinality(S \cup {x}) =
             IF x \in S THEN Cardinality(S) ELSE Cardinality(S) + 1

SizeRemove ==
    \A S, x : IsFiniteSet(S) =>
       /\ IsFiniteSet(S \ {x})
       /\ Cardinality(S \ {x}) =
             IF x \in S THEN Cardinality(S) - 1 ELSE Cardinality(S)

SizeSubset ==
    \A S : IsFiniteSet(S) =>
       \A T \in SUBSET S :
          /\ IsFiniteSet(T) /\ Cardinality(T) <= Cardinality(S)
          /\ Cardinality(S) = Cardinality(T) => S = T

SizeInterval ==
    \A a, b \in Int :
       /\ IsFiniteSet(a..b)
       /\ Cardinality(a..b) = IF a > b THEN 0 ELSE b - a + 1

SizeProduct == \A S, T : IsFiniteSet(S) /\ IsFiniteSet(T) => IsFiniteSet(S \X T)

SizeFacts ==
    /\ SizeIsNat /\ SizeEmpty /\ SizeOne /\ SizeAdd /\ SizeRemove
    /\ SizeSubset /\ SizeInterval /\ SizeProduct
=============================================================================
