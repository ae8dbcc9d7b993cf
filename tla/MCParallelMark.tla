--------------------------- MODULE MCParallelMark ---------------------------
(* Heaps for ParallelMark.                                                 *)
EXTENDS ParallelMark, TLC

NoRefs(O) == [o \in O |-> {}]

(* Two tasks; the key of p is found in another slice than p, and the       *)
(* value of p is the key of q, whose own value is an Instructions object.  *)
Chain == [tasks |-> 2, refs |-> NoRefs({"p", "q", "k", "v", "i"}),
          key |-> "p" :> "k" @@ "q" :> "v", value |-> "p" :> "v" @@ "q" :> "i",
          instr |-> {"i"}, roots |-> <<{"p"}, {"q", "k"}>>, idle |-> FALSE, maxDeferred |-> 1]

(* Three tasks and one weak property, whose key is found in another slice. *)
Wide == [tasks |-> 3, refs |-> NoRefs({"p", "k", "v"}),
         key |-> "p" :> "k", value |-> "p" :> "v",
         instr |-> {}, roots |-> <<{"p"}, {"k"}>>, idle |-> FALSE, maxDeferred |-> 0]

(* One task, on the main thread, and a weak property with a dead key.      *)
Dead == [tasks |-> 1, refs |-> NoRefs({"p", "d", "v"}),
         key |-> "p" :> "d", value |-> "p" :> "v",
         instr |-> {}, roots |-> <<{"p"}>>, idle |-> FALSE, maxDeferred |-> 1]

(* Two tasks, of which the main thread's marks in idle time only.          *)
Idle == [Chain EXCEPT !.idle = TRUE, !.maxDeferred = 0]

PassingHeaps == {Chain, Wide, Dead, Idle}

(* Three tasks and two weak properties with a dead key.                    *)
TwoDead == {[tasks |-> 3, refs |-> NoRefs({"p", "q", "d"}),
             key |-> "p" :> "d" @@ "q" :> "d", value |-> "p" :> "d" @@ "q" :> "d",
             instr |-> {}, roots |-> <<{"p"}, {"q"}>>, idle |-> FALSE, maxDeferred |-> 0]}
=============================================================================
