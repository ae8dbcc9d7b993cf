------------------------ MODULE MessageHandlerProofs ------------------------
(***************************************************************************)
(* The safety properties of MessageHandler, for any number of threads,     *)
(* messages, ports and nested waits.                                       *)
(***************************************************************************)
EXTENDS MessageHandler, TLAPS

(* The labels inside HandleMessages, and those it returns to: in a pause   *)
(* on start or on exit, in the main loop or the embedder's, in an event.   *)
InCall == {"enter", "handle", "handled", "resume_event", "waiting", "woken",
           "check_wait"}
Pauses == {"after_start", "after_exit", "after_notify"}
Outer == Pauses \cup {"finish", "embedder"}
Inner == {"resume_event", "check_wait"}

(* The state of a thread, and the place where it is in TaskCallback: where *)
(* the outermost call returns to.                                          *)
ThreadState == [pc : Labels, status : Status, calls : Seq(Call)]
Base(r) == IF r.calls = <<>> THEN r.pc ELSE r.calls[Len(r.calls)].ret

(* Calls from an event return to it.  A call in a pause takes no normal    *)
(* message, so that nothing is nested in it; the main loop takes all.      *)
CallOK(call) ==
    /\ call.ret = "finish" => call.normal /\ call.multiple
    /\ call.ret \in Pauses => ~call.normal /\ call.message.kind # "event"
CallsOK(calls) ==
    /\ \A i \in 1..Len(calls) :
          CallOK(calls[i]) /\ calls[i].ret \in IF i = Len(calls) THEN Outer ELSE Inner
    /\ Len(calls) > 1 => calls[Len(calls)].ret \notin Pauses
Stack(r) ==
    /\ r.calls = <<>> <=> r.pc \notin InCall
    /\ CallsOK(r.calls)
    /\ r.calls # <<>> /\ Base(r) \in Pauses => r.pc \in {"enter", "handle", "handled"}

(* No error so far.                                                        *)
Clean(r) ==
    /\ r.status = kOK
    /\ \A i \in 1..Len(r.calls) : r.calls[i].status = kOK /\ r.calls[i].max_status = kOK

(* The thread before and after one of its steps.                           *)
Ready(t) == thread \in [Threads -> ThreadState] /\ Stack(thread[t])
Moves(t) ==
    /\ thread' \in [Threads -> ThreadState] /\ Stack(thread'[t])
    /\ \A u \in Threads : u # t => thread'[u] = thread[u]

-----------------------------------------------------------------------------
(* HandleMessages is called, the innermost call goes on, and it returns.   *)
LEMMA Begins ==
    ASSUME NEW r \in ThreadState, Stack(r), NEW call \in Call, CallOK(call),
           call.status = kOK, call.max_status = kOK,
           call.ret \in IF r.calls = <<>> THEN Outer ELSE Inner,
           r.calls # <<>> => Base(r) \notin Pauses
    PROVE  LET q == [r EXCEPT !.pc = "enter", !.calls = <<call>> \o @] IN
           /\ q \in ThreadState /\ Stack(q) /\ q.pc = "enter"
           /\ Base(q) = IF r.calls = <<>> THEN call.ret ELSE Base(r)
           /\ Clean(r) => Clean(q)
<1> DEFINE calls == r.calls
           new == <<call>> \o calls
           q == [r EXCEPT !.pc = "enter", !.calls = new]
<1>1. /\ calls \in Seq(Call) /\ CallsOK(calls) /\ "enter" \in Labels
      /\ call.ret \in IF calls = <<>> THEN Outer ELSE Inner
      /\ calls # <<>> => calls[Len(calls)].ret \notin Pauses
  BY DEF ThreadState, Stack, Labels, Base
<1>2. /\ new \in Seq(Call) /\ new # <<>> /\ new[1] = call
      /\ Len(calls) \in Nat /\ Len(new) = Len(calls) + 1
      /\ calls = <<>> <=> Len(calls) = 0
      /\ \A i \in 1..Len(new) : i > 1 => i - 1 \in 1..Len(calls) /\ new[i] = calls[i - 1]
  BY <1>1
<1> HIDE DEF new
<1>3. q \in ThreadState /\ q.pc = "enter" /\ q.status = r.status /\ q.calls = new
  BY Zenon, <1>1, <1>2 DEF ThreadState
<1>4. Base(r) = IF calls = <<>> THEN r.pc ELSE calls[Len(calls)].ret
  BY DEF Base
<1>5. /\ r.status = kOK <=> q.status = kOK
      /\ Clean(r) => q.status = kOK /\ \A i \in 1..Len(calls) :
                         calls[i].status = kOK /\ calls[i].max_status = kOK
  BY <1>3 DEF Clean
<1> HIDE DEF q, calls
<1>6. ASSUME NEW i \in 1..Len(new)
      PROVE  CallOK(new[i]) /\ new[i].ret \in IF i = Len(new) THEN Outer ELSE Inner
  <2>1. CASE i = 1
    BY <1>1, <1>2, <2>1
  <2>2. CASE i > 1
    BY <1>1, <1>2, <2>2 DEF CallsOK
  <2> QED BY <2>1, <2>2
<1>7. Base(q) = IF calls = <<>> THEN call.ret ELSE Base(r)
  BY <1>2, <1>3, <1>4 DEF Base
<1>8. Stack(q)
  <2>1. CallsOK(new)
    BY <1>1, <1>2, <1>6 DEF CallsOK
  <2>2. Base(q) \notin Pauses \/ q.pc = "enter"
    BY <1>3
  <2> QED BY <1>2, <1>3, <2>1, <2>2 DEF Stack, InCall
<1>9. ASSUME Clean(r) PROVE Clean(q)
  <2>1. ASSUME NEW i \in 1..Len(new) PROVE new[i].status = kOK /\ new[i].max_status = kOK
    BY <1>2, <1>5, <1>9
  <2> QED BY <1>3, <1>5, <1>9, <2>1 DEF Clean
<1> QED BY Zenon, <1>3, <1>7, <1>8, <1>9 DEF q, new, calls

Continues(r, q) ==
    /\ r.calls # <<>> /\ Len(q.calls) = Len(r.calls)
    /\ \A i \in 2..Len(r.calls) : q.calls[i] = r.calls[i]
    /\ q.calls[1].ret = r.calls[1].ret /\ CallOK(q.calls[1])
    /\ q.pc \in InCall /\ (q.pc \in {"handle", "handled"} \/ Base(r) \notin Pauses)

LEMMA GoesOn ==
    ASSUME NEW r \in ThreadState, Stack(r), NEW q \in ThreadState, Continues(r, q)
    PROVE  /\ Stack(q) /\ Base(q) = Base(r)
           /\ Clean(r) /\ q.status = kOK /\ q.calls[1].status = kOK /\ q.calls[1].max_status = kOK
                 => Clean(q)
<1>1. /\ r.calls \in Seq(Call) /\ q.calls \in Seq(Call) /\ q.calls # <<>>
      /\ Len(r.calls) \in Nat \ {0} /\ Len(q.calls) = Len(r.calls)
      /\ \A i \in 1..Len(r.calls) : q.calls[i].ret = r.calls[i].ret
      /\ \A i \in 1..Len(r.calls) : i = 1 \/ q.calls[i] = r.calls[i]
  BY DEF ThreadState, Continues
<1>2. Base(q) = Base(r)
  BY <1>1 DEF Base
<1>3. CallsOK(q.calls)
  BY <1>1 DEF CallsOK, Stack, Continues
<1>4. Clean(r) /\ q.status = kOK /\ q.calls[1].status = kOK /\ q.calls[1].max_status = kOK
         => Clean(q)
  BY <1>1 DEF Clean
<1> QED BY <1>1, <1>2, <1>3, <1>4 DEF Stack, Continues

LEMMA Returns ==
    ASSUME NEW r \in ThreadState, Stack(r), r.pc \in {"enter", "handled"}, r.calls # <<>>,
           NEW call \in Call, call.ret = r.calls[1].ret
    PROVE  LET q == [pc |-> call.ret, status |-> call.max_status, calls |-> Tail(r.calls)] IN
           /\ q \in ThreadState /\ Stack(q) /\ Base(q) = Base(r) /\ q.pc = call.ret
           /\ q.status = call.max_status
           /\ Clean(r) /\ call.max_status = kOK => Clean(q)
<1> DEFINE calls == r.calls
           new == Tail(calls)
           q == [pc |-> call.ret, status |-> call.max_status, calls |-> new]
<1>1. /\ calls \in Seq(Call) /\ CallsOK(calls) /\ calls # <<>> /\ call.ret = calls[1].ret
      /\ Base(r) = calls[Len(calls)].ret
      /\ Clean(r) => \A i \in 1..Len(calls) : calls[i].status = kOK /\ calls[i].max_status = kOK
  BY DEF ThreadState, Stack, Base, Clean
<1>2. /\ new \in Seq(Call) /\ Len(calls) \in Nat \ {0} /\ Len(new) = Len(calls) - 1
      /\ \A i \in 1..Len(new) : i + 1 \in 1..Len(calls) /\ new[i] = calls[i + 1]
  BY <1>1
<1> HIDE DEF new, calls
<1>3. /\ q.pc = call.ret /\ q.status = call.max_status /\ q.calls = new
      /\ q \in ThreadState
  BY <1>2 DEF ThreadState, Call
<1> HIDE DEF q
<1>4. (new = <<>> <=> Len(calls) = 1) /\ (new # <<>> <=> Len(calls) > 1)
  <2>1. new = <<>> <=> Len(new) = 0
    BY <1>2
  <2>2. (Len(new) = 0 <=> Len(calls) = 1) /\ (Len(new) # 0 <=> Len(calls) > 1)
    BY <1>2
  <2> QED BY Zenon, <2>1, <2>2
<1>5. Base(q) = Base(r)
  BY <1>1, <1>2, <1>3, <1>4 DEF Base
<1>6. ASSUME Clean(r), call.max_status = kOK PROVE Clean(q)
  BY <1>1, <1>2, <1>3, <1>6 DEF Clean
<1>7. CallsOK(new)
  <2>1. ASSUME NEW i \in 1..Len(new)
        PROVE  CallOK(new[i]) /\ new[i].ret \in IF i = Len(new) THEN Outer ELSE Inner
    BY <1>1, <1>2 DEF CallsOK
  <2>2. Len(new) > 1 => new[Len(new)].ret \notin Pauses
    BY <1>1, <1>2 DEF CallsOK
  <2> QED BY <2>1, <2>2 DEF CallsOK
<1>8. /\ q.pc \in IF Len(calls) = 1 THEN Outer ELSE Inner
      /\ Len(calls) > 1 => Base(q) \notin Pauses
  BY <1>1, <1>2, <1>3, <1>5 DEF CallsOK
<1>9. Stack(q)
  BY <1>2, <1>3, <1>4, <1>7, <1>8 DEF Stack, InCall, Outer, Inner, Pauses
<1> QED BY Zenon, <1>3, <1>5, <1>6, <1>9 DEF q, new, calls

-----------------------------------------------------------------------------
(* Steps of a thread.                                                      *)
LEMMA Sets ==
    ASSUME NEW t \in Threads, Ready(t), NEW q \in ThreadState, Stack(q),
           thread' = [thread EXCEPT ![t] = q]
    PROVE  Moves(t) /\ thread'[t] = q
  BY DEF Ready, Moves

Enterable(t, ret, normal, multiple) ==
    /\ ret \in IF thread[t].calls = <<>> THEN Outer ELSE Inner
    /\ thread[t].calls # <<>> => Base(thread[t]) \notin Pauses
    /\ ret = "finish" => normal /\ multiple
    /\ ret \in Pauses => ~normal

LEMMA Enters ==
    ASSUME NEW t \in Threads, Ready(t),
           NEW ret \in Outer \cup Inner, NEW normal \in BOOLEAN, NEW multiple \in BOOLEAN,
           HandleMessages(t, ret, normal, multiple), Enterable(t, ret, normal, multiple)
    PROVE  /\ Moves(t) /\ thread'[t].pc = "enter" /\ monitor_' = NoThread
           /\ Base(thread'[t]) = IF thread[t].calls = <<>> THEN ret ELSE Base(thread[t])
           /\ Clean(thread[t]) => Clean(thread'[t])
<1> DEFINE call == NewCall(ret, normal, multiple)
           r == thread[t]
           q == [r EXCEPT !.pc = "enter", !.calls = <<call>> \o @]
<1>1. kOK \in Status /\ NoMessage.kind # "event" /\ ret \in Labels
  BY DEF kOK, Status, NoMessage, Outer, Inner, Pauses, Labels
<1>2. /\ call \in Call /\ call.status = kOK /\ call.max_status = kOK /\ call.ret = ret
      /\ CallOK(call)
  BY Zenon, <1>1 DEF NewCall, Call, CallOK, Enterable
<1>3. thread' = [thread EXCEPT ![t] = q] /\ monitor_' = NoThread
  BY Zenon DEF HandleMessages
<1> HIDE DEF call
<1>4. /\ r \in ThreadState /\ Stack(r)
      /\ call.ret \in IF r.calls = <<>> THEN Outer ELSE Inner
      /\ r.calls # <<>> => Base(r) \notin Pauses
  BY Zenon, <1>2 DEF Enterable, Ready
<1>5. /\ q \in ThreadState /\ Stack(q) /\ q.pc = "enter"
      /\ Base(q) = IF r.calls = <<>> THEN call.ret ELSE Base(r)
      /\ Clean(r) => Clean(q)
  BY Zenon, <1>2, <1>4, Begins
<1> HIDE DEF q
<1> QED BY Zenon, <1>2, <1>3, <1>5, Sets

LEMMA Jumps ==
    ASSUME NEW t \in Threads, Ready(t), NEW pc \in Labels, Goto(t, pc),
           thread[t].pc \in InCall <=> pc \in InCall,
           pc \in InCall => pc \in {"handle", "handled"} \/ Base(thread[t]) \notin Pauses
    PROVE  /\ Moves(t) /\ thread'[t] = [thread[t] EXCEPT !.pc = pc]
           /\ thread'[t].pc = pc /\ thread'[t].status = thread[t].status
           /\ Base(thread'[t]) = IF pc \in InCall THEN Base(thread[t]) ELSE pc
           /\ Clean(thread[t]) => Clean(thread'[t])
<1> DEFINE r == thread[t]
           q == [r EXCEPT !.pc = pc]
<1>1. r \in ThreadState /\ Stack(r) /\ thread' = [thread EXCEPT ![t] = q]
  BY DEF Goto, Ready
<1>2. q \in ThreadState /\ q.pc = pc /\ q.status = r.status /\ q.calls = r.calls
  BY <1>1 DEF ThreadState
<1> HIDE DEF q
<1>3. (Clean(r) => Clean(q)) /\ Base(q) = IF pc \in InCall THEN Base(r) ELSE pc
  BY <1>1, <1>2 DEF Clean, Base, Stack
<1>4. Stack(q)
  BY <1>1, <1>2, <1>3 DEF Stack
<1> QED BY Zenon, <1>1, <1>2, <1>3, <1>4, Sets DEF q

(* HandleMessages takes a message.                                         *)
LEMMA Takes ==
    ASSUME NEW t \in Threads, Ready(t), thread[t].calls # <<>>,
           NEW call \in Call, call.ret = thread[t].calls[1].ret, CallOK(call),
           NEW message \in Message, call.ret \in Pauses => message.kind # "event",
           Take(t, call, message)
    PROVE  /\ Moves(t) /\ Base(thread'[t]) = Base(thread[t])
           /\ Clean(thread[t]) /\ call.max_status = kOK => Clean(thread'[t])
           /\ thread'[t].pc = "handle" /\ monitor_' = NoThread
<1> DEFINE r == thread[t]
           taking == [call EXCEPT !.message = message, !.status = kOK]
           new == <<taking>> \o Tail(r.calls)
           q == [r EXCEPT !.pc = "handle", !.calls = new]
<1>1. /\ r \in ThreadState /\ r.calls \in Seq(Call) /\ Stack(r) /\ kOK \in Status
      /\ "handle" \in Labels /\ "handle" \in InCall
  BY DEF Ready, ThreadState, kOK, Status, Labels, InCall
<1>2. /\ taking \in Call /\ taking.ret = call.ret /\ taking.status = kOK
      /\ taking.max_status = call.max_status /\ CallOK(taking)
  BY Zenon, <1>1 DEF Call, CallOK
<1>3. thread' = [thread EXCEPT ![t] = q] /\ monitor_' = NoThread
  BY Zenon DEF Take
<1> HIDE DEF taking
<1>4. /\ new \in Seq(Call) /\ Len(new) = Len(r.calls) /\ new[1] = taking
      /\ \A i \in 2..Len(r.calls) : new[i] = r.calls[i]
  BY <1>1, <1>2
<1> HIDE DEF new
<1>5. q \in ThreadState /\ q.pc = "handle" /\ q.status = r.status /\ q.calls = new
  BY Zenon, <1>1, <1>4 DEF ThreadState
<1> HIDE DEF q
<1>6. Continues(r, q)
  BY Zenon, <1>1, <1>2, <1>4, <1>5 DEF Continues
<1>7. /\ Clean(r) /\ call.max_status = kOK =>
            q.status = kOK /\ q.calls[1].status = kOK /\ q.calls[1].max_status = kOK
  BY <1>2, <1>4, <1>5 DEF Clean
<1>8. /\ Stack(q) /\ Base(q) = Base(r)
      /\ Clean(r) /\ call.max_status = kOK => Clean(q)
  BY <1>1, <1>5, <1>6, <1>7, GoesOn
<1> QED BY Zenon, <1>3, <1>5, <1>8, Sets

-----------------------------------------------------------------------------
(* The queues.  The events of queue_ are in order, after the last one      *)
(* taken and up to the last one posted.                                    *)
Ordered(queue, last, top, i) ==
    /\ ~IsOOB(queue[i]) /\ (IsControl(queue[i]) \/ queue[i].id <= top)
    /\ ~IsControl(queue[i]) =>
          /\ last < queue[i].id
          /\ \A j \in 1..i - 1 : IsControl(queue[j]) \/ queue[j].id < queue[i].id
    /\ queue[i].kind = "killed_before" => \A j \in 1..i : IsControl(queue[j])
Messages ==
    /\ queue_ \in Seq(Message) /\ oob_queue_ \in Seq(Message)
    /\ taken \in Nat /\ posted \in Nat /\ taken <= posted
    /\ \A i \in 1..Len(queue_) : Ordered(queue_, taken, posted, i)
    /\ \A i \in 1..Len(oob_queue_) : IsOOB(oob_queue_[i])

LEMMA SameMessages ==
    ASSUME Messages, UNCHANGED <<queue_, oob_queue_, posted, taken>>
    PROVE  Messages'
  BY DEF Messages, Ordered, IsControl, IsOOB

LEMMA MessageIds == \A m \in Message : m.id \in Nat
  BY HandlerAssumption DEF Message

LEMMA TakesFirst ==
    ASSUME Messages, queue_ # <<>>, queue_' = Tail(queue_),
           taken' = IF IsControl(Head(queue_)) THEN taken ELSE Head(queue_).id,
           UNCHANGED <<oob_queue_, posted>>
    PROVE  Head(queue_) \in Message /\ Messages'
<1>1. /\ queue_ \in Seq(Message) /\ Len(queue_) \in Nat \ {0} /\ Head(queue_) = queue_[1]
      /\ queue_' \in Seq(Message) /\ Len(queue_') = Len(queue_) - 1
      /\ \A i \in 1..Len(queue_') : i + 1 \in 1..Len(queue_) /\ queue_'[i] = queue_[i + 1]
      /\ queue_[1] \in Message /\ taken \in Nat /\ posted \in Nat /\ taken <= posted
  BY DEF Messages
<1>2. \A i \in 1..Len(queue_) : Ordered(queue_, taken, posted, i)
  BY DEF Messages
<1>3. taken' \in Nat /\ taken' <= posted
  BY <1>1, <1>2, MessageIds DEF Ordered
<1>4. ASSUME NEW i \in 1..Len(queue_')
      PROVE  Ordered(queue_', taken', posted', i)
  <2>1. Ordered(queue_, taken, posted, i + 1)
    BY <1>1, <1>2
  <2>2. /\ \A j \in 1..i : j + 1 \in 1..i + 1 /\ queue_'[j] = queue_[j + 1]
        /\ \A j \in 1..i - 1 : j + 1 \in 1..(i + 1) - 1 /\ queue_'[j] = queue_[j + 1]
        /\ 1 \in 1..(i + 1) - 1
    BY <1>1
  <2> QED BY Zenon, <1>1, <2>1, <2>2 DEF Ordered
<1> QED BY <1>1, <1>3, <1>4 DEF Messages, IsOOB, IsControl, Ordered

LEMMA TakesFirstOOB ==
    ASSUME Messages, oob_queue_ # <<>>, oob_queue_' = Tail(oob_queue_),
           UNCHANGED <<queue_, taken, posted>>
    PROVE  Head(oob_queue_) \in Message /\ Head(oob_queue_).kind # "event" /\ Messages'
<1>1. /\ Len(oob_queue_) \in Nat \ {0} /\ Head(oob_queue_) = oob_queue_[1]
      /\ oob_queue_' \in Seq(Message) /\ oob_queue_[1] \in Message /\ IsOOB(oob_queue_[1])
      /\ \A i \in 1..Len(oob_queue_') : i + 1 \in 1..Len(oob_queue_) /\ oob_queue_'[i] = oob_queue_[i + 1]
  BY DEF Messages
<1>2. Messages'
  BY <1>1 DEF Messages, Ordered, IsControl, IsOOB
<1> QED BY <1>1, <1>2 DEF IsOOB, OOBKinds

(* The message is put after the first n of the queue.                      *)
Inserts(queue, new, message, n) ==
    /\ new \in Seq(Message) /\ Len(new) = Len(queue) + 1 /\ new[n + 1] = message
    /\ \A i \in 1..n : new[i] = queue[i]
    /\ \A i \in n + 1..Len(queue) : new[i + 1] = queue[i]

LEMMA Inserted ==
    ASSUME NEW queue \in Seq(Message), NEW message \in Message, NEW n \in 0..Len(queue)
    PROVE  Inserts(queue, SubSeq(queue, 1, n) \o <<message>> \o SubSeq(queue, n + 1, Len(queue)),
                   message, n)
<1> DEFINE a == SubSeq(queue, 1, n)
           b == SubSeq(queue, n + 1, Len(queue))
           c == a \o <<message>>
           new == c \o b
<1>1. Len(queue) \in Nat /\ n \in Nat /\ n <= Len(queue)
  OBVIOUS
<1>2. a \in Seq(Message) /\ Len(a) = n /\ \A i \in 1..n : a[i] = queue[i]
  BY <1>1
<1>3. /\ b \in Seq(Message) /\ Len(b) = Len(queue) - n
      /\ \A i \in 1..Len(b) : b[i] = queue[n + i]
  BY <1>1
<1> HIDE DEF a, b
<1>4. /\ c \in Seq(Message) /\ Len(c) = n + 1 /\ c[n + 1] = message
      /\ \A i \in 1..n : c[i] = a[i]
  BY <1>1, <1>2
<1> HIDE DEF c
<1>5. /\ new \in Seq(Message) /\ Len(new) = Len(c) + Len(b)
      /\ \A i \in 1..Len(c) : new[i] = c[i]
      /\ \A i \in 1..Len(b) : new[Len(c) + i] = b[i]
  <2>1. b \in Seq(Message) /\ c \in Seq(Message)
    BY <1>3, <1>4
  <2> QED BY <2>1
<1> HIDE DEF new
<1>6. ASSUME NEW i \in n + 1..Len(queue) PROVE new[i + 1] = queue[i]
  <2>1. i - n \in 1..Len(b) /\ Len(c) + (i - n) = i + 1 /\ n + (i - n) = i
    BY <1>1, <1>3, <1>4
  <2>2. new[Len(c) + (i - n)] = b[i - n] /\ b[i - n] = queue[n + (i - n)]
    BY Zenon, <1>3, <1>5, <2>1
  <2> QED BY Zenon, <2>1, <2>2
<1>7. /\ Len(new) = Len(queue) + 1 /\ n + 1 \in 1..Len(c)
      /\ \A i \in 1..n : i \in 1..Len(c)
  BY <1>1, <1>3, <1>4, <1>5
<1>8. Inserts(queue, new, message, n)
  BY Zenon, <1>2, <1>4, <1>5, <1>6, <1>7 DEF Inserts
<1> QED BY Zenon, <1>8 DEF new, c, b, a

(* It may be an event behind all others, or a control message; one that    *)
(* goes before the events goes after control messages only.                *)
Fits(queue, message, n, top, top1) ==
    /\ \/ IsControl(message)
       \/ n = Len(queue) /\ top < message.id /\ message.id <= top1
    /\ message.kind = "killed_before" => \A i \in 1..n : IsControl(queue[i])

LEMMA StaysOrdered ==
    ASSUME NEW queue \in Seq(Message), NEW message \in Message, ~IsOOB(message),
           NEW last \in Nat, NEW top \in Nat, last <= top, NEW top1 \in Nat, top <= top1,
           \A i \in 1..Len(queue) : Ordered(queue, last, top, i),
           NEW n \in 0..Len(queue), NEW new,
           Inserts(queue, new, message, n), Fits(queue, message, n, top, top1)
    PROVE  \A i \in 1..Len(new) : Ordered(new, last, top1, i)
<1>1. Len(queue) \in Nat /\ message.id \in Nat /\ \A i \in 1..Len(queue) : queue[i].id \in Nat
  <2>1. Len(queue) \in Nat /\ \A i \in 1..Len(queue) : queue[i] \in Message
    OBVIOUS
  <2> QED BY Zenon, <2>1, MessageIds
<1>2. ASSUME NEW i \in 1..n PROVE Ordered(new, last, top1, i)
  <2>1. /\ Ordered(queue, last, top, i) /\ i \in 1..Len(queue)
        /\ \A j \in 1..i : new[j] = queue[j]
    BY <1>1 DEF Inserts
  <2>2. /\ queue[i].id <= top => queue[i].id <= top1
        /\ \A j \in 1..i - 1 : j \in 1..i
        /\ i \in 1..i
    BY <1>1, <2>1
  <2> QED BY Zenon, <2>1, <2>2 DEF Ordered
<1>3. Ordered(new, last, top1, n + 1)
  <2>1. \A j \in 1..n : /\ new[j] = queue[j] /\ queue[j].id \in Nat
                        /\ IsControl(queue[j]) \/ queue[j].id <= top
    BY <1>1 DEF Ordered, Inserts
  <2>2. ASSUME ~IsControl(message)
        PROVE  /\ last < message.id /\ message.id <= top1
               /\ \A j \in 1..n : IsControl(new[j]) \/ new[j].id < message.id
    <3>1. top < message.id /\ message.id <= top1
      BY Zenon, <2>2 DEF Fits
    <3>2. message.id \in Nat
      BY Zenon, <1>1
    <3>3. last < message.id /\ \A k \in Nat : k <= top => k < message.id
      BY <3>1, <3>2
    <3> QED BY Zenon, <2>1, <3>1, <3>3
  <2>3. message.kind = "killed_before" =>
           IsControl(message) /\ \A j \in 1..n : IsControl(new[j])
    BY <2>1, HandlerAssumption DEF IsControl, Fits
  <2>4. /\ \A j \in 1..(n + 1) - 1 : j \in 1..n
        /\ \A j \in 1..n + 1 : j \in 1..n \/ j = n + 1
        /\ new[n + 1] = message
    BY DEF Inserts
  <2> QED BY Zenon, <2>2, <2>3, <2>4 DEF Ordered
<1>4. ASSUME NEW k \in n + 1..Len(queue) PROVE Ordered(new, last, top1, k + 1)
  <2>1. k \in 1..Len(queue) /\ new[k + 1] = queue[k] /\ IsControl(message)
    BY <1>1 DEF Inserts, Fits
  <2>2. Ordered(queue, last, top, k) /\ (queue[k].id <= top => queue[k].id <= top1)
    BY <1>1, <2>1
  <2>3. ASSUME NEW j \in 1..k
        PROVE  new[j] = message \/ \E l \in 1..k - 1 : new[j] = queue[l]
    <3>1. CASE j \in 1..n
      BY <1>1, <3>1 DEF Inserts
    <3>2. CASE j = n + 1
      BY <3>2 DEF Inserts
    <3>3. CASE j > n + 1
      <4>1. j - 1 \in n + 1..Len(queue) /\ (j - 1) + 1 = j /\ j - 1 \in 1..k - 1
        BY <1>1, <3>3
      <4> QED BY Zenon, <4>1 DEF Inserts
    <3> QED BY <3>1, <3>2, <3>3
  <2>4. /\ \A l \in 1..k - 1 : l \in 1..k
        /\ \A j \in 1..(k + 1) - 1 : j \in 1..k
        /\ \A j \in 1..k + 1 : j \in 1..k \/ j = k + 1
        /\ k \in 1..k
    BY <2>1
  <2> QED BY Zenon, <2>1, <2>2, <2>3, <2>4 DEF Ordered
<1>5. \A i \in 1..Len(new) :
         i \in 1..n \/ i = n + 1 \/ (i - 1 \in n + 1..Len(queue) /\ (i - 1) + 1 = i)
  BY <1>1 DEF Inserts
<1> QED BY Zenon, <1>2, <1>3, <1>4, <1>5

LEMMA Queued ==
    ASSUME Messages, NEW message \in Message, ~IsOOB(message), NEW before \in BOOLEAN,
           queue_' \in Enqueue(queue_, message, before),
           posted' \in Nat, posted <= posted', UNCHANGED <<oob_queue_, taken>>,
           IsControl(message) \/ (~before /\ posted < message.id /\ message.id <= posted'),
           message.kind = "killed_before" => before
    PROVE  Messages'
<1>1. /\ queue_ \in Seq(Message) /\ posted \in Nat /\ taken \in Nat /\ taken <= posted
      /\ \A i \in 1..Len(queue_) : Ordered(queue_, taken, posted, i)
      /\ Len(queue_) \in 0..Len(queue_)
  BY DEF Messages
<1>2. PICK n \in 0..Len(queue_) :
         /\ queue_' = SubSeq(queue_, 1, n) \o <<message>> \o SubSeq(queue_, n + 1, Len(queue_))
         /\ n = Len(queue_) \/ before
         /\ before => \A i \in 1..n : IsControl(queue_[i])
  BY Zenon, <1>1 DEF Enqueue, LeadingControls
<1>3. Inserts(queue_, queue_', message, n)
  BY Zenon, <1>1, <1>2, Inserted
<1>4. Fits(queue_, message, n, posted, posted')
  BY Zenon, <1>2 DEF Fits
<1>5. \A i \in 1..Len(queue_') : Ordered(queue_', taken, posted', i)
  BY Zenon, <1>1, <1>3, <1>4, StaysOrdered
<1>6. taken' <= posted'
  BY <1>1
<1> QED BY Zenon, <1>1, <1>3, <1>5, <1>6 DEF Messages, Inserts, IsOOB, IsControl, Ordered

LEMMA QueuedOOB ==
    ASSUME Messages, NEW message \in Message, IsOOB(message),
           oob_queue_' \in Enqueue(oob_queue_, message, FALSE),
           posted' \in Nat, posted <= posted', UNCHANGED <<queue_, taken>>
    PROVE  Messages'
<1>1. oob_queue_ \in Seq(Message) /\ Len(oob_queue_) \in 0..Len(oob_queue_)
  BY DEF Messages
<1>2. Inserts(oob_queue_, oob_queue_', message, Len(oob_queue_))
  BY Zenon, <1>1, Inserted DEF Enqueue
<1>3. /\ oob_queue_' \in Seq(Message)
      /\ \A i \in 1..Len(oob_queue_') : oob_queue_'[i] = message
            \/ (i \in 1..Len(oob_queue_) /\ oob_queue_'[i] = oob_queue_[i])
  BY <1>1, <1>2 DEF Inserts
<1>4. ASSUME NEW i \in 1..Len(queue_) PROVE Ordered(queue_, taken, posted', i)
  <2>1. queue_[i].id \in Nat /\ posted \in Nat /\ Ordered(queue_, taken, posted, i)
    BY MessageIds DEF Messages
  <2> QED BY <2>1 DEF Ordered
<1>5. taken' <= posted'
  BY DEF Messages
<1> QED BY <1>3, <1>4, <1>5 DEF Messages, IsOOB, IsControl, Ordered

-----------------------------------------------------------------------------
(* The labels at which monitor_ is held.                                   *)
InMonitor == Outer \cup Inner \cup {"check_exit", "main", "stop"}

(* What the decisions at the end of a task rest on.                        *)
Decides(r) ==
    /\ r.pc \in {"queued", "end_callback", "delete"} => r.status = kOK
    /\ r.pc \in Pauses \cup {"finish", "stop"} => oob_queue_ = <<>>
    /\ r.pc \in {"check_exit", "main"} => r.status = kOK \/ oob_queue_ = <<>>
    /\ r.pc = "finish" /\ r.status = kOK => paused \/ queue_ = <<>>
    /\ Base(r) = "after_start" => is_paused_on_start_
    /\ Base(r) \in {"after_exit", "after_notify"} => is_paused_on_exit_
    /\ Base(r) \in {"notify_exit", "after_notify", "stop"} => failed \/ live_ports_ = 0

(* t is the one thread that works for the handler, as a task or otherwise. *)
Runs(base) ==
    /\ (pool_ <=> task_running_) /\ (task_running_ <=> base \notin Afterlife)
    /\ deleted = 0
    /\ base \in {"embedder", "end_callback"} => ~OwnedByPortMap
    /\ base = "delete" => OwnedByPortMap /\ delete_me_
Works(t) ==
    /\ thread[t].pc # "idle" /\ Stack(thread[t]) /\ (failed \/ Clean(thread[t]))
    /\ thread[t].pc \in InMonitor => monitor_ = t
    /\ Decides(thread[t]) /\ Runs(Base(thread[t]))
    /\ \A u \in Threads : u # t => thread[u] = Idle

(* No thread works for the handler.                                        *)
Rests ==
    /\ \A t \in Threads : thread[t] = Idle
    /\ ~task_running_
    /\ pool_ => oob_queue_ = <<>>
    /\ pool_ /\ queue_ # <<>> => paused \/ is_paused_on_start_ \/ is_paused_on_exit_
    /\ deleted > 0 => deleted = 1 /\ ~registered /\ ~closing

(* A native port's handler is closed, and then deleted; an isolate's is    *)
(* deleted at once.                                                        *)
Life ==
    /\ live_ports_ \in Nat /\ (OwnedByPortMap => live_ports_ = IF registered THEN 1 ELSE 0)
    /\ ~OwnedByPortMap => ~closing /\ ~delete_me_
    /\ registered => ~closing /\ ~delete_me_ /\ deleted = 0
    /\ closing => ~delete_me_ /\ deleted = 0

IInv ==
    /\ thread \in [Threads -> ThreadState] /\ Messages /\ Life
    /\ Rests \/ \E t \in Threads : Works(t)

(* A thread that is on its way is the only one.                            *)
LEMMA OneWorks ==
    ASSUME IInv, NEW t \in Threads, thread[t].pc # "idle"
    PROVE  Works(t) /\ Ready(t) /\ (failed \/ Clean(thread[t]))
  BY DEF IInv, Rests, Works, Idle, Ready

(* A step of HandleMessages, of its callers in an event, or of the event:  *)
(* the thread is still in the same place of TaskCallback.                  *)
Leaves(r) ==
    r.pc \notin InCall =>
       oob_queue_ = <<>> /\ (r.pc = "finish" /\ r.status = kOK => paused \/ queue_ = <<>>)
Framed == UNCHANGED <<running, ending, is_paused_on_start_, is_paused_on_exit_>>
Inside(t) ==
    /\ thread[t].pc \in InCall
    /\ Moves(t) /\ Base(thread'[t]) = Base(thread[t])
    /\ (failed => failed') /\ (failed' \/ Clean(thread'[t]))
    /\ Leaves(thread[t])'
    /\ thread'[t].pc \in InMonitor => monitor_' = t
    /\ Framed
    /\ \/ live_ports_' = live_ports_
       \/ live_ports_' \in Nat /\ Base(thread[t]) \notin Pauses /\ ~OwnedByPortMap

LEMMA InsideInv ==
    ASSUME IInv, NEW t \in Threads, Inside(t), Messages'
    PROVE  IInv'
<1>1. Works(t) /\ thread[t].pc \in InCall
  BY OneWorks DEF Inside, InCall
<1>2. /\ Base(thread[t]) \in Outer /\ thread'[t].pc # "idle"
      /\ thread'[t].pc \in InCall \/ thread'[t].pc = Base(thread[t])
  <2>1. thread[t].calls # <<>> /\ thread[t].calls \in Seq(Call) /\ CallsOK(thread[t].calls)
    BY <1>1 DEF Works, Stack, IInv, ThreadState
  <2>2. Base(thread[t]) \in Outer
    BY <2>1 DEF Base, CallsOK
  <2>3. thread'[t].pc \notin InCall => thread'[t].pc = Base(thread[t])
    BY Zenon DEF Inside, Moves, Base, Stack
  <2> QED BY <2>2, <2>3 DEF InCall, Outer, Pauses
<1>3. Decides(thread[t])'
  <2>1. /\ Decides(thread[t]) /\ Base(thread'[t]) = Base(thread[t])
        /\ failed => failed'
        /\ UNCHANGED <<is_paused_on_start_, is_paused_on_exit_>>
        /\ live_ports_' = live_ports_ \/ Base(thread[t]) \notin Pauses
        /\ Leaves(thread[t])'
    BY Zenon, <1>1 DEF Works, Inside, Framed
  <2> QED BY <1>2, <2>1 DEF Decides, Leaves, Pauses, InCall, Outer
<1>4. Runs(Base(thread[t]))'
  BY Zenon, <1>1 DEF Works, Runs, Inside, Framed, running, ending, OwnedByPortMap
<1>5. Works(t)'
  BY Zenon, <1>1, <1>2, <1>3, <1>4 DEF Works, Inside, Moves
<1>6. Life'
  BY DEF IInv, Life, Inside, Framed, ending, OwnedByPortMap
<1> QED BY Zenon, <1>5, <1>6 DEF IInv, Inside, Moves

(* What is known of a thread in a call.                                    *)
LEMMA InCallFacts ==
    ASSUME IInv, NEW t \in Threads, thread[t].pc \in InCall
    PROVE  /\ Ready(t) /\ Messages /\ (failed \/ Clean(thread[t]))
           /\ thread[t].calls # <<>> /\ TheCall(t) = thread[t].calls[1]
           /\ TheCall(t) \in Call /\ CallOK(TheCall(t))
           /\ failed \/ (TheCall(t).status = kOK /\ TheCall(t).max_status = kOK)
<1>1. Ready(t) /\ Messages /\ (failed \/ Clean(thread[t]))
  BY OneWorks DEF InCall, IInv
<1>2. /\ thread[t].calls # <<>> /\ thread[t].calls \in Seq(Call)
      /\ CallsOK(thread[t].calls)
  BY <1>1 DEF Ready, Stack, ThreadState
<1>3. TheCall(t) = thread[t].calls[1] /\ TheCall(t) \in Call /\ CallOK(TheCall(t))
  BY <1>2 DEF TheCall, CallsOK
<1>4. failed \/ (TheCall(t).status = kOK /\ TheCall(t).max_status = kOK)
  BY <1>1, <1>2, <1>3 DEF Clean
<1> QED BY Zenon, <1>1, <1>2, <1>3, <1>4

(* HandleMessages takes the next message, or returns.                      *)
LEMMA ReturnInside ==
    ASSUME IInv, NEW t \in Threads, thread[t].pc \in {"enter", "handled"},
           NEW call \in Call, call.ret = TheCall(t).ret, Return(t, call),
           failed \/ call.max_status = kOK, oob_queue_' = <<>>,
           call.ret = "finish" /\ call.max_status = kOK => paused' \/ queue_' = <<>>,
           Framed, UNCHANGED <<live_ports_, failed>>
    PROVE  Inside(t)
<1> DEFINE q == [pc |-> call.ret, status |-> call.max_status, calls |-> Tail(thread[t].calls)]
<1>1. thread[t].pc \in InCall
  BY DEF InCall
<1>2. /\ Ready(t) /\ (failed \/ Clean(thread[t])) /\ thread[t].calls # <<>>
      /\ call.ret = thread[t].calls[1].ret
  BY Zenon, <1>1, InCallFacts
<1>3. thread' = [thread EXCEPT ![t] = q] /\ monitor_' = t
  BY Zenon DEF Return
<1>4. /\ q \in ThreadState /\ Stack(q) /\ Base(q) = Base(thread[t]) /\ q.pc = call.ret
      /\ q.status = call.max_status
      /\ Clean(thread[t]) /\ call.max_status = kOK => Clean(q)
  BY Zenon, <1>2, Returns DEF Ready
<1> HIDE DEF q
<1>5. Moves(t) /\ thread'[t] = q
  BY Zenon, <1>2, <1>3, <1>4, Sets
<1> QED BY Zenon, <1>1, <1>2, <1>3, <1>4, <1>5 DEF Inside, Leaves

LEMMA TakeInside ==
    ASSUME IInv, NEW t \in Threads, thread[t].pc \in {"enter", "handled"},
           NEW call \in Call, call.ret = TheCall(t).ret, CallOK(call),
           NEW message \in Message, call.ret \in Pauses => message.kind # "event",
           Take(t, call, message),
           failed \/ call.max_status = kOK, Framed, UNCHANGED <<live_ports_, failed>>
    PROVE  Inside(t)
<1>1. thread[t].pc \in InCall /\ "handle" \in InCall /\ "handle" \notin InMonitor
  BY DEF InCall, InMonitor, Outer, Inner, Pauses
<1>2. /\ Ready(t) /\ (failed \/ Clean(thread[t])) /\ thread[t].calls # <<>>
      /\ call.ret = thread[t].calls[1].ret
  BY Zenon, <1>1, InCallFacts
<1>3. /\ Moves(t) /\ Base(thread'[t]) = Base(thread[t]) /\ thread'[t].pc = "handle"
      /\ Clean(thread[t]) /\ call.max_status = kOK => Clean(thread'[t])
  BY Zenon, <1>2, Takes
<1> QED BY Zenon, <1>1, <1>2, <1>3 DEF Inside, Leaves

LEMMA DequeueInv ==
    ASSUME IInv, NEW t \in Threads, thread[t].pc \in {"enter", "handled"},
           NEW call \in Call, call.ret = TheCall(t).ret, CallOK(call),
           failed \/ call.max_status = kOK, DequeueMessage(t, call),
           Framed, UNCHANGED <<live_ports_, paused_, failed, posted>>
    PROVE  IInv'
<1>1. Messages
  BY Zenon DEF IInv
<1>2. CASE oob_queue_ # <<>> /\ Take(t, call, Head(oob_queue_)) /\ oob_queue_' = Tail(oob_queue_)
           /\ UNCHANGED <<queue_, taken>>
  <2>1. Head(oob_queue_) \in Message /\ Head(oob_queue_).kind # "event" /\ Messages'
    BY Zenon, <1>1, <1>2, TakesFirstOOB
  <2> QED BY Zenon, <1>2, <2>1, TakeInside, InsideInv
<1>3. CASE /\ MinPriorityNormal(call) /\ queue_ # <<>> /\ Take(t, call, Head(queue_))
           /\ queue_' = Tail(queue_) /\ UNCHANGED oob_queue_
           /\ taken' = IF IsControl(Head(queue_)) THEN taken ELSE Head(queue_).id
  <2>1. Head(queue_) \in Message /\ Messages'
    BY Zenon, <1>1, <1>3, TakesFirst
  <2>2. call.ret \notin Pauses
    BY Zenon, <1>3 DEF MinPriorityNormal, CallOK
  <2> QED BY Zenon, <1>3, <2>1, <2>2, TakeInside, InsideInv
<1>4. CASE /\ oob_queue_ = <<>> /\ ~ (MinPriorityNormal(call) /\ queue_ # <<>>)
           /\ Return(t, call) /\ UNCHANGED <<queues, taken>>
  <2>1. call.ret = "finish" /\ call.max_status = kOK => paused' \/ queue_' = <<>>
    BY Zenon, <1>4 DEF CallOK, MinPriorityNormal, queues, paused
  <2>2. Messages' /\ oob_queue_' = <<>>
    BY Zenon, <1>1, <1>4, SameMessages DEF queues
  <2> QED BY Zenon, <1>4, <2>1, <2>2, ReturnInside, InsideInv
<1> QED BY Zenon, <1>2, <1>3, <1>4 DEF DequeueMessage

LEMMA EnterIsolateInv ==
    ASSUME IInv, NEW t \in Threads, EnterIsolate(t)
    PROVE  IInv'
<1>1. /\ Framed /\ UNCHANGED <<live_ports_, paused_, failed, posted>>
      /\ thread[t].pc = "enter" /\ DequeueMessage(t, TheCall(t))
  BY Zenon DEF EnterIsolate, At, Framed, pausing, posting
<1>2. TheCall(t) \in Call /\ CallOK(TheCall(t)) /\ (failed \/ TheCall(t).max_status = kOK)
  BY <1>1, InCallFacts DEF InCall
<1> QED BY Zenon, <1>1, <1>2, DequeueInv

LEMMA MessageHandledInv ==
    ASSUME IInv, NEW t \in Threads, MessageHandled(t)
    PROVE  IInv'
<1> DEFINE call == TheCall(t)
           max == IF call.status > call.max_status THEN call.status ELSE call.max_status
           next == [call EXCEPT !.max_status = max,
                                !.normal = @ /\ (IsOOB(call.message) \/ call.multiple)]
<1>1. /\ Framed /\ UNCHANGED <<live_ports_, paused_, failed, posted>>
      /\ thread[t].pc = "handled"
      /\ \/ /\ call.status = kShutdown /\ oob_queue_' = <<>> /\ Return(t, next)
            /\ UNCHANGED <<queue_, taken>>
         \/ DequeueMessage(t, next)
  BY Zenon DEF MessageHandled, At, Framed, pausing, posting
<1>2. /\ Messages /\ call \in Call /\ CallOK(call)
      /\ failed \/ (call.status = kOK /\ call.max_status = kOK)
  BY <1>1, InCallFacts DEF InCall
<1>3. call = TheCall(t) /\ call.status \in Status /\ call.max_status \in Status
  BY <1>2 DEF Call
<1> HIDE DEF call
<1>4. /\ max \in Status /\ (failed \/ max = kOK)
      /\ call.status = kShutdown => max # kOK
  BY <1>2, <1>3 DEF Status, kOK, kShutdown
<1>5. (call.normal /\ (IsOOB(call.message) \/ call.multiple)) \in BOOLEAN
  BY Zenon DEF IsOOB
<1> HIDE DEF max
<1>6. /\ next \in Call /\ next.ret = call.ret /\ next.max_status = max
      /\ next.multiple = call.multiple /\ next.message = call.message
      /\ next.normal = (call.normal /\ (IsOOB(call.message) \/ call.multiple))
  BY Zenon, <1>2, <1>4, <1>5 DEF Call
<1>7. CallOK(next)
  BY Zenon, <1>2, <1>6 DEF CallOK
<1> HIDE DEF next
<1>8. CASE DequeueMessage(t, next)
  BY Zenon, <1>1, <1>3, <1>4, <1>6, <1>7, <1>8, DequeueInv
<1>9. CASE /\ call.status = kShutdown /\ oob_queue_' = <<>> /\ Return(t, next)
           /\ UNCHANGED <<queue_, taken>>
  <2>1. Messages'
    BY <1>1, <1>2, <1>9 DEF Messages, Ordered, IsControl, IsOOB
  <2> QED BY Zenon, <1>1, <1>3, <1>4, <1>6, <1>9, <2>1, ReturnInside, InsideInv
<1> QED BY Zenon, <1>1, <1>8, <1>9

(* A message has been handled.                                             *)
LEMMA Finishes ==
    ASSUME IInv, NEW t \in Threads, thread[t].pc \in InCall, NEW status \in Status,
           thread' = [thread EXCEPT ![t].pc = "handled", ![t].calls[1].status = status],
           failed \/ status # kOK => failed', Framed, UNCHANGED live_ports_
    PROVE  Inside(t)
<1> DEFINE r == thread[t]
           call == [r.calls[1] EXCEPT !.status = status]
           new == [r.calls EXCEPT ![1] = call]
           q == [r EXCEPT !.pc = "handled", !.calls = new]
<1>1. /\ Ready(t) /\ (failed \/ Clean(r)) /\ r.calls # <<>>
      /\ r.calls[1] \in Call /\ CallOK(r.calls[1])
      /\ failed \/ r.calls[1].max_status = kOK
  BY Zenon, InCallFacts
<1>2. thread' = [thread EXCEPT ![t] = q]
  BY Zenon
<1>3. /\ call \in Call /\ call.ret = r.calls[1].ret /\ call.status = status
      /\ call.max_status = r.calls[1].max_status /\ call.normal = r.calls[1].normal
      /\ call.multiple = r.calls[1].multiple /\ call.message = r.calls[1].message
  BY Zenon, <1>1 DEF Call
<1> HIDE DEF call
<1>4. r \in ThreadState /\ Stack(r) /\ r.calls \in Seq(Call)
  BY <1>1 DEF Ready, ThreadState
<1>5. /\ new \in Seq(Call) /\ Len(new) = Len(r.calls) /\ new[1] = call
      /\ \A i \in 2..Len(r.calls) : new[i] = r.calls[i]
  BY <1>1, <1>3, <1>4
<1> HIDE DEF new
<1>6. q \in ThreadState /\ q.pc = "handled" /\ q.status = r.status /\ q.calls = new
  BY Zenon, <1>4, <1>5 DEF ThreadState, Labels
<1> HIDE DEF q
<1>7. CallOK(call) /\ "handled" \in InCall /\ "handled" \notin InMonitor
  BY <1>1, <1>3 DEF CallOK, InCall, InMonitor, Outer, Inner, Pauses
<1>8. Continues(r, q)
  BY Zenon, <1>1, <1>3, <1>5, <1>6, <1>7 DEF Continues
<1>9. /\ Stack(q) /\ Base(q) = Base(r) /\ (failed' \/ Clean(q))
  <2>1. /\ Stack(q) /\ Base(q) = Base(r)
        /\ Clean(r) /\ q.status = kOK /\ q.calls[1].status = kOK /\ q.calls[1].max_status = kOK
              => Clean(q)
    BY Zenon, <1>4, <1>6, <1>8, GoesOn
  <2>2. failed' \/ (Clean(r) /\ status = kOK /\ r.calls[1].max_status = kOK)
    BY Zenon, <1>1
  <2>3. q.calls[1] = call /\ (Clean(r) => q.status = kOK)
    BY Zenon, <1>5, <1>6 DEF Clean
  <2> QED BY Zenon, <1>3, <2>1, <2>2, <2>3
<1>10. Moves(t) /\ thread'[t] = q
  BY Zenon, <1>1, <1>2, <1>6, <1>9, Sets
<1> QED BY Zenon, <1>6, <1>7, <1>9, <1>10 DEF Inside, Leaves

LEMMA FinishedInside ==
    ASSUME IInv, NEW t \in Threads, thread[t].pc \in InCall, NEW status \in Status,
           Finished(t, status), Framed, UNCHANGED live_ports_
    PROVE  Inside(t)
<1>1. failed \/ status # kOK => failed'
  BY Zenon DEF Finished
<1>2. thread' = [thread EXCEPT ![t].pc = "handled", ![t].calls[1].status = status]
  BY Zenon DEF Finished
<1> QED BY Zenon, <1>1, <1>2, Finishes

LEMMA HandleControlMessageInv ==
    ASSUME IInv, NEW t \in Threads, HandleControlMessage(t)
    PROVE  IInv'
<1> DEFINE message == TheCall(t).message
           kind == message.kind
           put == [message EXCEPT !.kind = PutOff[kind]]
<1>1. /\ Finished(t, StatusOf(kind)) /\ thread[t].pc \in InCall
      /\ \/ kind \in DOMAIN PutOff /\ queue_' \in Enqueue(queue_, put, kind = "kill_before")
         \/ UNCHANGED queue_
      /\ Framed /\ UNCHANGED <<live_ports_, oob_queue_, posted, taken>>
  BY Zenon DEF HandleControlMessage, At, InCall, posting, Framed
<1>2. Messages /\ message \in Message \cup {NoMessage}
  BY <1>1, InCallFacts DEF Call
<1> HIDE DEF message
<1>3. StatusOf(kind) \in Status
  BY DEF StatusOf, Status, kError, kShutdown, kOK
<1>4. Inside(t)
  BY Zenon, <1>1, <1>3, FinishedInside
<1>5. CASE kind \in DOMAIN PutOff /\ queue_' \in Enqueue(queue_, put, kind = "kill_before")
  <2>1. /\ kind \in {"kill_before", "kill_as_event"} /\ message \in Message
        /\ PutOff[kind] = IF kind = "kill_before" THEN "killed_before" ELSE "killed_as_event"
    BY <1>2, <1>5 DEF PutOff, NoMessage
  <2>2. PutOff[kind] \in ControlKinds /\ PutOff[kind] \notin OOBKinds
    BY <2>1, HandlerAssumption DEF OOBKinds
  <2>3. put \in Message /\ put.kind = PutOff[kind]
    BY Zenon, <2>1, <2>2 DEF Message
  <2> HIDE DEF put
  <2>4. /\ ~IsOOB(put) /\ IsControl(put)
        /\ put.kind = "killed_before" => kind = "kill_before"
    BY <2>1, <2>2, <2>3 DEF IsOOB, IsControl
  <2>5. (kind = "kill_before") \in BOOLEAN /\ posted' \in Nat /\ posted <= posted'
    BY <1>1, <1>2 DEF Messages
  <2> QED BY Zenon, <1>1, <1>2, <1>4, <1>5, <2>3, <2>4, <2>5, Queued, InsideInv
<1>6. CASE UNCHANGED queue_
  BY Zenon, <1>1, <1>2, <1>4, <1>6, SameMessages, InsideInv
<1> QED BY Zenon, <1>1, <1>5, <1>6

LEMMA FinishEventInv ==
    ASSUME IInv, NEW t \in Threads, FinishEvent(t)
    PROVE  IInv'
<1>1. PICK status \in {kOK, kError} : Finished(t, status)
  BY Zenon DEF FinishEvent
<1>2. status \in Status
  BY <1>1 DEF kOK, kError, Status
<1>3. /\ thread[t].pc \in InCall /\ Framed
      /\ UNCHANGED <<queue_, oob_queue_, posted, taken, live_ports_>>
  BY Zenon DEF FinishEvent, InEvent, At, InCall, queues, pausing, posting, Framed
<1>4. Messages' 
  BY Zenon, <1>3, SameMessages DEF IInv
<1> QED BY Zenon, <1>1, <1>2, <1>3, <1>4, FinishedInside, InsideInv

(* Only a message out of band is handled in a pause.                       *)
LEMMA EventBase ==
    ASSUME IInv, NEW t \in Threads,
           InEvent(t) \/ thread[t].pc \in Inner \cup {"waiting", "woken"}
    PROVE  thread[t].pc \in InCall /\ Base(thread[t]) \notin Pauses
<1>1. thread[t].pc \in InCall
  BY DEF InEvent, At, InCall, Inner
<1>2. /\ Stack(thread[t]) /\ thread[t].calls # <<>> /\ thread[t].calls \in Seq(Call)
      /\ TheCall(t) = thread[t].calls[1] /\ CallOK(TheCall(t))
  BY <1>1, InCallFacts DEF Ready, ThreadState
<1>3. CASE InEvent(t)
  <2>1. thread[t].calls[1].ret \notin Pauses
    BY Zenon, <1>2, <1>3 DEF InEvent, CallOK
  <2> QED BY <1>1, <1>2, <2>1 DEF Stack, CallsOK, Base
<1>4. CASE thread[t].pc \in Inner \cup {"waiting", "woken"}
  BY <1>1, <1>2, <1>4 DEF Stack, Inner
<1> QED BY Zenon, <1>3, <1>4

(* An event, and the waits in it, go on.                                   *)
Apart(t) ==
    /\ thread[t].pc \in InCall /\ Base(thread[t]) \notin Pauses /\ Framed
    /\ UNCHANGED <<queue_, oob_queue_, posted, taken, live_ports_, failed>>

LEMMA NestedInv ==
    ASSUME IInv, NEW t \in Threads, Apart(t), NEW ret \in Inner, NEW normal \in BOOLEAN,
           NEW multiple \in BOOLEAN, HandleMessages(t, ret, normal, multiple)
    PROVE  IInv'
<1>1. /\ thread[t].pc \in InCall /\ "enter" \in InCall /\ "enter" \notin InMonitor
      /\ ret \in Outer \cup Inner /\ ret \notin Pauses \cup {"finish"}
  BY DEF Apart, InCall, InMonitor, Outer, Inner, Pauses
<1>2. Ready(t) /\ (failed \/ Clean(thread[t])) /\ thread[t].calls # <<>> /\ Messages
  BY Zenon, <1>1, InCallFacts
<1>3. Enterable(t, ret, normal, multiple)
  BY Zenon, <1>1, <1>2 DEF Enterable, Apart
<1>4. /\ Moves(t) /\ thread'[t].pc = "enter" /\ Base(thread'[t]) = Base(thread[t])
      /\ Clean(thread[t]) => Clean(thread'[t])
  BY Zenon, <1>1, <1>2, <1>3, Enters
<1>5. Inside(t)
  BY Zenon, <1>1, <1>2, <1>4 DEF Inside, Leaves, Apart
<1> QED BY Zenon, <1>2, <1>5, SameMessages, InsideInv DEF Apart

LEMMA GoInv ==
    ASSUME IInv, NEW t \in Threads, Apart(t), NEW pc \in InCall, Goto(t, pc),
           pc \in Inner => monitor_' = t
    PROVE  IInv'
<1>1. /\ thread[t].pc \in InCall /\ pc \in Labels /\ (pc \in InMonitor => pc \in Inner)
  BY DEF Apart, InCall, InMonitor, Outer, Inner, Pauses, Labels
<1>2. Ready(t) /\ (failed \/ Clean(thread[t])) /\ Messages
  BY Zenon, <1>1, InCallFacts
<1>3. /\ Moves(t) /\ thread'[t].pc = pc /\ Base(thread'[t]) = Base(thread[t])
      /\ Clean(thread[t]) => Clean(thread'[t])
  BY Zenon, <1>1, <1>2, Jumps DEF Apart
<1>4. Inside(t)
  BY Zenon, <1>1, <1>2, <1>3 DEF Inside, Leaves, Apart
<1> QED BY Zenon, <1>2, <1>4, SameMessages, InsideInv DEF Apart

LEMMA WaitInv ==
    ASSUME IInv, NEW t \in Threads, Apart(t), WaitOrHandleAll(t) \/ HandleAllMessages(t)
    PROVE  IInv'
<1>1. "resume_event" \in Inner /\ "waiting" \in InCall /\ "waiting" \notin Inner
  BY DEF Inner, InCall
<1>2. Goto(t, "waiting") \/ HandleMessages(t, "resume_event", TRUE, TRUE)
  BY Zenon DEF WaitOrHandleAll, HandleAllMessages
<1> QED BY Zenon, <1>1, <1>2, GoInv, NestedInv

LEMMA EventInv ==
    ASSUME IInv, NEW t \in Threads,
           \/ ChangeLivePorts(t) \/ HandleInterrupts(t) \/ PauseAndHandleAllMessages(t)
           \/ WakeUp(t) \/ CheckWait(t) \/ ResumeEvent(t)
    PROVE  IInv'
<1>1. thread[t].pc \in InCall /\ Base(thread[t]) \notin Pauses
  <2>1. InEvent(t) \/ thread[t].pc \in Inner \cup {"waiting", "woken"}
    BY Zenon DEF ChangeLivePorts, HandleInterrupts, PauseAndHandleAllMessages, WakeUp, CheckWait,
                 ResumeEvent, At, Inner
  <2> QED BY Zenon, <2>1, EventBase
<1>2. /\ {"resume_event", "check_wait"} \subseteq Inner /\ "handle" \in InCall
      /\ "handle" \notin Inner /\ "resume_event" \in InCall /\ "check_wait" \in InMonitor
      /\ "check_wait" # "idle"
  BY DEF Inner, InCall, InMonitor
<1>3. CASE ChangeLivePorts(t)
  <2>1. /\ UNCHANGED <<thread, failed, queue_, oob_queue_, posted, taken>> /\ Framed
        /\ ~OwnedByPortMap /\ live_ports_' \in 0..MaxPorts
    BY Zenon, <1>3 DEF ChangeLivePorts, history, queues, posting, pausing, Framed
  <2>2. Ready(t) /\ (failed \/ Clean(thread[t])) /\ Messages /\ thread[t].pc \notin InMonitor
    BY <1>1, <1>3, InCallFacts DEF ChangeLivePorts, InEvent, At, InMonitor, Inner, Outer, Pauses
  <2>3. live_ports_' \in Nat
    BY <2>1, HandlerAssumption
  <2>4. Inside(t)
    BY Zenon, <1>1, <2>1, <2>2, <2>3 DEF Inside, Leaves, Moves, Ready
  <2> QED BY Zenon, <2>1, <2>2, <2>4, SameMessages, InsideInv
<1>4. CASE HandleInterrupts(t)
  <2>1. Apart(t) /\ HandleMessages(t, "resume_event", FALSE, FALSE)
    BY Zenon, <1>1, <1>4 DEF HandleInterrupts, Apart, history, queues, pausing, Framed
  <2> QED BY Zenon, <1>2, <2>1, NestedInv
<1>5. CASE PauseAndHandleAllMessages(t)
  <2>1. Apart(t) /\ WaitOrHandleAll(t)
    BY Zenon, <1>1, <1>5 DEF PauseAndHandleAllMessages, Apart, history, queues, pausing, posting, Framed
  <2> QED BY Zenon, <2>1, WaitInv
<1>6. CASE WakeUp(t)
  <2>1. Apart(t) /\ (HandleAllMessages(t) \/ HandleMessages(t, "check_wait", FALSE, FALSE))
    BY Zenon, <1>1, <1>6 DEF WakeUp, Apart, history, queues, pausing, posting, Framed
  <2> QED BY Zenon, <1>2, <2>1, NestedInv, WaitInv
<1>7. CASE CheckWait(t)
  <2>1. /\ Apart(t) /\ thread[t].pc = "check_wait"
        /\ (UNCHANGED monitor_ /\ Goto(t, "resume_event")) \/ WaitOrHandleAll(t)
    BY Zenon, <1>1, <1>7 DEF CheckWait, At, Apart, history, queues, pausing, posting, Framed
  <2>2. monitor_ = t
    BY Zenon, <1>2, <2>1, OneWorks DEF Works
  <2> QED BY Zenon, <1>2, <2>1, <2>2, GoInv, WaitInv
<1>8. CASE ResumeEvent(t)
  <2>1. /\ Apart(t)
        /\ \/ Goto(t, "handle")
           \/ /\ thread[t].status # kOK
              /\ thread' = [thread EXCEPT ![t].pc = "handled",
                                          ![t].calls[1].status = thread[t].status]
    BY Zenon, <1>1, <1>8 DEF ResumeEvent, Apart, history, queues, pausing, posting, Framed
  <2>2. Ready(t) /\ (failed \/ Clean(thread[t])) /\ Messages
    BY Zenon, <1>1, InCallFacts
  <2>3. thread[t].status \in Status /\ (failed \/ thread[t].status = kOK)
    BY <2>2 DEF Ready, ThreadState, Clean
  <2>4. CASE Goto(t, "handle")
    BY Zenon, <1>2, <2>1, <2>4, GoInv
  <2>5. CASE ~Goto(t, "handle")
    <3>1. Inside(t)
      BY Zenon, <1>1, <2>1, <2>3, <2>5, Finishes DEF Apart
    <3> QED BY Zenon, <2>1, <2>2, <3>1, SameMessages, InsideInv DEF Apart
  <2> QED BY Zenon, <2>4, <2>5
<1> QED BY Zenon, <1>3, <1>4, <1>5, <1>6, <1>7, <1>8

-----------------------------------------------------------------------------
(* TaskCallback goes on, outside of HandleMessages.                        *)
Settled == UNCHANGED <<queue_, oob_queue_, posted, taken, live_ports_, ending, paused_, failed>>

LEMMA SettledFacts ==
    ASSUME IInv, Settled
    PROVE  Messages' /\ Life'
<1>1. Messages'
  BY Zenon, SameMessages DEF IInv, Settled
<1>2. Life'
  BY Zenon DEF IInv, Settled, Life, ending, OwnedByPortMap
<1> QED BY Zenon, <1>1, <1>2

InCallback(t) ==
    thread[t].pc \in {"queued", "notify_start", "after_start", "check_exit", "after_exit",
                      "main", "finish", "notify_exit", "after_notify", "stop"}

(* What is known of a thread there.                                        *)
LEMMA CallbackFacts ==
    ASSUME IInv, NEW t \in Threads, InCallback(t)
    PROVE  /\ Works(t) /\ Ready(t) /\ (failed \/ (thread[t].status = kOK /\ Clean(thread[t])))
           /\ thread[t].calls = <<>> /\ thread[t].pc \notin InCall
           /\ Base(thread[t]) = thread[t].pc /\ Base(thread[t]) \notin Afterlife
<1>1. thread[t].pc # "idle" /\ thread[t].pc \notin InCall /\ thread[t].pc \notin Afterlife
  BY DEF InCallback, InCall, Afterlife
<1>2. Works(t) /\ Ready(t) /\ (failed \/ Clean(thread[t]))
  BY Zenon, <1>1, OneWorks
<1>3. thread[t].calls = <<>>
  BY Zenon, <1>1, <1>2 DEF Ready, Stack
<1> QED BY Zenon, <1>1, <1>2, <1>3 DEF Base, Clean

LEMMA WorksOn ==
    ASSUME IInv, NEW t \in Threads, InCallback(t), Settled, UNCHANGED running, Moves(t),
           thread'[t].pc # "idle", Base(thread'[t]) \notin Afterlife,
           Clean(thread[t]) => Clean(thread'[t]),
           thread'[t].pc \in InMonitor => monitor_' = t, Decides(thread[t])'
    PROVE  IInv'
<1>1. /\ Works(t) /\ Base(thread[t]) \notin Afterlife
      /\ {"embedder", "end_callback", "delete"} \subseteq Afterlife
  BY CallbackFacts DEF Afterlife
<1>2. Runs(Base(thread[t]))'
  BY Zenon, <1>1 DEF Works, Runs, Settled, running, ending, OwnedByPortMap
<1>3. Works(t)'
  BY Zenon, <1>1, <1>2 DEF Works, Moves, Settled
<1> QED BY Zenon, <1>3, SettledFacts DEF IInv, Moves

(* HandleMessages is called.                                               *)
LEMMA CallInv ==
    ASSUME IInv, NEW t \in Threads, InCallback(t), Settled, UNCHANGED running,
           NEW ret \in Pauses \cup {"finish"}, NEW normal \in BOOLEAN, NEW multiple \in BOOLEAN,
           HandleMessages(t, ret, normal, multiple),
           IF ret = "finish" THEN normal /\ multiple ELSE ~normal,
           ret = "after_start" => is_paused_on_start_',
           ret \in {"after_exit", "after_notify"} => is_paused_on_exit_',
           ret = "after_notify" => failed \/ live_ports_ = 0
    PROVE  IInv'
<1>1. Ready(t) /\ thread[t].calls = <<>>
  BY Zenon, CallbackFacts
<1>2. ret \in Outer \cup Inner /\ Enterable(t, ret, normal, multiple)
  BY <1>1 DEF Enterable, Outer, Pauses
<1>3. /\ Moves(t) /\ thread'[t].pc = "enter" /\ Base(thread'[t]) = ret
      /\ Clean(thread[t]) => Clean(thread'[t])
  BY Zenon, <1>1, <1>2, Enters
<1>4. Decides(thread[t])'
  BY <1>3 DEF Decides, Settled, Pauses
<1>5. "enter" # "idle" /\ ret \notin Afterlife /\ "enter" \notin InMonitor
  BY DEF Afterlife, Pauses, InMonitor, Outer, Inner
<1> QED BY Zenon, <1>3, <1>4, <1>5, WorksOn

(* The thread goes to another label.                                       *)
LEMMA JumpInv ==
    ASSUME IInv, NEW t \in Threads, InCallback(t), Settled, UNCHANGED running,
           NEW pc \in {"notify_start", "check_exit", "main", "finish", "notify_exit", "stop"},
           Goto(t, pc), pc \in InMonitor => monitor_' = t,
           pc \in {"finish", "stop"} => oob_queue_ = <<>>,
           pc \in {"check_exit", "main"} => thread[t].status = kOK \/ oob_queue_ = <<>>,
           pc = "finish" => thread[t].status # kOK,
           pc \in {"notify_exit", "stop"} => failed \/ live_ports_ = 0
    PROVE  IInv'
<1>1. Ready(t) /\ thread[t].pc \notin InCall
  BY Zenon, CallbackFacts
<1>2. pc \in Labels /\ pc \notin InCall /\ pc # "idle" /\ pc \notin Afterlife
  BY DEF Labels, InCall, Afterlife
<1>3. /\ Moves(t) /\ thread'[t].pc = pc /\ thread'[t].status = thread[t].status
      /\ Base(thread'[t]) = pc /\ (Clean(thread[t]) => Clean(thread'[t]))
  BY Zenon, <1>1, <1>2, Jumps
<1>4. Decides(thread[t])'
  BY <1>3 DEF Decides, Settled, Pauses
<1> QED BY Zenon, <1>2, <1>3, <1>4, WorksOn

(* The thread has nothing more to do.                                      *)
LEMMA StillIdle == [Idle EXCEPT !.pc = "idle"] = Idle
  BY DEF Idle

LEMMA IdleInv ==
    ASSUME IInv, NEW t \in Threads, Works(t), Settled, ~task_running_',
           thread' = [thread EXCEPT ![t] = Idle],
           pool_' => /\ oob_queue_ = <<>>
                     /\ paused \/ queue_ = <<>> \/ is_paused_on_start_' \/ is_paused_on_exit_'
    PROVE  IInv'
<1>1. Idle \in ThreadState
  BY DEF Idle, ThreadState, Labels, kOK, Status
<1>2. /\ thread' \in [Threads -> ThreadState]
      /\ \A u \in Threads : thread'[u] = Idle
  BY Zenon, <1>1 DEF IInv, Works
<1>3. deleted' = 0
  BY Zenon DEF Works, Runs, Settled, ending
<1>4. Rests'
  BY <1>2, <1>3 DEF Rests, Settled, paused
<1> QED BY Zenon, <1>2, <1>4, SettledFacts DEF IInv

LEMMA StartInv ==
    ASSUME IInv, NEW t \in Threads, TaskCallback(t) \/ PausedOnStart(t) \/ AfterStart(t)
    PROVE  IInv'
<1>1. /\ InCallback(t) /\ Settled /\ UNCHANGED <<pool_, is_paused_on_exit_>>
      /\ thread[t].pc \in {"queued", "notify_start", "after_start"}
  BY Zenon DEF TaskCallback, PausedOnStart, AfterStart, At, InCallback, Settled, queues, posting,
               history, pausing, running
<1>2. /\ Works(t) /\ (thread[t].pc \in InMonitor => monitor_ = t) /\ Decides(thread[t])
      /\ Base(thread[t]) = thread[t].pc
  BY Zenon, <1>1, CallbackFacts DEF Works
<1>3. /\ "after_start" \in Pauses \cup {"finish"} /\ "after_start" \in InMonitor
      /\ "after_start" # "finish" /\ "after_start" \notin {"after_exit", "after_notify"}
      /\ "notify_start" \notin InMonitor
      /\ {"notify_start", "check_exit"} \cap {"finish", "stop", "notify_exit"} = {}
      /\ "notify_start" \notin {"check_exit", "main"}
  BY DEF Pauses, InMonitor, Outer, Inner
<1>4. CASE TaskCallback(t)
  <2>1. /\ UNCHANGED running /\ thread[t].pc = "queued" /\ UNCHANGED is_paused_on_start_
        /\ \/ Goto(t, "notify_start")
           \/ is_paused_on_start_ /\ HandleMessages(t, "after_start", FALSE, FALSE)
           \/ Goto(t, "check_exit") /\ monitor_' = t
    BY Zenon, <1>4 DEF TaskCallback, At, pausing
  <2>2. thread[t].status = kOK
    BY Zenon, <1>2, <2>1 DEF Decides
  <2> QED BY Zenon, <1>1, <1>3, <2>1, <2>2, CallInv, JumpInv
<1>5. CASE PausedOnStart(t)
  <2>1. /\ UNCHANGED running /\ is_paused_on_start_'
        /\ HandleMessages(t, "after_start", FALSE, FALSE)
    BY Zenon, <1>5 DEF PausedOnStart
  <2> QED BY Zenon, <1>1, <1>3, <2>1, CallInv
<1>6. CASE AfterStart(t)
  <2>1. /\ thread[t].pc = "after_start"
        /\ \/ StopTask(t, "idle") /\ UNCHANGED is_paused_on_start_
           \/ Goto(t, "check_exit") /\ UNCHANGED <<monitor_, task_running_>>
    BY Zenon, <1>6 DEF AfterStart, At
  <2>2. oob_queue_ = <<>> /\ is_paused_on_start_ /\ monitor_ = t
    BY Zenon, <1>2, <1>3, <2>1 DEF Decides, Pauses
  <2>3. CASE StopTask(t, "idle") /\ UNCHANGED is_paused_on_start_
    <3>1. ~task_running_' /\ thread' = [thread EXCEPT ![t] = Idle]
      BY Zenon, <2>3, StillIdle DEF StopTask
    <3> QED BY Zenon, <1>1, <1>2, <2>2, <2>3, <3>1, IdleInv
  <2>4. CASE Goto(t, "check_exit") /\ UNCHANGED <<monitor_, task_running_>>
    BY Zenon, <1>1, <1>3, <2>2, <2>4, JumpInv DEF running
  <2> QED BY Zenon, <2>1, <2>3, <2>4
<1> QED BY Zenon, <1>4, <1>5, <1>6

LEMMA ExitInv ==
    ASSUME IInv, NEW t \in Threads,
           CheckPausedOnExit(t) \/ AfterExit(t) \/ HandlePendingMessages(t) \/ PausedOnExit(t)
    PROVE  IInv'
<1>1. /\ InCallback(t) /\ Settled /\ UNCHANGED <<pool_, is_paused_on_start_>>
  BY Zenon DEF CheckPausedOnExit, AfterExit, HandlePendingMessages, PausedOnExit, At, InCallback,
               Settled, queues, posting, history, pausing, running
<1>2. /\ Works(t) /\ (thread[t].pc \in InMonitor => monitor_ = t) /\ Decides(thread[t])
      /\ Base(thread[t]) = thread[t].pc
  BY Zenon, <1>1, CallbackFacts DEF Works
<1>3. /\ {"after_exit", "after_notify", "finish"} \subseteq Pauses \cup {"finish"}
      /\ {"check_exit", "main", "after_exit", "after_notify"} \subseteq InMonitor
      /\ {"after_exit", "after_notify"} \cap {"finish", "after_start"} = {}
      /\ "finish" \notin Pauses /\ "after_exit" # "after_notify"
      /\ {"main", "stop"} \cap {"finish", "notify_exit"} = {}
      /\ {"main", "finish"} \cap {"stop", "notify_exit"} = {}
      /\ {"finish", "stop"} \cap {"check_exit", "main"} = {}
  BY DEF Pauses, InMonitor, Outer, Inner
<1>4. CASE CheckPausedOnExit(t)
  <2>1. /\ UNCHANGED <<running, is_paused_on_exit_>> /\ thread[t].pc = "check_exit"
        /\ \/ is_paused_on_exit_ /\ HandleMessages(t, "after_exit", FALSE, FALSE)
           \/ Goto(t, "main") /\ UNCHANGED monitor_
    BY Zenon, <1>4 DEF CheckPausedOnExit, At, pausing
  <2>2. (thread[t].status = kOK \/ oob_queue_ = <<>>) /\ monitor_ = t
    BY Zenon, <1>2, <1>3, <2>1 DEF Decides
  <2> QED BY Zenon, <1>1, <1>3, <2>1, <2>2, CallInv, JumpInv
<1>5. CASE AfterExit(t)
  <2>1. /\ thread[t].pc \in {"after_exit", "after_notify"}
        /\ \/ StopTask(t, "idle") /\ UNCHANGED is_paused_on_exit_
           \/ /\ \/ Goto(t, "main")
                 \/ thread[t].pc = "after_notify" /\ Goto(t, "stop")
              /\ UNCHANGED <<monitor_, task_running_>>
    BY Zenon, <1>5 DEF AfterExit, At
  <2>2. /\ oob_queue_ = <<>> /\ is_paused_on_exit_ /\ monitor_ = t
        /\ thread[t].pc = "after_notify" => failed \/ live_ports_ = 0
    BY Zenon, <1>2, <1>3, <2>1 DEF Decides, Pauses
  <2>3. CASE StopTask(t, "idle") /\ UNCHANGED is_paused_on_exit_
    <3>1. ~task_running_' /\ thread' = [thread EXCEPT ![t] = Idle]
      BY Zenon, <2>3, StillIdle DEF StopTask
    <3> QED BY Zenon, <1>1, <1>2, <2>2, <2>3, <3>1, IdleInv
  <2>4. CASE Goto(t, "main") /\ UNCHANGED <<monitor_, task_running_>>
    BY Zenon, <1>1, <1>3, <2>2, <2>4, JumpInv DEF running
  <2>5. CASE /\ thread[t].pc = "after_notify" /\ Goto(t, "stop")
             /\ UNCHANGED <<monitor_, task_running_>>
    BY Zenon, <1>1, <1>3, <2>2, <2>5, JumpInv DEF running
  <2> QED BY Zenon, <2>1, <2>3, <2>4, <2>5
<1>6. CASE HandlePendingMessages(t)
  <2>1. /\ UNCHANGED running /\ thread[t].pc = "main"
        /\ \/ HandleMessages(t, "finish", TRUE, TRUE)
           \/ thread[t].status # kOK /\ Goto(t, "finish") /\ UNCHANGED monitor_
    BY Zenon, <1>6 DEF HandlePendingMessages, At
  <2>2. (thread[t].status # kOK => oob_queue_ = <<>>) /\ monitor_ = t
    BY Zenon, <1>2, <1>3, <2>1 DEF Decides
  <2> QED BY Zenon, <1>1, <1>3, <2>1, <2>2, CallInv, JumpInv
<1>7. CASE PausedOnExit(t)
  <2>1. /\ UNCHANGED running /\ is_paused_on_exit_' /\ thread[t].pc = "notify_exit"
        /\ HandleMessages(t, "after_notify", FALSE, FALSE)
    BY Zenon, <1>7 DEF PausedOnExit, At
  <2>2. failed \/ live_ports_ = 0
    BY Zenon, <1>2, <2>1 DEF Decides
  <2> QED BY Zenon, <1>1, <1>3, <2>1, <2>2, CallInv
<1> QED BY Zenon, <1>4, <1>5, <1>6, <1>7

LEMMA FinishTaskInv ==
    ASSUME IInv, NEW t \in Threads, FinishTask(t)
    PROVE  IInv'
<1>1. /\ InCallback(t) /\ Settled /\ UNCHANGED <<pool_, is_paused_on_start_, is_paused_on_exit_>>
      /\ thread[t].pc = "finish"
  BY Zenon DEF FinishTask, At, InCallback, Settled, queues, posting, history, pausing
<1>2. /\ Works(t) /\ (thread[t].pc \in InMonitor => monitor_ = t) /\ Decides(thread[t])
      /\ failed \/ thread[t].status = kOK
  BY Zenon, <1>1, CallbackFacts DEF Works
<1>3. /\ "finish" \in InMonitor /\ "notify_exit" \notin InMonitor
      /\ {"notify_exit", "stop"} \cap {"check_exit", "main", "finish"} = {}
      /\ "notify_exit" # "stop"
  BY DEF InMonitor, Outer, Inner, Pauses
<1>4. monitor_ = t /\ oob_queue_ = <<>> /\ (thread[t].status = kOK => paused \/ queue_ = <<>>)
  BY Zenon, <1>1, <1>2, <1>3 DEF Decides
<1>5. thread[t].status # kOK \/ ~HasLivePorts => failed \/ live_ports_ = 0
  BY <1>2 DEF HasLivePorts, IInv, Life
<1>6. \/ Goto(t, "notify_exit") /\ UNCHANGED task_running_ /\ (failed \/ live_ports_ = 0)
      \/ /\ Goto(t, "stop") /\ UNCHANGED <<monitor_, task_running_>>
         /\ failed \/ live_ports_ = 0
      \/ thread[t].status = kOK /\ StopTask(t, "idle")
  BY Zenon, <1>5 DEF FinishTask
<1>7. CASE thread[t].status = kOK /\ StopTask(t, "idle")
  <2>1. ~task_running_' /\ thread' = [thread EXCEPT ![t] = Idle]
    BY Zenon, <1>7, StillIdle DEF StopTask
  <2> QED BY Zenon, <1>1, <1>2, <1>4, <1>7, <2>1, IdleInv
<1>8. CASE Goto(t, "notify_exit") /\ UNCHANGED task_running_ /\ (failed \/ live_ports_ = 0)
  BY Zenon, <1>1, <1>3, <1>8, JumpInv DEF running
<1>9. CASE /\ Goto(t, "stop") /\ UNCHANGED <<monitor_, task_running_>>
           /\ failed \/ live_ports_ = 0
  BY Zenon, <1>1, <1>3, <1>4, <1>9, JumpInv DEF running
<1> QED BY Zenon, <1>6, <1>7, <1>8, <1>9

LEMMA StopHandlerInv ==
    ASSUME IInv, NEW t \in Threads, StopHandler(t)
    PROVE  IInv'
<1> DEFINE q == [Idle EXCEPT !.pc = Afterwards]
<1>1. /\ InCallback(t) /\ Settled /\ ~pool_' /\ pool_' = FALSE /\ task_running_' = FALSE
      /\ thread' = [thread EXCEPT ![t] = q]
  BY Zenon DEF StopHandler, StopTask, At, InCallback, Settled, queues, posting, history, pausing
<1>2. Works(t) /\ Ready(t)
  BY Zenon, <1>1, CallbackFacts
<1>3. CASE Afterwards = "idle"
  <2>1. thread' = [thread EXCEPT ![t] = Idle]
    BY Zenon, <1>1, <1>3, StillIdle
  <2> QED BY Zenon, <1>1, <1>2, <2>1, IdleInv
<1>4. CASE Afterwards # "idle"
  <2>1. /\ Afterwards \in {"end_callback", "delete"}
        /\ Afterwards = "end_callback" => ~OwnedByPortMap
        /\ Afterwards = "delete" => OwnedByPortMap /\ delete_me_
    BY Zenon, <1>4 DEF Afterwards
  <2>2. q.pc = Afterwards /\ q.status = kOK /\ q.calls = <<>>
    BY DEF Idle
  <2>3. q \in ThreadState
    <3>1. Idle \in ThreadState /\ Afterwards \in Labels
      BY <2>1 DEF Idle, ThreadState, Labels, kOK, Status
    <3> QED BY Zenon, <3>1 DEF ThreadState
  <2> HIDE DEF q
  <2>4. /\ Stack(q) /\ Clean(q) /\ Base(q) = q.pc /\ q.pc # "idle" /\ q.pc \notin InMonitor
        /\ Base(q) \in Afterlife
    BY <2>1, <2>2 DEF Stack, CallsOK, InCall, Clean, Base, Afterlife, InMonitor, Outer, Inner, Pauses
  <2>5. Moves(t) /\ thread'[t] = q
    BY Zenon, <1>1, <1>2, <2>3, <2>4, Sets
  <2>6. Decides(thread[t])'
    BY <2>1, <2>2, <2>4, <2>5 DEF Decides, Pauses
  <2>7. Base(q) = Afterwards /\ "embedder" \notin {"end_callback", "delete"}
    BY Zenon, <2>2, <2>4
  <2>8. Runs(Base(thread[t]))'
    BY Zenon, <1>1, <1>2, <2>1, <2>4, <2>5, <2>7 DEF Works, Runs, Settled, ending, OwnedByPortMap
  <2>9. Works(t)'
    BY Zenon, <1>2, <2>4, <2>5, <2>6, <2>8 DEF Works, Moves
  <2> QED BY Zenon, <1>1, <2>5, <2>9, SettledFacts DEF IInv, Moves
<1> QED BY Zenon, <1>3, <1>4

LEMMA NextMessageHandledInv ==
    ASSUME IInv, NEW t \in Threads, NextMessageHandled(t)
    PROVE  IInv'
<1>1. /\ thread' = [thread EXCEPT ![t] = Idle] /\ thread[t].pc = "embedder" /\ Settled
      /\ UNCHANGED <<pool_, task_running_>>
  BY Zenon DEF NextMessageHandled, At, Settled, queues, posting, history, pausing, running
<1>2. Works(t) /\ Stack(thread[t]) /\ thread[t].pc \notin InCall /\ thread[t].pc \in Afterlife
  BY <1>1, OneWorks DEF Works, InCall, Afterlife
<1>3. ~task_running_ /\ ~pool_
  BY Zenon, <1>2 DEF Works, Runs, Base, Stack
<1> QED BY Zenon, <1>1, <1>2, <1>3, IdleInv

LEMMA EndCallbackInv ==
    ASSUME IInv, NEW t \in Threads, EndCallback(t)
    PROVE  IInv'
<1>1. /\ Goto(t, "idle") /\ thread[t].pc \in {"end_callback", "delete"}
      /\ deleted' = deleted + IF thread[t].pc = "delete" THEN 1 ELSE 0
      /\ UNCHANGED <<queue_, oob_queue_, posted, taken, live_ports_, handler, delete_me_,
                     registered, closing, pool_, task_running_>>
  BY Zenon DEF EndCallback, At, queues, posting, history, running
<1>2. /\ thread[t].pc # "idle" /\ thread[t].pc \notin InCall /\ thread[t].pc \in Afterlife
  BY <1>1 DEF InCall, Afterlife
<1>3. Works(t) /\ Ready(t) /\ Messages /\ Life
  BY Zenon, <1>2, OneWorks DEF IInv
<1>4. /\ thread[t] \in ThreadState /\ thread[t].calls = <<>> /\ Base(thread[t]) = thread[t].pc
      /\ thread[t].status = kOK
  BY Zenon, <1>1, <1>2, <1>3 DEF Ready, Stack, Base, Works, Decides
<1>5. [thread[t] EXCEPT !.pc = "idle"] = Idle /\ Idle \in ThreadState
  BY <1>4 DEF ThreadState, Idle, Labels
<1>6. thread' = [thread EXCEPT ![t] = Idle]
  BY Zenon, <1>1, <1>5 DEF Goto
<1>7. thread' \in [Threads -> ThreadState] /\ \A u \in Threads : thread'[u] = Idle
  BY Zenon, <1>3, <1>5, <1>6 DEF Works, Ready
<1>8. /\ deleted = 0 /\ ~pool_ /\ ~task_running_
      /\ thread[t].pc = "delete" => OwnedByPortMap /\ delete_me_
  BY Zenon, <1>2, <1>3, <1>4 DEF Works, Runs
<1>9. deleted' = (IF thread[t].pc = "delete" THEN 1 ELSE 0)
  BY <1>1, <1>8
<1>10. thread[t].pc = "delete" => ~registered /\ ~closing
  BY Zenon, <1>3, <1>8 DEF Life
<1>11. Life'
  BY <1>1, <1>3, <1>9, <1>10 DEF Life, OwnedByPortMap
<1>12. Rests'
  BY <1>1, <1>7, <1>8, <1>9, <1>10 DEF Rests
<1> QED BY Zenon, <1>1, <1>3, <1>7, <1>11, <1>12, SameMessages DEF IInv

-----------------------------------------------------------------------------
(* The embedder, posters, and the end of the handler.                      *)
LEMMA NoneWorks ==
    ASSUME IInv, NobodyRuns \/ (pool_ /\ ~task_running_)
    PROVE  Rests
  BY DEF IInv, NobodyRuns, Works, Runs

LEMMA IdleFacts ==
    Idle \in ThreadState /\ Stack(Idle) /\ Clean(Idle) /\ Idle.pc = "idle" /\ Idle.status = kOK
      /\ Idle.calls = <<>>
  BY DEF Idle, ThreadState, Stack, CallsOK, Clean, InCall, Labels, Status, kOK

(* A new task.                                                             *)
LEMMA TaskInv ==
    ASSUME IInv, Rests, NEW t \in Threads, Goto(t, "queued"),
           task_running_', pool_', Messages', Life',
           UNCHANGED ending, deleted = 0
    PROVE  IInv'
<1>1. thread[t] = Idle /\ Ready(t) /\ thread[t].pc \notin InCall
  BY IdleFacts DEF IInv, Rests, Ready, InCall
<1>2. /\ "queued" \in Labels /\ "queued" \notin InCall /\ "queued" \notin Afterlife
      /\ "queued" # "idle" /\ "queued" \notin InMonitor
      /\ {"embedder", "end_callback", "delete"} \subseteq Afterlife
  BY DEF Labels, InCall, Afterlife, InMonitor, Outer, Inner, Pauses
<1>3. /\ Moves(t) /\ thread'[t].pc = "queued" /\ thread'[t].status = kOK
      /\ Base(thread'[t]) = "queued" /\ Clean(thread'[t])
  BY Zenon, <1>1, <1>2, IdleFacts, Jumps
<1>4. Decides(thread[t])'
  BY <1>3 DEF Decides, Pauses
<1>5. Runs(Base(thread[t]))'
  BY Zenon, <1>2, <1>3 DEF Runs, ending
<1>6. \A u \in Threads : u # t => thread'[u] = Idle
  BY Zenon, <1>3 DEF Moves, Rests
<1>7. Works(t)'
  BY Zenon, <1>2, <1>3, <1>4, <1>5, <1>6 DEF Works, Moves
<1> QED BY Zenon, <1>3, <1>7 DEF IInv, Moves

LEMMA RunInv ==
    ASSUME IInv, Run
    PROVE  IInv'
<1>1. PICK t \in Threads : Goto(t, "queued")
  BY Zenon DEF Run
<1>2. /\ registered /\ NobodyRuns /\ task_running_' /\ pool_'
      /\ UNCHANGED <<ending, queue_, oob_queue_, posted, taken, live_ports_>>
  BY Zenon DEF Run, queues, posting
<1>3. Messages' /\ Life' /\ deleted = 0
  BY Zenon, <1>2, SameMessages DEF IInv, Life, ending, OwnedByPortMap
<1> QED BY Zenon, <1>1, <1>2, <1>3, NoneWorks, TaskInv

LEMMA HandleNextMessageInv ==
    ASSUME IInv, NEW t \in Threads, HandleNextMessage(t)
    PROVE  IInv'
<1>1. /\ registered /\ NobodyRuns /\ ~pool_ /\ UNCHANGED running /\ ~OwnedByPortMap /\ Settled
      /\ HandleMessages(t, "embedder", TRUE, FALSE)
  BY Zenon DEF HandleNextMessage, Settled, queues, pausing, posting, history
<1>2. Rests /\ deleted = 0
  BY Zenon, <1>1, NoneWorks DEF IInv, Life
<1>3. Ready(t) /\ thread[t] = Idle
  BY Zenon, <1>2, IdleFacts DEF Rests, IInv, Ready
<1>4. /\ "embedder" \in Outer \cup Inner /\ "embedder" \in Afterlife /\ "enter" # "idle"
      /\ "enter" \notin InMonitor
      /\ "embedder" \notin Pauses \cup {"finish", "end_callback", "delete"}
  BY DEF Outer, Inner, Afterlife, InMonitor, Pauses
<1>5. Enterable(t, "embedder", TRUE, FALSE)
  BY Zenon, <1>3, <1>4, IdleFacts DEF Enterable, Outer
<1>6. Moves(t) /\ thread'[t].pc = "enter" /\ Base(thread'[t]) = "embedder" /\ Clean(thread'[t])
  BY Zenon, <1>1, <1>3, <1>4, <1>5, IdleFacts, Enters
<1>7. Decides(thread[t])'
  BY <1>6 DEF Decides, Pauses
<1>8. Runs(Base(thread[t]))'
  BY Zenon, <1>1, <1>2, <1>4, <1>6 DEF Runs, Rests, running, Settled, ending, OwnedByPortMap
<1>9. \A u \in Threads : u # t => thread'[u] = Idle
  BY Zenon, <1>2, <1>6 DEF Moves, Rests
<1>10. Works(t)'
  BY Zenon, <1>4, <1>6, <1>7, <1>8, <1>9 DEF Works, Moves
<1> QED BY Zenon, <1>1, <1>6, <1>10, SettledFacts DEF IInv, Moves

(* A step of another thread, while t may hold monitor_ or not.             *)
LEMMA KeepsInv ==
    ASSUME IInv, Messages', Life', deleted = 0, delete_me_ => delete_me_',
           UNCHANGED <<thread, monitor_, pool_, task_running_, handler, is_paused_on_start_,
                       is_paused_on_exit_, paused_, failed, deleted>>,
           live_ports_' = live_ports_ \/ live_ports_' = 0,
           \/ UNCHANGED <<queue_, oob_queue_>>
           \/ monitor_ = NoThread /\ ~NeedsTask
    PROVE  IInv'
<1>1. ASSUME NEW t \in Threads, Works(t) PROVE Works(t)'
  <2>1. Decides(thread[t]) /\ (thread[t].pc \in InMonitor => monitor_ = t)
    BY Zenon, <1>1 DEF Works
  <2>2. \/ UNCHANGED <<queue_, oob_queue_>>
        \/ thread[t].pc \notin Pauses \cup {"finish", "stop", "check_exit", "main"}
    BY <2>1, HandlerAssumption DEF InMonitor, Outer
  <2>3. Decides(thread[t])'
    BY <2>1, <2>2 DEF Decides, paused
  <2>4. Runs(Base(thread[t]))'
    BY Zenon, <1>1 DEF Works, Runs, OwnedByPortMap
  <2> QED BY Zenon, <1>1, <2>3, <2>4 DEF Works
<1>2. ASSUME Rests PROVE Rests'
  <2>1. pool_ => UNCHANGED <<queue_, oob_queue_>>
    BY Zenon, <1>2 DEF Rests, NeedsTask
  <2> QED BY <1>2, <2>1 DEF Rests, paused
<1> QED BY Zenon, <1>1, <1>2 DEF IInv

LEMMA WokenFacts ==
    ASSUME IInv, NEW t \in Threads, Works(t), thread' = Woken, ~UNCHANGED thread
    PROVE  thread[t].pc = "waiting" /\ Goto(t, "woken")
<1>1. thread \in [Threads -> ThreadState] /\ \A u \in Threads : u # t => thread[u].pc # "waiting"
  BY IdleFacts DEF IInv, Works
<1>2. \A u \in Threads : thread'[u] = IF paused_for_messages_ /\ thread[u].pc = "waiting"
                                      THEN [thread[u] EXCEPT !.pc = "woken"] ELSE thread[u]
  BY Zenon DEF Woken, At
<1>3. thread' \in [Threads -> ThreadState]
  <2>1. "woken" \in Labels
    BY DEF Labels
  <2>2. \A u \in Threads : [thread[u] EXCEPT !.pc = "woken"] \in ThreadState
    BY Zenon, <1>1, <2>1 DEF ThreadState
  <2> QED BY Zenon, <1>1, <2>2 DEF Woken
<1>4. thread[t].pc = "waiting" /\ thread'[t] = [thread[t] EXCEPT !.pc = "woken"]
  <2>1. (\A u \in Threads : thread'[u] = thread[u]) => thread' = thread
    BY <1>1, <1>3
  <2> QED BY Zenon, <1>1, <1>2, <2>1
<1>5. thread' = [thread EXCEPT ![t] = [thread[t] EXCEPT !.pc = "woken"]]
  <2> DEFINE q == [thread[t] EXCEPT !.pc = "woken"]
  <2>1. thread'[t] = q /\ \A u \in Threads : u # t => thread'[u] = thread[u]
    BY Zenon, <1>1, <1>2, <1>4
  <2> HIDE DEF q
  <2> QED BY <1>1, <1>3, <2>1 DEF q
<1> QED BY Zenon, <1>4, <1>5 DEF Goto

LEMMA WakesInv ==
    ASSUME IInv, NEW t \in Threads, thread[t].pc = "waiting", Goto(t, "woken"), Framed,
           UNCHANGED <<live_ports_, failed>>, Messages'
    PROVE  IInv'
<1>1. /\ "waiting" \in InCall /\ "woken" \in InCall /\ "woken" \in Labels /\ "woken" \notin InMonitor
      /\ thread[t].pc \in Inner \cup {"waiting", "woken"}
  BY DEF InCall, Labels, InMonitor, Outer, Inner, Pauses
<1>2. Ready(t) /\ (failed \/ Clean(thread[t])) /\ Base(thread[t]) \notin Pauses
  BY Zenon, <1>1, InCallFacts, EventBase
<1>3. /\ Moves(t) /\ thread'[t].pc = "woken" /\ Base(thread'[t]) = Base(thread[t])
      /\ Clean(thread[t]) => Clean(thread'[t])
  BY Zenon, <1>1, <1>2, Jumps
<1>4. Inside(t)
  BY Zenon, <1>1, <1>2, <1>3 DEF Inside, Leaves
<1> QED BY Zenon, <1>4, InsideInv

LEMMA PostedMessages ==
    ASSUME Messages, NEW kind \in Kinds, PostMessage(kind)
    PROVE  Messages'
<1> DEFINE message == [id |-> posted', kind |-> kind]
<1>1. /\ posted < MaxPosts /\ posted' = posted + 1 /\ UNCHANGED taken
      /\ IF IsOOB(message)
         THEN oob_queue_' \in Enqueue(oob_queue_, message, FALSE) /\ UNCHANGED queue_
         ELSE queue_' \in Enqueue(queue_, message, FALSE) /\ UNCHANGED oob_queue_
  BY Zenon DEF PostMessage, history
<1>2. /\ posted \in Nat /\ posted' \in Nat /\ posted' \in 1..MaxPosts /\ posted <= posted'
      /\ posted < posted' /\ posted' <= posted'
  BY <1>1, HandlerAssumption DEF Messages
<1>3. kind \in OOBKinds \cup ControlKinds \cup {"event"} /\ kind # "killed_before"
  BY HandlerAssumption DEF OOBKinds
<1>4. message \in Message /\ message.id = posted' /\ message.kind = kind
  BY Zenon, <1>2, <1>3 DEF Message
<1> HIDE DEF message
<1>5. CASE IsOOB(message)
  BY Zenon, <1>1, <1>2, <1>4, <1>5, QueuedOOB
<1>6. CASE ~IsOOB(message)
  BY Zenon, <1>1, <1>2, <1>3, <1>4, <1>6, Queued
<1> QED BY Zenon, <1>5, <1>6

LEMMA PostMessageInv ==
    ASSUME IInv, NEW kind \in Kinds, PostMessage(kind)
    PROVE  IInv'
<1>1. Messages'
  BY Zenon, PostedMessages DEF IInv
<1>2. /\ registered /\ monitor_ = NoThread
      /\ UNCHANGED <<monitor_, live_ports_, pool_, ending, is_paused_on_start_,
                     is_paused_on_exit_, paused_, failed>>
  BY Zenon DEF PostMessage, pausing, history
<1>3. Life' /\ deleted = 0
  BY Zenon, <1>2 DEF IInv, Life, ending, OwnedByPortMap
<1>4. CASE NeedsTask /\ task_running_' /\ \E t \in Threads : Goto(t, "queued")
  <2>1. Rests /\ pool_
    BY Zenon, <1>4, NoneWorks DEF NeedsTask
  <2> QED BY Zenon, <1>1, <1>2, <1>3, <1>4, <2>1, TaskInv
<1>5. CASE ~NeedsTask /\ thread' = Woken /\ UNCHANGED task_running_
  <2>1. CASE UNCHANGED thread
    BY Zenon, <1>1, <1>2, <1>3, <1>5, <2>1, KeepsInv DEF ending
  <2>2. CASE ~UNCHANGED thread
    <3>1. PICK t \in Threads : Works(t)
      <4>1. CASE Rests
        <5>1. \A u \in Threads : thread[u].pc # "waiting"
          BY <4>1, IdleFacts DEF Rests
        <5>2. thread' = [u \in Threads |-> thread[u]]
          BY Zenon, <1>5, <5>1 DEF Woken, At
        <5> QED BY <2>2, <5>2 DEF IInv
      <4> QED BY Zenon, <4>1 DEF IInv
    <3>2. Framed
      BY Zenon, <1>2, <1>5 DEF Framed, running
    <3> QED BY Zenon, <1>1, <1>2, <1>5, <2>2, <3>1, <3>2, WokenFacts, WakesInv
  <2> QED BY Zenon, <2>1, <2>2
<1>6. \/ NeedsTask /\ task_running_' /\ \E t \in Threads : Goto(t, "queued")
      \/ ~NeedsTask /\ thread' = Woken /\ UNCHANGED task_running_
  BY Zenon DEF PostMessage
<1> QED BY Zenon, <1>4, <1>5, <1>6

LEMMA EndInv ==
    ASSUME IInv, ClosePort \/ RequestDeletion \/ Shutdown
    PROVE  IInv'
<1>1. Life /\ Messages
  BY Zenon DEF IInv
<1>2. CASE ClosePort
  <2>1. /\ UNCHANGED <<thread, monitor_, pool_, task_running_, handler, is_paused_on_start_,
                       is_paused_on_exit_, paused_, failed, deleted, delete_me_, queue_,
                       oob_queue_, posted, taken>>
        /\ OwnedByPortMap /\ registered /\ registered' = FALSE /\ live_ports_' = live_ports_ - 1
    BY Zenon, <1>2 DEF ClosePort, running, pausing, history, queues, posting
  <2>2. deleted = 0 /\ ~delete_me_ /\ live_ports_ = 1
    BY Zenon, <1>1, <2>1 DEF Life
  <2>3. live_ports_' = 0 /\ live_ports_' \in Nat
    BY <2>1, <2>2
  <2>4. Life'
    BY Zenon, <2>1, <2>2, <2>3 DEF Life, OwnedByPortMap
  <2> QED BY Zenon, <1>1, <2>1, <2>2, <2>3, <2>4, SameMessages, KeepsInv
<1>3. CASE RequestDeletion
  <2>1. /\ UNCHANGED <<thread, monitor_, pool_, task_running_, handler, is_paused_on_start_,
                       is_paused_on_exit_, paused_, failed, live_ports_, registered, queue_,
                       oob_queue_, posted, taken>>
        /\ closing /\ closing' = FALSE
        /\ deleted' = deleted + IF ~task_running_ THEN 1 ELSE 0
        /\ delete_me_' = (delete_me_ \/ task_running_)
    BY Zenon, <1>3 DEF RequestDeletion, DeletesNow, running, pausing, history, queues, posting
  <2>2. deleted = 0 /\ ~delete_me_ /\ ~registered /\ OwnedByPortMap
    BY Zenon, <1>1, <2>1 DEF Life
  <2>3. Messages'
    BY Zenon, <1>1, <2>1, SameMessages
  <2>4. CASE task_running_
    <3>1. deleted' = deleted /\ (delete_me_ => delete_me_')
      BY <2>1, <2>2, <2>4
    <3>2. Life'
      BY Zenon, <1>1, <2>1, <2>2, <3>1 DEF Life, OwnedByPortMap
    <3> QED BY Zenon, <2>1, <2>2, <2>3, <3>1, <3>2, KeepsInv
  <2>5. CASE ~task_running_
    <3>1. Rests
      <4>1. ASSUME NEW t \in Threads, Works(t) PROVE FALSE
        <5>1. /\ Base(thread[t]) \in Afterlife \ {"embedder", "end_callback", "delete"}
          BY Zenon, <2>2, <2>5, <4>1 DEF Works, Runs
        <5>2. Base(thread[t]) = "idle" /\ thread[t].pc # "idle" /\ Ready(t)
          BY <5>1, <4>1 DEF Afterlife, Works, IInv, Ready
        <5>3. thread[t].calls # <<>> /\ thread[t].calls \in Seq(Call) /\ CallsOK(thread[t].calls)
          BY <5>2 DEF Ready, Stack, ThreadState, Base
        <5>4. Base(thread[t]) \in Outer
          BY <5>3 DEF Base, CallsOK
        <5> QED BY <5>2, <5>4 DEF Outer, Pauses
      <4> QED BY Zenon, <4>1 DEF IInv
    <3>2. ~delete_me_'
      BY Zenon, <2>1, <2>2, <2>5
    <3>3. deleted' = 1
      BY <2>1, <2>2, <2>5
    <3>4. Life'
      BY Zenon, <1>1, <2>1, <2>2, <3>2 DEF Life, OwnedByPortMap
    <3>5. Rests'
      BY <2>1, <2>2, <3>1, <3>3 DEF Rests, paused
    <3> QED BY Zenon, <2>1, <2>3, <3>4, <3>5 DEF IInv
  <2> QED BY Zenon, <2>4, <2>5
<1>4. CASE Shutdown
  <2>1. /\ UNCHANGED <<thread, pool_, task_running_, handler, closing, delete_me_, posted, taken>>
        /\ ~OwnedByPortMap /\ registered /\ ~pool_ /\ NobodyRuns
        /\ registered' = FALSE /\ live_ports_' = 0 /\ deleted' = deleted + 1
        /\ queue_' = <<>> /\ oob_queue_' = <<>>
    BY Zenon, <1>4 DEF Shutdown, running, history, posting
  <2>2. deleted = 0 /\ ~delete_me_ /\ ~closing
    BY Zenon, <1>1, <2>1 DEF Life
  <2>3. Life'
    BY <2>1, <2>2 DEF Life, OwnedByPortMap
  <2>4. Messages'
    BY <1>1, <2>1 DEF Messages
  <2>5. Rests'
    BY <2>1, <2>2, NoneWorks DEF Rests
  <2> QED BY Zenon, <2>1, <2>3, <2>4, <2>5 DEF IInv
<1> QED BY Zenon, <1>2, <1>3, <1>4

LEMMA UnchangedInv ==
    ASSUME IInv, MessageNotify \/ UNCHANGED vars
    PROVE  IInv'
<1>1. UNCHANGED <<thread, monitor_, pool_, task_running_, handler, is_paused_on_start_,
                  is_paused_on_exit_, paused_, failed, live_ports_, registered, closing,
                  delete_me_, deleted, queue_, oob_queue_, posted, taken>>
  BY Zenon DEF MessageNotify, vars, running, pausing, history, queues, posting, ending
<1>2. Messages' /\ Life'
  BY Zenon, <1>1, SameMessages DEF IInv, Life, OwnedByPortMap
<1>3. Rests => Rests'
  BY Zenon, <1>1 DEF Rests, paused
<1>4. ASSUME NEW t \in Threads, Works(t) PROVE Works(t)'
  <2>1. Decides(thread[t])' /\ Runs(Base(thread[t]))'
    BY Zenon, <1>1, <1>4 DEF Works, Decides, Runs, paused, OwnedByPortMap
  <2> QED BY Zenon, <1>1, <1>4, <2>1 DEF Works
<1> QED BY Zenon, <1>1, <1>2, <1>3, <1>4 DEF IInv

-----------------------------------------------------------------------------
(* IInv holds of the handler as it is made, and every step keeps it.       *)
LEMMA InitInv == Init => IInv
<1> SUFFICES ASSUME Init PROVE IInv
  OBVIOUS
<1>1. thread \in [Threads -> ThreadState] /\ \A t \in Threads : thread[t] = Idle
  BY Zenon, IdleFacts DEF Init
<1>2. Rests
  BY <1>1 DEF Init, Rests
<1>3. Messages
  BY DEF Init, Messages
<1>4. Life
  BY HandlerAssumption DEF Init, Life
<1> QED BY Zenon, <1>1, <1>2, <1>3, <1>4 DEF IInv

LEMMA NextInv == IInv /\ [Next]_vars => IInv'
<1> SUFFICES ASSUME IInv, [Next]_vars PROVE IInv'
  OBVIOUS
<1>1. ASSUME NEW t \in Threads, Step(t) PROVE IInv'
  BY Zenon, <1>1, EnterIsolateInv, MessageHandledInv, HandleControlMessageInv, EventInv, StartInv,
     ExitInv, FinishTaskInv, StopHandlerInv, EndCallbackInv, NextMessageHandledInv DEF Step
<1>2. ASSUME NEW t \in Threads,
             FinishEvent(t) \/ ChangeLivePorts(t) \/ PauseAndHandleAllMessages(t)
               \/ HandleNextMessage(t)
      PROVE  IInv'
  BY Zenon, <1>2, FinishEventInv, EventInv, HandleNextMessageInv
<1>3. ASSUME NEW kind \in Kinds, PostMessage(kind) PROVE IInv'
  BY Zenon, <1>3, PostMessageInv
<1>4. CASE Run \/ MessageNotify \/ ClosePort \/ RequestDeletion \/ Shutdown \/ UNCHANGED vars
  BY Zenon, <1>4, RunInv, EndInv, UnchangedInv
<1> QED BY Zenon, <1>1, <1>2, <1>3, <1>4 DEF Next

(* The inductive invariant of the handler holds.                           *)
THEOREM HandlerInvariant == Spec => []IInv
  BY InitInv, NextInv, PTL DEF Spec

(* InTask is where the outermost call of the thread returns to, or the     *)
(* thread is, in TaskCallback.                                             *)
LEMMA TaskBase ==
    ASSUME NEW t \in Threads, Ready(t)
    PROVE  InTask(t) <=> Base(thread[t]) \notin Afterlife
<1>1. thread[t].calls \in Seq(Call) /\ Stack(thread[t])
  BY DEF Ready, ThreadState
<1>2. CASE thread[t].calls = <<>>
  BY Zenon, <1>2 DEF InTask, Base
<1>3. CASE thread[t].calls # <<>>
  <2>1. thread[t].pc \in InCall /\ CallsOK(thread[t].calls)
    BY Zenon, <1>1, <1>3 DEF Stack
  <2>2. thread[t].pc \notin Afterlife /\ Base(thread[t]) \in Outer
    BY <1>1, <1>3, <2>1 DEF Afterlife, InCall, Base, CallsOK
  <2> QED BY <1>3, <2>2 DEF InTask, Base, Outer, Pauses, Afterlife
<1> QED BY Zenon, <1>2, <1>3

LEMMA InvOneTask == IInv => OneTask
<1> SUFFICES ASSUME IInv PROVE OneTask
  OBVIOUS
<1>1. CASE Rests
  <2>1. "idle" \in Afterlife
    BY DEF Afterlife
  <2>2. \A t \in Threads : ~InTask(t)
    BY Zenon, <1>1, <2>1, IdleFacts DEF Rests, InTask
  <2> QED BY Zenon, <1>1, <2>2 DEF Rests, OneTask
<1>2. CASE \E t \in Threads : Works(t)
  <2>1. PICK t \in Threads : Works(t)
    BY Zenon, <1>2
  <2>2. Ready(t) /\ "idle" \in Afterlife
    BY <2>1 DEF Works, IInv, Ready, Afterlife
  <2>3. \A u \in Threads : u # t => ~InTask(u)
    BY Zenon, <2>1, <2>2, IdleFacts DEF Works, InTask
  <2>4. task_running_ <=> InTask(t)
    BY Zenon, <2>1, <2>2, TaskBase DEF Works, Runs
  <2> QED BY Zenon, <2>1, <2>3, <2>4 DEF Works, Runs, OneTask
<1> QED BY Zenon, <1>1, <1>2 DEF IInv

(* A handler has at most one task, in TaskCallback, in HandleMessages or   *)
(* in a wait nested in it, and task_running_ says whether it has one,      *)
(* however posting, pausing and stopping interleave (message_handler.cc:   *)
(* PostMessage starts one only if task_running_ is false).                 *)
THEOREM HandlerOneTask == Spec => []OneTask
  BY HandlerInvariant, InvOneTask, PTL

LEMMA InvLeavesNothing == IInv => NoMissedOOBMessage /\ NoStrandedMessage
<1> SUFFICES ASSUME IInv, pool_ /\ ~task_running_
             PROVE  NoMissedOOBMessage /\ NoStrandedMessage
  BY Zenon DEF NoMissedOOBMessage, NoStrandedMessage
<1>1. Rests
  BY Zenon, NoneWorks
<1> QED BY Zenon, <1>1 DEF Rests, NoMissedOOBMessage, NoStrandedMessage

(* No task of a handler ends with messages out of band in the queue: the   *)
(* assertions in TaskCallback hold, although it releases monitor_ to       *)
(* handle messages, to notify and to pause.                                *)
THEOREM HandlerNoMissedOOB == Spec => []NoMissedOOBMessage
  BY HandlerInvariant, InvLeavesNothing, PTL

(* Without a task a normal message waits only for a resume: HandleMessages *)
(* of the main loop took all it may, or what is posted later finds         *)
(* task_running_ false and starts a task (PostMessage).                    *)
THEOREM HandlerNoStranded == Spec => []NoStrandedMessage
  BY HandlerInvariant, InvLeavesNothing, PTL

(* Events are taken in the order in which they were posted, and a kill     *)
(* message put before the events stays before them: Enqueue finds its      *)
(* place after the control messages at the head of queue_.                 *)
THEOREM HandlerEventsInOrder == Spec => []EventsInOrder
<1>1. IInv => EventsInOrder
  BY Zenon DEF IInv, Messages, Ordered, EventsInOrder
<1> QED BY HandlerInvariant, <1>1, PTL

(* The handler is deleted once, after the port map has forgotten it and    *)
(* with no thread in its code or on the way there: by RequestDeletion, by  *)
(* the end of TaskCallback, or by the isolate's shutdown.                  *)
THEOREM HandlerDeletedOnce == Spec => []DeletedOnce
<1>1. IInv => DeletedOnce
  <2>1. ASSUME IInv, deleted > 0 PROVE Rests
    BY <2>1 DEF IInv, Works, Runs
  <2>2. Rests => NobodyRuns
    BY Zenon, IdleFacts DEF Rests, NobodyRuns
  <2> QED BY Zenon, <2>1, <2>2 DEF Rests, DeletedOnce
<1> QED BY HandlerInvariant, <1>1, PTL

LEMMA PoolStays ==
    ASSUME [Next]_vars, pool_, ~pool_'
    PROVE  \E t \in Threads : StopHandler(t)
<1>1. ASSUME NEW t \in Threads, Step(t) PROVE StopHandler(t)
  BY Zenon, <1>1 DEF Step, EnterIsolate, MessageHandled, HandleControlMessage, HandleInterrupts,
     WakeUp, CheckWait, ResumeEvent, TaskCallback, PausedOnStart, AfterStart, CheckPausedOnExit,
     AfterExit, HandlePendingMessages, FinishTask, PausedOnExit, EndCallback, NextMessageHandled,
     running
<1>2. ASSUME NEW t \in Threads,
             FinishEvent(t) \/ ChangeLivePorts(t) \/ PauseAndHandleAllMessages(t)
               \/ HandleNextMessage(t)
      PROVE  FALSE
  BY Zenon, <1>2 DEF FinishEvent, ChangeLivePorts, PauseAndHandleAllMessages, HandleNextMessage,
     running
<1>3. ASSUME NEW kind \in Kinds, PostMessage(kind) PROVE FALSE
  BY Zenon, <1>3 DEF PostMessage
<1>4. CASE Run \/ MessageNotify \/ ClosePort \/ RequestDeletion \/ Shutdown \/ UNCHANGED vars
  BY Zenon, <1>4 DEF Run, MessageNotify, ClosePort, RequestDeletion, Shutdown, vars, running
<1> QED BY Zenon, <1>1, <1>2, <1>3, <1>4 DEF Next

(* The handler gives up its pool only after an error or without live       *)
(* ports: what TaskCallback decided before a pause on exit still holds     *)
(* when it stops.                                                          *)
THEOREM HandlerNoEarlyExit == Spec => NoEarlyExit
<1>1. IInv /\ [Next]_vars => [pool_ /\ ~pool_' /\ ~failed => live_ports_ = 0]_vars
  <2> SUFFICES ASSUME IInv, [Next]_vars, pool_, ~pool_', ~failed PROVE live_ports_ = 0
    BY Zenon
  <2>1. PICK t \in Threads : StopHandler(t)
    BY Zenon, PoolStays
  <2>2. InCallback(t) /\ thread[t].pc = "stop"
    BY Zenon, <2>1 DEF StopHandler, At, InCallback
  <2> QED BY Zenon, <2>2, CallbackFacts DEF Works, Decides
<1> QED BY HandlerInvariant, <1>1, PTL DEF Spec, NoEarlyExit

(* The flags and counters, of which IInv does not give the types.          *)
Flags ==
    /\ monitor_ \in Threads \cup {NoThread}
    /\ should_pause_on_start_ \in BOOLEAN /\ should_pause_on_exit_ \in BOOLEAN
    /\ is_paused_on_start_ \in BOOLEAN /\ is_paused_on_exit_ \in BOOLEAN
    /\ paused_for_messages_ \in BOOLEAN /\ pool_ \in BOOLEAN /\ task_running_ \in BOOLEAN
    /\ delete_me_ \in BOOLEAN /\ registered \in BOOLEAN /\ closing \in BOOLEAN
    /\ interrupt \in BOOLEAN /\ overwritten \in BOOLEAN /\ notifying \in BOOLEAN /\ failed \in BOOLEAN
Counters ==
    /\ live_ports_ \in 0..MaxPorts /\ paused_ \in 0..1
    /\ deleted \in Nat /\ posted \in 0..MaxPosts

(* What a step of a thread assigns to the flags.                           *)
LEMMA StepFlags ==
    ASSUME Flags, NEW t \in Threads,
           Step(t) \/ FinishEvent(t) \/ ChangeLivePorts(t) \/ PauseAndHandleAllMessages(t)
             \/ HandleNextMessage(t)
    PROVE  Flags'
<1> USE DEF Step, EnterIsolate, MessageHandled, HandleControlMessage, HandleInterrupts, WakeUp,
        CheckWait, ResumeEvent, TaskCallback, PausedOnStart, AfterStart, CheckPausedOnExit,
        AfterExit, HandlePendingMessages, FinishTask, PausedOnExit, StopHandler, EndCallback,
        NextMessageHandled, FinishEvent, ChangeLivePorts, PauseAndHandleAllMessages,
        HandleNextMessage
<1>1. monitor_' = monitor_ \/ monitor_' = NoThread \/ monitor_' = t
  BY Zenon DEF DequeueMessage, Take, Return, HandleMessages, HandleAllMessages, WaitOrHandleAll,
     StopTask
<1>2. UNCHANGED <<delete_me_, registered, closing, notifying, overwritten>>
  BY Zenon DEF ending, posting
<1>3. /\ pool_' = pool_ \/ pool_' = FALSE
      /\ task_running_' = task_running_ \/ task_running_' = FALSE
      /\ interrupt' = interrupt \/ interrupt' = FALSE
  BY Zenon DEF running, posting, StopTask
<1>4. /\ is_paused_on_start_' \in {is_paused_on_start_, TRUE, FALSE}
      /\ is_paused_on_exit_' \in {is_paused_on_exit_, TRUE, FALSE}
  BY Zenon DEF pausing
<1>5. paused_for_messages_' \in {paused_for_messages_, TRUE, FALSE}
  BY Zenon DEF waiting, HandleAllMessages, WaitOrHandleAll
<1>6. failed' = failed \/ failed' \in BOOLEAN
  BY Zenon DEF history, Finished
<1>7. /\ should_pause_on_start_' \in {should_pause_on_start_, FALSE}
      /\ should_pause_on_exit_' = should_pause_on_exit_ \/ should_pause_on_exit_' \in BOOLEAN
  BY Zenon DEF pausing, ServiceResume
<1>8. (pool_ \in BOOLEAN /\ task_running_ \in BOOLEAN /\ interrupt \in BOOLEAN)'
  BY Zenon, <1>3 DEF Flags
<1>9. (is_paused_on_start_ \in BOOLEAN /\ is_paused_on_exit_ \in BOOLEAN)'
  BY Zenon, <1>4 DEF Flags
<1>10. (paused_for_messages_ \in BOOLEAN /\ failed \in BOOLEAN)'
  BY Zenon, <1>5, <1>6 DEF Flags
<1>11. (should_pause_on_start_ \in BOOLEAN /\ should_pause_on_exit_ \in BOOLEAN)'
  BY Zenon, <1>7 DEF Flags
<1>12. monitor_' \in Threads \cup {NoThread}
  BY Zenon, <1>1 DEF Flags
<1> QED BY Zenon, <1>2, <1>12, <1>8, <1>9, <1>10, <1>11 DEF Flags

LEMMA StepCounters ==
    ASSUME Counters, NEW t \in Threads,
           Step(t) \/ FinishEvent(t) \/ ChangeLivePorts(t) \/ PauseAndHandleAllMessages(t)
             \/ HandleNextMessage(t)
    PROVE  Counters'
<1>1. CASE HandleControlMessage(t)
  BY <1>1 DEF Counters, HandleControlMessage, PausedAfter, ending, posting
<1>2. CASE EndCallback(t)
  BY <1>2 DEF Counters, EndCallback, pausing, posting
<1>3. CASE ChangeLivePorts(t)
  BY <1>3 DEF Counters, ChangeLivePorts, pausing, ending, posting
<1>4. ~(HandleControlMessage(t) \/ EndCallback(t) \/ ChangeLivePorts(t)) =>
         UNCHANGED <<live_ports_, paused_, deleted, posted>>
  BY Zenon DEF Step, EnterIsolate, MessageHandled, HandleInterrupts, WakeUp, CheckWait, ResumeEvent,
     TaskCallback, PausedOnStart, AfterStart, CheckPausedOnExit, AfterExit, HandlePendingMessages,
     FinishTask, PausedOnExit, StopHandler, NextMessageHandled, FinishEvent,
     PauseAndHandleAllMessages, HandleNextMessage, pausing, ending, posting
<1> QED BY Zenon, <1>1, <1>2, <1>3, <1>4 DEF Counters

(* The counters keep to their bounds: a capability pauses the isolate      *)
(* once, and the port map takes away no port that is not there.            *)
THEOREM HandlerTypes == Spec => []TypeOK
<1>1. Init => Flags /\ Counters
  <2> SUFFICES ASSUME Init PROVE Flags /\ Counters
    BY Zenon
  <2>1. Counters
    BY HandlerAssumption DEF Init, Counters
  <2> QED BY Zenon, <2>1, HandlerAssumption DEF Init, Flags
<1>2. IInv /\ Flags /\ Counters /\ [Next]_vars => (Flags /\ Counters)'
  <2> SUFFICES ASSUME IInv, Flags, Counters, [Next]_vars PROVE Flags' /\ Counters'
    BY Zenon
  <2> DEFINE PauseFlags ==
                /\ should_pause_on_start_ \in BOOLEAN /\ should_pause_on_exit_ \in BOOLEAN
                /\ is_paused_on_start_ \in BOOLEAN /\ is_paused_on_exit_ \in BOOLEAN
                /\ paused_for_messages_ \in BOOLEAN
  <2>Pausing. UNCHANGED <<pausing, waiting>> => PauseFlags'
    BY Zenon DEF Flags, pausing, waiting
  <2>1. ASSUME NEW kind \in Kinds, PostMessage(kind) PROVE Flags' /\ Counters'
    <3>1. /\ UNCHANGED <<monitor_, pausing, waiting, pool_, ending, interrupt, overwritten, failed, live_ports_>>
          /\ task_running_' = TRUE \/ task_running_' = task_running_
          /\ notifying' = (kind \in OOBKinds) /\ posted < MaxPosts /\ posted' = posted + 1
      BY Zenon, <2>1 DEF PostMessage, history
    <3>2. posted' \in 0..MaxPosts
      BY <3>1, HandlerAssumption DEF Counters
    <3>3. task_running_' \in BOOLEAN
      BY Zenon, <3>1 DEF Flags
    <3>4. Counters'
      BY Zenon, <3>1, <3>2 DEF Counters, pausing, ending
    <3>5. notifying' \in BOOLEAN
      BY SMT, <3>1
    <3> QED BY Zenon, <2>Pausing, <3>1, <3>3, <3>4, <3>5 DEF Flags, ending
  <2>2. CASE ClosePort \/ RequestDeletion \/ Shutdown
    <3>1. live_ports_' \in 0..MaxPorts /\ deleted' \in Nat
      BY <2>2, HandlerAssumption DEF IInv, Life, Counters, ClosePort, RequestDeletion, Shutdown
    <3>2. /\ UNCHANGED <<monitor_, pausing, waiting, running, posting, failed>>
      BY Zenon, <2>2 DEF ClosePort, RequestDeletion, Shutdown, history
    <3>3. registered' \in BOOLEAN /\ closing' \in BOOLEAN
      BY Zenon, <2>2 DEF ClosePort, RequestDeletion, Shutdown, Flags
    <3>4. delete_me_' \in BOOLEAN
      BY Zenon, <2>2 DEF ClosePort, RequestDeletion, Shutdown, Flags
    <3>5. Counters'
      BY Zenon, <3>1, <3>2 DEF Counters, pausing, posting
    <3> QED BY Zenon, <2>Pausing, <3>2, <3>3, <3>4, <3>5 DEF Flags, running, posting
  <2>3. CASE Run
    BY Zenon, <2>3 DEF Flags, Counters, Run, pausing, waiting, ending, posting
  <2>4. CASE MessageNotify
    <3>1. Counters'
      BY Zenon, <2>4 DEF Counters, MessageNotify, pausing, ending
    <3> QED BY Zenon, <2>4, <2>Pausing, <3>1 DEF Flags, MessageNotify, running, ending, history
  <2>5. CASE UNCHANGED vars
    <3>1. Counters'
      BY Zenon, <2>5 DEF Counters, vars, pausing, ending, posting
    <3> QED BY SMT, <2>5, <3>1 DEF Flags, vars, pausing, waiting, running, ending, posting, history
  <2> QED BY Zenon, <2>1, <2>2, <2>3, <2>4, <2>5, StepFlags, StepCounters DEF Next
<1>3. IInv /\ Flags /\ Counters => TypeOK
  <2> SUFFICES ASSUME IInv, Flags, Counters PROVE TypeOK
    BY Zenon
  <2>1. taken \in 0..MaxPosts
    BY HandlerAssumption DEF IInv, Messages, Counters
  <2>2. {should_pause_on_start_, should_pause_on_exit_, is_paused_on_start_,
         is_paused_on_exit_, paused_for_messages_, pool_, task_running_, delete_me_,
         registered, interrupt, overwritten, notifying, closing, failed} \subseteq BOOLEAN
    BY Zenon DEF Flags
  <2> QED BY Zenon, <2>1, <2>2 DEF IInv, Messages, ThreadState, Flags, Counters, TypeOK
<1> QED BY HandlerInvariant, <1>1, <1>2, <1>3, PTL DEF Spec
=============================================================================
