---------------------------- MODULE MessageQueue ----------------------------
(***************************************************************************)
(* The queue of runtime/vm/message.cc, a linked list, as a sequence of     *)
(* messages.  A message to the illegal port is a control message of the    *)
(* isolate library, which was received out of band and put off.            *)
(***************************************************************************)
EXTENDS Naturals, Sequences

CONSTANT ControlKinds  \* the messages to the illegal port

IsControl(message) == message.kind \in ControlKinds

(* The number of control messages at the head of the queue.                *)
LeadingControls(queue) ==
    {n \in 0..Len(queue) : /\ \A i \in 1..n : IsControl(queue[i])
                           /\ n < Len(queue) => ~ IsControl(queue[n + 1])}

(* Mutant: what goes before the events goes to the tail.                   *)
MutEnqueue(queue, message, before_events) == {Append(queue, message)}

(* The one queue with the message in its place.  before_events: before the *)
(* first event, but after the control messages that are already there.     *)
Enqueue(queue, message, before_events) ==
    {SubSeq(queue, 1, n) \o <<message>> \o SubSeq(queue, n + 1, Len(queue)) :
        n \in IF before_events THEN LeadingControls(queue) ELSE {Len(queue)}}
=============================================================================
