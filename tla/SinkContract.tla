---------------------------- MODULE SinkContract ----------------------------
(***************************************************************************)
(* What a queued sink promises its callers, whatever thread does the work:  *)
(* records leave in the order they were accepted, the backlog is bounded,   *)
(* every accepted record is delivered, spoiled by the writer or evicted for *)
(* a newer one, and a barrier is answered only when its prefix is settled.  *)
(***************************************************************************)
EXTENDS Integers, Sequences

CONSTANTS Threads, Capacity

VARIABLES issued,     \* how many records were accepted
          pending,    \* accepted records still queued
          inHand,     \* the record being written, 0 for none
          delivered,  \* records the writer took
          spoiled,    \* records the writer refused
          evicted,    \* records overwritten by newer ones
          barrier,    \* per thread: target and answer of its last barrier
          closed      \* nothing more will be written

vars == <<issued, pending, inHand, delivered, spoiled, evicted, barrier, closed>>

Delivered == {delivered[i] : i \in 1..Len(delivered)}
Pending   == {pending[i] : i \in 1..Len(pending)}

\* The records up to target are no longer the sink's to lose.
Settled(target) == \A s \in 1..target : s \notin Pending /\ s # inHand

Init ==
    /\ issued = 0 /\ pending = <<>> /\ inHand = 0
    /\ delivered = <<>> /\ spoiled = {} /\ evicted = {}
    /\ barrier = [t \in Threads |-> [target |-> 0, answer |-> "none"]]
    /\ closed = FALSE

Accept ==
    /\ Len(pending) < Capacity
    /\ issued' = issued + 1
    /\ pending' = Append(pending, issued + 1)
    /\ UNCHANGED <<inHand, delivered, spoiled, evicted, barrier, closed>>

AcceptEvicting ==
    /\ Capacity > 0 /\ Len(pending) = Capacity
    /\ issued' = issued + 1
    /\ pending' = Append(Tail(pending), issued + 1)
    /\ evicted' = evicted \cup {Head(pending)}
    /\ UNCHANGED <<inHand, delivered, spoiled, barrier, closed>>

Take ==
    /\ inHand = 0 /\ pending # <<>> /\ ~closed
    /\ inHand' = Head(pending)
    /\ pending' = Tail(pending)
    /\ UNCHANGED <<issued, delivered, spoiled, evicted, barrier, closed>>

Put ==
    /\ inHand # 0 /\ ~closed
    /\ \/ delivered' = Append(delivered, inHand) /\ UNCHANGED spoiled
       \/ spoiled' = spoiled \cup {inHand} /\ UNCHANGED delivered
    /\ inHand' = 0
    /\ UNCHANGED <<issued, pending, evicted, barrier, closed>>

Ask(t) ==
    /\ barrier' = [barrier EXCEPT ![t] = [target |-> issued, answer |-> "none"]]
    /\ UNCHANGED <<issued, pending, inHand, delivered, spoiled, evicted, closed>>

\* Success means delivered, or overwritten with the loss counted; failure is
\* reported for a settled prefix, or once the sink is closed.
Tell(t, answer) ==
    LET target == barrier[t].target IN
    /\ barrier[t].answer = "none"
    /\ \/ answer = "ok" /\ \A s \in 1..target : s \in Delivered \cup evicted
       \/ answer = "error" /\ Settled(target)
       \/ answer = "broken" /\ closed
    /\ barrier' = [barrier EXCEPT ![t].answer = answer]
    /\ UNCHANGED <<issued, pending, inHand, delivered, spoiled, evicted, closed>>

Close ==
    /\ ~closed
    /\ closed' = TRUE
    /\ UNCHANGED <<issued, pending, inHand, delivered, spoiled, evicted, barrier>>

Next ==
    \/ Accept \/ AcceptEvicting \/ Take \/ Put \/ Close
    \/ \E t \in Threads :
          Ask(t) \/ \E answer \in {"ok", "error", "broken"} : Tell(t, answer)

Spec == Init /\ [][Next]_vars
=============================================================================
