---------------------------- MODULE MessageQueue ----------------------------
(***************************************************************************)
(* What an ALooper promises to those who post to it, without its threads:  *)
(* every message is delivered at most once and none is invented, never     *)
(* before it is due, and always the pending one that is due first, the     *)
(* older of two due together.  Messages are lost only with the looper.     *)
(***************************************************************************)
EXTENDS Naturals, Sequences

CONSTANTS MaxTime, MaxPosts, Delays

VARIABLES
  pending,    \* messages posted and not yet given to a handler
  delivered,  \* those given to a handler, in order
  posted,     \* how many messages were posted; they are numbered from 1
  now,        \* the clock
  open        \* the looper exists

promise == <<pending, delivered, posted, now, open>>

Init ==
  /\ pending = {} /\ delivered = <<>>
  /\ posted = 0 /\ now = 0 /\ open = TRUE

(* e is due before f, or together with it and posted earlier.              *)
Precedes(e, f) ==
  \/ e.mWhenUs < f.mWhenUs
  \/ e.mWhenUs = f.mWhenUs /\ e.mMessage < f.mMessage

Post(delayUs) ==
  /\ posted < MaxPosts
  /\ posted' = posted + 1
  /\ pending' = pending \cup {[mWhenUs |-> now + delayUs, mMessage |-> posted + 1]}
  /\ UNCHANGED <<delivered, now, open>>

Deliver(e) ==
  /\ e \in pending /\ e.mWhenUs <= now
  /\ \A f \in pending \ {e} : Precedes(e, f)
  /\ pending' = pending \ {e}
  /\ delivered' = Append(delivered, e)
  /\ UNCHANGED <<posted, now, open>>

Tick ==
  /\ now < MaxTime /\ now' = now + 1
  /\ UNCHANGED <<pending, delivered, posted, open>>

(* The looper goes, and the messages nobody has taken up go with it.       *)
Close ==
  /\ open /\ open' = FALSE
  /\ pending' \subseteq pending
  /\ UNCHANGED <<delivered, posted, now>>

Next ==
  \/ \E delayUs \in Delays : Post(delayUs)
  \/ \E e \in pending : Deliver(e)
  \/ Tick \/ Close

Spec == Init /\ [][Next]_promise
=============================================================================
