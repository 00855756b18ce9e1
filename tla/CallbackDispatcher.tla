------------------------- MODULE CallbackDispatcher -------------------------
(***************************************************************************)
(* The callback machinery of libstagefright/omx/tests: a component thread  *)
(* calls back into a TaskInstance, which posts each call as a message to   *)
(* its CallbackDispatcher; the dispatcher's thread hands the messages, in  *)
(* batches, to the instance's handler; the owner starts and stops the      *)
(* component and frees the node.  Both threads are Threads, of which only  *)
(* what MercuryThread shows is used: join() returns when the thread has    *)
(* ended.  The handler of the source frees nothing, so the join of the     *)
(* dispatcher's thread on itself that its destructor provides for does not *)
(* arise.                                                                  *)
(***************************************************************************)
EXTENDS Naturals, Sequences, SequencesExt

CONSTANTS
  kMaxQueueSize,
  MaxPosts         \* bound: the messages after which no round is begun

ASSUME DispatcherAssumption ==
  kMaxQueueSize \in Nat \ {0} /\ MaxPosts \in Nat

NoThread == 0
Calls == 1 .. 3      \* OnEvent, OnEmptyBufferDone, OnFillBufferDone
Asleep == 4          \* and, after the sleep, at the test of mbDone
Starting == 5        \* before the first round of threadLoop()

VARIABLES
  mQueue,       \* messages [id, realTime] not yet taken
  messages,     \* the batch the dispatcher thread took
  mDone,
  loop,         \* the dispatcher thread: "check", "wait", "woken", "dispatch", "exited"
  comp,         \* the component thread: NoThread, Starting, one of Calls, Asleep
  mbDone,
  owner,        \* the owner's thread: "idle", "joinComp", "joinLoop", "freed"
  freed,        \* the dispatcher has been deleted
  posted,       \* history: messages posted
  handled,      \* history: ids of the messages handled, in order
  fault         \* history: the deleted dispatcher was used

vars == <<mQueue, messages, mDone, loop, comp, mbDone, owner, freed, posted, handled, fault>>

Init ==
  /\ mQueue = << >> /\ messages = << >> /\ mDone = FALSE /\ loop = "check"
  /\ comp = NoThread /\ mbDone = FALSE /\ owner = "idle" /\ freed = FALSE
  /\ posted = 0 /\ handled = << >> /\ fault = FALSE

Use == fault' = (fault \/ freed)
Woken == IF loop = "wait" THEN "woken" ELSE loop
----------------------------------------------------------------------------
(* post(): a message that is not realTime wakes the thread only when the   *)
(* queue has reached kMaxQueueSize.                                        *)
OnlyRealTime(queue, realTime) == realTime        \* mutant of Notifies
Notifies(queue, realTime) == realTime \/ Len(queue) >= kMaxQueueSize

Post(realTime) ==
  /\ mQueue' = Append(mQueue, [id |-> posted + 1, realTime |-> realTime])
  /\ posted' = posted + 1
  /\ loop' = IF Notifies(mQueue', realTime) THEN Woken ELSE loop
  /\ Use

(* A batched message from a user of the instance, before the node is freed *)
PostBatched ==
  /\ owner = "idle" /\ ~mDone /\ posted < MaxPosts /\ Post(FALSE)
  /\ UNCHANGED <<messages, mDone, comp, mbDone, owner, freed, handled>>

(* OnEvent, OnEmptyBufferDone and OnFillBufferDone, from threadLoop()      *)
CallsBack ==
  /\ comp \in Calls /\ Post(TRUE)
  /\ comp' = comp + 1
  /\ UNCHANGED <<messages, mDone, mbDone, owner, freed, handled>>

NextRound ==
  /\ comp = Starting \/ (comp = Asleep /\ ~mbDone /\ posted < MaxPosts)
  /\ comp' = 1
  /\ UNCHANGED <<mQueue, messages, mDone, loop, mbDone, owner, freed, posted, handled, fault>>

(* An exit requested before the first round leaves it out.                 *)
CompExits ==
  /\ comp \in {Asleep, Starting} /\ mbDone
  /\ comp' = NoThread
  /\ UNCHANGED <<mQueue, messages, mDone, loop, mbDone, owner, freed, posted, handled, fault>>
----------------------------------------------------------------------------
(* The owner *)

StartComp ==
  /\ owner = "idle" /\ comp = NoThread /\ posted < MaxPosts /\ ~mDone
  /\ comp' = Starting /\ mbDone' = FALSE
  /\ UNCHANGED <<mQueue, messages, mDone, loop, owner, freed, posted, handled, fault>>

StopComp ==
  /\ owner = "idle" /\ comp # NoThread
  /\ mbDone' = TRUE /\ owner' = "joinComp"
  /\ UNCHANGED <<mQueue, messages, mDone, loop, comp, freed, posted, handled, fault>>

CompJoined ==
  /\ owner = "joinComp" /\ comp = NoThread /\ owner' = "idle"
  /\ UNCHANGED <<mQueue, messages, mDone, loop, comp, mbDone, freed, posted, handled, fault>>

(* freeNode() drops the last reference: ~CallbackDispatcher() sets mDone   *)
(* and signals, then joins.                                                *)
FreeNode ==
  /\ owner = "idle" /\ comp = NoThread /\ ~mDone
  /\ mDone' = TRUE /\ loop' = Woken /\ owner' = "joinLoop"
  /\ UNCHANGED <<mQueue, messages, comp, mbDone, freed, posted, handled, fault>>

WithoutJoin == owner = "joinLoop"      \* mutant of LoopJoined: join() is forgotten
LoopJoined == owner = "joinLoop" /\ loop = "exited"

Freed ==
  /\ LoopJoined
  /\ owner' = "freed" /\ freed' = TRUE
  /\ UNCHANGED <<mQueue, messages, mDone, loop, comp, mbDone, posted, handled, fault>>
----------------------------------------------------------------------------
(* The dispatcher thread *)

Waits == ~mDone /\ mQueue = << >>

LoopWaits ==
  /\ loop \in {"check", "woken"} /\ Waits /\ Use
  /\ loop' = "wait"
  /\ UNCHANGED <<mQueue, messages, mDone, comp, mbDone, owner, freed, posted, handled>>

WakesSpuriously ==
  /\ loop = "wait" /\ loop' = "woken"
  /\ UNCHANGED <<mQueue, messages, mDone, comp, mbDone, owner, freed, posted, handled, fault>>

(* mutant of LoopTakes: a copy is dispatched and the queue left as it is   *)
LoopCopies ==
  /\ loop \in {"check", "woken"} /\ ~mDone /\ mQueue # << >> /\ Use
  /\ messages' = mQueue /\ loop' = "dispatch"
  /\ UNCHANGED <<mQueue, mDone, comp, mbDone, owner, freed, posted, handled>>

LoopTakes ==
  /\ loop \in {"check", "woken"} /\ ~mDone /\ mQueue # << >> /\ Use
  /\ messages' = mQueue /\ mQueue' = << >> /\ loop' = "dispatch"
  /\ UNCHANGED <<mDone, comp, mbDone, owner, freed, posted, handled>>

LoopExits ==
  /\ loop \in {"check", "woken"} /\ mDone /\ Use
  /\ loop' = "exited"
  /\ UNCHANGED <<mQueue, messages, mDone, comp, mbDone, owner, freed, posted, handled>>

(* onMessages(): one message of the batch is handled.                      *)
Handle ==
  /\ loop = "dispatch" /\ messages # << >>
  /\ handled' = Append(handled, Head(messages).id) /\ messages' = Tail(messages)
  /\ UNCHANGED <<mQueue, mDone, loop, comp, mbDone, owner, freed, posted, fault>>

BatchHandled ==
  /\ loop = "dispatch" /\ messages = << >> /\ loop' = "check"
  /\ UNCHANGED <<mQueue, messages, mDone, comp, mbDone, owner, freed, posted, handled, fault>>
----------------------------------------------------------------------------
Loop == LoopWaits \/ LoopTakes \/ LoopExits \/ Handle \/ BatchHandled
Component == CallsBack \/ NextRound \/ CompExits
Joins == CompJoined \/ Freed
Owner == StartComp \/ StopComp \/ FreeNode \/ PostBatched

Next == Loop \/ WakesSpuriously \/ Component \/ Joins \/ Owner

Spec == Init /\ [][Next]_vars

(* Every thread is scheduled; nothing obliges the owner to call anything.  *)
FairSpec == Spec /\ WF_vars(Loop) /\ WF_vars(Component) /\ WF_vars(Joins)
----------------------------------------------------------------------------
(* Properties *)

Message == [id : 1 .. MaxPosts + 3, realTime : BOOLEAN]
Ids(queue) == [i \in DOMAIN queue |-> queue[i].id]

(* Every variable stays in its domain.                                     *)
TypeOK ==
  /\ mQueue \in Seq(Message) /\ messages \in Seq(Message)
  /\ {mDone, mbDone, freed, fault} \subseteq BOOLEAN
  /\ loop \in {"check", "wait", "woken", "dispatch", "exited"}
  /\ comp \in {NoThread, Asleep, Starting} \cup Calls
  /\ owner \in {"idle", "joinComp", "joinLoop", "freed"}
  /\ posted \in 0 .. MaxPosts + 3 /\ handled \in Seq(1 .. MaxPosts + 3)

(* Whatever the interleaving of posts and batches, messages are handled    *)
(* once each, in the order they were posted, and none is lost on the way.  *)
OnceInOrder == handled \o Ids(messages) \o Ids(mQueue) = [i \in 1 .. posted |-> i]

(* The destructor joins the dispatcher's thread, and the owner has joined  *)
(* the component's before it frees the node: no thread touches the         *)
(* dispatcher once it is deleted.                                          *)
NoUseAfterFree == ~fault

(* A message posted as realTime, or that has filled the queue, is handled  *)
(* unless the node is freed: no wakeup is lost.                            *)
NotifiedIsHandled ==
  \A n \in 1 .. MaxPosts + 3 :
    (\E i \in DOMAIN mQueue : /\ mQueue[i].id = n
                              /\ (mQueue[i].realTime \/ Len(mQueue) >= kMaxQueueSize))
      ~> (Contains(handled, n) \/ mDone)
=============================================================================
