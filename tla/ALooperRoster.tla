--------------------------- MODULE ALooperRoster ---------------------------
(***************************************************************************)
(* The process wide roster (src/foundation/ALooperRoster.cpp): which       *)
(* handler is registered under which id on which looper, delivery of       *)
(* messages by id, and synchronous calls (postAndAwaitResponse/postReply). *)
(*                                                                         *)
(* The roster holds only weak references and promotes them under its       *)
(* mLock, so a promoted reference can become the last one and its release  *)
(* then runs a destructor while mLock is held.  References are therefore   *)
(* explicit: own* are those the program's threads hold, tmp* those of the  *)
(* sp<> locals of a roster function.  A looper is its queue and its thread *)
(* (module ALooper has the detail); a thread is a client or a looper.      *)
(***************************************************************************)
EXTENDS Naturals, Sequences, FiniteSets, Functions

CONSTANTS
  Clients, Loopers, Handlers,
  MaxIds,              \* bound: registrations
  MaxPosts,            \* bound: messages posted
  NULL

Threads == Clients \cup Loopers
Ids == 1 .. MaxIds

ASSUME RosterAssumption ==
  /\ MaxIds \in Nat /\ MaxPosts \in Nat
  /\ Clients \cap Loopers = {} /\ NULL \notin Threads \cup Handlers
  /\ NULL \notin [target : Ids, replyID : 0 .. MaxPosts, from : Threads]

VARIABLES
  mHandlers,      \* id -> [mLooper, mHandler], a partial function
  mNextHandlerID,
  mNextReplyID,
  mReplies,       \* replyID -> the client whose request it answers
  mLock,          \* the thread inside the roster's mLock between two steps
  mID,            \* AHandler::mID of each handler
  queue,          \* each looper's event queue
  stopping,       \* loopers whose destructor has run stop()
  ownL, ownH,     \* the loopers and handlers the program holds references to
  tmpL, tmpH,     \* the threads whose sp<> local under mLock refers to it
  running,        \* the handler each looper's thread has promoted to run it
  pc,             \* where each thread is
  next,           \* what a thread does once a reference is released
  joining,        \* the looper whose thread a destructor waits for
  message,        \* the message each looper's thread is delivering
  awaiting,       \* the replyID each client waits for
  sweep,          \* unregisterStaleHandlers(): the ids still to visit
  accepted,       \* requests that reached a handler and are unanswered
  posted,         \* messages posted so far
  registeredTo,   \* history: the handler each id was given to
  lost            \* history: replyIDs whose request reached no handler

ids     == <<mNextHandlerID, mID, registeredTo>>
calls   == <<mNextReplyID, mReplies, awaiting, accepted, posted>>
owners  == <<ownL, ownH>>
locals  == <<tmpL, tmpH>>
loopers == <<queue, stopping, message, running, lost>>
threads == <<pc, next, joining>>
vars == <<mHandlers, mLock, sweep, ids, calls, owners, locals, loopers, threads>>

Request == [target : Ids, replyID : 0 .. MaxPosts, from : Threads]
PCs == {"idle", "loop", "deliver", "handle", "exited", "sweep", "await",
        "scopeL", "scopeH", "join", "dtor", "dead"}
Continuations == {"unlock", "await", "sweep", "return", "loop"}

Init ==
  /\ mHandlers = <<>> /\ mNextHandlerID = 1 /\ mNextReplyID = 1 /\ mReplies = <<>>
  /\ mLock = NULL /\ mID = [h \in Handlers |-> 0]
  /\ queue = [l \in Loopers |-> <<>>] /\ stopping = {}
  /\ message = [l \in Loopers |-> NULL] /\ running = [l \in Loopers |-> NULL]
  /\ awaiting = [c \in Clients |-> 0]
  /\ ownL = Loopers /\ ownH = Handlers
  /\ tmpL = [l \in Loopers |-> {}] /\ tmpH = [h \in Handlers |-> {}]
  /\ pc = [t \in Threads |-> IF t \in Clients THEN "idle" ELSE "loop"]
  /\ next = [t \in Threads |-> "return"] /\ joining = [t \in Threads |-> NULL]
  /\ sweep = {} /\ accepted = {} /\ posted = 0
  /\ registeredTo = <<>> /\ lost = {}

Free == mLock = NULL
LooperAlive(l) == l \in ownL \/ tmpL[l] # {}
HandlerAlive(h) == h \in ownH \/ tmpH[h] # {} \/ \E l \in Loopers : running[l] = h
Registered(id) == id \in DOMAIN mHandlers
Reachable(id) == Registered(id) /\ HandlerAlive(mHandlers[id].mHandler)
InUserCode(t) == pc[t] \in {"idle", "handle"}
Goto(t, label) == pc' = [pc EXCEPT ![t] = label]
Then(t, k) == next' = [next EXCEPT ![t] = k]
Without(f, x) == Restrict(f, DOMAIN f \ {x})
With(f, x, v) == [y \in DOMAIN f \cup {x} |-> IF y = x THEN v ELSE f[y]]
RepliesTo(msgs) == {msgs[i].replyID : i \in 1 .. Len(msgs)} \ {0}

(* A failed CHECK() aborts the process: no thread takes another step.      *)
Abort == pc' = [t \in Threads |-> "dead"]

ReleasesLock(k) == k \in {"unlock", "await"}

(* Where a thread goes on: back to the code that called the roster, its    *)
(* lock released (unlock) or not held (return); into the wait for a reply, *)
(* which releases the lock; to the next entry of a sweep; to its loop().   *)
Continue(t, k) ==
  /\ Then(t, "return")
  /\ mLock' = IF ReleasesLock(k) THEN NULL ELSE mLock
  /\ Goto(t, CASE k = "await" -> "await"
               [] k = "sweep" -> "sweep"
               [] k = "loop" -> "loop"
               [] OTHER -> IF t \in Clients THEN "idle" ELSE "handle")
----------------------------------------------------------------------------
(* Registration *)

SameID(id) == id            \* mutant of NextID: the counter is not advanced
NextID(id) == id + 1

(* registerHandler(): the CHECK refuses a handler that still has an id.    *)
Register(c, l, h) ==
  /\ pc[c] = "idle" /\ Free /\ l \in ownL /\ h \in ownH
  /\ mNextHandlerID \in Ids
  /\ \A id \in DOMAIN mHandlers : mHandlers[id].mHandler # h
  /\ \/ /\ mID[h] = 0
        /\ mHandlers' = With(mHandlers, mNextHandlerID, [mLooper |-> l, mHandler |-> h])
        /\ registeredTo' = With(registeredTo, mNextHandlerID, h)
        /\ mID' = [mID EXCEPT ![h] = mNextHandlerID]
        /\ mNextHandlerID' = NextID(mNextHandlerID)
        /\ UNCHANGED pc
     \/ /\ mID[h] # 0 /\ Abort
        /\ UNCHANGED <<mHandlers, ids>>
  /\ UNCHANGED <<mLock, sweep, calls, owners, locals, loopers, next, joining>>

EntryKept(id) == mHandlers      \* mutant of EntryRemoved
EntryRemoved(id) == Without(mHandlers, id)

(* unregisterHandler() of a registered id: the entry goes, and the handler *)
(* loses its id if it can be promoted; that reference is a local of the    *)
(* scope that holds mLock.                                                 *)
Unregister(t, id) ==
  /\ InUserCode(t) /\ Free /\ Registered(id)
  /\ mHandlers' = EntryRemoved(id)
  /\ LET h == mHandlers[id].mHandler IN
       \/ /\ HandlerAlive(h)
          /\ mID' = [mID EXCEPT ![h] = 0]
          /\ tmpH' = [tmpH EXCEPT ![h] = @ \cup {t}]
          /\ mLock' = t /\ Goto(t, "scopeH") /\ Then(t, "unlock")
       \/ ~HandlerAlive(h) /\ UNCHANGED <<mID, tmpH, mLock, pc, next>>
  /\ UNCHANGED <<sweep, mNextHandlerID, registeredTo, calls, owners, tmpL,
                 loopers, joining>>

(* unregisterStaleHandlers(), run by the constructor of the next looper:   *)
(* each entry's looper is promoted, and released before the next entry.    *)
StartSweep(t) ==
  /\ InUserCode(t) /\ Free /\ DOMAIN mHandlers # {}
  /\ sweep' = DOMAIN mHandlers /\ mLock' = t /\ Goto(t, "sweep")
  /\ UNCHANGED <<mHandlers, ids, calls, owners, locals, loopers, next, joining>>

SweepEntry(t, id) ==
  /\ sweep' = sweep \ {id}
  /\ LET l == mHandlers[id].mLooper IN
       \/ /\ LooperAlive(l)
          /\ tmpL' = [tmpL EXCEPT ![l] = @ \cup {t}]
          /\ Goto(t, "scopeL") /\ Then(t, "sweep")
          /\ UNCHANGED mHandlers
       \/ /\ ~LooperAlive(l)
          /\ mHandlers' = Without(mHandlers, id)
          /\ UNCHANGED <<tmpL, pc, next>>
  /\ UNCHANGED mLock

Sweep(t) ==
  /\ pc[t] = "sweep"
  /\ \/ /\ sweep = {} /\ Continue(t, "unlock")
        /\ UNCHANGED <<mHandlers, sweep, tmpL>>
     \/ \E id \in sweep : (\A other \in sweep : other <= id) /\ SweepEntry(t, id)
  /\ UNCHANGED <<ids, calls, owners, tmpH, loopers, joining>>
----------------------------------------------------------------------------
(* Messages *)

SameReplyID(id) == id       \* mutant of NextReplyID: the counter is not advanced
NextReplyID(id) == id + 1

(* postMessage_l() of a message for a registered id: the looper is promoted *)
(* and given the message, or found gone and the entry removed.             *)
PostMessage(t, id, replyID, k) ==
  LET l == mHandlers[id].mLooper IN
    \/ /\ LooperAlive(l)
       /\ queue' = [queue EXCEPT ![l] =
                      Append(@, [target |-> id, replyID |-> replyID, from |-> t])]
       /\ tmpL' = [tmpL EXCEPT ![l] = @ \cup {t}]
       /\ mLock' = t /\ Goto(t, "scopeL") /\ Then(t, k)
       /\ UNCHANGED mHandlers
    \/ /\ ~LooperAlive(l)
       /\ mHandlers' = Without(mHandlers, id)
       /\ UNCHANGED <<queue, tmpL, mLock, pc, next>>

Post(t, id) ==
  /\ InUserCode(t) /\ Free /\ Registered(id)
  /\ posted < MaxPosts /\ posted' = posted + 1
  /\ PostMessage(t, id, 0, "unlock")
  /\ UNCHANGED <<sweep, ids, mNextReplyID, mReplies, awaiting, accepted, owners,
                 tmpH, stopping, message, running, lost, joining>>

(* postAndAwaitResponse(), up to the wait for the reply.                   *)
Ask(c, id) ==
  /\ pc[c] = "idle" /\ Free /\ Registered(id)
  /\ posted < MaxPosts /\ posted' = posted + 1
  /\ mNextReplyID' = NextReplyID(mNextReplyID)
  /\ PostMessage(c, id, mNextReplyID, "await")
  /\ awaiting' = [awaiting EXCEPT ![c] =
                    IF LooperAlive(mHandlers[id].mLooper) THEN mNextReplyID ELSE 0]
  /\ UNCHANGED <<sweep, ids, mReplies, accepted, owners, tmpH, stopping, message,
                 running, lost, joining>>

(* A request for an id that is not registered only uses up a replyID.      *)
AskUnknown(c) ==
  /\ pc[c] = "idle" /\ Free /\ \E id \in Ids : ~Registered(id)
  /\ posted < MaxPosts /\ posted' = posted + 1
  /\ mNextReplyID' = NextReplyID(mNextReplyID)
  /\ UNCHANGED <<mHandlers, mLock, sweep, ids, mReplies, awaiting, accepted, owners, locals,
                 loopers, threads>>

(* findLooper(): the caller gets a reference, or a dead entry is removed.  *)
FindLooper(c, id) ==
  /\ pc[c] = "idle" /\ Free /\ Registered(id)
  /\ LET l == mHandlers[id].mLooper IN
       \/ /\ LooperAlive(l) /\ ownL' = ownL \cup {l}
          /\ UNCHANGED mHandlers
       \/ /\ ~LooperAlive(l) /\ mHandlers' = Without(mHandlers, id)
          /\ UNCHANGED ownL
  /\ UNCHANGED <<mLock, sweep, ids, calls, ownH, locals, loopers, threads>>

(* postAndAwaitResponse() from the moment the reply is found.               *)
TakeAll(r) == <<>>        \* mutant of TakeReply: clear() for removeItemsAt()
TakeReply(r) == Without(mReplies, r)

Answered(c) ==
  /\ pc[c] = "await" /\ Free /\ awaiting[c] \in DOMAIN mReplies
  /\ mReplies' = TakeReply(awaiting[c])
  /\ awaiting' = [awaiting EXCEPT ![c] = 0]
  /\ Goto(c, "idle")
  /\ UNCHANGED <<mHandlers, mLock, sweep, ids, mNextReplyID, accepted, posted,
                 owners, locals, loopers, next, joining>>

(* postReply(): a handler that was sent a request answers it before it     *)
(* returns.                                                                *)
PostReply(l, m) ==
  /\ pc[l] = "handle" /\ m = message[l] /\ m \in accepted /\ Free
  /\ accepted' = accepted \ {m}
  /\ IF m.replyID \in DOMAIN mReplies
       THEN Abort /\ UNCHANGED mReplies
       ELSE mReplies' = With(mReplies, m.replyID, m.from) /\ UNCHANGED pc
  /\ UNCHANGED <<mHandlers, mLock, sweep, ids, mNextReplyID, awaiting, posted, owners,
                 locals, loopers, next, joining>>

(* A looper's thread: take the next event, or leave once stop() was called. *)
LoopTakes(l) ==
  /\ pc[l] = "loop" /\ l \notin stopping /\ queue[l] # <<>>
  /\ message' = [message EXCEPT ![l] = Head(queue[l])]
  /\ queue' = [queue EXCEPT ![l] = Tail(@)]
  /\ Goto(l, "deliver")
  /\ UNCHANGED <<mHandlers, mLock, sweep, ids, calls, owners, locals, stopping,
                 running, lost, next, joining>>

LoopExits(l) ==
  /\ pc[l] = "loop" /\ l \in stopping
  /\ Goto(l, "exited")
  /\ UNCHANGED <<mHandlers, mLock, sweep, ids, calls, owners, locals, loopers,
                 next, joining>>

(* deliverMessage(): the handler is looked up and promoted under mLock and *)
(* runs without it; a message without a handler is dropped.                *)
DeliverMessage(l) ==
  /\ pc[l] = "deliver" /\ Free
  /\ LET m == message[l] IN
       \/ /\ Reachable(m.target)
          /\ running' = [running EXCEPT ![l] = mHandlers[m.target].mHandler]
          /\ accepted' = IF m.replyID = 0 THEN accepted ELSE accepted \cup {m}
          /\ Goto(l, "handle")
          /\ UNCHANGED <<mHandlers, message, lost>>
       \/ /\ ~Reachable(m.target)
          /\ mHandlers' = Without(mHandlers, m.target)
          /\ lost' = lost \cup RepliesTo(<<m>>)
          /\ Goto(l, "loop")
          /\ message' = [message EXCEPT ![l] = NULL]
          /\ UNCHANGED <<running, accepted>>
  /\ UNCHANGED <<mLock, sweep, ids, mNextReplyID, mReplies, awaiting, posted,
                 owners, locals, queue, stopping, next, joining>>
----------------------------------------------------------------------------
(* References *)

(* The last reference to a looper: ~ALooper runs stop(), which waits for   *)
(* the looper's thread unless it is that thread; the queue goes with it.   *)
DestroyLooper(t, l, k) ==
  /\ stopping' = stopping \cup {l}
  /\ IF t = l
       THEN /\ queue' = [queue EXCEPT ![l] = <<>>]
            /\ lost' = lost \cup RepliesTo(queue[l])
            /\ Continue(t, k)
            /\ UNCHANGED joining
       ELSE /\ Goto(t, "join") /\ Then(t, k)
            /\ joining' = [joining EXCEPT ![t] = l]
            /\ UNCHANGED <<queue, lost, mLock>>

Join(t) ==
  /\ pc[t] = "join" /\ pc[joining[t]] = "exited"
  /\ queue' = [queue EXCEPT ![joining[t]] = <<>>]
  /\ lost' = lost \cup RepliesTo(queue[joining[t]])
  /\ joining' = [joining EXCEPT ![t] = NULL]
  /\ Continue(t, next[t])
  /\ UNCHANGED <<mHandlers, sweep, ids, calls, owners, locals, stopping, message, running>>

(* The end of a scope that promoted a looper.                              *)
EndScopeL(t) ==
  /\ pc[t] = "scopeL"
  /\ \E l \in Loopers :
       /\ t \in tmpL[l]
       /\ tmpL' = [tmpL EXCEPT ![l] = @ \ {t}]
       /\ \/ l \notin ownL /\ tmpL'[l] = {} /\ DestroyLooper(t, l, next[t])
          \/ /\ l \in ownL \/ tmpL'[l] # {}
             /\ Continue(t, next[t])
             /\ UNCHANGED <<stopping, queue, lost, joining>>
  /\ UNCHANGED <<mHandlers, sweep, ids, calls, owners, tmpH, message, running>>

(* The last reference to a handler: the destructor of its class may        *)
(* unregister it.                                                          *)
DestroyHandler(t, k) ==
  \/ Goto(t, "dtor") /\ Then(t, k) /\ UNCHANGED mLock
  \/ Continue(t, k)

(* unregisterHandler() from the destructor needs mLock; the handler is past *)
(* promotion.                                                              *)
HandlerDtor(t) ==
  /\ pc[t] = "dtor" /\ Free
  /\ \E h \in Handlers :
       /\ ~HandlerAlive(h)
       /\ mHandlers' = Without(mHandlers, mID[h])
  /\ Continue(t, next[t])
  /\ UNCHANGED <<sweep, ids, calls, owners, locals, loopers, joining>>

(* The end of unregisterHandler()'s scope, which promoted a handler.       *)
EndScopeH(t) ==
  /\ pc[t] = "scopeH"
  /\ \E h \in Handlers :
       /\ t \in tmpH[h]
       /\ tmpH' = [tmpH EXCEPT ![h] = @ \ {t}]
       /\ UNCHANGED <<owners, loopers>>
       /\ IF HandlerAlive(h)' THEN Continue(t, next[t])
                              ELSE DestroyHandler(t, next[t])
  /\ UNCHANGED <<mHandlers, sweep, ids, calls, tmpL, joining>>

(* onMessageReceived() has returned: deliverMessage() releases the handler. *)
HandlerReturns(l) ==
  /\ pc[l] = "handle" /\ message[l] \notin accepted
  /\ running' = [running EXCEPT ![l] = NULL]
  /\ message' = [message EXCEPT ![l] = NULL]
  /\ UNCHANGED <<owners, locals>>
  /\ \E h \in {running[l]} :
       IF HandlerAlive(h)' THEN Continue(l, "loop")
                           ELSE DestroyHandler(l, "loop")
  /\ UNCHANGED <<mHandlers, sweep, ids, calls, queue, stopping, lost, joining>>

ReleaseLooper(c, l) ==
  /\ pc[c] = "idle" /\ l \in ownL
  /\ ownL' = ownL \ {l}
  /\ \/ tmpL[l] = {} /\ DestroyLooper(c, l, "return")
     \/ tmpL[l] # {} /\ UNCHANGED <<stopping, queue, lost, mLock, threads>>
  /\ UNCHANGED <<mHandlers, sweep, ids, calls, ownH, locals, message, running>>

ReleaseHandler(c, h) ==
  /\ pc[c] = "idle" /\ h \in ownH
  /\ ownH' = ownH \ {h}
  /\ UNCHANGED <<ownL, locals, loopers>>
  /\ IF HandlerAlive(h)' THEN UNCHANGED <<mLock, pc, next>> ELSE DestroyHandler(c, "return")
  /\ UNCHANGED <<mHandlers, sweep, ids, calls, joining>>
----------------------------------------------------------------------------
Call(t) ==
  \/ \E id \in Ids : Unregister(t, id) \/ Post(t, id)
  \/ StartSweep(t)

ClientCall(c) ==
  \/ \E l \in Loopers, h \in Handlers : Register(c, l, h)
  \/ \E id \in Ids : Ask(c, id) \/ FindLooper(c, id)
  \/ AskUnknown(c)
  \/ \E l \in Loopers : ReleaseLooper(c, l)
  \/ \E h \in Handlers : ReleaseHandler(c, h)

(* A call or a looper thread under way.                                    *)
Step(t) == Sweep(t) \/ Join(t) \/ EndScopeL(t) \/ HandlerDtor(t) \/ EndScopeH(t)
LoopStep(l) == LoopTakes(l) \/ LoopExits(l) \/ DeliverMessage(l) \/ HandlerReturns(l)

Next ==
  \/ \E t \in Threads : Step(t) \/ Call(t)
  \/ \E c \in Clients : ClientCall(c) \/ Answered(c)
  \/ \E l \in Loopers : LoopStep(l) \/ \E m \in accepted : PostReply(l, m)

Spec == Init /\ [][Next]_vars

----------------------------------------------------------------------------
(* Properties *)

(* Every variable stays in its domain.                                     *)
TypeOK ==
  /\ DOMAIN mHandlers \subseteq Ids
  /\ \A id \in DOMAIN mHandlers : mHandlers[id] \in [mLooper : Loopers, mHandler : Handlers]
  /\ mNextHandlerID \in 1 .. MaxIds + 1 /\ mNextReplyID \in 1 .. MaxPosts + 1
  /\ DOMAIN mReplies \subseteq 1 .. MaxPosts
  /\ mLock \in Threads \cup {NULL} /\ mID \in [Handlers -> 0 .. MaxIds]
  /\ queue \in [Loopers -> Seq(Request)] /\ stopping \subseteq Loopers
  /\ ownL \subseteq Loopers /\ ownH \subseteq Handlers
  /\ tmpL \in [Loopers -> SUBSET Threads] /\ tmpH \in [Handlers -> SUBSET Threads]
  /\ pc \in [Threads -> PCs] /\ next \in [Threads -> Continuations]
  /\ joining \in [Threads -> Loopers \cup {NULL}]
  /\ message \in [Loopers -> Request \cup {NULL}]
  /\ running \in [Loopers -> Handlers \cup {NULL}]
  /\ awaiting \in [Clients -> 0 .. MaxPosts]
  /\ sweep \subseteq Ids /\ accepted \subseteq Request /\ posted \in 0 .. MaxPosts
  /\ lost \subseteq 1 .. MaxPosts

(* A message reaches only the handler its target id was given to.          *)
NoMisdelivery ==
  \A l \in Loopers : pc[l] = "handle" =>
    registeredTo[message[l].target] = running[l]

(* Replies and waiting callers match one to one: a reply in mReplies is    *)
(* awaited by the client that asked, and by nobody else.                   *)
RepliesMatch ==
  \A r \in DOMAIN mReplies :
    /\ awaiting[mReplies[r]] = r
    /\ \A c \in Clients : awaiting[c] = r => c = mReplies[r]

(* A registered id is the id its handler carries, as long as it lives.     *)
IdsAgree ==
  \A id \in DOMAIN mHandlers :
    HandlerAlive(mHandlers[id].mHandler) => mID[mHandlers[id].mHandler] = id

(* unregisterStaleHandlers() deletes no looper ("avoids the side effect of *)
(* objects being deleted from the unregister function").                   *)
SweepDeletesNothing == \A t \in Threads : pc[t] = "join" => next[t] # "sweep"

(* While a synchronous caller waits, its request or its reply is on the    *)
(* way, unless no handler could be given the request: a caller is never    *)
(* left waiting by its own request having been answered to somebody else.  *)
Underway(r) ==
  \/ \E l \in Loopers : \/ r \in RepliesTo(queue[l])
                        \/ message[l] # NULL /\ message[l].replyID = r
  \/ r \in DOMAIN mReplies

NoReplyIsLost ==
  \A c \in Clients : pc[c] = "await" => Underway(awaiting[c]) \/ awaiting[c] \in lost

(* A message goes to the handler its id means, and the id means one        *)
(* handler for ever.                                                       *)
DeliveredRight == NoMisdelivery /\ IdsAgree

(* Each synchronous caller gets its own reply, and a reply on its way is   *)
(* not lost to it.                                                         *)
RepliesArrive == RepliesMatch /\ NoReplyIsLost
----------------------------------------------------------------------------
(* The inductive invariant behind DeliveredRight and RepliesArrive *)

(* What a released reference lets a thread go back to.                     *)
GoesBack ==
  \A t \in Threads :
    /\ next[t] = "await" => t \in Clients /\ pc[t] \in {"scopeL", "join", "dead"}
    /\ next[t] = "loop" => t \in Loopers /\ pc[t] \in {"dtor", "dead"}
    /\ pc[t] \in {"idle", "await"} => t \in Clients
    /\ pc[t] \in {"loop", "deliver", "handle", "exited"} => t \in Loopers
    /\ pc[t] = "join" => joining[t] \in Loopers

(* Ids are given once, and an entry is of the handler that got the id.     *)
IdsGivenOnce ==
  /\ \A id \in DOMAIN registeredTo : id \in Ids /\ id < mNextHandlerID
  /\ \A id \in DOMAIN mHandlers :
       id \in DOMAIN registeredTo /\ registeredTo[id] = mHandlers[id].mHandler

InHandler(l) ==
  \/ pc[l] \in {"handle", "sweep", "scopeL", "scopeH"}
  \/ pc[l] \in {"join", "dtor"} /\ next[l] # "loop"
AtLoop(l) == pc[l] = "loop" \/ (pc[l] = "dtor" /\ next[l] = "loop")

(* A looper's thread is in the handler its message is for, also when that  *)
(* handler has called the roster.                                          *)
Handling ==
  \A l \in Loopers :
    /\ InHandler(l) =>
         /\ message[l] # NULL /\ message[l].target \in DOMAIN registeredTo
         /\ running[l] = registeredTo[message[l].target]
    /\ pc[l] = "deliver" => message[l] # NULL
    /\ AtLoop(l) => message[l] = NULL

Waiting(c) == pc[c] = "await" \/ (pc[c] \in {"scopeL", "join"} /\ next[c] = "await")

(* A client waits for one reply, and nobody else for the same.             *)
Callers ==
  /\ mNextReplyID <= posted + 1
  /\ \A c \in Clients :
       /\ Waiting(c) => awaiting[c] # 0
       /\ awaiting[c] # 0 => Waiting(c) \/ pc[c] = "dead"
       /\ awaiting[c] < mNextReplyID
       /\ awaiting[c] # 0 => \A d \in Clients \ {c} : awaiting[d] # awaiting[c]

Asked(m) == m.replyID # 0 => m.from \in Clients /\ awaiting[m.from] = m.replyID
Unanswered(l) == message[l] # NULL /\ (pc[l] = "deliver" \/ message[l] \in accepted)
Same(m, n) == m.replyID # 0 /\ m.replyID = n.replyID

(* A request not yet answered is of a client that waits for its reply, and *)
(* each is in one place: in a queue, with a looper's thread, or answered.  *)
RequestsOnce ==
  \A l \in Loopers :
    /\ \A i \in 1 .. Len(queue[l]) :
         /\ Asked(queue[l][i])
         /\ queue[l][i].replyID \notin DOMAIN mReplies
         /\ \A k \in Loopers :
              /\ \A j \in 1 .. Len(queue[k]) :
                   Same(queue[l][i], queue[k][j]) => k = l /\ j = i
              /\ message[k] # NULL => ~Same(queue[l][i], message[k])
    /\ Unanswered(l) => Asked(message[l]) /\ message[l].replyID \notin DOMAIN mReplies
    /\ message[l] # NULL =>
         /\ message[l].replyID < mNextReplyID
         /\ \A k \in Loopers \ {l} : message[k] # NULL => ~Same(message[l], message[k])

(* A reply is for the client that waits for it, and a handler that has     *)
(* answered has answered the one who asked.                                *)
Replies ==
  /\ \A r \in DOMAIN mReplies : mReplies[r] \in Clients /\ awaiting[mReplies[r]] = r
  /\ \A m \in accepted : m.replyID # 0
  /\ \A l \in Loopers : InHandler(l) /\ message[l] \notin accepted =>
       \/ message[l].replyID = 0 \/ message[l].replyID \in DOMAIN mReplies
       \/ \A c \in Clients : awaiting[c] # message[l].replyID

AwaitedIsUnderway ==
  \A c \in Clients : awaiting[c] # 0 => Underway(awaiting[c]) \/ awaiting[c] \in lost

IInv ==
  /\ TypeOK /\ GoesBack /\ IdsGivenOnce /\ IdsAgree /\ Handling
  /\ Callers /\ RequestsOnce /\ Replies /\ AwaitedIsUnderway
=============================================================================
