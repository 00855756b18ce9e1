------------------------ MODULE ALooperRosterProofs ------------------------
(* Proofs about ALooperRoster, for any number of clients, loopers and      *)
(* handlers: messages reach the handler their id was given to, and replies *)
(* the caller that waits for them.                                         *)
EXTENDS ALooperRoster, TLAPS

LEMMA WithoutFacts ==
  ASSUME NEW f, NEW x
  PROVE  /\ DOMAIN Without(f, x) = DOMAIN f \ {x}
         /\ \A y \in DOMAIN f \ {x} : Without(f, x)[y] = f[y]
  BY DEF Without, Restrict
----------------------------------------------------------------------------
(* Where the threads are *)

Others(t) == \A u \in Threads \ {t} : pc'[u] = pc[u] /\ next'[u] = next[u]

(* A thread stays in the handler, or in the wait, it is in.                *)
SameStage(t) ==
  /\ pc[t] # "dead"
  /\ t \in Loopers => /\ InHandler(t)' => InHandler(t)
                      /\ pc'[t] = "deliver" => pc[t] = "deliver"
                      /\ AtLoop(t)' => AtLoop(t)
  /\ t \in Clients => (Waiting(t)' <=> Waiting(t))

Stages ==
  /\ \A l \in Loopers : /\ InHandler(l)' => InHandler(l)
                        /\ pc'[l] = "deliver" => pc[l] = "deliver"
                        /\ AtLoop(l)' => AtLoop(l)
  /\ \A c \in Clients : /\ Waiting(c)' => Waiting(c)
                        /\ Waiting(c) \/ pc[c] = "dead" => Waiting(c)' \/ pc'[c] = "dead"

LEMMA StagesFollow ==
  ASSUME NEW t \in Threads, Others(t), SameStage(t) PROVE Stages
<1>1. ASSUME NEW u \in Threads \ {t}
      PROVE  pc'[u] = pc[u] /\ (InHandler(u)' <=> InHandler(u)) /\ (AtLoop(u)' <=> AtLoop(u))
             /\ (Waiting(u)' <=> Waiting(u))
  BY <1>1 DEF Others, InHandler, AtLoop, Waiting
<1>2. Clients \subseteq Threads /\ Loopers \subseteq Threads
  BY DEF Threads
<1> QED
  BY <1>1, <1>2 DEF SameStage, Stages

(* Going on after a reference was released keeps the stage, whether the    *)
(* destructor had to wait or not.                                          *)
GoodNext(t, k) ==
  /\ k \in Continuations
  /\ k = "await" => t \in Clients
  /\ k = "loop" => t \in Loopers
  /\ t \in Loopers => (InHandler(t) <=> k # "loop") /\ (AtLoop(t) <=> k = "loop")
  /\ t \in Clients => (Waiting(t) <=> k = "await")

LEMMA Continued ==
  ASSUME TypeOK, GoesBack, NEW t \in Threads, NEW k \in Continuations, GoodNext(t, k),
         pc[t] # "dead", Continue(t, k)
  PROVE  /\ Others(t) /\ SameStage(t)
         /\ pc' \in [Threads -> PCs] /\ next' \in [Threads -> Continuations]
         /\ mLock' \in {mLock, NULL}
         /\ next'[t] = "return" /\ pc'[t] \in {"await", "sweep", "loop", "idle", "handle"}
         /\ pc'[t] \in {"idle", "await"} => t \in Clients
         /\ pc'[t] \in {"loop", "handle"} => t \in Loopers
<1>1. /\ pc \in [Threads -> PCs] /\ next \in [Threads -> Continuations]
      /\ t \in Clients \/ t \in Loopers
      /\ ~(t \in Clients /\ t \in Loopers)
  BY RosterAssumption DEF TypeOK, Threads
<1>2. /\ next' = [next EXCEPT ![t] = "return"]
      /\ pc' = [pc EXCEPT ![t] = CASE k = "await" -> "await"
                                   [] k = "sweep" -> "sweep"
                                   [] k = "loop" -> "loop"
                                   [] OTHER -> IF t \in Clients THEN "idle" ELSE "handle"]
      /\ mLock' = IF ReleasesLock(k) THEN NULL ELSE mLock
  BY DEF Continue, Then, Goto
<1>3. /\ next'[t] = "return" /\ next' \in [Threads -> Continuations]
      /\ \A u \in Threads \ {t} : pc'[u] = pc[u] /\ next'[u] = next[u]
  BY <1>1, <1>2 DEF Continuations
<1>4. /\ k = "await" => pc'[t] = "await"
      /\ k = "sweep" => pc'[t] = "sweep"
      /\ k = "loop" => pc'[t] = "loop"
      /\ k \notin {"await", "sweep", "loop"} => pc'[t] = IF t \in Clients THEN "idle" ELSE "handle"
  BY <1>1, <1>2
<1>5. pc' \in [Threads -> PCs]
  BY <1>1, <1>2 DEF PCs
<1>6. SameStage(t)
  BY <1>1, <1>3, <1>4 DEF SameStage, GoodNext, InHandler, AtLoop, Waiting
<1> QED
  BY <1>1, <1>2, <1>3, <1>4, <1>5, <1>6 DEF Others, GoodNext
----------------------------------------------------------------------------
(* Steps that leave requests and replies alone, but for a looper's queue   *)
(* that goes with its looper                                               *)

Emptied(l) ==
  /\ queue' = [queue EXCEPT ![l] = <<>>]
  /\ lost' = lost \cup RepliesTo(queue[l])
QueuesKept == UNCHANGED <<queue, lost>> \/ \E l \in Loopers : Emptied(l)

IdsGrow ==
  \A id \in DOMAIN registeredTo :
    id \in DOMAIN registeredTo' /\ registeredTo'[id] = registeredTo[id]

CallsKept ==
  /\ UNCHANGED <<message, running, accepted, awaiting, mReplies>>
  /\ mNextReplyID \in Nat /\ mNextReplyID' \in Nat
  /\ mNextReplyID <= mNextReplyID' /\ mNextReplyID' <= posted' + 1

LEMMA QueueFacts ==
  ASSUME TypeOK, QueuesKept
  PROVE  \A l \in Loopers :
           /\ queue'[l] = queue[l] \/ queue'[l] = <<>>
           /\ lost \subseteq lost'
           /\ \A r : r \in RepliesTo(queue[l]) => r \in RepliesTo(queue'[l]) \/ r \in lost'
           /\ \A i \in 1 .. Len(queue'[l]) : i \in 1 .. Len(queue[l]) /\ queue'[l] = queue[l]
<1>1. queue \in [Loopers -> Seq(Request)]
  BY DEF TypeOK
<1>2. CASE UNCHANGED <<queue, lost>>
  BY <1>2
<1>3. ASSUME NEW k \in Loopers, Emptied(k)
      PROVE \A l \in Loopers :
           /\ queue'[l] = queue[l] \/ queue'[l] = <<>>
           /\ lost \subseteq lost'
           /\ \A r : r \in RepliesTo(queue[l]) => r \in RepliesTo(queue'[l]) \/ r \in lost'
           /\ \A i \in 1 .. Len(queue'[l]) : i \in 1 .. Len(queue[l]) /\ queue'[l] = queue[l]
  <2> SUFFICES ASSUME NEW l \in Loopers
               PROVE  /\ queue'[l] = queue[l] \/ queue'[l] = <<>>
                      /\ lost \subseteq lost'
                      /\ \A r : r \in RepliesTo(queue[l]) => r \in RepliesTo(queue'[l]) \/ r \in lost'
                      /\ \A i \in 1 .. Len(queue'[l]) :
                           i \in 1 .. Len(queue[l]) /\ queue'[l] = queue[l]
    OBVIOUS
  <2>1. queue'[l] = IF l = k THEN <<>> ELSE queue[l]
    BY <1>1, <1>3 DEF Emptied
  <2>2. lost' = lost \cup RepliesTo(queue[k])
    BY <1>3 DEF Emptied
  <2>3. CASE l = k
    BY <2>1, <2>2, <2>3
  <2>4. CASE l # k
    BY <2>1, <2>2, <2>4
  <2> QED
    BY <2>3, <2>4
<1> QED
  BY <1>2, <1>3 DEF QueuesKept

LEMMA HandlingFollows ==
  ASSUME Handling, Stages, IdsGrow, UNCHANGED <<message, running>>
  PROVE  Handling'
  BY DEF Handling, Stages, IdsGrow

LEMMA CallersFollow ==
  ASSUME TypeOK, Callers, Stages, CallsKept
  PROVE  Callers'
<1>1. \A c \in Clients : awaiting[c] \in Nat
  BY DEF TypeOK
<1>2. ASSUME NEW c \in Clients
      PROVE  /\ Waiting(c)' => awaiting'[c] # 0
             /\ awaiting'[c] # 0 => Waiting(c)' \/ pc'[c] = "dead"
             /\ awaiting'[c] < mNextReplyID'
             /\ awaiting'[c] # 0 => \A d \in Clients \ {c} : awaiting'[d] # awaiting'[c]
  BY <1>1 DEF Callers, Stages, CallsKept
<1>3. mNextReplyID' <= posted' + 1
  BY DEF CallsKept
<1> QED
  BY <1>2, <1>3 DEF Callers

LEMMA RequestsFollow ==
  ASSUME TypeOK, RequestsOnce, Stages, CallsKept, QueuesKept
  PROVE  RequestsOnce'
<1>1. \A l \in Loopers : \A i \in 1 .. Len(queue'[l]) : i \in 1 .. Len(queue[l]) /\ queue'[l] = queue[l]
  BY QueueFacts
<1>2. \A l \in Loopers : Unanswered(l)' => Unanswered(l)
  BY DEF Unanswered, Stages, CallsKept
<1>3. UNCHANGED <<message, awaiting, mReplies>>
  BY DEF CallsKept
<1>4. \A l \in Loopers : message[l] # NULL => message[l].replyID \in Nat
  BY DEF TypeOK, Request
<1> SUFFICES ASSUME NEW l \in Loopers
             PROVE  /\ \A i \in 1 .. Len(queue'[l]) :
                         /\ Asked(queue[l][i])'
                         /\ queue'[l][i].replyID \notin DOMAIN mReplies'
                         /\ \A k \in Loopers :
                              /\ \A j \in 1 .. Len(queue'[k]) :
                                   Same(queue'[l][i], queue'[k][j]) => k = l /\ j = i
                              /\ message'[k] # NULL => ~Same(queue'[l][i], message'[k])
                    /\ Unanswered(l)' =>
                         Asked(message[l])' /\ message'[l].replyID \notin DOMAIN mReplies'
                    /\ message'[l] # NULL =>
                         /\ message'[l].replyID < mNextReplyID'
                         /\ \A k \in Loopers \ {l} :
                              message'[k] # NULL => ~Same(message'[l], message'[k])
  BY DEF RequestsOnce, Same
<1>5. ASSUME NEW i \in 1 .. Len(queue'[l])
      PROVE  /\ Asked(queue[l][i])'
             /\ queue'[l][i].replyID \notin DOMAIN mReplies'
             /\ \A k \in Loopers :
                  /\ \A j \in 1 .. Len(queue'[k]) :
                       Same(queue'[l][i], queue'[k][j]) => k = l /\ j = i
                  /\ message'[k] # NULL => ~Same(queue'[l][i], message'[k])
  <2>1. i \in 1 .. Len(queue[l]) /\ queue'[l] = queue[l]
    BY <1>1, <1>5
  <2>2. Asked(queue[l][i]) /\ queue[l][i].replyID \notin DOMAIN mReplies
    BY <2>1 DEF RequestsOnce
  <2>3. ASSUME NEW k \in Loopers
        PROVE  /\ \A j \in 1 .. Len(queue'[k]) :
                    Same(queue'[l][i], queue'[k][j]) => k = l /\ j = i
               /\ message'[k] # NULL => ~Same(queue'[l][i], message'[k])
    <3>1. /\ \A j \in 1 .. Len(queue[k]) : Same(queue[l][i], queue[k][j]) => k = l /\ j = i
          /\ message[k] # NULL => ~Same(queue[l][i], message[k])
      BY <2>1 DEF RequestsOnce
    <3>2. \A j \in 1 .. Len(queue'[k]) : j \in 1 .. Len(queue[k]) /\ queue'[k] = queue[k]
      BY <1>1
    <3> QED
      BY <1>3, <2>1, <3>1, <3>2
  <2>4. Asked(queue[l][i])'
    BY <1>3, <2>1, <2>2 DEF Asked
  <2> QED
    BY <1>3, <2>1, <2>2, <2>3, <2>4
<1>6. Unanswered(l)' => Asked(message[l])' /\ message'[l].replyID \notin DOMAIN mReplies'
  BY <1>2, <1>3 DEF RequestsOnce, Asked
<1>7. message'[l] # NULL =>
        /\ message'[l].replyID < mNextReplyID'
        /\ \A k \in Loopers \ {l} : message'[k] # NULL => ~Same(message'[l], message'[k])
  BY <1>3, <1>4 DEF RequestsOnce, CallsKept
<1> QED
  BY <1>5, <1>6, <1>7

LEMMA RepliesFollow ==
  ASSUME Replies, Stages, CallsKept PROVE Replies'
  BY DEF Replies, Stages, CallsKept

LEMMA AwaitedFollows ==
  ASSUME TypeOK, AwaitedIsUnderway, CallsKept, QueuesKept PROVE AwaitedIsUnderway'
<1> SUFFICES ASSUME NEW c \in Clients, awaiting'[c] # 0
             PROVE  Underway(awaiting[c])' \/ awaiting'[c] \in lost'
  BY DEF AwaitedIsUnderway
<1>1. UNCHANGED <<awaiting, message, mReplies>>
  BY DEF CallsKept
<1>2. Underway(awaiting[c]) \/ awaiting[c] \in lost
  BY <1>1 DEF AwaitedIsUnderway
<1>3. CASE awaiting[c] \in lost
  <2>1. ASSUME Loopers # {} PROVE lost \subseteq lost'
    BY <2>1, QueueFacts
  <2>2. lost \subseteq lost'
    BY <2>1 DEF QueuesKept
  <2> QED
    BY <1>1, <1>3, <2>2
<1>4. CASE awaiting[c] \in DOMAIN mReplies
  BY <1>1, <1>4 DEF Underway
<1>5. ASSUME NEW l \in Loopers, awaiting[c] \in RepliesTo(queue[l])
      PROVE  Underway(awaiting[c])' \/ awaiting'[c] \in lost'
  <2>1. awaiting[c] \in RepliesTo(queue'[l]) \/ awaiting[c] \in lost'
    BY <1>5, QueueFacts
  <2>2. RepliesTo(queue[l])' = RepliesTo(queue'[l])
    BY DEF RepliesTo
  <2> QED
    BY <1>1, <2>1, <2>2 DEF Underway
<1>6. ASSUME NEW l \in Loopers, message[l] # NULL, message[l].replyID = awaiting[c]
      PROVE  Underway(awaiting[c])' \/ awaiting'[c] \in lost'
  BY <1>1, <1>6 DEF Underway
<1> QED
  BY <1>2, <1>3, <1>4, <1>5, <1>6 DEF Underway

LEMMA CallsFollow ==
  ASSUME IInv, Stages, IdsGrow, CallsKept, QueuesKept
  PROVE  Handling' /\ Callers' /\ RequestsOnce' /\ Replies' /\ AwaitedIsUnderway'
<1>1. UNCHANGED <<message, running>>
  BY DEF CallsKept
<1> QED
  BY <1>1, HandlingFollows, CallersFollow, RequestsFollow, RepliesFollow, AwaitedFollows DEF IInv
----------------------------------------------------------------------------
(* Steps that leave the ids alone, but may remove entries                  *)

EntriesGo ==
  \A id \in DOMAIN mHandlers' : id \in DOMAIN mHandlers /\ mHandlers'[id] = mHandlers[id]
NobodyRises == \A h \in Handlers : HandlerAlive(h)' => HandlerAlive(h)

LEMMA IdsFollow ==
  ASSUME TypeOK, IdsGivenOnce, IdsAgree, EntriesGo, NobodyRises,
         UNCHANGED <<mID, mNextHandlerID, registeredTo>>
  PROVE  IdsGivenOnce' /\ IdsAgree'
<1>1. \A id \in DOMAIN mHandlers : mHandlers[id].mHandler \in Handlers
  BY DEF TypeOK
<1>2. IdsGivenOnce'
  BY DEF IdsGivenOnce, EntriesGo
<1>3. IdsAgree'
  <2> SUFFICES ASSUME NEW id \in DOMAIN mHandlers', HandlerAlive(mHandlers[id].mHandler)'
               PROVE  mID'[mHandlers'[id].mHandler] = id
    BY DEF IdsAgree
  <2>1. id \in DOMAIN mHandlers /\ mHandlers'[id] = mHandlers[id]
    BY DEF EntriesGo
  <2>2. HandlerAlive(mHandlers[id].mHandler)
    <3> DEFINE h == mHandlers[id].mHandler
    <3>1. HandlerAlive(h)'
      OBVIOUS
    <3> QED
      BY <1>1, <2>1 DEF NobodyRises, HandlerAlive
  <2> QED
    BY <2>1, <2>2 DEF IdsAgree
<1> QED
  BY <1>2, <1>3

LEMMA Removed == ASSUME NEW x, mHandlers' = Without(mHandlers, x) PROVE EntriesGo
<1>1. /\ DOMAIN Without(mHandlers, x) = DOMAIN mHandlers \ {x}
      /\ \A y \in DOMAIN mHandlers \ {x} : Without(mHandlers, x)[y] = mHandlers[y]
  BY WithoutFacts
<1> QED
  BY <1>1 DEF EntriesGo

LEMMA EntriesTyped ==
  ASSUME TypeOK, EntriesGo
  PROVE  /\ DOMAIN mHandlers' \subseteq Ids
         /\ \A id \in DOMAIN mHandlers' : mHandlers'[id] \in [mLooper : Loopers, mHandler : Handlers]
  BY DEF EntriesGo, TypeOK
----------------------------------------------------------------------------
(* How a thread moves *)

BackOf(t) ==
  /\ next[t] = "await" => t \in Clients /\ pc[t] \in {"scopeL", "join", "dead"}
  /\ next[t] = "loop" => t \in Loopers /\ pc[t] \in {"dtor", "dead"}
  /\ pc[t] \in {"idle", "await"} => t \in Clients
  /\ pc[t] \in {"loop", "deliver", "handle", "exited"} => t \in Loopers
  /\ pc[t] = "join" => joining[t] \in Loopers

OthersJoin(t) == \A u \in Threads \ {t} : joining'[u] = joining[u]

LEMMA GoesBackFollows ==
  ASSUME GoesBack, NEW t \in Threads, Others(t), OthersJoin(t), BackOf(t)'
  PROVE  GoesBack'
  BY DEF GoesBack, BackOf, Others, OthersJoin

LEMMA GoesBackStays ==
  ASSUME GoesBack, UNCHANGED <<pc, next, joining>> PROVE GoesBack'
  BY DEF GoesBack

LEMMA StagesStay == ASSUME UNCHANGED <<pc, next>> PROVE Stages
  BY DEF Stages, InHandler, AtLoop, Waiting

LEMMA Went ==
  ASSUME TypeOK, NEW t \in Threads, NEW p \in PCs, Goto(t, p)
  PROVE  /\ pc' \in [Threads -> PCs] /\ pc'[t] = p
         /\ \A u \in Threads \ {t} : pc'[u] = pc[u]
  BY DEF TypeOK, Goto

LEMMA WentWith ==
  ASSUME TypeOK, NEW t \in Threads, NEW k \in Continuations, Then(t, k)
  PROVE  /\ next' \in [Threads -> Continuations] /\ next'[t] = k
         /\ \A u \in Threads \ {t} : next'[u] = next[u]
  BY DEF TypeOK, Then

(* The release of a looper or a handler, whether it is the last one or not. *)
Released(t) ==
  /\ Others(t) /\ OthersJoin(t) /\ SameStage(t) /\ BackOf(t)'
  /\ pc' \in [Threads -> PCs] /\ next' \in [Threads -> Continuations]
  /\ joining' \in [Threads -> Loopers \cup {NULL}]
  /\ mLock' \in {mLock, NULL}

LEMMA LooperDestroyed ==
  ASSUME TypeOK, GoesBack, NEW t \in Threads, NEW k \in Continuations, GoodNext(t, k),
         k # "loop", pc[t] # "dead", NEW l \in Loopers, DestroyLooper(t, l, k)
  PROVE  /\ Released(t) /\ QueuesKept
         /\ stopping' = stopping \cup {l}
<1>1. CASE t = l
  <2>1. Continue(t, k) /\ joining' = joining /\ Emptied(l)
    BY <1>1 DEF DestroyLooper, Emptied
  <2>2. Others(t) /\ SameStage(t) /\ BackOf(t)'
    BY <2>1, Continued DEF BackOf
  <2> QED
    BY <2>1, <2>2, Continued DEF Released, OthersJoin, QueuesKept, DestroyLooper, TypeOK
<1>2. CASE t # l
  <2>1. /\ Goto(t, "join") /\ Then(t, k) /\ joining' = [joining EXCEPT ![t] = l]
        /\ UNCHANGED <<queue, lost, mLock>>
    BY <1>2 DEF DestroyLooper
  <2>2. /\ pc' \in [Threads -> PCs] /\ next' \in [Threads -> Continuations]
        /\ pc'[t] = "join" /\ next'[t] = k /\ Others(t)
    BY <2>1, Went, WentWith DEF Others, PCs
  <2>3. /\ joining' \in [Threads -> Loopers \cup {NULL}] /\ joining'[t] = l
        /\ OthersJoin(t)
    BY <2>1 DEF TypeOK, OthersJoin
  <2>4. SameStage(t) /\ BackOf(t)'
    BY <2>2, <2>3, RosterAssumption
      DEF SameStage, BackOf, GoodNext, InHandler, AtLoop, Waiting, Threads
  <2> QED
    BY <2>1, <2>2, <2>3, <2>4 DEF Released, QueuesKept, DestroyLooper
<1> QED
  BY <1>1, <1>2

LEMMA HandlerDestroyed ==
  ASSUME TypeOK, GoesBack, NEW t \in Threads, NEW k \in Continuations, GoodNext(t, k),
         k # "await", pc[t] # "dead", DestroyHandler(t, k), UNCHANGED joining
  PROVE  Released(t)
<1>1. CASE Goto(t, "dtor") /\ Then(t, k) /\ UNCHANGED mLock
  <2>1. /\ pc' \in [Threads -> PCs] /\ next' \in [Threads -> Continuations]
        /\ pc'[t] = "dtor" /\ next'[t] = k /\ Others(t)
    BY <1>1, Went, WentWith DEF Others, PCs
  <2>2. SameStage(t) /\ BackOf(t)'
    BY <2>1, RosterAssumption
      DEF SameStage, BackOf, GoodNext, InHandler, AtLoop, Waiting, Threads
  <2> QED
    BY <1>1, <2>1, <2>2 DEF Released, OthersJoin, TypeOK
<1>2. CASE Continue(t, k)
  <2>1. Others(t) /\ SameStage(t) /\ BackOf(t)'
    BY <1>2, Continued DEF BackOf
  <2> QED
    BY <1>2, <2>1, Continued DEF Released, OthersJoin, TypeOK
<1> QED
  BY <1>1, <1>2 DEF DestroyHandler

LEMMA GoneOn ==
  ASSUME TypeOK, GoesBack, NEW t \in Threads, NEW k \in Continuations, GoodNext(t, k),
         pc[t] # "dead", Continue(t, k), OthersJoin(t),
         joining' \in [Threads -> Loopers \cup {NULL}]
  PROVE  Released(t)
<1>1. Others(t) /\ SameStage(t) /\ BackOf(t)'
  BY Continued DEF BackOf
<1> QED
  BY <1>1, Continued DEF Released

(* A thread at the end of a scope, or of a destructor, goes on as it said. *)
LEMMA NextIsGood ==
  ASSUME TypeOK, GoesBack, NEW t \in Threads, pc[t] \in {"scopeL", "scopeH", "join", "dtor"}
  PROVE  /\ next[t] \in Continuations /\ GoodNext(t, next[t])
         /\ pc[t] \in {"scopeL", "scopeH", "join"} => next[t] # "loop"
         /\ pc[t] \in {"scopeH", "dtor"} => next[t] # "await"
<1>1. next[t] \in Continuations
  BY DEF TypeOK
<1>2. /\ next[t] = "await" => t \in Clients /\ pc[t] \in {"scopeL", "join"}
      /\ next[t] = "loop" => t \in Loopers /\ pc[t] = "dtor"
  BY DEF GoesBack
<1> QED
  BY <1>1, <1>2 DEF GoodNext, InHandler, AtLoop, Waiting
----------------------------------------------------------------------------
(* The quiet steps: ids and calls are left alone                           *)

PlacesTyped ==
  /\ mLock \in Threads \cup {NULL} /\ stopping \subseteq Loopers
  /\ ownL \subseteq Loopers /\ ownH \subseteq Handlers
  /\ tmpL \in [Loopers -> SUBSET Threads] /\ tmpH \in [Handlers -> SUBSET Threads]
  /\ pc \in [Threads -> PCs] /\ next \in [Threads -> Continuations]
  /\ joining \in [Threads -> Loopers \cup {NULL}] /\ sweep \subseteq Ids

LEMMA QueuesTyped ==
  ASSUME TypeOK, QueuesKept
  PROVE  queue' \in [Loopers -> Seq(Request)] /\ lost' \subseteq 1 .. MaxPosts
<1>1. queue \in [Loopers -> Seq(Request)] /\ lost \subseteq 1 .. MaxPosts
  BY DEF TypeOK
<1>2. ASSUME NEW l \in Loopers, Emptied(l)
      PROVE  queue' \in [Loopers -> Seq(Request)] /\ lost' \subseteq 1 .. MaxPosts
  <2>1. <<>> \in Seq(Request)
    OBVIOUS
  <2>2. RepliesTo(queue[l]) \subseteq 1 .. MaxPosts
    <3>1. queue[l] \in Seq(Request)
      BY <1>1
    <3>2. \A i \in 1 .. Len(queue[l]) : queue[l][i] \in Request
      BY <3>1
    <3>3. \A m \in Request : m.replyID \in 0 .. MaxPosts
      BY DEF Request
    <3> QED
      BY <3>2, <3>3, RosterAssumption DEF RepliesTo
  <2> QED
    BY <1>1, <1>2, <2>1, <2>2 DEF Emptied
<1> QED
  BY <1>1, <1>2 DEF QueuesKept

LEMMA QuietStep ==
  ASSUME IInv, PlacesTyped', GoesBack', Stages, CallsKept, QueuesKept, EntriesGo, NobodyRises,
         mNextReplyID' \in 1 .. MaxPosts + 1, posted' \in 0 .. MaxPosts,
         UNCHANGED <<mID, mNextHandlerID, registeredTo>>
  PROVE  IInv'
<1>1. TypeOK'
  <2>1. /\ UNCHANGED <<message, running, accepted, awaiting, mReplies, mID, mNextHandlerID>>
        /\ queue' \in [Loopers -> Seq(Request)] /\ lost' \subseteq 1 .. MaxPosts
        /\ DOMAIN mHandlers' \subseteq Ids
        /\ \A id \in DOMAIN mHandlers' :
             mHandlers'[id] \in [mLooper : Loopers, mHandler : Handlers]
    BY QueuesTyped, EntriesTyped DEF IInv, CallsKept
  <2> QED
    BY <2>1 DEF IInv, TypeOK, PlacesTyped
<1>2. IdsGivenOnce' /\ IdsAgree'
  BY IdsFollow DEF IInv
<1>3. Handling' /\ Callers' /\ RequestsOnce' /\ Replies' /\ AwaitedIsUnderway'
  <2>1. IdsGrow
    BY DEF IdsGrow
  <2> QED
    BY <2>1, CallsFollow
<1> QED
  BY <1>1, <1>2, <1>3 DEF IInv

(* What holds of calls and entries that a step does not touch.             *)
LEMMA CallsStay ==
  ASSUME IInv, UNCHANGED calls, UNCHANGED <<message, running>>
  PROVE  CallsKept /\ mNextReplyID' \in 1 .. MaxPosts + 1 /\ posted' \in 0 .. MaxPosts
  BY DEF IInv, TypeOK, Callers, CallsKept, calls

LEMMA NobodyRose ==
  ASSUME TypeOK, ownH' \subseteq ownH, UNCHANGED <<tmpH, running>> PROVE NobodyRises
  BY DEF NobodyRises, HandlerAlive

LEMMA UnregisterStep ==
  ASSUME IInv, NEW t \in Threads, NEW id \in Ids, Unregister(t, id) PROVE IInv'
<1>1. CASE ~HandlerAlive(mHandlers[id].mHandler)
  <2>1. /\ mHandlers' = Without(mHandlers, id)
        /\ UNCHANGED <<mID, tmpH, mLock, pc, next, sweep, mNextHandlerID, registeredTo, tmpL, joining>>
        /\ UNCHANGED calls /\ UNCHANGED owners /\ UNCHANGED loopers
    BY <1>1 DEF Unregister, EntryRemoved
  <2>2. UNCHANGED <<queue, stopping, message, running, lost, ownL, ownH>>
    BY <2>1 DEF loopers, owners
  <2>3. PlacesTyped'
    BY <2>1, <2>2 DEF IInv, TypeOK, PlacesTyped
  <2>4. GoesBack' /\ Stages /\ QueuesKept /\ EntriesGo /\ NobodyRises
    BY <2>1, <2>2, GoesBackStays, StagesStay, Removed, NobodyRose DEF IInv, QueuesKept
  <2> QED
    BY <2>1, <2>2, <2>3, <2>4, CallsStay, QuietStep
<1>2. CASE HandlerAlive(mHandlers[id].mHandler)
  <2> DEFINE h == mHandlers[id].mHandler
  <2>1. /\ mHandlers' = Without(mHandlers, id) /\ id \in DOMAIN mHandlers
        /\ pc[t] \in {"idle", "handle"} /\ Goto(t, "scopeH") /\ Then(t, "unlock")
        /\ mLock' = t
        /\ UNCHANGED <<sweep, mNextHandlerID, registeredTo, tmpL, joining>>
        /\ UNCHANGED calls /\ UNCHANGED owners /\ UNCHANGED loopers
    BY <1>2 DEF Unregister, EntryRemoved, InUserCode, Registered
  <2>2. UNCHANGED <<queue, stopping, message, running, lost, ownL, ownH>>
    BY <2>1 DEF loopers, owners
  <2>3. h \in Handlers /\ HandlerAlive(h)
    BY <1>2, <2>1 DEF IInv, TypeOK
  <2>4. mID' = [mID EXCEPT ![h] = 0] /\ tmpH' = [tmpH EXCEPT ![h] = @ \cup {t}]
    BY <1>2 DEF Unregister
  <2> HIDE DEF h
  <2>5. /\ pc' \in [Threads -> PCs] /\ next' \in [Threads -> Continuations]
        /\ pc'[t] = "scopeH" /\ next'[t] = "unlock" /\ Others(t)
    BY <2>1, Went, WentWith DEF Others, PCs, Continuations, IInv
  <2>6. /\ mID' \in [Handlers -> 0 .. MaxIds] /\ tmpH' \in [Handlers -> SUBSET Threads]
        /\ mID'[h] = 0 /\ \A g \in Handlers \ {h} : mID'[g] = mID[g] /\ tmpH'[g] = tmpH[g]
    BY <2>3, <2>4, RosterAssumption DEF IInv, TypeOK
  <2>7. PlacesTyped'
    BY <2>1, <2>2, <2>5, <2>6 DEF IInv, TypeOK, PlacesTyped
  <2>8. SameStage(t) /\ BackOf(t)' /\ OthersJoin(t)
    BY <2>1, <2>5, RosterAssumption
      DEF SameStage, BackOf, OthersJoin, InHandler, AtLoop, Waiting, Threads, IInv, GoesBack
  <2>9. GoesBack' /\ Stages
    BY <2>5, <2>8, StagesFollow, GoesBackFollows DEF IInv
  <2>10. NobodyRises
    BY <2>2, <2>3, <2>6 DEF NobodyRises, HandlerAlive
  <2>11. EntriesGo /\ DOMAIN mHandlers' = DOMAIN mHandlers \ {id}
    BY <2>1, Removed, WithoutFacts
  <2>12. /\ UNCHANGED <<message, running, accepted, awaiting, mReplies>> /\ CallsKept
         /\ mNextReplyID' \in 1 .. MaxPosts + 1 /\ posted' \in 0 .. MaxPosts
    BY <2>1, <2>2, CallsStay DEF CallsKept
  <2>13. IdsGivenOnce'
    BY <2>1, <2>11 DEF IInv, IdsGivenOnce, EntriesGo
  <2>14. IdsAgree'
    <3> SUFFICES ASSUME NEW x \in DOMAIN mHandlers', HandlerAlive(mHandlers[x].mHandler)'
                 PROVE  mID'[mHandlers'[x].mHandler] = x
      BY DEF IdsAgree
    <3>1. x \in DOMAIN mHandlers /\ x # id /\ mHandlers'[x] = mHandlers[x]
      BY <2>11 DEF EntriesGo
    <3>2. mHandlers[x].mHandler \in Handlers
      BY <3>1 DEF IInv, TypeOK
    <3>3. HandlerAlive(mHandlers[x].mHandler)
      BY <2>10, <3>1, <3>2 DEF NobodyRises, HandlerAlive
    <3>4. mID[mHandlers[x].mHandler] = x
      BY <3>1, <3>3 DEF IInv, IdsAgree
    <3>5. mID[h] = id
      BY <2>1, <2>3 DEF IInv, IdsAgree, h
    <3> QED
      BY <2>6, <3>1, <3>2, <3>4, <3>5
  <2>15. TypeOK'
    <3>1. /\ DOMAIN mHandlers' \subseteq Ids
          /\ \A x \in DOMAIN mHandlers' :
               mHandlers'[x] \in [mLooper : Loopers, mHandler : Handlers]
      BY <2>11, EntriesTyped DEF IInv
    <3> QED
      BY <2>1, <2>2, <2>6, <2>7, <2>12, <3>1 DEF IInv, TypeOK, PlacesTyped
  <2>16. Handling' /\ Callers' /\ RequestsOnce' /\ Replies' /\ AwaitedIsUnderway'
    <3>1. IdsGrow /\ QueuesKept
      BY <2>1, <2>2 DEF IdsGrow, QueuesKept
    <3> QED
      BY <2>9, <2>12, <3>1, CallsFollow
  <2> QED
    BY <2>9, <2>13, <2>14, <2>15, <2>16 DEF IInv
<1> QED
  BY <1>1, <1>2

LEMMA StartSweepStep ==
  ASSUME IInv, NEW t \in Threads, StartSweep(t) PROVE IInv'
<1>1. /\ pc[t] \in {"idle", "handle"} /\ Goto(t, "sweep") /\ mLock' = t /\ sweep' = DOMAIN mHandlers
      /\ UNCHANGED <<mHandlers, mNextHandlerID, mID, registeredTo, next, joining, tmpL, tmpH>>
      /\ UNCHANGED calls /\ UNCHANGED <<queue, stopping, message, running, lost, ownL, ownH>>
  BY DEF StartSweep, InUserCode, ids, owners, locals, loopers
<1>2. pc' \in [Threads -> PCs] /\ pc'[t] = "sweep" /\ Others(t)
  BY <1>1, Went DEF Others, PCs, IInv
<1>3. PlacesTyped'
  BY <1>1, <1>2 DEF IInv, TypeOK, PlacesTyped
<1>4. SameStage(t) /\ BackOf(t)' /\ OthersJoin(t)
  BY <1>1, <1>2, RosterAssumption
    DEF SameStage, BackOf, OthersJoin, InHandler, AtLoop, Waiting, Threads, IInv, GoesBack
<1>5. GoesBack' /\ Stages
  BY <1>2, <1>4, StagesFollow, GoesBackFollows DEF IInv
<1>6. NobodyRises /\ EntriesGo /\ QueuesKept
  BY <1>1, NobodyRose DEF EntriesGo, QueuesKept, IInv
<1> QED
  BY <1>1, <1>3, <1>5, <1>6, CallsStay, QuietStep

LEMMA SweepStep ==
  ASSUME IInv, NEW t \in Threads, Sweep(t) PROVE IInv'
<1>1. /\ pc[t] = "sweep"
      /\ UNCHANGED <<mNextHandlerID, mID, registeredTo, joining, tmpH>>
      /\ UNCHANGED calls /\ UNCHANGED <<queue, stopping, message, running, lost, ownL, ownH>>
  BY DEF Sweep, ids, owners, loopers
<1>2. NobodyRises /\ QueuesKept
  BY <1>1, NobodyRose DEF QueuesKept, IInv
<1>3. CASE sweep = {} /\ Continue(t, "unlock") /\ UNCHANGED <<mHandlers, sweep, tmpL>>
  <2>1. "unlock" \in Continuations /\ GoodNext(t, "unlock")
    BY <1>1 DEF GoodNext, Continuations, InHandler, AtLoop, Waiting, IInv, GoesBack
  <2>2. Released(t)
    BY <1>1, <1>3, <2>1, GoneOn DEF IInv, OthersJoin, TypeOK
  <2>3. PlacesTyped'
    BY <1>1, <1>3, <2>2 DEF IInv, TypeOK, PlacesTyped, Released
  <2>4. GoesBack' /\ Stages /\ EntriesGo
    BY <1>3, <2>2, StagesFollow, GoesBackFollows DEF IInv, Released, EntriesGo
  <2> QED
    BY <1>1, <1>2, <2>3, <2>4, CallsStay, QuietStep
<1>4. ASSUME NEW id \in sweep, SweepEntry(t, id) PROVE IInv'
  <2> DEFINE l == mHandlers[id].mLooper
  <2>1. CASE LooperAlive(l)
    <3>1. /\ tmpL' = [tmpL EXCEPT ![l] = @ \cup {t}]
          /\ Goto(t, "scopeL") /\ Then(t, "sweep") /\ UNCHANGED mHandlers
          /\ sweep' \subseteq sweep /\ UNCHANGED mLock
      BY <1>4, <2>1 DEF SweepEntry
    <3>2. tmpL' \in [Loopers -> SUBSET Threads]
      BY <3>1 DEF IInv, TypeOK
    <3>3. /\ pc' \in [Threads -> PCs] /\ next' \in [Threads -> Continuations]
          /\ pc'[t] = "scopeL" /\ next'[t] = "sweep" /\ Others(t)
      BY <3>1, Went, WentWith DEF Others, PCs, Continuations, IInv
    <3>4. PlacesTyped'
      BY <1>1, <3>1, <3>2, <3>3 DEF IInv, TypeOK, PlacesTyped
    <3>5. SameStage(t) /\ BackOf(t)' /\ OthersJoin(t)
      BY <1>1, <3>3, RosterAssumption
        DEF SameStage, BackOf, OthersJoin, InHandler, AtLoop, Waiting, Threads, IInv, GoesBack
    <3>6. GoesBack' /\ Stages /\ EntriesGo
      BY <3>1, <3>3, <3>5, StagesFollow, GoesBackFollows DEF IInv, EntriesGo
    <3> QED
      BY <1>1, <1>2, <3>4, <3>6, CallsStay, QuietStep
  <2>2. CASE ~LooperAlive(l)
    <3>1. /\ mHandlers' = Without(mHandlers, id) /\ UNCHANGED <<tmpL, pc, next, mLock>>
          /\ sweep' \subseteq sweep
      BY <1>4, <2>2 DEF SweepEntry
    <3>2. PlacesTyped'
      BY <1>1, <3>1 DEF IInv, TypeOK, PlacesTyped
    <3>3. GoesBack' /\ Stages /\ EntriesGo
      BY <1>1, <3>1, GoesBackStays, StagesStay, Removed DEF IInv
    <3> QED
      BY <1>1, <1>2, <3>2, <3>3, CallsStay, QuietStep
  <2> QED
    BY <2>1, <2>2
<1> QED
  BY <1>3, <1>4 DEF Sweep

LEMMA AskUnknownStep ==
  ASSUME IInv, NEW c \in Clients, AskUnknown(c) PROVE IInv'
<1>1. /\ posted < MaxPosts /\ posted' = posted + 1 /\ mNextReplyID' = mNextReplyID + 1
      /\ UNCHANGED <<mHandlers, mLock, sweep, mReplies, awaiting, accepted>>
      /\ UNCHANGED <<mNextHandlerID, mID, registeredTo, ownL, ownH, tmpL, tmpH, pc, next, joining>>
      /\ UNCHANGED <<queue, stopping, message, running, lost>>
  BY DEF AskUnknown, NextReplyID, ids, owners, locals, loopers, threads
<1>2. PlacesTyped'
  BY <1>1 DEF IInv, TypeOK, PlacesTyped
<1>3. GoesBack' /\ Stages /\ EntriesGo /\ NobodyRises /\ QueuesKept
  BY <1>1, GoesBackStays, StagesStay, NobodyRose DEF IInv, EntriesGo, QueuesKept
<1>4. CallsKept /\ mNextReplyID' \in 1 .. MaxPosts + 1 /\ posted' \in 0 .. MaxPosts
  <2>1. /\ mNextReplyID \in 1 .. MaxPosts + 1 /\ posted \in 0 .. MaxPosts
        /\ mNextReplyID <= posted + 1 /\ MaxPosts \in Nat
    BY RosterAssumption DEF IInv, TypeOK, Callers
  <2> QED
    BY <1>1, <2>1 DEF CallsKept
<1> QED
  BY <1>1, <1>2, <1>3, <1>4, QuietStep

LEMMA FindLooperStep ==
  ASSUME IInv, NEW c \in Clients, NEW id \in Ids, FindLooper(c, id) PROVE IInv'
<1>1. /\ id \in DOMAIN mHandlers /\ ownL' \subseteq ownL \cup {mHandlers[id].mLooper}
      /\ mHandlers' = mHandlers \/ mHandlers' = Without(mHandlers, id)
      /\ UNCHANGED <<mLock, sweep, mNextHandlerID, mID, registeredTo, ownH, tmpL, tmpH>>
      /\ UNCHANGED calls
      /\ UNCHANGED <<queue, stopping, message, running, lost, pc, next, joining>>
  BY DEF FindLooper, Registered, ids, locals, loopers, threads
<1>2. mHandlers[id].mLooper \in Loopers
  BY <1>1 DEF IInv, TypeOK
<1>3. PlacesTyped'
  BY <1>1, <1>2 DEF IInv, TypeOK, PlacesTyped
<1>4. EntriesGo
  <2>1. CASE mHandlers' = mHandlers
    BY <2>1 DEF EntriesGo
  <2> QED
    BY <1>1, <2>1, Removed
<1>5. GoesBack' /\ Stages /\ NobodyRises /\ QueuesKept
  BY <1>1, GoesBackStays, StagesStay, NobodyRose DEF IInv, QueuesKept
<1> QED
  BY <1>1, <1>3, <1>4, <1>5, CallsStay, QuietStep

LEMMA JoinStep ==
  ASSUME IInv, NEW t \in Threads, Join(t) PROVE IInv'
<1>1. /\ pc[t] = "join"
      /\ queue' = [queue EXCEPT ![joining[t]] = <<>>]
      /\ lost' = lost \cup RepliesTo(queue[joining[t]])
      /\ joining' = [joining EXCEPT ![t] = NULL] /\ Continue(t, next[t])
      /\ UNCHANGED <<mHandlers, sweep, mNextHandlerID, mID, registeredTo, ownL, ownH, tmpL, tmpH>>
      /\ UNCHANGED calls /\ UNCHANGED <<stopping, message, running>>
  BY DEF Join, ids, owners, locals
<1>2. joining[t] \in Loopers
  BY <1>1 DEF IInv, GoesBack
<1>3. next[t] \in Continuations /\ GoodNext(t, next[t])
  BY <1>1, NextIsGood DEF IInv
<1>4. joining' \in [Threads -> Loopers \cup {NULL}] /\ OthersJoin(t)
  BY <1>1 DEF IInv, TypeOK, OthersJoin
<1>5. Released(t)
  BY <1>1, <1>3, <1>4, GoneOn DEF IInv
<1>6. PlacesTyped'
  BY <1>1, <1>5 DEF IInv, TypeOK, PlacesTyped, Released
<1>7. GoesBack' /\ Stages /\ EntriesGo
  BY <1>1, <1>5, StagesFollow, GoesBackFollows DEF IInv, Released, EntriesGo
<1>8. NobodyRises /\ QueuesKept
  BY <1>1, <1>2, NobodyRose DEF QueuesKept, Emptied, IInv
<1> QED
  BY <1>1, <1>6, <1>7, <1>8, CallsStay, QuietStep

LEMMA EndScopeLStep ==
  ASSUME IInv, NEW t \in Threads, EndScopeL(t) PROVE IInv'
<1>1. PICK l \in Loopers :
       /\ tmpL' = [tmpL EXCEPT ![l] = @ \ {t}]
       /\ \/ DestroyLooper(t, l, next[t])
          \/ Continue(t, next[t]) /\ UNCHANGED <<stopping, queue, lost, joining>>
  BY DEF EndScopeL
<1>2. /\ pc[t] = "scopeL"
      /\ UNCHANGED <<mHandlers, sweep, mNextHandlerID, mID, registeredTo, ownL, ownH, tmpH>>
      /\ UNCHANGED calls /\ UNCHANGED <<message, running>>
  BY DEF EndScopeL, ids, owners
<1>3. next[t] \in Continuations /\ GoodNext(t, next[t]) /\ next[t] # "loop"
  BY <1>2, NextIsGood DEF IInv
<1>4. Released(t) /\ QueuesKept /\ stopping' \subseteq Loopers
  <2>1. CASE DestroyLooper(t, l, next[t])
    <3>1. Released(t) /\ QueuesKept /\ stopping' = stopping \cup {l}
      BY <1>2, <1>3, <2>1, LooperDestroyed DEF IInv
    <3> QED
      BY <3>1 DEF IInv, TypeOK
  <2>2. CASE Continue(t, next[t]) /\ UNCHANGED <<stopping, queue, lost, joining>>
    BY <1>2, <1>3, <2>2, GoneOn DEF IInv, TypeOK, OthersJoin, QueuesKept
  <2> QED
    BY <1>1, <2>1, <2>2
<1>5. tmpL' \in [Loopers -> SUBSET Threads]
  BY <1>1 DEF IInv, TypeOK
<1>6. PlacesTyped'
  BY <1>2, <1>4, <1>5 DEF IInv, TypeOK, PlacesTyped, Released
<1>7. GoesBack' /\ Stages /\ EntriesGo
  BY <1>2, <1>4, StagesFollow, GoesBackFollows DEF IInv, Released, EntriesGo
<1>8. NobodyRises
  BY <1>2, NobodyRose DEF IInv
<1> QED
  BY <1>2, <1>4, <1>6, <1>7, <1>8, CallsStay, QuietStep

LEMMA HandlerDtorStep ==
  ASSUME IInv, NEW t \in Threads, HandlerDtor(t) PROVE IInv'
<1>1. /\ pc[t] = "dtor" /\ Continue(t, next[t])
      /\ UNCHANGED <<sweep, mNextHandlerID, mID, registeredTo, ownL, ownH, tmpL, tmpH, joining>>
      /\ UNCHANGED calls /\ UNCHANGED <<queue, stopping, message, running, lost>>
  BY DEF HandlerDtor, ids, owners, locals, loopers
<1>2. EntriesGo
  BY Removed DEF HandlerDtor
<1>3. next[t] \in Continuations /\ GoodNext(t, next[t])
  BY <1>1, NextIsGood DEF IInv
<1>4. Released(t)
  BY <1>1, <1>3, GoneOn DEF IInv, TypeOK, OthersJoin
<1>5. PlacesTyped'
  BY <1>1, <1>4 DEF IInv, TypeOK, PlacesTyped, Released
<1>6. GoesBack' /\ Stages
  BY <1>1, <1>4, StagesFollow, GoesBackFollows DEF IInv, Released
<1>7. NobodyRises /\ QueuesKept
  BY <1>1, NobodyRose DEF QueuesKept, IInv
<1> QED
  BY <1>1, <1>2, <1>5, <1>6, <1>7, CallsStay, QuietStep

LEMMA EndScopeHStep ==
  ASSUME IInv, NEW t \in Threads, EndScopeH(t) PROVE IInv'
<1>1. PICK h \in Handlers :
       /\ tmpH' = [tmpH EXCEPT ![h] = @ \ {t}]
       /\ UNCHANGED <<ownL, ownH>> /\ UNCHANGED <<queue, stopping, message, running, lost>>
       /\ Continue(t, next[t]) \/ DestroyHandler(t, next[t])
  BY DEF EndScopeH, owners, loopers
<1>2. /\ pc[t] = "scopeH"
      /\ UNCHANGED <<mHandlers, sweep, mNextHandlerID, mID, registeredTo, tmpL, joining>>
      /\ UNCHANGED calls
  BY DEF EndScopeH, ids
<1>3. next[t] \in Continuations /\ GoodNext(t, next[t]) /\ next[t] # "await"
  BY <1>2, NextIsGood DEF IInv
<1>4. Released(t)
  <2>1. CASE DestroyHandler(t, next[t])
    BY <1>2, <1>3, <2>1, HandlerDestroyed DEF IInv
  <2>2. CASE Continue(t, next[t])
    BY <1>2, <1>3, <2>2, GoneOn DEF IInv, TypeOK, OthersJoin
  <2> QED
    BY <1>1, <2>1, <2>2
<1>5. tmpH' \in [Handlers -> SUBSET Threads] /\ \A g \in Handlers : tmpH'[g] \subseteq tmpH[g]
  BY <1>1 DEF IInv, TypeOK
<1>6. PlacesTyped'
  BY <1>1, <1>2, <1>4, <1>5 DEF IInv, TypeOK, PlacesTyped, Released
<1>7. GoesBack' /\ Stages /\ EntriesGo
  BY <1>2, <1>4, StagesFollow, GoesBackFollows DEF IInv, Released, EntriesGo
<1>8. NobodyRises /\ QueuesKept
  BY <1>1, <1>5 DEF NobodyRises, HandlerAlive, QueuesKept
<1> QED
  BY <1>1, <1>2, <1>6, <1>7, <1>8, CallsStay, QuietStep

LEMMA ReleaseLooperStep ==
  ASSUME IInv, NEW c \in Clients, NEW l \in Loopers, ReleaseLooper(c, l) PROVE IInv'
<1>1. /\ pc[c] = "idle" /\ ownL' = ownL \ {l} /\ c \in Threads
      /\ UNCHANGED <<mHandlers, sweep, mNextHandlerID, mID, registeredTo, ownH, tmpL, tmpH>>
      /\ UNCHANGED calls /\ UNCHANGED <<message, running>>
  BY DEF ReleaseLooper, ids, locals, Threads
<1>2. NobodyRises /\ EntriesGo
  BY <1>1, NobodyRose DEF IInv, EntriesGo
<1>3. CASE DestroyLooper(c, l, "return")
  <2>1. "return" \in Continuations /\ GoodNext(c, "return")
    BY <1>1, RosterAssumption DEF GoodNext, Continuations, Waiting
  <2>2. Released(c) /\ QueuesKept /\ stopping' = stopping \cup {l}
    BY <1>1, <1>3, <2>1, LooperDestroyed DEF IInv
  <2>3. PlacesTyped'
    BY <1>1, <2>2 DEF IInv, TypeOK, PlacesTyped, Released
  <2>4. GoesBack' /\ Stages
    BY <1>1, <2>2, StagesFollow, GoesBackFollows DEF IInv, Released
  <2> QED
    BY <1>1, <1>2, <2>2, <2>3, <2>4, CallsStay, QuietStep
<1>4. CASE UNCHANGED <<stopping, queue, lost, mLock, threads>>
  <2>1. UNCHANGED <<stopping, queue, lost, mLock, pc, next, joining>>
    BY <1>4 DEF threads
  <2>2. PlacesTyped'
    BY <1>1, <2>1 DEF IInv, TypeOK, PlacesTyped
  <2>3. GoesBack' /\ Stages /\ QueuesKept
    BY <2>1, GoesBackStays, StagesStay DEF IInv, QueuesKept
  <2> QED
    BY <1>1, <1>2, <2>2, <2>3, CallsStay, QuietStep
<1> QED
  BY <1>3, <1>4 DEF ReleaseLooper

LEMMA ReleaseHandlerStep ==
  ASSUME IInv, NEW c \in Clients, NEW h \in Handlers, ReleaseHandler(c, h) PROVE IInv'
<1>1. /\ pc[c] = "idle" /\ ownH' = ownH \ {h} /\ c \in Threads
      /\ UNCHANGED <<mHandlers, sweep, mNextHandlerID, mID, registeredTo, ownL, tmpL, tmpH, joining>>
      /\ UNCHANGED calls /\ UNCHANGED <<queue, stopping, message, running, lost>>
      /\ UNCHANGED <<mLock, pc, next>> \/ DestroyHandler(c, "return")
  BY DEF ReleaseHandler, ids, locals, loopers, Threads
<1>2. NobodyRises /\ EntriesGo /\ QueuesKept
  BY <1>1, NobodyRose DEF IInv, EntriesGo, QueuesKept
<1>3. CASE DestroyHandler(c, "return")
  <2>1. "return" \in Continuations /\ GoodNext(c, "return")
    BY <1>1, RosterAssumption DEF GoodNext, Continuations, Waiting
  <2>2. Released(c)
    BY <1>1, <1>3, <2>1, HandlerDestroyed DEF IInv
  <2>3. PlacesTyped'
    BY <1>1, <2>2 DEF IInv, TypeOK, PlacesTyped, Released
  <2>4. GoesBack' /\ Stages
    BY <1>1, <2>2, StagesFollow, GoesBackFollows DEF IInv, Released
  <2> QED
    BY <1>1, <1>2, <2>3, <2>4, CallsStay, QuietStep
<1>4. CASE UNCHANGED <<mLock, pc, next>>
  <2>1. PlacesTyped'
    BY <1>1, <1>4 DEF IInv, TypeOK, PlacesTyped
  <2>2. GoesBack' /\ Stages
    BY <1>1, <1>4, GoesBackStays, StagesStay DEF IInv
  <2> QED
    BY <1>1, <1>2, <2>1, <2>2, CallsStay, QuietStep
<1> QED
  BY <1>1, <1>3, <1>4

LEMMA LoopExitsStep ==
  ASSUME IInv, NEW l \in Loopers, LoopExits(l) PROVE IInv'
<1>1. /\ pc[l] = "loop" /\ Goto(l, "exited") /\ l \in Threads
      /\ UNCHANGED <<mHandlers, mLock, sweep, mNextHandlerID, mID, registeredTo, next, joining>>
      /\ UNCHANGED <<ownL, ownH, tmpL, tmpH>>
      /\ UNCHANGED calls /\ UNCHANGED <<queue, stopping, message, running, lost>>
  BY DEF LoopExits, ids, owners, locals, loopers, Threads
<1>2. pc' \in [Threads -> PCs] /\ pc'[l] = "exited" /\ Others(l)
  BY <1>1, Went DEF Others, PCs, IInv
<1>3. PlacesTyped'
  BY <1>1, <1>2 DEF IInv, TypeOK, PlacesTyped
<1>4. SameStage(l) /\ BackOf(l)' /\ OthersJoin(l)
  BY <1>1, <1>2, RosterAssumption
    DEF SameStage, BackOf, OthersJoin, InHandler, AtLoop, Waiting, Threads, IInv, GoesBack
<1>5. GoesBack' /\ Stages
  BY <1>1, <1>2, <1>4, StagesFollow, GoesBackFollows DEF IInv
<1>6. NobodyRises /\ EntriesGo /\ QueuesKept
  BY <1>1, NobodyRose DEF EntriesGo, QueuesKept, IInv
<1> QED
  BY <1>1, <1>3, <1>5, <1>6, CallsStay, QuietStep

(* A handler that has no id gets the next one; a failed CHECK stops        *)
(* everybody.                                                              *)
LEMMA RegisterStep ==
  ASSUME IInv, NEW c \in Clients, NEW l \in Loopers, NEW h \in Handlers, Register(c, l, h)
  PROVE  IInv'
<1>1. /\ mNextHandlerID \in Ids /\ h \in ownH
      /\ \A id \in DOMAIN mHandlers : mHandlers[id].mHandler # h
      /\ UNCHANGED <<mLock, sweep, ownL, ownH, tmpL, tmpH, next, joining>>
      /\ UNCHANGED calls /\ UNCHANGED <<queue, stopping, message, running, lost>>
  BY DEF Register, owners, locals, loopers
<1>2. NobodyRises /\ QueuesKept
  BY <1>1, NobodyRose DEF QueuesKept, IInv
<1>3. CASE Abort /\ UNCHANGED <<mHandlers, ids>>
  <2>1. /\ pc' = [t \in Threads |-> "dead"]
        /\ UNCHANGED <<mHandlers, mNextHandlerID, mID, registeredTo>>
    BY <1>3 DEF Abort, ids
  <2>2. PlacesTyped'
    BY <1>1, <2>1 DEF IInv, TypeOK, PlacesTyped, PCs
  <2>3. GoesBack'
    BY <1>1, <2>1 DEF IInv, GoesBack
  <2>4. Stages /\ EntriesGo
    BY <1>1, <2>1 DEF Stages, InHandler, AtLoop, Waiting, EntriesGo, Threads
  <2> QED
    BY <1>1, <1>2, <2>1, <2>2, <2>3, <2>4, CallsStay, QuietStep
<1>4. CASE /\ mID[h] = 0
           /\ mHandlers' = With(mHandlers, mNextHandlerID, [mLooper |-> l, mHandler |-> h])
           /\ registeredTo' = With(registeredTo, mNextHandlerID, h)
           /\ mID' = [mID EXCEPT ![h] = mNextHandlerID]
           /\ mNextHandlerID' = NextID(mNextHandlerID) /\ UNCHANGED pc
  <2> DEFINE id == mNextHandlerID
             entry == [mLooper |-> l, mHandler |-> h]
  <2>1. /\ DOMAIN mHandlers' = DOMAIN mHandlers \cup {id} /\ mHandlers'[id] = entry
        /\ \A x \in DOMAIN mHandlers \ {id} : mHandlers'[x] = mHandlers[x]
        /\ DOMAIN registeredTo' = DOMAIN registeredTo \cup {id} /\ registeredTo'[id] = h
        /\ \A x \in DOMAIN registeredTo \ {id} : registeredTo'[x] = registeredTo[x]
    <3>1. /\ DOMAIN mHandlers' = DOMAIN mHandlers \cup {id} /\ mHandlers'[id] = entry
          /\ \A x \in DOMAIN mHandlers \ {id} : mHandlers'[x] = mHandlers[x]
      BY <1>4 DEF With
    <3>2. /\ DOMAIN registeredTo' = DOMAIN registeredTo \cup {id} /\ registeredTo'[id] = h
          /\ \A x \in DOMAIN registeredTo \ {id} : registeredTo'[x] = registeredTo[x]
      BY <1>4 DEF With
    <3> QED
      BY <3>1, <3>2
  <2>2. /\ entry \in [mLooper : Loopers, mHandler : Handlers] /\ entry.mHandler = h
        /\ id \in Nat /\ id \in 1 .. MaxIds /\ id + 1 \in 1 .. MaxIds + 1
    BY <1>1, RosterAssumption DEF Ids
  <2>3. \A x \in DOMAIN registeredTo : x \in Ids /\ x < id
    BY DEF IInv, IdsGivenOnce
  <2>4. id \notin DOMAIN registeredTo /\ id \notin DOMAIN mHandlers
    BY <2>2, <2>3 DEF IInv, IdsGivenOnce
  <2>5. mNextHandlerID' = id + 1
    BY <1>4 DEF NextID
  <2>6. mID' \in [Handlers -> 0 .. MaxIds] /\ mID'[h] = id /\ \A g \in Handlers \ {h} : mID'[g] = mID[g]
    BY <1>4, <2>2 DEF IInv, TypeOK
  <2> HIDE DEF id, entry
  <2>7. IdsGivenOnce'
    <3>1. \A x \in DOMAIN registeredTo' : x \in Ids /\ x < mNextHandlerID'
      <4> SUFFICES ASSUME NEW x \in DOMAIN registeredTo' PROVE x \in Ids /\ x < id + 1
        BY <2>5
      <4>1. CASE x = id
        BY <2>2, <4>1 DEF Ids
      <4>2. CASE x \in DOMAIN registeredTo
        BY <2>2, <2>3, <4>2 DEF Ids
      <4> QED
        BY <2>1, <4>1, <4>2
    <3>2. \A x \in DOMAIN mHandlers' :
            x \in DOMAIN registeredTo' /\ registeredTo'[x] = mHandlers'[x].mHandler
      BY <2>1, <2>2, <2>4 DEF IInv, IdsGivenOnce
    <3> QED
      BY <3>1, <3>2 DEF IdsGivenOnce
  <2>8. IdsAgree'
    <3> SUFFICES ASSUME NEW x \in DOMAIN mHandlers', HandlerAlive(mHandlers[x].mHandler)'
                 PROVE  mID'[mHandlers'[x].mHandler] = x
      BY DEF IdsAgree
    <3>1. CASE x = id
      BY <2>1, <2>2, <2>6, <3>1
    <3>2. CASE x # id
      <4>1. x \in DOMAIN mHandlers /\ mHandlers'[x] = mHandlers[x]
        BY <2>1, <3>2
      <4>2. mHandlers[x].mHandler \in Handlers \ {h}
        BY <1>1, <4>1 DEF IInv, TypeOK
      <4>3. HandlerAlive(mHandlers[x].mHandler)
        BY <1>2, <4>1, <4>2 DEF NobodyRises, HandlerAlive
      <4>4. mID[mHandlers[x].mHandler] = x
        BY <4>1, <4>3 DEF IInv, IdsAgree
      <4> QED
        BY <2>6, <4>1, <4>2, <4>4
    <3> QED
      BY <3>1, <3>2
  <2>9. CallsKept /\ mNextReplyID' \in 1 .. MaxPosts + 1 /\ posted' \in 0 .. MaxPosts
    BY <1>1, CallsStay
  <2>10. PlacesTyped' /\ GoesBack' /\ Stages
    BY <1>1, <1>4, GoesBackStays, StagesStay DEF IInv, TypeOK, PlacesTyped
  <2>11. IdsGrow
    BY <2>1, <2>4 DEF IdsGrow
  <2>12. TypeOK'
    <3>1. DOMAIN mHandlers' \subseteq Ids
      BY <2>1, <2>2 DEF IInv, TypeOK, Ids
    <3>2. \A x \in DOMAIN mHandlers' : mHandlers'[x] \in [mLooper : Loopers, mHandler : Handlers]
      BY <2>1, <2>2 DEF IInv, TypeOK
    <3>3. mNextHandlerID' \in 1 .. MaxIds + 1
      BY <2>2, <2>5
    <3> QED
      BY <1>1, <2>6, <2>9, <2>10, <3>1, <3>2, <3>3 DEF IInv, TypeOK, PlacesTyped, CallsKept
  <2> QED
    BY <1>2, <2>7, <2>8, <2>9, <2>10, <2>11, <2>12, CallsFollow DEF IInv
<1> QED
  BY <1>3, <1>4 DEF Register
----------------------------------------------------------------------------
(* Messages posted                                                         *)

LEMMA Appended ==
  ASSUME TypeOK, NEW l \in Loopers, NEW m \in Request,
         queue' = [queue EXCEPT ![l] = Append(@, m)]
  PROVE  /\ queue' \in [Loopers -> Seq(Request)]
         /\ \A k \in Loopers : \A i \in 1 .. Len(queue'[k]) :
              \/ i \in 1 .. Len(queue[k]) /\ queue'[k][i] = queue[k][i]
              \/ k = l /\ i = Len(queue[l]) + 1 /\ queue'[k][i] = m
         /\ \A k \in Loopers : RepliesTo(queue[k]) \subseteq RepliesTo(queue'[k])
         /\ m.replyID # 0 => m.replyID \in RepliesTo(queue'[l])
<1>1. queue \in [Loopers -> Seq(Request)] /\ queue[l] \in Seq(Request)
  BY DEF TypeOK
<1>2. /\ queue'[l] = Append(queue[l], m)
      /\ \A k \in Loopers \ {l} : queue'[k] = queue[k]
      /\ queue' \in [Loopers -> Seq(Request)]
  BY <1>1
<1>3. /\ Len(queue'[l]) = Len(queue[l]) + 1 /\ Len(queue[l]) \in Nat
      /\ queue'[l][Len(queue[l]) + 1] = m
      /\ \A i \in 1 .. Len(queue[l]) : queue'[l][i] = queue[l][i]
  BY <1>1, <1>2
<1>4. \A k \in Loopers : \A i \in 1 .. Len(queue'[k]) :
        \/ i \in 1 .. Len(queue[k]) /\ queue'[k][i] = queue[k][i]
        \/ k = l /\ i = Len(queue[l]) + 1 /\ queue'[k][i] = m
  BY <1>2, <1>3
<1>5. /\ RepliesTo(queue[l]) \subseteq RepliesTo(queue'[l])
      /\ m.replyID # 0 => m.replyID \in RepliesTo(queue'[l])
  <2>1. /\ \A i \in 1 .. Len(queue[l]) : i \in 1 .. Len(queue'[l])
        /\ Len(queue[l]) + 1 \in 1 .. Len(queue'[l])
    BY <1>3
  <2> QED
    BY <1>3, <2>1 DEF RepliesTo
<1>6. \A k \in Loopers : RepliesTo(queue[k]) \subseteq RepliesTo(queue'[k])
  BY <1>2, <1>5
<1> QED
  BY <1>2, <1>4, <1>5, <1>6

(* What a new message, a request or not, adds to the calls under way.      *)
LEMMA Posted ==
  ASSUME IInv, NEW t \in Threads, NEW l \in Loopers, NEW id \in Ids, NEW r \in 0 .. MaxPosts,
         queue' = [queue EXCEPT ![l] = Append(@, [target |-> id, replyID |-> r, from |-> t])],
         UNCHANGED <<message, mReplies, accepted, lost>>,
         \/ r = 0 /\ awaiting' = awaiting /\ mNextReplyID' = mNextReplyID
         \/ /\ r = mNextReplyID /\ mNextReplyID' = mNextReplyID + 1
            /\ t \in Clients /\ awaiting[t] = 0 /\ awaiting' = [awaiting EXCEPT ![t] = r],
         \A k \in Loopers : /\ InHandler(k)' => InHandler(k)
                            /\ pc'[k] = "deliver" => pc[k] = "deliver"
  PROVE  /\ RequestsOnce' /\ Replies' /\ AwaitedIsUnderway'
         /\ queue' \in [Loopers -> Seq(Request)]
<1> DEFINE m == [target |-> id, replyID |-> r, from |-> t]
<1>1. m \in Request /\ m.replyID = r /\ m.from = t
  BY DEF Request
<1>2. queue' = [queue EXCEPT ![l] = Append(@, m)]
  OBVIOUS
<1> HIDE DEF m
<1>3. /\ \A c \in Clients : awaiting[c] \in Nat /\ awaiting[c] < mNextReplyID
      /\ mNextReplyID \in Nat \ {0} /\ mNextReplyID' \in Nat /\ mNextReplyID <= mNextReplyID'
  BY DEF IInv, TypeOK, Callers
<1>4. /\ \A c \in Clients \ {t} : awaiting'[c] = awaiting[c]
      /\ t \in Clients => awaiting'[t] = awaiting[t] \/ (awaiting[t] = 0 /\ awaiting'[t] = r)
      /\ r # 0 => t \in Clients /\ awaiting'[t] = r /\ r = mNextReplyID
  BY DEF IInv, TypeOK
<1>5. /\ queue' \in [Loopers -> Seq(Request)]
      /\ \A k \in Loopers : \A i \in 1 .. Len(queue'[k]) :
           \/ i \in 1 .. Len(queue[k]) /\ queue'[k][i] = queue[k][i]
           \/ k = l /\ i = Len(queue[l]) + 1 /\ queue'[k][i] = m
      /\ \A k \in Loopers : RepliesTo(queue[k]) \subseteq RepliesTo(queue'[k])
      /\ m.replyID # 0 => m.replyID \in RepliesTo(queue'[l])
  BY <1>1, <1>2, Appended DEF IInv
<1>6. /\ \A k \in Loopers : \A i \in 1 .. Len(queue[k]) :
           Asked(queue[k][i]) /\ Asked(queue[k][i])' /\ ~Same(m, queue[k][i]) /\ ~Same(queue[k][i], m)
      /\ \A k \in Loopers : message[k] # NULL => ~Same(m, message[k]) /\ ~Same(message[k], m)
      /\ r \notin DOMAIN mReplies
  <2>1. ASSUME NEW k \in Loopers, NEW i \in 1 .. Len(queue[k])
        PROVE  /\ Asked(queue[k][i]) /\ ~Same(m, queue[k][i]) /\ ~Same(queue[k][i], m)
               /\ queue[k][i].replyID # 0 =>
                    awaiting'[queue[k][i].from] = queue[k][i].replyID /\ queue[k][i].from \in Clients
    <3>1. Asked(queue[k][i])
      BY DEF IInv, RequestsOnce
    <3> QED
      BY <1>1, <1>3, <1>4, <3>1 DEF Asked, Same
  <2>2. ASSUME NEW k \in Loopers, NEW i \in 1 .. Len(queue[k])
        PROVE  queue[k][i].replyID # 0 =>
                 queue[k][i].from \in Clients /\ awaiting'[queue[k][i].from] = queue[k][i].replyID
    BY <2>1
  <2>3. ASSUME NEW k \in Loopers, message[k] # NULL PROVE ~Same(m, message[k]) /\ ~Same(message[k], m)
    <3>1. message[k].replyID < mNextReplyID /\ message[k] \in Request
      BY <2>3 DEF IInv, RequestsOnce, TypeOK
    <3>2. message[k].replyID \in Nat
      BY <3>1 DEF Request
    <3> QED
      BY <1>1, <1>3, <1>4, <3>1, <3>2 DEF Same
  <2>4. r \notin DOMAIN mReplies
    <3>1. \A x \in DOMAIN mReplies : x # 0 /\ mReplies[x] \in Clients /\ awaiting[mReplies[x]] = x
      BY DEF IInv, Replies, TypeOK
    <3> QED
      BY <1>3, <1>4, <3>1
  <2> QED
    BY <1>5, <2>1, <2>2, <2>3, <2>4 DEF Asked
<1>7. \A k \in Loopers : Unanswered(k)' => Unanswered(k)
  BY DEF Unanswered
<1>8. RequestsOnce'
  <2> SUFFICES ASSUME NEW k \in Loopers
               PROVE  /\ \A i \in 1 .. Len(queue'[k]) :
                           /\ queue'[k][i].replyID # 0 =>
                                /\ queue'[k][i].from \in Clients
                                /\ awaiting'[queue'[k][i].from] = queue'[k][i].replyID
                           /\ queue'[k][i].replyID \notin DOMAIN mReplies
                           /\ \A n \in Loopers :
                                /\ \A j \in 1 .. Len(queue'[n]) :
                                     Same(queue'[k][i], queue'[n][j]) => n = k /\ j = i
                                /\ message[n] # NULL => ~Same(queue'[k][i], message[n])
                      /\ Unanswered(k)' =>
                           Asked(message[k])' /\ message[k].replyID \notin DOMAIN mReplies
                      /\ message[k] # NULL =>
                           /\ message[k].replyID < mNextReplyID'
                           /\ \A n \in Loopers \ {k} :
                                message[n] # NULL => ~Same(message[k], message[n])
    BY DEF RequestsOnce, Asked, Same
  <2>1. ASSUME NEW i \in 1 .. Len(queue'[k])
        PROVE  /\ queue'[k][i].replyID # 0 =>
                    /\ queue'[k][i].from \in Clients
                    /\ awaiting'[queue'[k][i].from] = queue'[k][i].replyID
               /\ queue'[k][i].replyID \notin DOMAIN mReplies
               /\ \A n \in Loopers :
                    /\ \A j \in 1 .. Len(queue'[n]) :
                         Same(queue'[k][i], queue'[n][j]) => n = k /\ j = i
                    /\ message[n] # NULL => ~Same(queue'[k][i], message[n])
    <3>1. CASE i \in 1 .. Len(queue[k]) /\ queue'[k][i] = queue[k][i]
      <4>1. /\ queue[k][i].replyID \notin DOMAIN mReplies
            /\ \A n \in Loopers :
                 /\ \A j \in 1 .. Len(queue[n]) : Same(queue[k][i], queue[n][j]) => n = k /\ j = i
                 /\ message[n] # NULL => ~Same(queue[k][i], message[n])
        BY <3>1 DEF IInv, RequestsOnce
      <4>2. queue[k][i].replyID # 0 =>
              queue[k][i].from \in Clients /\ awaiting'[queue[k][i].from] = queue[k][i].replyID
        <5>1. Asked(queue[k][i])
          BY <1>6, <3>1
        <5> QED
          BY <1>4, <5>1 DEF Asked
      <4>3. ASSUME NEW n \in Loopers, NEW j \in 1 .. Len(queue'[n]), Same(queue'[k][i], queue'[n][j])
            PROVE  n = k /\ j = i
        BY <1>5, <1>6, <3>1, <4>1, <4>3
      <4> QED
        BY <3>1, <4>1, <4>2, <4>3
    <3>2. CASE k = l /\ i = Len(queue[l]) + 1 /\ queue'[k][i] = m
      <4>1. m.replyID # 0 => m.from \in Clients /\ awaiting'[m.from] = m.replyID
        BY <1>1, <1>4
      <4>2. ASSUME NEW n \in Loopers, NEW j \in 1 .. Len(queue'[n]), Same(m, queue'[n][j])
            PROVE  n = k /\ j = i
        BY <1>5, <1>6, <3>2, <4>2
      <4> QED
        BY <1>1, <1>6, <3>2, <4>1, <4>2
    <3> QED
      BY <1>5, <3>1, <3>2
  <2>2. Unanswered(k)' => Asked(message[k])' /\ message[k].replyID \notin DOMAIN mReplies
    <3>1. Unanswered(k)' => Asked(message[k]) /\ message[k].replyID \notin DOMAIN mReplies
      BY <1>7 DEF IInv, RequestsOnce
    <3> QED
      BY <1>4, <3>1 DEF Asked
  <2>3. message[k] # NULL =>
          /\ message[k].replyID < mNextReplyID'
          /\ \A n \in Loopers \ {k} : message[n] # NULL => ~Same(message[k], message[n])
    <3>1. message[k] # NULL => message[k].replyID \in Nat
      BY DEF IInv, TypeOK, Request
    <3> QED
      BY <1>3, <3>1 DEF IInv, RequestsOnce
  <2> QED
    BY <2>1, <2>2, <2>3
<1>9. Replies'
  <2>1. \A x \in DOMAIN mReplies : mReplies[x] \in Clients /\ awaiting'[mReplies[x]] = x
    <3>1. \A x \in DOMAIN mReplies : x # 0 /\ mReplies[x] \in Clients /\ awaiting[mReplies[x]] = x
      BY DEF IInv, Replies, TypeOK
    <3> QED
      BY <1>4, <3>1
  <2>2. ASSUME NEW k \in Loopers, InHandler(k)', message[k] \notin accepted
        PROVE  \/ message[k].replyID = 0 \/ message[k].replyID \in DOMAIN mReplies
               \/ \A c \in Clients : awaiting'[c] # message[k].replyID
    <3>1. InHandler(k) /\ message[k] # NULL
      BY <2>2 DEF IInv, Handling
    <3>2. \/ message[k].replyID = 0 \/ message[k].replyID \in DOMAIN mReplies
          \/ \A c \in Clients : awaiting[c] # message[k].replyID
      BY <2>2, <3>1 DEF IInv, Replies
    <3>3. ~Same(m, message[k])
      BY <1>6, <3>1
    <3> QED
      BY <1>1, <1>4, <3>2, <3>3 DEF Same
  <2> QED
    BY <2>1, <2>2 DEF IInv, Replies
<1>10. AwaitedIsUnderway'
  <2> SUFFICES ASSUME NEW c \in Clients, awaiting'[c] # 0
               PROVE  Underway(awaiting[c])' \/ awaiting'[c] \in lost
    BY DEF AwaitedIsUnderway
  <2>1. CASE awaiting'[c] = awaiting[c]
    <3>1. Underway(awaiting[c]) \/ awaiting[c] \in lost
      BY <2>1 DEF IInv, AwaitedIsUnderway
    <3>2. \A k \in Loopers : RepliesTo(queue[k])' = RepliesTo(queue'[k])
      BY DEF RepliesTo
    <3> QED
      BY <1>5, <2>1, <3>1, <3>2 DEF Underway
  <2>2. CASE awaiting'[c] # awaiting[c]
    <3>1. awaiting'[c] = r /\ r # 0
      BY <1>4, <2>2
    <3>2. r \in RepliesTo(queue'[l])
      BY <1>1, <1>5, <3>1
    <3>3. RepliesTo(queue[l])' = RepliesTo(queue'[l])
      BY DEF RepliesTo
    <3> QED
      BY <3>1, <3>2, <3>3 DEF Underway
  <2> QED
    BY <2>1, <2>2
<1> QED
  BY <1>5, <1>8, <1>9, <1>10

(* postMessage_l() to a looper that is there: what the caller does next.   *)
LEMMA PostGoes ==
  ASSUME IInv, NEW t \in Threads, pc[t] \in {"idle", "handle"}, NEW k \in {"unlock", "await"},
         k = "await" => t \in Clients,
         Goto(t, "scopeL"), Then(t, k), UNCHANGED joining
  PROVE  /\ pc' \in [Threads -> PCs] /\ next' \in [Threads -> Continuations]
         /\ pc'[t] = "scopeL" /\ next'[t] = k /\ Others(t) /\ GoesBack'
         /\ \A l \in Loopers : /\ InHandler(l)' => InHandler(l)
                               /\ pc'[l] = "deliver" => pc[l] = "deliver"
                               /\ AtLoop(l)' => AtLoop(l)
<1>1. /\ pc' \in [Threads -> PCs] /\ next' \in [Threads -> Continuations]
      /\ pc'[t] = "scopeL" /\ next'[t] = k /\ Others(t)
  BY Went, WentWith DEF Others, PCs, Continuations, IInv
<1>2. t \in Loopers => InHandler(t)
  BY RosterAssumption DEF IInv, GoesBack, InHandler, Threads
<1>3. BackOf(t)' /\ OthersJoin(t)
  BY <1>1 DEF BackOf, OthersJoin
<1>4. GoesBack'
  BY <1>1, <1>3, GoesBackFollows DEF IInv
<1>5. \A l \in Loopers : /\ InHandler(l)' => InHandler(l)
                         /\ pc'[l] = "deliver" => pc[l] = "deliver"
                         /\ AtLoop(l)' => AtLoop(l)
  BY <1>1, <1>2 DEF Others, InHandler, AtLoop, Threads
<1> QED
  BY <1>1, <1>4, <1>5

LEMMA PostStep ==
  ASSUME IInv, NEW t \in Threads, NEW id \in Ids, Post(t, id) PROVE IInv'
<1> DEFINE l == mHandlers[id].mLooper
<1>1. /\ pc[t] \in {"idle", "handle"} /\ id \in DOMAIN mHandlers
      /\ posted < MaxPosts /\ posted' = posted + 1 /\ PostMessage(t, id, 0, "unlock")
      /\ UNCHANGED <<sweep, mNextHandlerID, mID, registeredTo, mNextReplyID, mReplies, awaiting,
                     accepted, ownL, ownH, tmpH, stopping, message, running, lost, joining>>
  BY DEF Post, InUserCode, Registered, ids, owners
<1>2. l \in Loopers
  BY <1>1 DEF IInv, TypeOK
<1>3. /\ mNextReplyID \in 1 .. MaxPosts + 1 /\ posted \in 0 .. MaxPosts
      /\ mNextReplyID <= posted + 1 /\ MaxPosts \in Nat
  BY RosterAssumption DEF IInv, TypeOK, Callers
<1>4. CallsKept /\ mNextReplyID' \in 1 .. MaxPosts + 1 /\ posted' \in 0 .. MaxPosts
  BY <1>1, <1>3 DEF CallsKept
<1>5. NobodyRises
  BY <1>1, NobodyRose DEF IInv
<1>6. CASE ~LooperAlive(l)
  <2>1. mHandlers' = Without(mHandlers, id) /\ UNCHANGED <<queue, tmpL, mLock, pc, next>>
    BY <1>1, <1>6 DEF PostMessage
  <2>2. PlacesTyped'
    BY <1>1, <2>1 DEF IInv, TypeOK, PlacesTyped
  <2>3. GoesBack' /\ Stages /\ EntriesGo /\ QueuesKept
    BY <1>1, <2>1, GoesBackStays, StagesStay, Removed DEF IInv, QueuesKept
  <2> QED
    BY <1>1, <1>4, <1>5, <2>2, <2>3, QuietStep
<1>7. CASE LooperAlive(l)
  <2>1. /\ queue' = [queue EXCEPT ![l] =
                       Append(@, [target |-> id, replyID |-> 0, from |-> t])]
        /\ tmpL' = [tmpL EXCEPT ![l] = @ \cup {t}] /\ mLock' = t
        /\ Goto(t, "scopeL") /\ Then(t, "unlock") /\ UNCHANGED mHandlers
    BY <1>1, <1>7 DEF PostMessage
  <2> HIDE DEF l
  <2>2. /\ pc' \in [Threads -> PCs] /\ next' \in [Threads -> Continuations]
        /\ pc'[t] = "scopeL" /\ next'[t] = "unlock" /\ Others(t) /\ GoesBack'
        /\ \A x \in Loopers : /\ InHandler(x)' => InHandler(x)
                              /\ pc'[x] = "deliver" => pc[x] = "deliver"
                              /\ AtLoop(x)' => AtLoop(x)
    BY <1>1, <2>1, PostGoes
  <2>3. tmpL' \in [Loopers -> SUBSET Threads]
    BY <1>2, <2>1 DEF IInv, TypeOK
  <2>4. PlacesTyped'
    BY <1>1, <2>1, <2>2, <2>3 DEF IInv, TypeOK, PlacesTyped
  <2>5. RequestsOnce' /\ Replies' /\ AwaitedIsUnderway' /\ queue' \in [Loopers -> Seq(Request)]
    <3>1. 0 \in 0 .. MaxPosts
      BY <1>3
    <3> QED
      BY <1>1, <1>2, <2>1, <2>2, <3>1, Posted
  <2>6. IdsGivenOnce' /\ IdsAgree'
    BY <1>1, <1>5, <2>1, IdsFollow DEF IInv, EntriesGo
  <2>7. Stages
    <3>1. SameStage(t)
      BY <1>1, <2>2, RosterAssumption
        DEF SameStage, Waiting, Threads
    <3> QED
      BY <2>2, <3>1, StagesFollow
  <2>8. Handling' /\ Callers'
    <3>1. IdsGrow
      BY <1>1 DEF IdsGrow
    <3> QED
      BY <1>1, <1>4, <2>7, <3>1, HandlingFollows, CallersFollow DEF IInv
  <2>9. TypeOK'
    BY <1>1, <1>4, <2>1, <2>4, <2>5 DEF IInv, TypeOK, PlacesTyped
  <2> QED
    BY <2>2, <2>5, <2>6, <2>8, <2>9 DEF IInv
<1> QED
  BY <1>6, <1>7

LEMMA AskStep ==
  ASSUME IInv, NEW c \in Clients, NEW id \in Ids, Ask(c, id) PROVE IInv'
<1> DEFINE l == mHandlers[id].mLooper
           r == mNextReplyID
<1>1. /\ pc[c] = "idle" /\ id \in DOMAIN mHandlers /\ c \in Threads
      /\ posted < MaxPosts /\ posted' = posted + 1 /\ mNextReplyID' = r + 1
      /\ PostMessage(c, id, r, "await")
      /\ awaiting' = [awaiting EXCEPT ![c] = IF LooperAlive(l) THEN r ELSE 0]
      /\ UNCHANGED <<sweep, mNextHandlerID, mID, registeredTo, mReplies,
                     accepted, ownL, ownH, tmpH, stopping, message, running, lost, joining>>
  BY DEF Ask, Registered, ids, owners, NextReplyID, Threads
<1>2. l \in Loopers
  BY <1>1 DEF IInv, TypeOK
<1>3. /\ r \in 1 .. MaxPosts /\ posted \in 0 .. MaxPosts /\ r <= posted + 1 /\ MaxPosts \in Nat
      /\ awaiting \in [Clients -> 0 .. MaxPosts] /\ awaiting[c] = 0
  <2>1. /\ r \in 1 .. MaxPosts + 1 /\ posted \in 0 .. MaxPosts /\ r <= posted + 1
        /\ MaxPosts \in Nat /\ awaiting \in [Clients -> 0 .. MaxPosts]
    BY RosterAssumption DEF IInv, TypeOK, Callers
  <2>2. awaiting[c] = 0
    BY <1>1 DEF IInv, Callers, Waiting
  <2> QED
    BY <1>1, <2>1, <2>2
<1>4. /\ mNextReplyID' \in 1 .. MaxPosts + 1 /\ posted' \in 0 .. MaxPosts
      /\ mNextReplyID' <= posted' + 1
  BY <1>1, <1>3
<1>5. NobodyRises
  BY <1>1, NobodyRose DEF IInv
<1>6. CASE ~LooperAlive(l)
  <2>1. mHandlers' = Without(mHandlers, id) /\ UNCHANGED <<queue, tmpL, mLock, pc, next>>
    BY <1>1, <1>6 DEF PostMessage
  <2>2. PlacesTyped'
    BY <1>1, <2>1 DEF IInv, TypeOK, PlacesTyped
  <2>3. GoesBack' /\ Stages /\ EntriesGo /\ QueuesKept
    BY <1>1, <2>1, GoesBackStays, StagesStay, Removed DEF IInv, QueuesKept
  <2>4. CallsKept
    <3>1. awaiting' = awaiting
      BY <1>1, <1>3, <1>6
    <3> QED
      BY <1>1, <1>3, <1>4, <3>1 DEF CallsKept
  <2> QED
    BY <1>1, <1>4, <1>5, <2>2, <2>3, <2>4, QuietStep
<1>7. CASE LooperAlive(l)
  <2>1. /\ queue' = [queue EXCEPT ![l] =
                       Append(@, [target |-> id, replyID |-> r, from |-> c])]
        /\ tmpL' = [tmpL EXCEPT ![l] = @ \cup {c}] /\ mLock' = c
        /\ Goto(c, "scopeL") /\ Then(c, "await") /\ UNCHANGED mHandlers
    BY <1>1, <1>7 DEF PostMessage
  <2>2. awaiting' = [awaiting EXCEPT ![c] = r]
    BY <1>1, <1>7
  <2> HIDE DEF l
  <2>3. /\ pc' \in [Threads -> PCs] /\ next' \in [Threads -> Continuations]
        /\ pc'[c] = "scopeL" /\ next'[c] = "await" /\ Others(c) /\ GoesBack'
        /\ \A x \in Loopers : /\ InHandler(x)' => InHandler(x)
                              /\ pc'[x] = "deliver" => pc[x] = "deliver"
                              /\ AtLoop(x)' => AtLoop(x)
    BY <1>1, <2>1, PostGoes
  <2>4. tmpL' \in [Loopers -> SUBSET Threads]
    BY <1>1, <1>2, <2>1 DEF IInv, TypeOK
  <2>5. PlacesTyped'
    BY <1>1, <2>1, <2>3, <2>4 DEF IInv, TypeOK, PlacesTyped
  <2>6. RequestsOnce' /\ Replies' /\ AwaitedIsUnderway' /\ queue' \in [Loopers -> Seq(Request)]
    <3>1. r \in 0 .. MaxPosts /\ awaiting[c] = 0 /\ r = mNextReplyID
      BY <1>3
    <3> HIDE DEF r
    <3> QED
      BY <1>1, <1>2, <2>1, <2>2, <2>3, <3>1, Posted
  <2>7. IdsGivenOnce' /\ IdsAgree'
    BY <1>1, <1>5, <2>1, IdsFollow DEF IInv, EntriesGo
  <2>8. Handling'
    BY <1>1, <2>3 DEF IInv, Handling
  <2>9. Callers'
    <3>1. awaiting'[c] = r /\ \A d \in Clients \ {c} : awaiting'[d] = awaiting[d]
      BY <1>3, <2>2
    <3>2. \A d \in Clients \ {c} : /\ Waiting(d)' <=> Waiting(d)
                                   /\ pc'[d] = "dead" <=> pc[d] = "dead"
      BY <2>3 DEF Others, Waiting, Threads
    <3>3. Waiting(c)'
      BY <2>3 DEF Waiting
    <3>4. \A d \in Clients : awaiting[d] < r /\ awaiting[d] \in Nat
      BY <1>3 DEF IInv, Callers
    <3> SUFFICES ASSUME NEW d \in Clients
                 PROVE  /\ Waiting(d)' => awaiting'[d] # 0
                        /\ awaiting'[d] # 0 => Waiting(d)' \/ pc'[d] = "dead"
                        /\ awaiting'[d] < mNextReplyID'
                        /\ awaiting'[d] # 0 =>
                             \A e \in Clients \ {d} : awaiting'[e] # awaiting'[d]
      BY <1>4 DEF Callers
    <3>5. CASE d = c
      BY <1>1, <1>3, <3>1, <3>3, <3>4, <3>5
    <3>6. CASE d # c
      BY <1>1, <1>3, <3>1, <3>2, <3>4, <3>6 DEF IInv, Callers
    <3> QED
      BY <3>5, <3>6
  <2>10. TypeOK'
    <3>1. awaiting' \in [Clients -> 0 .. MaxPosts]
      BY <1>3, <2>2
    <3> QED
      BY <1>1, <1>4, <2>1, <2>5, <2>6, <3>1 DEF IInv, TypeOK, PlacesTyped
  <2> QED
    BY <2>3, <2>6, <2>7, <2>8, <2>9, <2>10 DEF IInv
<1> QED
  BY <1>6, <1>7
----------------------------------------------------------------------------
(* Replies                                                                 *)

LEMMA AnsweredStep ==
  ASSUME IInv, NEW c \in Clients, Answered(c) PROVE IInv'
<1> DEFINE r == awaiting[c]
<1>1. /\ pc[c] = "await" /\ r \in DOMAIN mReplies /\ mReplies' = Without(mReplies, r)
      /\ awaiting' = [awaiting EXCEPT ![c] = 0] /\ Goto(c, "idle") /\ c \in Threads
      /\ UNCHANGED <<mHandlers, mLock, sweep, mNextHandlerID, mID, registeredTo, mNextReplyID,
                     accepted, posted, ownL, ownH, tmpL, tmpH, queue, stopping, message, running,
                     lost, next, joining>>
  BY DEF Answered, TakeReply, ids, owners, locals, loopers, Threads
<1>2. pc' \in [Threads -> PCs] /\ pc'[c] = "idle" /\ Others(c)
  BY <1>1, Went DEF Others, PCs, IInv
<1>3. /\ awaiting' \in [Clients -> 0 .. MaxPosts] /\ awaiting'[c] = 0
      /\ \A d \in Clients \ {c} : awaiting'[d] = awaiting[d]
      /\ MaxPosts \in Nat /\ r \in 1 .. MaxPosts
  BY <1>1, RosterAssumption DEF IInv, TypeOK
<1>4. /\ DOMAIN mReplies' = DOMAIN mReplies \ {r}
      /\ \A x \in DOMAIN mReplies' : mReplies'[x] = mReplies[x]
  <2>1. /\ DOMAIN Without(mReplies, r) = DOMAIN mReplies \ {r}
        /\ \A y \in DOMAIN mReplies \ {r} : Without(mReplies, r)[y] = mReplies[y]
    BY WithoutFacts
  <2> QED
    BY <1>1, <2>1
<1>5. \A d \in Clients \ {c} : awaiting[d] # r
  BY <1>3 DEF IInv, Callers
<1> HIDE DEF r
<1>6. TypeOK'
  BY <1>1, <1>2, <1>3, <1>4 DEF IInv, TypeOK
<1>7. GoesBack'
  <2>1. BackOf(c)' /\ OthersJoin(c)
    BY <1>1, <1>2, RosterAssumption DEF BackOf, OthersJoin, IInv, GoesBack, Threads
  <2> QED
    BY <1>1, <1>2, <2>1, GoesBackFollows DEF IInv
<1>8. IdsGivenOnce' /\ IdsAgree'
  <2>1. EntriesGo /\ NobodyRises
    BY <1>1, NobodyRose DEF EntriesGo, IInv
  <2> QED
    BY <1>1, <2>1, IdsFollow DEF IInv
<1>9. \A l \in Loopers : /\ InHandler(l)' <=> InHandler(l)
                         /\ pc'[l] = pc[l] /\ (AtLoop(l)' <=> AtLoop(l))
  BY <1>1, <1>2, RosterAssumption DEF Others, InHandler, AtLoop, Threads
<1>10. Handling'
  BY <1>1, <1>9 DEF IInv, Handling
<1>11. Callers'
  <2>1. \A d \in Clients \ {c} : /\ Waiting(d)' <=> Waiting(d)
                                 /\ pc'[d] = "dead" <=> pc[d] = "dead"
    BY <1>1, <1>2 DEF Others, Waiting, Threads
  <2>2. ~Waiting(c)'
    BY <1>2 DEF Waiting
  <2>3. mNextReplyID \in Nat \ {0}
    BY DEF IInv, TypeOK
  <2> SUFFICES ASSUME NEW d \in Clients
               PROVE  /\ Waiting(d)' => awaiting'[d] # 0
                      /\ awaiting'[d] # 0 => Waiting(d)' \/ pc'[d] = "dead"
                      /\ awaiting'[d] < mNextReplyID'
                      /\ awaiting'[d] # 0 =>
                           \A e \in Clients \ {d} : awaiting'[e] # awaiting'[d]
    BY <1>1 DEF IInv, Callers
  <2>4. CASE d = c
    BY <1>1, <1>3, <2>2, <2>3, <2>4
  <2>5. CASE d # c
    BY <1>1, <1>3, <2>1, <2>5 DEF IInv, Callers
  <2> QED
    BY <2>4, <2>5
<1>12. \A m : Asked(m) /\ m.replyID \notin DOMAIN mReplies => Asked(m)'
  BY <1>1, <1>3 DEF Asked, r
<1>13. RequestsOnce'
  <2>1. \A l \in Loopers : Unanswered(l)' <=> Unanswered(l)
    BY <1>1, <1>9 DEF Unanswered
  <2> SUFFICES ASSUME NEW l \in Loopers
               PROVE  /\ \A i \in 1 .. Len(queue[l]) :
                           /\ Asked(queue[l][i])'
                           /\ queue[l][i].replyID \notin DOMAIN mReplies'
                           /\ \A k \in Loopers :
                                /\ \A j \in 1 .. Len(queue[k]) :
                                     Same(queue[l][i], queue[k][j]) => k = l /\ j = i
                                /\ message[k] # NULL => ~Same(queue[l][i], message[k])
                      /\ Unanswered(l) =>
                           Asked(message[l])' /\ message[l].replyID \notin DOMAIN mReplies'
                      /\ message[l] # NULL =>
                           /\ message[l].replyID < mNextReplyID
                           /\ \A k \in Loopers \ {l} :
                                message[k] # NULL => ~Same(message[l], message[k])
    BY <1>1, <2>1 DEF RequestsOnce, Same, Asked
  <2>2. ASSUME NEW i \in 1 .. Len(queue[l])
        PROVE  /\ Asked(queue[l][i])'
               /\ queue[l][i].replyID \notin DOMAIN mReplies'
               /\ \A k \in Loopers :
                    /\ \A j \in 1 .. Len(queue[k]) :
                         Same(queue[l][i], queue[k][j]) => k = l /\ j = i
                    /\ message[k] # NULL => ~Same(queue[l][i], message[k])
    <3>1. /\ Asked(queue[l][i]) /\ queue[l][i].replyID \notin DOMAIN mReplies
          /\ \A k \in Loopers :
               /\ \A j \in 1 .. Len(queue[k]) :
                    Same(queue[l][i], queue[k][j]) => k = l /\ j = i
               /\ message[k] # NULL => ~Same(queue[l][i], message[k])
      BY DEF IInv, RequestsOnce
    <3>2. queue'[l][i] = queue[l][i]
      BY <1>1
    <3>3. queue[l][i].replyID # 0 =>
            queue[l][i].from \in Clients /\ awaiting'[queue[l][i].from] = queue[l][i].replyID
      BY <1>1, <1>3, <3>1 DEF Asked, r
    <3> QED
      BY <1>4, <3>1, <3>2, <3>3 DEF Asked
  <2>3. Unanswered(l) => Asked(message[l])' /\ message[l].replyID \notin DOMAIN mReplies'
    <3>1. Unanswered(l) => Asked(message[l]) /\ message[l].replyID \notin DOMAIN mReplies
      BY DEF IInv, RequestsOnce
    <3>2. message' = message
      BY <1>1
    <3> QED
      BY <1>1, <1>3, <1>4, <3>1, <3>2 DEF Asked, r
  <2>4. message[l] # NULL =>
          /\ message[l].replyID < mNextReplyID
          /\ \A k \in Loopers \ {l} : message[k] # NULL => ~Same(message[l], message[k])
    BY DEF IInv, RequestsOnce
  <2> QED
    BY <2>2, <2>3, <2>4
<1>14. Replies'
  <2>1. \A x \in DOMAIN mReplies' : mReplies'[x] \in Clients /\ awaiting'[mReplies'[x]] = x
    BY <1>3, <1>4, <1>5 DEF IInv, Replies, r
  <2>2. ASSUME NEW l \in Loopers, InHandler(l)', message[l] \notin accepted
        PROVE  \/ message[l].replyID = 0 \/ message[l].replyID \in DOMAIN mReplies'
               \/ \A d \in Clients : awaiting'[d] # message[l].replyID
    <3>1. \/ message[l].replyID = 0 \/ message[l].replyID \in DOMAIN mReplies
          \/ \A d \in Clients : awaiting[d] # message[l].replyID
      BY <1>9, <2>2 DEF IInv, Replies
    <3> QED
      BY <1>3, <1>4, <1>5, <3>1
  <2> QED
    BY <1>1, <2>1, <2>2 DEF IInv, Replies
<1>15. AwaitedIsUnderway'
  <2> SUFFICES ASSUME NEW d \in Clients, awaiting'[d] # 0
               PROVE  Underway(awaiting[d])' \/ awaiting'[d] \in lost'
    BY DEF AwaitedIsUnderway
  <2>1. d # c /\ awaiting'[d] = awaiting[d] /\ awaiting[d] # r
    BY <1>3, <1>5
  <2>2. Underway(awaiting[d]) \/ awaiting[d] \in lost
    BY <2>1 DEF IInv, AwaitedIsUnderway
  <2> QED
    BY <1>1, <1>4, <2>1, <2>2 DEF Underway, RepliesTo
<1> QED
  BY <1>6, <1>7, <1>8, <1>10, <1>11, <1>13, <1>14, <1>15 DEF IInv

LEMMA PostReplyStep ==
  ASSUME IInv, NEW l \in Loopers, NEW m \in accepted, PostReply(l, m) PROVE IInv'
<1> DEFINE r == m.replyID
<1>1. /\ pc[l] = "handle" /\ m = message[l] /\ accepted' = accepted \ {m} /\ l \in Threads
      /\ UNCHANGED <<mHandlers, mLock, sweep, mNextHandlerID, mID, registeredTo, mNextReplyID,
                     awaiting, posted, ownL, ownH, tmpL, tmpH, queue, stopping, message, running,
                     lost, next, joining>>
  BY DEF PostReply, ids, owners, locals, loopers, Threads
<1>2. m \in Request /\ m # NULL /\ Unanswered(l) /\ r # 0 /\ r \in 1 .. MaxPosts
  <2>1. m \in Request /\ r # 0
    BY DEF IInv, TypeOK, Replies
  <2>2. m # NULL
    BY <2>1, RosterAssumption DEF Request
  <2> QED
    BY <1>1, <2>1, <2>2, RosterAssumption DEF Unanswered, Request
<1>3. m.from \in Clients /\ awaiting[m.from] = r /\ r \notin DOMAIN mReplies
  BY <1>1, <1>2 DEF IInv, RequestsOnce, Asked
<1>4. mReplies' = With(mReplies, r, m.from) /\ UNCHANGED pc
  BY <1>3 DEF PostReply
<1>5. /\ DOMAIN mReplies' = DOMAIN mReplies \cup {r} /\ mReplies'[r] = m.from
      /\ \A x \in DOMAIN mReplies \ {r} : mReplies'[x] = mReplies[x]
  BY <1>4 DEF With
<1> HIDE DEF r
<1>6. TypeOK'
  BY <1>1, <1>2, <1>4, <1>5 DEF IInv, TypeOK
<1>7. GoesBack' /\ IdsGivenOnce' /\ IdsAgree'
  <2>1. EntriesGo /\ NobodyRises
    BY <1>1, NobodyRose DEF EntriesGo, IInv
  <2> QED
    BY <1>1, <1>4, <2>1, GoesBackStays, IdsFollow DEF IInv
<1>8. Stages /\ IdsGrow
  BY <1>1, <1>4, StagesStay DEF IdsGrow
<1>9. Handling'
  BY <1>1, <1>8, HandlingFollows DEF IInv
<1>10. Callers'
  BY <1>1, <1>4 DEF IInv, Callers, Waiting
<1>11. \A k \in Loopers \ {l} : message[k] # NULL =>
         message[k] # m /\ (message[k].replyID # 0 => message[k].replyID # r)
  BY <1>1, <1>2 DEF IInv, RequestsOnce, Same, r
<1>12. RequestsOnce'
  <2>1. \A k \in Loopers : Unanswered(k)' => Unanswered(k) /\ k # l
    BY <1>1, <1>4 DEF Unanswered
  <2> SUFFICES ASSUME NEW k \in Loopers
               PROVE  /\ \A i \in 1 .. Len(queue[k]) : queue[k][i].replyID # r
                      /\ Unanswered(k)' => message[k].replyID # r
    <3>1. \A x : x \in DOMAIN mReplies' <=> x \in DOMAIN mReplies \/ x = r
      BY <1>5
    <3> QED
      BY <1>1, <2>1, <3>1 DEF IInv, RequestsOnce, Asked, Same
  <2>2. ASSUME NEW i \in 1 .. Len(queue[k]) PROVE queue[k][i].replyID # r
    BY <1>1, <1>2, <2>2 DEF IInv, RequestsOnce, Same, r
  <2>3. Unanswered(k)' => message[k].replyID # r
    BY <1>2, <1>11, <2>1 DEF Unanswered
  <2> QED
    BY <2>2, <2>3
<1>13. Replies'
  <2>1. \A x \in DOMAIN mReplies' : mReplies'[x] \in Clients /\ awaiting'[mReplies'[x]] = x
    BY <1>1, <1>3, <1>5 DEF IInv, Replies
  <2>2. ASSUME NEW k \in Loopers, InHandler(k)', message[k] \notin accepted'
        PROVE  \/ message[k].replyID = 0 \/ message[k].replyID \in DOMAIN mReplies'
               \/ \A d \in Clients : awaiting'[d] # message[k].replyID
    <3>1. InHandler(k) /\ message[k] # NULL
      BY <1>8, <2>2 DEF Stages, IInv, Handling
    <3>2. CASE k = l
      BY <1>1, <1>5, <3>2 DEF r
    <3>3. CASE k # l
      <4>1. message[k] \notin accepted
        BY <1>1, <1>11, <2>2, <3>1, <3>3
      <4> QED
        BY <1>1, <1>5, <3>1, <4>1 DEF IInv, Replies
    <3> QED
      BY <3>2, <3>3
  <2> QED
    BY <1>1, <2>1, <2>2 DEF IInv, Replies
<1>14. AwaitedIsUnderway'
  BY <1>1, <1>5 DEF IInv, AwaitedIsUnderway, Underway, RepliesTo
<1> QED
  BY <1>6, <1>7, <1>9, <1>10, <1>12, <1>13, <1>14 DEF IInv
----------------------------------------------------------------------------
(* A looper's thread                                                       *)

LEMMA Taken ==
  ASSUME TypeOK, NEW l \in Loopers, queue[l] # <<>>,
         queue' = [queue EXCEPT ![l] = Tail(@)]
  PROVE  /\ queue' \in [Loopers -> Seq(Request)] /\ Head(queue[l]) \in Request
         /\ 1 \in 1 .. Len(queue[l]) /\ Head(queue[l]) = queue[l][1]
         /\ \A k \in Loopers \ {l} : queue'[k] = queue[k]
         /\ \A i \in 1 .. Len(queue'[l]) :
              i + 1 \in 1 .. Len(queue[l]) /\ queue'[l][i] = queue[l][i + 1]
         /\ \A r \in RepliesTo(queue[l]) : r \in RepliesTo(queue'[l]) \/ r = Head(queue[l]).replyID
<1>1. queue \in [Loopers -> Seq(Request)] /\ queue[l] \in Seq(Request)
  BY DEF TypeOK
<1>2. /\ queue'[l] = Tail(queue[l])
      /\ \A k \in Loopers \ {l} : queue'[k] = queue[k]
      /\ queue' \in [Loopers -> Seq(Request)]
  BY <1>1
<1>3. /\ Len(queue[l]) \in Nat \ {0} /\ Len(queue'[l]) = Len(queue[l]) - 1
      /\ Head(queue[l]) = queue[l][1] /\ Head(queue[l]) \in Request
      /\ \A i \in 1 .. Len(queue[l]) - 1 : queue'[l][i] = queue[l][i + 1]
  BY <1>1, <1>2
<1>4. ASSUME NEW r \in RepliesTo(queue[l])
      PROVE  r \in RepliesTo(queue'[l]) \/ r = Head(queue[l]).replyID
  <2>1. PICK i \in 1 .. Len(queue[l]) : r = queue[l][i].replyID /\ r # 0
    BY <1>4 DEF RepliesTo
  <2>2. CASE i = 1
    BY <1>3, <2>1, <2>2
  <2>3. CASE i # 1
    <3>1. i - 1 \in 1 .. Len(queue'[l]) /\ queue'[l][i - 1] = queue[l][i]
      BY <1>3, <2>3
    <3> QED
      BY <2>1, <3>1 DEF RepliesTo
  <2> QED
    BY <2>2, <2>3
<1> QED
  BY <1>2, <1>3, <1>4

LEMMA LoopTakesStep ==
  ASSUME IInv, NEW l \in Loopers, LoopTakes(l) PROVE IInv'
<1> DEFINE m == Head(queue[l])
<1>1. /\ pc[l] = "loop" /\ queue[l] # <<>> /\ l \in Threads
      /\ message' = [message EXCEPT ![l] = m] /\ queue' = [queue EXCEPT ![l] = Tail(@)]
      /\ Goto(l, "deliver")
      /\ UNCHANGED <<mHandlers, mLock, sweep, mNextHandlerID, mID, registeredTo, mNextReplyID,
                     mReplies, awaiting, accepted, posted, ownL, ownH, tmpL, tmpH, stopping,
                     running, lost, next, joining>>
  BY DEF LoopTakes, ids, calls, owners, locals, Threads
<1>2. pc' \in [Threads -> PCs] /\ pc'[l] = "deliver" /\ Others(l)
  BY <1>1, Went DEF Others, PCs, IInv
<1>3. /\ queue' \in [Loopers -> Seq(Request)] /\ m \in Request
      /\ 1 \in 1 .. Len(queue[l]) /\ m = queue[l][1]
      /\ \A k \in Loopers \ {l} : queue'[k] = queue[k]
      /\ \A i \in 1 .. Len(queue'[l]) :
           i + 1 \in 1 .. Len(queue[l]) /\ queue'[l][i] = queue[l][i + 1]
      /\ \A r \in RepliesTo(queue[l]) : r \in RepliesTo(queue'[l]) \/ r = m.replyID
  BY <1>1, Taken DEF IInv
<1> HIDE DEF m
<1>4. message[l] = NULL
  BY <1>1 DEF IInv, Handling, AtLoop
<1>5. /\ message' \in [Loopers -> Request \cup {NULL}] /\ message'[l] = m
      /\ \A k \in Loopers \ {l} : message'[k] = message[k]
      /\ m # NULL /\ m.replyID \in Nat
  BY <1>1, <1>3, RosterAssumption DEF IInv, TypeOK, Request
<1>6. TypeOK'
  BY <1>1, <1>2, <1>3, <1>5 DEF IInv, TypeOK
<1>7. GoesBack' /\ IdsGivenOnce' /\ IdsAgree'
  <2>1. BackOf(l)' /\ OthersJoin(l)
    BY <1>1, <1>2, RosterAssumption DEF BackOf, OthersJoin, IInv, GoesBack, Threads
  <2>2. EntriesGo /\ NobodyRises
    BY <1>1, NobodyRose DEF EntriesGo, IInv
  <2> QED
    BY <1>1, <1>2, <2>1, <2>2, GoesBackFollows, IdsFollow DEF IInv
<1>8. /\ \A k \in Loopers \ {l} : /\ InHandler(k)' <=> InHandler(k)
                                  /\ pc'[k] = pc[k] /\ (AtLoop(k)' <=> AtLoop(k))
      /\ ~InHandler(l)' /\ ~AtLoop(l)'
      /\ \A c \in Clients : (Waiting(c)' <=> Waiting(c)) /\ pc'[c] = pc[c]
  BY <1>1, <1>2, RosterAssumption DEF Others, InHandler, AtLoop, Waiting, Threads
<1>9. Handling'
  BY <1>1, <1>2, <1>5, <1>8 DEF IInv, Handling
<1>10. Callers'
  BY <1>1, <1>8 DEF IInv, Callers
<1>11. /\ Asked(m) /\ m.replyID \notin DOMAIN mReplies
       /\ \A k \in Loopers : /\ \A i \in 1 .. Len(queue'[k]) :
                                  ~Same(queue'[k][i], m)
                             /\ message[k] # NULL => ~Same(m, message[k]) /\ ~Same(message[k], m)
  <2>1. /\ Asked(m) /\ m.replyID \notin DOMAIN mReplies
        /\ \A k \in Loopers :
             /\ \A j \in 1 .. Len(queue[k]) : Same(m, queue[k][j]) => k = l /\ j = 1
             /\ message[k] # NULL => ~Same(m, message[k])
    BY <1>3 DEF IInv, RequestsOnce
  <2>2. \A k \in Loopers : message[k] # NULL => ~Same(message[k], m)
    BY <2>1 DEF Same
  <2>3. ASSUME NEW k \in Loopers, NEW i \in 1 .. Len(queue'[k]) PROVE ~Same(queue'[k][i], m)
    <3>1. CASE k = l
      <4>1. i + 1 \in 1 .. Len(queue[l]) /\ queue'[l][i] = queue[l][i + 1] /\ i + 1 # 1
        BY <1>3, <3>1
      <4> QED
        BY <2>1, <3>1, <4>1 DEF Same
    <3>2. CASE k # l
      BY <1>3, <2>1, <3>2 DEF Same
    <3> QED
      BY <3>1, <3>2
  <2> QED
    BY <2>1, <2>2, <2>3
<1>12. RequestsOnce'
  <2>1. \A k \in Loopers \ {l} : Unanswered(k)' <=> Unanswered(k)
    BY <1>1, <1>5, <1>8 DEF Unanswered
  <2> DEFINE old(k, i) == IF k = l THEN i + 1 ELSE i
  <2>2. \A k \in Loopers : \A i \in 1 .. Len(queue'[k]) :
          old(k, i) \in 1 .. Len(queue[k]) /\ queue'[k][i] = queue[k][old(k, i)]
    BY <1>3
  <2>3. \A k \in Loopers : \A i, j \in Int : old(k, i) = old(k, j) => i = j
    OBVIOUS
  <2> HIDE DEF old
  <2>0. awaiting' = awaiting /\ mReplies' = mReplies /\ mNextReplyID' = mNextReplyID
    BY <1>1
  <2> SUFFICES ASSUME NEW k \in Loopers
               PROVE  /\ \A i \in 1 .. Len(queue'[k]) :
                           /\ queue'[k][i].replyID # 0 =>
                                /\ queue'[k][i].from \in Clients
                                /\ awaiting'[queue'[k][i].from] = queue'[k][i].replyID
                           /\ queue'[k][i].replyID \notin DOMAIN mReplies'
                           /\ \A n \in Loopers :
                                /\ \A j \in 1 .. Len(queue'[n]) :
                                     Same(queue'[k][i], queue'[n][j]) => n = k /\ j = i
                                /\ message'[n] # NULL => ~Same(queue'[k][i], message'[n])
                      /\ Unanswered(k)' =>
                           /\ message'[k].replyID # 0 =>
                                /\ message'[k].from \in Clients
                                /\ awaiting'[message'[k].from] = message'[k].replyID
                           /\ message'[k].replyID \notin DOMAIN mReplies'
                      /\ message'[k] # NULL =>
                           /\ message'[k].replyID < mNextReplyID'
                           /\ \A n \in Loopers \ {k} :
                                message'[n] # NULL => ~Same(message'[k], message'[n])
    BY DEF RequestsOnce, Asked
  <2>4. ASSUME NEW i \in 1 .. Len(queue'[k])
        PROVE  /\ queue'[k][i].replyID # 0 =>
                    /\ queue'[k][i].from \in Clients
                    /\ awaiting[queue'[k][i].from] = queue'[k][i].replyID
               /\ queue'[k][i].replyID \notin DOMAIN mReplies
               /\ \A n \in Loopers :
                    /\ \A j \in 1 .. Len(queue'[n]) :
                         Same(queue'[k][i], queue'[n][j]) => n = k /\ j = i
                    /\ message'[n] # NULL => ~Same(queue'[k][i], message'[n])
    <3>1. /\ Asked(queue'[k][i]) /\ queue'[k][i].replyID \notin DOMAIN mReplies
          /\ \A n \in Loopers :
               /\ \A j \in 1 .. Len(queue[n]) :
                    Same(queue'[k][i], queue[n][j]) => n = k /\ j = old(k, i)
               /\ message[n] # NULL => ~Same(queue'[k][i], message[n])
      BY <2>2 DEF IInv, RequestsOnce
    <3>2. ASSUME NEW n \in Loopers, NEW j \in 1 .. Len(queue'[n]), Same(queue'[k][i], queue'[n][j])
          PROVE  n = k /\ j = i
      <4>1. n = k /\ old(n, j) = old(k, i)
        BY <2>2, <3>1, <3>2
      <4> QED
        BY <2>3, <4>1
    <3>3. \A n \in Loopers : message'[n] # NULL => ~Same(queue'[k][i], message'[n])
      BY <1>5, <1>11, <3>1
    <3> QED
      BY <3>1, <3>2, <3>3 DEF Asked
  <2>5. CASE k = l
    <3>1. m.replyID < mNextReplyID
      BY <1>5, <1>11 DEF Asked, IInv, Callers, TypeOK
    <3> QED
      BY <1>5, <1>11, <2>0, <2>4, <2>5, <3>1 DEF Asked
  <2>6. CASE k # l
    <3>1. Unanswered(k)' => Asked(message[k]) /\ message[k].replyID \notin DOMAIN mReplies
      BY <2>1, <2>6 DEF IInv, RequestsOnce
    <3>2. message[k] # NULL =>
            /\ message[k].replyID < mNextReplyID
            /\ \A n \in Loopers \ {k} : message[n] # NULL => ~Same(message[k], message[n])
      BY DEF IInv, RequestsOnce
    <3> QED
      BY <1>5, <1>11, <2>0, <2>4, <2>6, <3>1, <3>2 DEF Asked
  <2> QED
    BY <2>5, <2>6
<1>13. Replies'
  BY <1>1, <1>5, <1>8 DEF IInv, Replies
<1>14. AwaitedIsUnderway'
  <2> SUFFICES ASSUME NEW c \in Clients, awaiting[c] # 0
               PROVE  Underway(awaiting[c])' \/ awaiting[c] \in lost
    BY <1>1 DEF AwaitedIsUnderway
  <2>1. \A k \in Loopers : RepliesTo(queue[k])' = RepliesTo(queue'[k])
    BY DEF RepliesTo
  <2>2. Underway(awaiting[c]) \/ awaiting[c] \in lost
    BY DEF IInv, AwaitedIsUnderway
  <2>3. ASSUME NEW k \in Loopers, awaiting[c] \in RepliesTo(queue[k])
        PROVE  Underway(awaiting[c])'
    <3>1. CASE k = l
      <4>1. awaiting[c] \in RepliesTo(queue'[l]) \/ awaiting[c] = m.replyID
        BY <1>3, <2>3, <3>1
      <4> QED
        BY <1>1, <1>5, <2>1, <4>1 DEF Underway
    <3>2. CASE k # l
      BY <1>1, <1>3, <2>1, <2>3, <3>2 DEF Underway
    <3> QED
      BY <3>1, <3>2
  <2>4. ASSUME NEW k \in Loopers, message[k] # NULL, message[k].replyID = awaiting[c]
        PROVE  Underway(awaiting[c])'
    BY <1>1, <1>4, <1>5, <2>4 DEF Underway
  <2>5. awaiting[c] \in DOMAIN mReplies => Underway(awaiting[c])'
    BY <1>1 DEF Underway
  <2> QED
    BY <2>2, <2>3, <2>4, <2>5 DEF Underway
<1> QED
  BY <1>6, <1>7, <1>9, <1>10, <1>12, <1>13, <1>14 DEF IInv

(* What goes on with the queues when no message is added or taken: the     *)
(* messages with the loopers' threads may be done with.                    *)
LEMMA RequestsLeft ==
  ASSUME RequestsOnce, UNCHANGED <<queue, awaiting, mReplies, mNextReplyID>>,
         \A l \in Loopers : message'[l] = message[l] \/ message'[l] = NULL,
         \A l \in Loopers : Unanswered(l)' => Unanswered(l) /\ message'[l] = message[l]
  PROVE  RequestsOnce'
<1> SUFFICES ASSUME NEW l \in Loopers
             PROVE  /\ \A i \in 1 .. Len(queue'[l]) :
                         /\ Asked(queue[l][i])'
                         /\ queue'[l][i].replyID \notin DOMAIN mReplies'
                         /\ \A k \in Loopers :
                              /\ \A j \in 1 .. Len(queue'[k]) :
                                   Same(queue'[l][i], queue'[k][j]) => k = l /\ j = i
                              /\ message'[k] # NULL => ~Same(queue'[l][i], message'[k])
                    /\ Unanswered(l)' =>
                         Asked(message[l])' /\ message'[l].replyID \notin DOMAIN mReplies'
                    /\ message'[l] # NULL =>
                         /\ message'[l].replyID < mNextReplyID'
                         /\ \A k \in Loopers \ {l} :
                              message'[k] # NULL => ~Same(message'[l], message'[k])
  BY DEF RequestsOnce
<1>1. ASSUME NEW i \in 1 .. Len(queue'[l])
      PROVE  /\ Asked(queue[l][i])' /\ queue'[l][i].replyID \notin DOMAIN mReplies'
             /\ \A k \in Loopers :
                  /\ \A j \in 1 .. Len(queue'[k]) :
                       Same(queue'[l][i], queue'[k][j]) => k = l /\ j = i
                  /\ message'[k] # NULL => ~Same(queue'[l][i], message'[k])
  <2>1. Asked(queue[l][i])'
    BY DEF RequestsOnce, Asked
  <2> QED
    BY <2>1 DEF RequestsOnce
<1>2. Unanswered(l)' => Asked(message[l])' /\ message'[l].replyID \notin DOMAIN mReplies'
  BY DEF RequestsOnce, Asked
<1>3. message'[l] # NULL =>
        /\ message'[l].replyID < mNextReplyID'
        /\ \A k \in Loopers \ {l} : message'[k] # NULL => ~Same(message'[l], message'[k])
  BY DEF RequestsOnce
<1> QED
  BY <1>1, <1>2, <1>3

LEMMA DeliverMessageStep ==
  ASSUME IInv, NEW l \in Loopers, DeliverMessage(l) PROVE IInv'
<1> DEFINE m == message[l]
           id == m.target
           h == mHandlers[id].mHandler
<1>1. /\ pc[l] = "deliver" /\ l \in Threads
      /\ UNCHANGED <<mLock, sweep, mNextHandlerID, mID, registeredTo, mNextReplyID, mReplies,
                     awaiting, posted, ownL, ownH, tmpL, tmpH, queue, stopping, next, joining>>
  BY DEF DeliverMessage, ids, owners, locals, Threads
<1>2. m \in Request /\ m # NULL /\ Unanswered(l)
  BY <1>1 DEF IInv, Handling, TypeOK, Unanswered
<1>3. m.replyID \in 0 .. MaxPosts /\ id \in Ids
  BY <1>2 DEF Request
<1>4. \A k \in Loopers \ {l} : message[k] # NULL => ~Same(m, message[k])
  BY <1>2 DEF IInv, RequestsOnce
<1>5. CASE /\ Reachable(id) /\ running' = [running EXCEPT ![l] = h]
           /\ accepted' = IF m.replyID = 0 THEN accepted ELSE accepted \cup {m}
           /\ Goto(l, "handle") /\ UNCHANGED <<mHandlers, message, lost>>
  <2>1. id \in DOMAIN mHandlers /\ HandlerAlive(h) /\ h \in Handlers
    BY <1>5 DEF Reachable, Registered, IInv, TypeOK
  <2>2. /\ running' \in [Loopers -> Handlers \cup {NULL}] /\ running'[l] = h
        /\ \A k \in Loopers \ {l} : running'[k] = running[k]
    BY <1>5, <2>1 DEF IInv, TypeOK
  <2>3. registeredTo[id] = h /\ id \in DOMAIN registeredTo
    BY <2>1 DEF IInv, IdsGivenOnce
  <2> HIDE DEF h, id, m
  <2>4. pc' \in [Threads -> PCs] /\ pc'[l] = "handle" /\ Others(l)
    BY <1>1, <1>5, Went DEF Others, PCs, IInv
  <2>5. accepted' \subseteq Request /\ (\A x \in accepted' : x.replyID # 0)
        /\ (m.replyID # 0 => m \in accepted') /\ accepted \subseteq accepted'
        /\ accepted' \subseteq accepted \cup {m}
    BY <1>2, <1>5 DEF IInv, TypeOK, Replies
  <2>6. TypeOK'
    BY <1>1, <1>5, <2>2, <2>4, <2>5 DEF IInv, TypeOK
  <2>7. GoesBack'
    <3>1. BackOf(l)' /\ OthersJoin(l)
      BY <1>1, <2>4, RosterAssumption DEF BackOf, OthersJoin, IInv, GoesBack, Threads
    <3> QED
      BY <1>1, <2>4, <3>1, GoesBackFollows DEF IInv
  <2>8. IdsGivenOnce' /\ IdsAgree'
    <3>1. NobodyRises
      BY <1>1, <2>1, <2>2 DEF NobodyRises, HandlerAlive
    <3>2. EntriesGo
      BY <1>5 DEF EntriesGo
    <3> QED
      BY <1>1, <3>1, <3>2, IdsFollow DEF IInv
  <2>9. /\ \A k \in Loopers \ {l} : /\ InHandler(k)' <=> InHandler(k)
                                    /\ pc'[k] = pc[k] /\ (AtLoop(k)' <=> AtLoop(k))
        /\ InHandler(l)' /\ ~AtLoop(l)'
        /\ \A c \in Clients : (Waiting(c)' <=> Waiting(c)) /\ pc'[c] = pc[c]
    BY <1>1, <2>4, RosterAssumption DEF Others, InHandler, AtLoop, Waiting, Threads
  <2>10. Handling'
    <3>1. /\ message'[l] # NULL /\ message'[l].target \in DOMAIN registeredTo'
          /\ running'[l] = registeredTo'[message'[l].target]
      BY <1>1, <1>2, <1>5, <2>2, <2>3 DEF m, id
    <3> QED
      BY <1>1, <1>5, <2>2, <2>4, <2>9, <3>1 DEF IInv, Handling
  <2>11. Callers'
    BY <1>1, <2>9 DEF IInv, Callers
  <2>12. RequestsOnce'
    <3>1. ASSUME NEW k \in Loopers, Unanswered(k)' PROVE Unanswered(k) /\ message'[k] = message[k]
      <4>1. CASE k = l
        BY <1>2, <1>5, <4>1
      <4>2. CASE k # l
        <5>1. message[k] # NULL /\ (pc[k] = "deliver" \/ message[k] \in accepted')
          BY <1>5, <2>9, <3>1, <4>2 DEF Unanswered
        <5>2. message[k] = m => m.replyID = 0
          BY <1>4, <4>2, <5>1 DEF Same
        <5>3. message[k] \in accepted' => message[k] \in accepted
          BY <1>5, <2>5, <5>2
        <5> QED
          BY <1>5, <5>1, <5>3 DEF Unanswered
      <4> QED
        BY <4>1, <4>2
    <3> QED
      BY <1>1, <1>5, <3>1, RequestsLeft DEF IInv
  <2>13. Replies'
    <3>1. ASSUME NEW k \in Loopers, InHandler(k)', message'[k] \notin accepted'
          PROVE  \/ message'[k].replyID = 0 \/ message'[k].replyID \in DOMAIN mReplies'
                 \/ \A c \in Clients : awaiting'[c] # message'[k].replyID
      <4>1. CASE k = l
        BY <1>5, <2>5, <3>1, <4>1 DEF m
      <4>2. CASE k # l
        BY <1>1, <1>5, <2>5, <2>9, <3>1, <4>2 DEF IInv, Replies
      <4> QED
        BY <4>1, <4>2
    <3> QED
      BY <1>1, <2>5, <3>1 DEF IInv, Replies
  <2>14. AwaitedIsUnderway'
    BY <1>1, <1>5 DEF IInv, AwaitedIsUnderway, Underway, RepliesTo
  <2> QED
    BY <2>6, <2>7, <2>8, <2>10, <2>11, <2>12, <2>13, <2>14 DEF IInv
<1>6. CASE /\ mHandlers' = Without(mHandlers, id) /\ lost' = lost \cup RepliesTo(<<m>>)
           /\ Goto(l, "loop") /\ message' = [message EXCEPT ![l] = NULL]
           /\ UNCHANGED <<running, accepted>>
  <2> HIDE DEF id, m
  <2>1. RepliesTo(<<m>>) = {m.replyID} \ {0}
    BY DEF RepliesTo
  <2>2. lost' \subseteq 1 .. MaxPosts /\ (m.replyID # 0 => m.replyID \in lost') /\ lost \subseteq lost'
    <3>1. lost \subseteq 1 .. MaxPosts
      BY DEF IInv, TypeOK
    <3>2. \A r \in {m.replyID} \ {0} : r \in 1 .. MaxPosts
      BY <1>3, RosterAssumption
    <3> QED
      BY <1>6, <2>1, <3>1, <3>2
  <2>3. /\ message' \in [Loopers -> Request \cup {NULL}] /\ message'[l] = NULL
        /\ \A k \in Loopers \ {l} : message'[k] = message[k]
    BY <1>6 DEF IInv, TypeOK
  <2>4. pc' \in [Threads -> PCs] /\ pc'[l] = "loop" /\ Others(l)
    BY <1>1, <1>6, Went DEF Others, PCs, IInv
  <2>5. EntriesGo /\ NobodyRises
    BY <1>1, <1>6, Removed, NobodyRose DEF IInv
  <2>6. TypeOK'
    <3>1. /\ DOMAIN mHandlers' \subseteq Ids
          /\ \A x \in DOMAIN mHandlers' :
               mHandlers'[x] \in [mLooper : Loopers, mHandler : Handlers]
      BY <2>5, EntriesTyped DEF IInv
    <3> QED
      BY <1>1, <1>6, <2>2, <2>3, <2>4, <3>1 DEF IInv, TypeOK
  <2>7. GoesBack' /\ IdsGivenOnce' /\ IdsAgree'
    <3>1. BackOf(l)' /\ OthersJoin(l)
      BY <1>1, <2>4, RosterAssumption DEF BackOf, OthersJoin, IInv, GoesBack, Threads
    <3> QED
      BY <1>1, <2>4, <2>5, <3>1, GoesBackFollows, IdsFollow DEF IInv
  <2>8. /\ \A k \in Loopers \ {l} : /\ InHandler(k)' <=> InHandler(k)
                                    /\ pc'[k] = pc[k] /\ (AtLoop(k)' <=> AtLoop(k))
        /\ ~InHandler(l)'
        /\ \A c \in Clients : (Waiting(c)' <=> Waiting(c)) /\ pc'[c] = pc[c]
    BY <1>1, <2>4, RosterAssumption DEF Others, InHandler, AtLoop, Waiting, Threads
  <2>9. Handling'
    BY <1>1, <1>6, <2>3, <2>4, <2>8 DEF IInv, Handling
  <2>10. Callers'
    BY <1>1, <2>8 DEF IInv, Callers
  <2>11. RequestsOnce'
    <3>1. \A k \in Loopers : Unanswered(k)' => Unanswered(k) /\ message'[k] = message[k]
      BY <1>6, <2>3, <2>8 DEF Unanswered
    <3> QED
      BY <1>1, <2>3, <3>1, RequestsLeft DEF IInv
  <2>12. Replies'
    BY <1>1, <1>6, <2>3, <2>8 DEF IInv, Replies
  <2>13. AwaitedIsUnderway'
    <3> SUFFICES ASSUME NEW c \in Clients, awaiting[c] # 0
                 PROVE  Underway(awaiting[c])' \/ awaiting[c] \in lost'
      BY <1>1 DEF AwaitedIsUnderway
    <3>1. Underway(awaiting[c]) \/ awaiting[c] \in lost
      BY DEF IInv, AwaitedIsUnderway
    <3>2. CASE m.replyID = awaiting[c]
      BY <2>2, <3>2
    <3>3. CASE m.replyID # awaiting[c]
      BY <1>1, <2>2, <2>3, <3>1, <3>3 DEF Underway, RepliesTo, m
    <3> QED
      BY <3>2, <3>3
  <2> QED
    BY <2>6, <2>7, <2>9, <2>10, <2>11, <2>12, <2>13 DEF IInv
<1> QED
  BY <1>5, <1>6 DEF DeliverMessage

LEMMA HandlerReturnsStep ==
  ASSUME IInv, NEW l \in Loopers, HandlerReturns(l) PROVE IInv'
<1>1. /\ pc[l] = "handle" /\ message[l] \notin accepted /\ l \in Threads
      /\ running' = [running EXCEPT ![l] = NULL] /\ message' = [message EXCEPT ![l] = NULL]
      /\ UNCHANGED <<mHandlers, sweep, mNextHandlerID, mID, registeredTo, mNextReplyID, mReplies,
                     awaiting, accepted, posted, ownL, ownH, tmpL, tmpH, queue, stopping, lost,
                     joining>>
      /\ \/ Goto(l, "dtor") /\ Then(l, "loop") /\ UNCHANGED mLock
         \/ Continue(l, "loop")
  BY DEF HandlerReturns, DestroyHandler, ids, calls, owners, locals, Threads
<1>2. /\ message' \in [Loopers -> Request \cup {NULL}] /\ message'[l] = NULL
      /\ \A k \in Loopers \ {l} : message'[k] = message[k] /\ running'[k] = running[k]
      /\ running' \in [Loopers -> Handlers \cup {NULL}] /\ running'[l] = NULL
  BY <1>1 DEF IInv, TypeOK
<1>3. /\ pc' \in [Threads -> PCs] /\ next' \in [Threads -> Continuations] /\ Others(l)
      /\ mLock' = mLock
      /\ \/ pc'[l] = "dtor" /\ next'[l] = "loop"
         \/ pc'[l] = "loop" /\ next'[l] = "return"
  <2>1. CASE Goto(l, "dtor") /\ Then(l, "loop") /\ UNCHANGED mLock
    BY <1>1, <2>1, Went, WentWith DEF Others, PCs, Continuations, IInv
  <2>2. CASE Continue(l, "loop")
    <3>1. Goto(l, "loop") /\ Then(l, "return") /\ mLock' = mLock
      BY <2>2 DEF Continue, ReleasesLock, Goto
    <3> QED
      BY <1>1, <3>1, Went, WentWith DEF Others, PCs, Continuations, IInv
  <2> QED
    BY <1>1, <2>1, <2>2
<1>4. TypeOK'
  BY <1>1, <1>2, <1>3 DEF IInv, TypeOK
<1>5. GoesBack'
  <2>1. BackOf(l)' /\ OthersJoin(l)
    BY <1>1, <1>3 DEF BackOf, OthersJoin
  <2> QED
    BY <1>1, <1>3, <2>1, GoesBackFollows DEF IInv
<1>6. IdsGivenOnce' /\ IdsAgree'
  <2>1. EntriesGo
    BY <1>1 DEF EntriesGo
  <2>2. NobodyRises
    <3>1. NULL \notin Handlers
      BY RosterAssumption
    <3> QED
      BY <1>1, <1>2, <3>1 DEF NobodyRises, HandlerAlive
  <2> QED
    BY <1>1, <2>1, <2>2, IdsFollow DEF IInv
<1>7. /\ \A k \in Loopers \ {l} : /\ InHandler(k)' <=> InHandler(k)
                                  /\ pc'[k] = pc[k] /\ (AtLoop(k)' <=> AtLoop(k))
      /\ InHandler(l) /\ ~InHandler(l)' /\ pc'[l] # "deliver"
      /\ \A c \in Clients : (Waiting(c)' <=> Waiting(c)) /\ pc'[c] = pc[c]
  BY <1>1, <1>3, RosterAssumption DEF Others, InHandler, AtLoop, Waiting, Threads
<1>8. Handling'
  BY <1>1, <1>2, <1>7 DEF IInv, Handling
<1>9. Callers'
  BY <1>1, <1>7 DEF IInv, Callers
<1>10. RequestsOnce'
  <2>1. \A k \in Loopers : Unanswered(k)' => Unanswered(k) /\ message'[k] = message[k]
    BY <1>1, <1>2, <1>7 DEF Unanswered
  <2> QED
    BY <1>1, <1>2, <2>1, RequestsLeft DEF IInv
<1>11. Replies'
  BY <1>1, <1>2, <1>7 DEF IInv, Replies
<1>12. AwaitedIsUnderway'
  <2> SUFFICES ASSUME NEW c \in Clients, awaiting[c] # 0
               PROVE  Underway(awaiting[c])' \/ awaiting[c] \in lost'
    BY <1>1 DEF AwaitedIsUnderway
  <2>1. Underway(awaiting[c]) \/ awaiting[c] \in lost
    BY DEF IInv, AwaitedIsUnderway
  <2>2. CASE message[l].replyID = awaiting[c]
    <3>1. awaiting[c] \in DOMAIN mReplies
      BY <1>1, <1>7, <2>2 DEF IInv, Replies
    <3> QED
      BY <1>1, <3>1 DEF Underway
  <2>3. CASE message[l].replyID # awaiting[c]
    BY <1>1, <1>2, <2>1, <2>3 DEF Underway, RepliesTo
  <2> QED
    BY <2>2, <2>3
<1> QED
  BY <1>4, <1>5, <1>6, <1>8, <1>9, <1>10, <1>11, <1>12 DEF IInv
----------------------------------------------------------------------------
LEMMA InvInit == Init => IInv
<1> SUFFICES ASSUME Init PROVE IInv
  OBVIOUS
<1> USE DEF Init
<1>1. /\ MaxIds \in Nat /\ MaxPosts \in Nat /\ NULL \notin Threads /\ Clients \cap Loopers = {}
      /\ Threads = Clients \cup Loopers
  BY RosterAssumption DEF Threads
<1>2. /\ DOMAIN mHandlers = {} /\ DOMAIN mReplies = {} /\ DOMAIN registeredTo = {}
      /\ \A l \in Loopers : Len(queue[l]) = 0 /\ message[l] = NULL
      /\ \A c \in Clients : awaiting[c] = 0
      /\ accepted = {}
  OBVIOUS
<1>3. TypeOK
  <2>1. queue \in [Loopers -> Seq(Request)]
    <3>1. <<>> \in Seq(Request)
      OBVIOUS
    <3> QED
      BY <3>1
  <2> QED
    BY <1>1, <1>2, <2>1 DEF TypeOK, PCs, Continuations, Ids
<1>4. GoesBack /\ Handling
  BY <1>1, <1>2 DEF GoesBack, Handling, InHandler, AtLoop
<1>5. IdsGivenOnce /\ IdsAgree
  BY <1>2 DEF IdsGivenOnce, IdsAgree
<1>6. Callers /\ AwaitedIsUnderway
  BY <1>1, <1>2 DEF Callers, AwaitedIsUnderway, Waiting
<1>7. RequestsOnce
  BY <1>2 DEF RequestsOnce, Unanswered
<1>8. Replies
  BY <1>1, <1>2 DEF Replies, InHandler
<1> QED
  BY <1>3, <1>4, <1>5, <1>6, <1>7, <1>8 DEF IInv

LEMMA InvStep == IInv /\ [Next]_vars => IInv'
<1> SUFFICES ASSUME IInv, [Next]_vars PROVE IInv'
  OBVIOUS
<1>1. CASE UNCHANGED vars
  <2>1. /\ UNCHANGED <<mHandlers, mLock, sweep, mNextHandlerID, mID, registeredTo, ownL, ownH,
                       tmpL, tmpH, queue, stopping, message, running, lost, pc, next, joining>>
        /\ UNCHANGED calls
    BY <1>1 DEF vars, ids, owners, locals, loopers, threads
  <2>2. PlacesTyped'
    BY <2>1 DEF IInv, TypeOK, PlacesTyped
  <2>3. GoesBack' /\ Stages /\ EntriesGo /\ NobodyRises /\ QueuesKept
    BY <2>1, GoesBackStays, StagesStay, NobodyRose DEF IInv, EntriesGo, QueuesKept
  <2> QED
    BY <2>1, <2>2, <2>3, CallsStay, QuietStep
<1>2. ASSUME NEW t \in Threads, Step(t) \/ Call(t) PROVE IInv'
  BY <1>2, SweepStep, JoinStep, EndScopeLStep, HandlerDtorStep, EndScopeHStep, UnregisterStep,
     PostStep, StartSweepStep DEF Step, Call
<1>3. ASSUME NEW c \in Clients, ClientCall(c) \/ Answered(c) PROVE IInv'
  BY <1>3, RegisterStep, AskStep, FindLooperStep, AskUnknownStep, ReleaseLooperStep,
     ReleaseHandlerStep, AnsweredStep DEF ClientCall
<1>4. ASSUME NEW l \in Loopers, LoopStep(l) \/ \E m \in accepted : PostReply(l, m) PROVE IInv'
  BY <1>4, LoopTakesStep, LoopExitsStep, DeliverMessageStep, HandlerReturnsStep, PostReplyStep
    DEF LoopStep
<1> QED
  BY <1>1, <1>2, <1>3, <1>4 DEF Next

(* Ids, places, messages and calls stay as the inductive invariant says.   *)
THEOREM RosterInvariant == Spec => []IInv
<1>1. Init => IInv
  BY InvInit
<1>2. IInv /\ [Next]_vars => IInv'
  BY InvStep
<1> QED
  BY <1>1, <1>2, PTL DEF Spec

(* Whatever is registered, unregistered, released or destroyed meanwhile,  *)
(* deliverMessage() gives a message to the handler its id was given to,    *)
(* and a live handler carries the id it is registered under.               *)
THEOREM MessagesReachTheirHandler == Spec => []DeliveredRight
<1>1. IInv => DeliveredRight
  BY DEF IInv, DeliveredRight, NoMisdelivery, Handling, InHandler
<1> QED
  BY <1>1, RosterInvariant, PTL

(* Whichever clients ask, loopers die and handlers answer, a reply in      *)
(* mReplies is for the one client that waits for it, and a client in       *)
(* postAndAwaitResponse() has its request or its reply under way, or no    *)
(* handler could be given the request.                                     *)
THEOREM RepliesReachTheirCaller == Spec => []RepliesArrive
<1>1. IInv => RepliesMatch
  <2> SUFFICES ASSUME IInv, NEW r \in DOMAIN mReplies
               PROVE  /\ awaiting[mReplies[r]] = r
                      /\ \A c \in Clients : awaiting[c] = r => c = mReplies[r]
    BY DEF RepliesMatch
  <2>1. r # 0 /\ mReplies[r] \in Clients /\ awaiting[mReplies[r]] = r
    BY DEF IInv, Replies, TypeOK
  <2> QED
    BY <2>1 DEF IInv, Callers
<1>2. IInv => NoReplyIsLost
  BY DEF IInv, NoReplyIsLost, Callers, Waiting, AwaitedIsUnderway
<1> QED
  BY <1>1, <1>2, RosterInvariant, PTL DEF RepliesArrive

=============================================================================
