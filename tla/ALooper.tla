------------------------------ MODULE ALooper ------------------------------
(***************************************************************************)
(* One ALooper (src/foundation/ALooper.cpp): the time ordered event queue, *)
(* the LooperThread that start() creates or the calling thread it borrows, *)
(* and the protocol by which stop() and the destructor take the looper     *)
(* down.  Handlers are external code; while a thread runs one it may call  *)
(* back into the looper, stop it, or release the last reference to it.     *)
(*                                                                         *)
(* Every critical section of mLock (and of the LooperThread's own mLock)   *)
(* is one action: nothing inside one of them blocks except a wait on       *)
(* mQueueChangedCondition, which releases the lock.  `waiting' is the set  *)
(* of threads parked on that condition.                                    *)
(***************************************************************************)
EXTENDS Naturals, Sequences, FiniteSets

CONSTANTS
  Clients,        \* threads of the program that use the looper
  Handler,        \* the reference a handler object holds on its looper
  MaxStarts,      \* bound: LooperThreads created
  MaxPosts,       \* bound: messages posted
  MaxTime,        \* bound: last instant of the clock
  Delays,         \* the delays passed to post()
  SerialControl,  \* the owner never overlaps start() with an earlier run
  NULL

LooperThreads == 1 .. MaxStarts
Threads == Clients \cup LooperThreads
Holders == Clients \cup {Handler}

ASSUME LooperAssumption ==
  /\ MaxStarts \in Nat /\ MaxPosts \in Nat /\ MaxTime \in Nat
  /\ Delays \subseteq Nat
  /\ SerialControl \in BOOLEAN
  /\ Clients \cap LooperThreads = {}
  /\ Handler \notin Threads
  /\ NULL \notin Threads

VARIABLES
  mThread,         \* the current LooperThread, or NULL
  mRunningLocally, \* start(true) is borrowing its caller
  mEventQueue,     \* events ordered by due time
  waiting,         \* threads waiting on mQueueChangedCondition
  deadline,        \* when a waiting thread's waitRelative() times out
  mExitPending,    \* Thread::mExitPending of each LooperThread
  mRunning,        \* Thread::mRunning of each LooperThread
  pc,              \* where each thread is
  caller,          \* where the call a thread is making returns to
  event,           \* loop()'s local: the event taken off the queue
  stopping,        \* stop()'s locals: the thread to join, or the local flag
  refs,            \* who holds a strong reference to the looper
  alive,           \* the ALooper object has not been freed
  now,             \* the monotonic clock
  posted,          \* messages posted so far
  delivered,       \* history: events in the order their handlers began
  selfStopped,     \* history: a handler stopped its own looper
  afterFree        \* history: the threads that ran a member of a freed looper

vars == <<mThread, mRunningLocally, mEventQueue, waiting, deadline,
          mExitPending, mRunning, pc, caller, event, stopping, refs, alive,
          now, posted, delivered, selfStopped, afterFree>>

queueVars   == <<mEventQueue, now, posted>>
controlVars == <<mThread, mRunningLocally>>
threadVars  == <<mExitPending, mRunning>>
objectVars  == <<refs, alive, afterFree>>
historyVars == <<delivered, selfStopped>>

Never == MaxTime + 1    \* the deadline of an untimed wait()
Event == [mWhenUs : 0 .. MaxTime, mMessage : 1 .. MaxPosts]

PCs == {"idle", "unborn", "ready", "loop", "wait", "deliver", "handle",
        "looped", "quit", "exited",
        "requestExit", "signal", "join", "joining", "stopped"}
StopPCs == {"requestExit", "signal", "join", "joining", "stopped"}

Init ==
  /\ mThread = NULL /\ mRunningLocally = FALSE
  /\ mEventQueue = <<>>
  /\ waiting = {} /\ deadline = [t \in Threads |-> Never]
  /\ mExitPending = [g \in LooperThreads |-> FALSE]
  /\ mRunning = [g \in LooperThreads |-> FALSE]
  /\ pc = [t \in Threads |-> IF t \in Clients THEN "idle" ELSE "unborn"]
  /\ caller = [t \in Threads |-> "idle"]
  /\ event = [t \in Threads |-> NULL]
  /\ stopping = [t \in Threads |-> NULL]
  /\ refs = Holders /\ alive = TRUE
  /\ now = 0 /\ posted = 0
  /\ delivered = <<>> /\ selfStopped = FALSE /\ afterFree = {}

Goto(t, label) == pc' = [pc EXCEPT ![t] = label]

(* A thread runs code of its own: a client between calls, or a handler.    *)
InUserCode(t) == pc[t] \in {"idle", "handle"}

(* The thread may name the looper: it holds a reference, or it is running a *)
(* handler of the looper while the handler still holds one.                *)
CanCall(t) ==
  /\ InUserCode(t)
  /\ alive /\ \/ t \in refs
              \/ pc[t] = "handle" /\ Handler \in refs

(* Condition::signal(): one waiting thread, if any, is woken.              *)
Signal(waiters) ==
  IF waiters = {} THEN waiting' = {}
  ELSE \E t \in waiters : waiting' = waiters \ {t}

----------------------------------------------------------------------------
(* The queue *)

(* How many events post() walks over: the first ones, as long as they are   *)
(* not due later than whenUs.                                              *)
WalksTo(q, whenUs, n) ==
  /\ \A i \in 1 .. n : q[i].mWhenUs <= whenUs
  /\ n < Len(q) => q[n + 1].mWhenUs > whenUs
Walked(q, whenUs) == CHOOSE n \in 0 .. Len(q) : WalksTo(q, whenUs, n)

Ahead(q, whenUs) == SubSeq(q, 1, Walked(q, whenUs))
Behind(q, whenUs) == SubSeq(q, Walked(q, whenUs) + 1, Len(q))
InsertedFirst(q, e) ==    \* mutant: `<' for `<=' in post()'s search
  SelectSeq(q, LAMBDA x : x.mWhenUs < e.mWhenUs) \o <<e>>
    \o SelectSeq(q, LAMBDA x : x.mWhenUs >= e.mWhenUs)
Inserted(q, e) == Ahead(q, e.mWhenUs) \o <<e>> \o Behind(q, e.mWhenUs)

(* Only an event that becomes the head of the queue changes what loop() is *)
(* waiting for.                                                            *)
WakeIfNotHead(q, e) ==    \* mutant: the test inverted
  IF Ahead(q, e.mWhenUs) # <<>> THEN Signal(waiting) ELSE UNCHANGED waiting
WakeIfHead(q, e) ==
  IF Ahead(q, e.mWhenUs) = <<>> THEN Signal(waiting) ELSE UNCHANGED waiting

(* post(): called through the roster, which holds a promoted reference.    *)
Post(t, delayUs) ==
  /\ InUserCode(t) /\ refs # {}
  /\ posted < MaxPosts /\ now + delayUs <= MaxTime
  /\ LET e == [mWhenUs |-> now + delayUs, mMessage |-> posted + 1] IN
       /\ mEventQueue' = Inserted(mEventQueue, e)
       /\ WakeIfHead(mEventQueue, e)
  /\ posted' = posted + 1
  /\ UNCHANGED <<deadline, pc, caller, event, stopping, now>>
  /\ UNCHANGED <<controlVars, threadVars, objectVars, historyVars>>

(* loop(), up to the point where it leaves the critical section.           *)
LoopExits(t) ==
  /\ mThread = NULL /\ ~mRunningLocally
  /\ Goto(t, "quit")
  /\ UNCHANGED <<mEventQueue, waiting, deadline, event>>

(* wait() when the queue is empty, else waitRelative() up to the head.     *)
WaitsFor(q) == IF q = <<>> THEN Never ELSE Head(q).mWhenUs

LoopWaits(t) ==
  /\ mThread # NULL \/ mRunningLocally
  /\ mEventQueue # <<>> => Head(mEventQueue).mWhenUs > now
  /\ deadline' = [deadline EXCEPT ![t] = WaitsFor(mEventQueue)]
  /\ waiting' = waiting \cup {t}
  /\ Goto(t, "wait")
  /\ UNCHANGED <<mEventQueue, event>>

Erased(q) == Tail(q)
Due(q) == q # <<>> /\ Head(q).mWhenUs <= now

LoopTakes(t) ==
  /\ mThread # NULL \/ mRunningLocally
  /\ Due(mEventQueue)
  /\ event' = [event EXCEPT ![t] = Head(mEventQueue)]
  /\ mEventQueue' = Erased(mEventQueue)
  /\ Goto(t, "deliver")
  /\ UNCHANGED <<waiting, deadline>>

(* A freed looper's members hold whatever the allocator left there: the    *)
(* outcome is recorded and the thread is taken to leave.                   *)
LoopOnFreed(t) ==
  /\ pc[t] = "loop" /\ ~alive
  /\ afterFree' = afterFree \cup {t}
  /\ Goto(t, "quit")
  /\ UNCHANGED <<waiting, deadline, caller, event, stopping, refs, alive>>
  /\ UNCHANGED <<queueVars, controlVars, threadVars, historyVars>>

Loop(t) ==
  /\ pc[t] = "loop" /\ alive
  /\ LoopExits(t) \/ LoopWaits(t) \/ LoopTakes(t)
  /\ UNCHANGED <<caller, stopping, now, posted>>
  /\ UNCHANGED <<controlVars, threadVars, objectVars, historyVars>>

(* wait() and waitRelative() return: signalled, timed out, or spuriously.  *)
(* loop() then returns true without looking at the queue.                  *)
Signalled(t) == pc[t] = "wait" /\ t \notin waiting
TimedOut(t)  == pc[t] = "wait" /\ deadline[t] <= now

WaitReturns(t) ==
  /\ pc[t] = "wait"
  /\ waiting' = waiting \ {t}
  /\ afterFree' = IF alive THEN afterFree ELSE afterFree \cup {t}
  /\ Goto(t, "looped")
  /\ UNCHANGED <<deadline, caller, event, stopping, refs, alive>>
  /\ UNCHANGED <<queueVars, controlVars, threadVars, historyVars>>

(* gLooperRoster.deliverMessage() reaches the handler, ...                 *)
Deliver(t) ==
  /\ pc[t] = "deliver"
  /\ delivered' = Append(delivered, event[t])
  /\ Goto(t, "handle")
  /\ caller' = [caller EXCEPT ![t] = "handle"]
  /\ UNCHANGED <<waiting, deadline, event, stopping, selfStopped>>
  /\ UNCHANGED <<queueVars, controlVars, threadVars, objectVars>>

(* ... the handler returns, and so does loop(), without touching `this'.   *)
HandlerReturns(t) ==
  /\ pc[t] = "handle"
  /\ Goto(t, "looped")
  /\ caller' = [caller EXCEPT ![t] = "idle"]
  /\ event' = [event EXCEPT ![t] = NULL]
  /\ UNCHANGED <<waiting, deadline, stopping>>
  /\ UNCHANGED <<queueVars, controlVars, threadVars, objectVars, historyVars>>

----------------------------------------------------------------------------
(* The threads that call loop() *)

(* A thread inside start(true), or a LooperThread still in its threadLoop. *)
InLoop(t) == pc[t] \in {"loop", "wait", "deliver", "handle", "looped", "quit"}
           \/ caller[t] = "handle"

(* do {} while (loop()); return OK;                                        *)
LocalLooped(c) ==
  /\ c \in Clients
  /\ \/ pc[c] = "looped" /\ Goto(c, "loop")
     \/ pc[c] = "quit" /\ Goto(c, "idle")
  /\ UNCHANGED <<waiting, deadline, caller, event, stopping>>
  /\ UNCHANGED <<queueVars, controlVars, threadVars, objectVars, historyVars>>

(* Thread::_threadLoop's first round: readyToRun(), then threadLoop()      *)
(* unless the thread has already been asked to exit.                       *)
ThreadBegins(g) ==
  /\ pc[g] = "ready"
  /\ Goto(g, IF mExitPending[g] THEN "looped" ELSE "loop")
  /\ UNCHANGED <<waiting, deadline, caller, event, stopping>>
  /\ UNCHANGED <<queueVars, controlVars, threadVars, objectVars, historyVars>>

(* Thread::_threadLoop after threadLoop(): exit if it returned false or an *)
(* exit is pending, else go round again.                                   *)
ThreadLooped(g) ==
  /\ g \in LooperThreads /\ pc[g] \in {"looped", "quit"}
  /\ IF pc[g] = "quit" \/ mExitPending[g]
       THEN /\ mExitPending' = [mExitPending EXCEPT ![g] = TRUE]
            /\ mRunning' = [mRunning EXCEPT ![g] = FALSE]
            /\ Goto(g, "exited")
       ELSE Goto(g, "loop") /\ UNCHANGED threadVars
  /\ UNCHANGED <<waiting, deadline, caller, event, stopping>>
  /\ UNCHANGED <<queueVars, controlVars, objectVars, historyVars>>

----------------------------------------------------------------------------
(* start() and stop() *)

(* The owner's discipline when SerialControl: no start() during a stop(),  *)
(* while an earlier start(true) has not returned, or after a handler       *)
(* stopped the looper it runs on (stop() does not wait for that thread).   *)
MayStart ==
  SerialControl => /\ ~selfStopped
                   /\ \A c \in Clients : ~InLoop(c)
                   /\ \A t \in Threads : pc[t] \notin StopPCs

StartLocal(c) ==
  /\ c \in Clients /\ pc[c] = "idle" /\ CanCall(c) /\ MayStart
  /\ mThread = NULL /\ ~mRunningLocally
  /\ mRunningLocally' = TRUE
  /\ Goto(c, "loop")
  /\ UNCHANGED <<mThread, waiting, deadline, caller, event, stopping>>
  /\ UNCHANGED <<queueVars, threadVars, objectVars, historyVars>>

(* The next LooperThread to be created.                                    *)
Fresh(g) == g \in LooperThreads /\ \A h \in LooperThreads : pc[h] = "unborn" <=> h >= g

(* A new LooperThread; run() creates the OS thread or fails, in which case *)
(* mThread is cleared again and nothing has changed.                       *)
StartThread(t, g) ==
  /\ CanCall(t) /\ MayStart /\ Fresh(g)
  /\ mThread = NULL /\ ~mRunningLocally
  /\ mThread' = g
  /\ mRunning' = [mRunning EXCEPT ![g] = TRUE]
  /\ mExitPending' = [mExitPending EXCEPT ![g] = FALSE]
  /\ Goto(g, "ready")
  /\ UNCHANGED <<mRunningLocally, waiting, deadline, caller, event, stopping>>
  /\ UNCHANGED <<queueVars, objectVars, historyVars>>

(* The critical section of stop(): thread = mThread, runningLocally =      *)
(* mRunningLocally, then both are reset.  `stopping' holds the two locals: *)
(* a thread, "local" when only the flag was set.                           *)
TakeDown(t) ==
  /\ stopping' = [stopping EXCEPT ![t] = IF mThread # NULL THEN mThread ELSE t]
  /\ mThread' = NULL /\ mRunningLocally' = FALSE
  /\ selfStopped' = (selfStopped \/ (caller[t] = "handle" /\ t = mThread))
  /\ Goto(t, IF mThread # NULL THEN "requestExit" ELSE "signal")

Stop(t) ==
  /\ CanCall(t)
  /\ mThread # NULL \/ mRunningLocally
  /\ TakeDown(t)
  /\ UNCHANGED <<waiting, deadline, caller, event, delivered>>
  /\ UNCHANGED <<queueVars, threadVars, objectVars>>

(* thread->requestExit().                                                  *)
RequestExit(t) ==
  /\ pc[t] = "requestExit"
  /\ mExitPending' = [mExitPending EXCEPT ![stopping[t]] = TRUE]
  /\ Goto(t, "signal")
  /\ UNCHANGED <<waiting, deadline, caller, event, stopping, mRunning>>
  /\ UNCHANGED <<queueVars, controlVars, objectVars, historyVars>>

(* stop() waits only for a looper thread, and not on that thread itself.   *)
NeverWaits(t) == FALSE     \* mutant of MustWait: stop() only asks
MustWait(t) == stopping[t] \in LooperThreads \ {t}

(* mQueueChangedCondition.signal(), outside mLock.                         *)
NoSignal == UNCHANGED waiting    \* mutant of SignalStop: the wakeup left out
SignalStop == Signal(waiting)

StopSignals(t) ==
  /\ pc[t] = "signal"
  /\ SignalStop
  /\ Goto(t, IF MustWait(t) THEN "join" ELSE "stopped")
  /\ UNCHANGED <<deadline, caller, event, stopping>>
  /\ UNCHANGED <<queueVars, controlVars, threadVars, objectVars, historyVars>>

(* thread->requestExitAndWait(): ask, wait until it no longer runs, and    *)
(* clear the flag.                                                         *)
Join(t) ==
  /\ pc[t] = "join"
  /\ mExitPending' = [mExitPending EXCEPT ![stopping[t]] = TRUE]
  /\ Goto(t, "joining")
  /\ UNCHANGED <<waiting, deadline, caller, event, stopping, mRunning>>
  /\ UNCHANGED <<queueVars, controlVars, objectVars, historyVars>>

Asked(g) == mExitPending[g]      \* mutant of Exited: wait for the flag only
Exited(g) == ~mRunning[g]

Joined(t) ==
  /\ pc[t] = "joining" /\ Exited(stopping[t])
  /\ mExitPending' = [mExitPending EXCEPT ![stopping[t]] = FALSE]
  /\ Goto(t, "stopped")
  /\ UNCHANGED <<waiting, deadline, caller, event, stopping, mRunning>>
  /\ UNCHANGED <<queueVars, controlVars, objectVars, historyVars>>

(* stop() returns to its caller; when that is ~ALooper, the object is then *)
(* freed with its queue.                                                   *)
StopReturns(t) ==
  /\ pc[t] = "stopped"
  /\ alive' = (refs # {})
  /\ mEventQueue' = IF refs # {} THEN mEventQueue ELSE <<>>
  /\ stopping' = [stopping EXCEPT ![t] = NULL]
  /\ Goto(t, caller[t])
  /\ UNCHANGED <<waiting, deadline, caller, event, refs, afterFree, now, posted>>
  /\ UNCHANGED <<controlVars, threadVars, historyVars>>

----------------------------------------------------------------------------
(* References *)

(* A thread may release its own reference, and the handler's while it runs *)
(* the handler.                                                            *)
MayRelease(t, r) ==
  /\ InUserCode(t) /\ r \in refs
  /\ r = t \/ (r = Handler /\ pc[t] = "handle")

(* Releasing a reference; the last one runs ~ALooper, that is stop().      *)
Release(t, r) ==
  /\ MayRelease(t, r)
  /\ refs' = refs \ {r}
  /\ \/ refs' # {} /\ UNCHANGED <<pc, stopping, controlVars, selfStopped, alive, mEventQueue>>
     \/ /\ refs' = {} /\ (mThread # NULL \/ mRunningLocally)
        /\ TakeDown(t)
        /\ UNCHANGED <<alive, mEventQueue>>
     \/ /\ refs' = {} /\ mThread = NULL /\ ~mRunningLocally
        /\ alive' = FALSE /\ mEventQueue' = <<>>
        /\ UNCHANGED <<pc, stopping, controlVars, selfStopped>>
  /\ UNCHANGED <<waiting, deadline, caller, event, now, posted, delivered, afterFree>>
  /\ UNCHANGED threadVars

Tick ==
  /\ now < MaxTime
  /\ now' = now + 1
  /\ UNCHANGED <<mEventQueue, waiting, deadline, pc, caller, event, stopping, posted>>
  /\ UNCHANGED <<controlVars, threadVars, objectVars, historyVars>>
----------------------------------------------------------------------------
(* What a thread does on its own, once a call or a loop is under way.      *)
Step(t) ==
  \/ Loop(t) \/ LoopOnFreed(t) \/ Deliver(t)
  \/ RequestExit(t) \/ StopSignals(t) \/ Join(t) \/ Joined(t) \/ StopReturns(t)
  \/ LocalLooped(t) \/ ThreadLooped(t)

(* What the program decides to do.                                         *)
Call(t) ==
  \/ \E d \in Delays : Post(t, d)
  \/ StartLocal(t)
  \/ \E g \in LooperThreads : StartThread(t, g)
  \/ Stop(t)
  \/ \E r \in Holders : Release(t, r)

Next ==
  \/ \E t \in Threads : Step(t) \/ Call(t) \/ WaitReturns(t) \/ HandlerReturns(t)
  \/ \E g \in LooperThreads : ThreadBegins(g)
  \/ Tick

Spec == Init /\ [][Next]_vars

(* The threads are scheduled, the clock runs, a wait that is signalled or  *)
(* timed out returns, and handlers return.  Nothing makes the program call *)
(* the looper, and nothing makes a wait return spuriously.                 *)
Fairness ==
  /\ \A t \in Threads :
       /\ WF_vars(Step(t))
       /\ WF_vars(HandlerReturns(t))
       /\ WF_vars((Signalled(t) \/ TimedOut(t)) /\ WaitReturns(t))
  /\ \A g \in LooperThreads : WF_vars(ThreadBegins(g))
  /\ WF_vars(Tick)

FairSpec == Spec /\ Fairness

----------------------------------------------------------------------------
(* Properties *)

Contents(q) == {q[i] : i \in 1 .. Len(q)}
Handling == {t \in Threads : caller[t] = "handle"}

(* Every variable stays in its domain.                                     *)
TypeOK ==
  /\ mThread \in LooperThreads \cup {NULL} /\ mRunningLocally \in BOOLEAN
  /\ mEventQueue \in Seq(Event)
  /\ waiting \subseteq Threads /\ deadline \in [Threads -> 0 .. Never]
  /\ mExitPending \in [LooperThreads -> BOOLEAN]
  /\ mRunning \in [LooperThreads -> BOOLEAN]
  /\ pc \in [Threads -> PCs] /\ caller \in [Threads -> {"idle", "handle"}]
  /\ event \in [Threads -> Event \cup {NULL}]
  /\ stopping \in [Threads -> Threads \cup {NULL}]
  /\ refs \subseteq Holders /\ alive \in BOOLEAN
  /\ now \in 0 .. MaxTime /\ posted \in 0 .. MaxPosts
  /\ delivered \in Seq(Event)
  /\ selfStopped \in BOOLEAN /\ afterFree \subseteq Threads

(* What a looper promises: module MessageQueue, of which the pending        *)
(* messages are those in the queue and in the hand of a thread that has    *)
(* yet to reach the handler.                                               *)
Promises == INSTANCE MessageQueue WITH
  pending <- Contents(mEventQueue)
               \cup {event[t] : t \in {u \in Threads : pc[u] = "deliver"}},
  open <- alive
Implements == Promises!Spec

(* A looper's handlers never run concurrently: two threads never are in    *)
(* onMessageReceived() of one looper at once, across stop() and start().   *)
SerialHandlers == \A t, u \in Handling : t = u

(* No LooperThread runs loop(), or wakes inside it, on a looper that was   *)
(* freed (the comments in stop() and at the end of loop()).  A client that *)
(* lent its thread to start(true) may: nothing waits for it.               *)
NeverUsedAfterFree == afterFree \subseteq Clients

(* When stop() returns to a thread other than the looper's, the thread it  *)
(* took down has left its loop for good.                                   *)
StopJoins ==
  \A t \in Threads :
    pc[t] = "stopped" /\ stopping[t] \in LooperThreads \ {t}
      => pc[stopping[t]] = "exited"

(* stop() returns, the thread that was parked on the condition and every   *)
(* handler notwithstanding.                                                *)
StopTerminates ==
  \A t \in Threads : (pc[t] \in StopPCs) ~> (pc[t] \notin StopPCs)

(* A message that is queued reaches its handler unless the looper is taken *)
(* down first: no wakeup is lost although post() signals only at the head. *)
Delivered(m) == \E i \in 1 .. Len(delivered) : delivered[i].mMessage = m
TakenDown == mThread = NULL /\ ~mRunningLocally
EventuallyDelivered ==
  \A m \in 1 .. MaxPosts :
    (posted >= m /\ ~TakenDown) ~> (Delivered(m) \/ TakenDown)
=============================================================================
