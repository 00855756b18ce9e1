--------------------------- MODULE ALooperProofs ---------------------------
(***************************************************************************)
(* Proofs about ALooper: the types, that stop() has joined when it says    *)
(* so, that the owner's discipline makes a looper's handlers serial and    *)
(* its threads end before it is freed, and that under it the looper is a   *)
(* MessageQueue, whatever the number of clients and messages.              *)
(***************************************************************************)
EXTENDS ALooper, FiniteSetTheorems, SequenceTheorems, TLAPS

(* A running LooperThread is one that was started and has not exited.      *)
Ended(g) == pc[g] \in {"unborn", "exited"}
RunningIsLive == \A g \in LooperThreads : mRunning[g] <=> ~Ended(g)

(* Only threads that exist are current, or are being stopped.              *)
KnownIsBorn ==
  /\ mThread # NULL => pc[mThread] # "unborn"
  /\ \A t \in Threads : stopping[t] \in LooperThreads => pc[stopping[t]] # "unborn"
  /\ \A t \in Threads :
       pc[t] \in {"requestExit", "join", "joining"} => stopping[t] \in LooperThreads

ControlTypeOK ==
  /\ mThread \in LooperThreads \cup {NULL}
  /\ mRunningLocally \in BOOLEAN
  /\ mExitPending \in [LooperThreads -> BOOLEAN]
  /\ mRunning \in [LooperThreads -> BOOLEAN]
  /\ pc \in [Threads -> PCs]
  /\ caller \in [Threads -> {"idle", "handle"}]
  /\ stopping \in [Threads -> Threads \cup {NULL}]
  /\ selfStopped \in BOOLEAN

JoinInv == ControlTypeOK /\ RunningIsLive /\ KnownIsBorn /\ StopJoins

LEMMA JoinInvInit == Init => JoinInv
<1> SUFFICES ASSUME Init PROVE JoinInv
  OBVIOUS
<1> USE LooperAssumption DEF Init, Threads
<1>1. ControlTypeOK
  BY DEF ControlTypeOK, PCs
<1>2. RunningIsLive
  BY DEF RunningIsLive, Ended
<1>3. KnownIsBorn /\ StopJoins
  BY DEF KnownIsBorn, StopJoins
<1> QED
  BY <1>1, <1>2, <1>3 DEF JoinInv

LEMMA JoinInvStep == JoinInv /\ [Next]_vars => JoinInv'
<1> SUFFICES ASSUME JoinInv, [Next]_vars PROVE JoinInv'
  OBVIOUS
<1> USE LooperAssumption DEF JoinInv, ControlTypeOK, RunningIsLive,
      Ended, KnownIsBorn, StopJoins, Threads, PCs, Goto, controlVars, threadVars,
      historyVars, objectVars, queueVars
<1>1. ASSUME NEW t \in Threads, Loop(t) PROVE JoinInv'
  BY <1>1 DEF Loop, LoopExits, LoopWaits, LoopTakes
<1>2. ASSUME NEW t \in Threads, LoopOnFreed(t) PROVE JoinInv'
  BY <1>2 DEF LoopOnFreed
<1>3. ASSUME NEW t \in Threads, Deliver(t) PROVE JoinInv'
  BY <1>3 DEF Deliver
<1>4. ASSUME NEW t \in Threads, RequestExit(t) PROVE JoinInv'
  BY <1>4 DEF RequestExit
<1>5. ASSUME NEW t \in Threads, StopSignals(t) PROVE JoinInv'
  BY <1>5 DEF StopSignals, MustWait
<1>6. ASSUME NEW t \in Threads, Join(t) PROVE JoinInv'
  BY <1>6 DEF Join
<1>7. ASSUME NEW t \in Threads, Joined(t) PROVE JoinInv'
  BY <1>7 DEF Joined, Exited
<1>8. ASSUME NEW t \in Threads, StopReturns(t) PROVE JoinInv'
  BY <1>8 DEF StopReturns
<1>9. ASSUME NEW t \in Threads, LocalLooped(t) PROVE JoinInv'
  BY <1>9 DEF LocalLooped
<1>10. ASSUME NEW t \in Threads, ThreadLooped(t) PROVE JoinInv'
  <2>1. CASE pc[t] = "quit" \/ mExitPending[t]
    <3>1. /\ mRunning' = [mRunning EXCEPT ![t] = FALSE]
          /\ mExitPending' = [mExitPending EXCEPT ![t] = TRUE]
          /\ pc' = [pc EXCEPT ![t] = "exited"]
          /\ UNCHANGED <<mThread, mRunningLocally, caller, stopping, selfStopped>>
          /\ t \in LooperThreads
      BY <1>10, <2>1 DEF ThreadLooped
    <3>2. ControlTypeOK'
      BY <3>1
    <3>3. (RunningIsLive /\ KnownIsBorn /\ StopJoins)'
      BY <3>1
    <3> QED
      BY <3>2, <3>3
  <2>2. CASE ~(pc[t] = "quit" \/ mExitPending[t])
    BY <1>10, <2>2 DEF ThreadLooped
  <2> QED
    BY <2>1, <2>2
<1>11. ASSUME NEW t \in Threads, NEW d \in Delays, Post(t, d) PROVE JoinInv'
  BY <1>11 DEF Post
<1>12. ASSUME NEW t \in Threads, StartLocal(t) PROVE JoinInv'
  BY <1>12 DEF StartLocal
<1>13. ASSUME NEW t \in Threads, NEW g \in LooperThreads, StartThread(t, g) PROVE JoinInv'
  <2>1. /\ mRunning' = [mRunning EXCEPT ![g] = TRUE]
        /\ mExitPending' = [mExitPending EXCEPT ![g] = FALSE]
        /\ pc' = [pc EXCEPT ![g] = "ready"]
        /\ pc[g] = "unborn"
        /\ mThread' = g
        /\ UNCHANGED <<mRunningLocally, caller, stopping, selfStopped>>
    <3>1. Fresh(g) => pc[g] = "unborn"
      BY DEF Fresh, LooperThreads
    <3> QED
      BY <1>13, <3>1 DEF StartThread
  <2>2. ControlTypeOK'
    BY <2>1
  <2>3. RunningIsLive' /\ KnownIsBorn'
    BY <2>1
  <2>4. StopJoins'
    BY <2>1
  <2> QED
    BY <2>2, <2>3, <2>4
<1>14. ASSUME NEW t \in Threads, Stop(t) PROVE JoinInv'
  <2>1. ControlTypeOK'
    BY <1>14 DEF Stop, TakeDown, CanCall, InUserCode
  <2>2. RunningIsLive'
    BY <1>14 DEF Stop, TakeDown, CanCall, InUserCode
  <2>3. KnownIsBorn'
    BY <1>14 DEF Stop, TakeDown, CanCall, InUserCode
  <2>4. StopJoins'
    BY <1>14 DEF Stop, TakeDown, CanCall, InUserCode
  <2> QED
    BY <2>1, <2>2, <2>3, <2>4
<1>15. ASSUME NEW t \in Threads, NEW r \in Holders, Release(t, r) PROVE JoinInv'
  <2>1. CASE UNCHANGED <<pc, stopping, controlVars, selfStopped>>
    <3>1. UNCHANGED <<mRunning, mExitPending, caller>>
      BY <1>15 DEF Release
    <3> QED
      BY <2>1, <3>1
  <2>2. CASE TakeDown(t)
    <3>1. /\ UNCHANGED <<mRunning, mExitPending, caller>>
          /\ pc[t] \in {"idle", "handle"}
          /\ mThread # NULL \/ mRunningLocally
      BY <1>15, <2>2 DEF Release, MayRelease, InUserCode, TakeDown
    <3>2. ControlTypeOK'
      BY <2>2, <3>1 DEF TakeDown
    <3>3. RunningIsLive' /\ KnownIsBorn'
      BY <2>2, <3>1 DEF TakeDown
    <3>4. StopJoins'
      BY <2>2, <3>1 DEF TakeDown
    <3> QED
      BY <3>2, <3>3, <3>4
  <2> QED
    BY <1>15, <2>1, <2>2 DEF Release
<1>16. ASSUME NEW t \in Threads, WaitReturns(t) PROVE JoinInv'
  BY <1>16 DEF WaitReturns
<1>17. ASSUME NEW t \in Threads, HandlerReturns(t) PROVE JoinInv'
  BY <1>17 DEF HandlerReturns
<1>18. ASSUME NEW g \in LooperThreads, ThreadBegins(g) PROVE JoinInv'
  BY <1>18 DEF ThreadBegins
<1>19. CASE Tick
  BY <1>19 DEF Tick
<1>20. CASE UNCHANGED vars
  BY <1>20 DEF vars
<1> QED
  BY <1>1, <1>2, <1>3, <1>4, <1>5, <1>6, <1>7, <1>8, <1>9, <1>10, <1>11, <1>12, <1>13,
     <1>14, <1>15, <1>16, <1>17, <1>18, <1>19, <1>20 DEF Next, Step, Call

(* stop() has joined the thread it took down by the time it returns, for   *)
(* any number of clients, starts and messages and without any discipline.  *)
THEOREM StopHasJoined == Spec => []StopJoins
<1>1. JoinInv => StopJoins
  BY DEF JoinInv
<1> QED
  BY JoinInvInit, JoinInvStep, <1>1, PTL DEF Spec

----------------------------------------------------------------------------
(* Serial handlers *)

(* Where a call made by a thread can return to.                            *)
CallerInv ==
  /\ \A t \in Threads : caller[t] = "handle" <=>
        \/ pc[t] = "handle"
        \/ pc[t] \in StopPCs /\ caller[t] = "handle"
  /\ \A g \in LooperThreads :
        pc[g] # "idle" /\ (pc[g] \in StopPCs => caller[g] = "handle")
  /\ \A c \in Clients : pc[c] \notin {"unborn", "ready", "exited"}

(* A thread that may yet run handlers of the looper.                       *)
Active(t) == pc[t] = "ready" \/ InLoop(t)

(* A LooperThread that has not exited is the current one, or stopped       *)
(* itself, or some other thread's stop() has yet to join it.               *)
Accounted(g) ==
  \/ mThread = g
  \/ selfStopped
  \/ \E t \in Threads \ {g} :
       stopping[t] = g /\ pc[t] \in {"requestExit", "signal", "join", "joining"}
Owned == \A g \in LooperThreads : ~Ended(g) => Accounted(g)

OneActive == \A t, u \in Threads : Active(t) /\ Active(u) => t = u

SerialInv == JoinInv /\ CallerInv /\ Owned /\ OneActive

LEMMA SerialInvInit == Init => SerialInv
<1> SUFFICES ASSUME Init PROVE SerialInv
  OBVIOUS
<1>1. JoinInv
  BY JoinInvInit
<1>2. CallerInv /\ Owned /\ OneActive
  BY LooperAssumption
     DEF Init, Threads, CallerInv, StopPCs, Owned, Ended, OneActive, Active, InLoop
<1> QED
  BY <1>1, <1>2 DEF SerialInv

LEMMA SerialInvStep == SerialControl /\ SerialInv /\ [Next]_vars => SerialInv'
<1> SUFFICES ASSUME SerialControl, SerialInv, [Next]_vars PROVE SerialInv'
  OBVIOUS
<1>0. JoinInv'
  BY JoinInvStep DEF SerialInv
<1> USE LooperAssumption DEF SerialInv, JoinInv, ControlTypeOK, RunningIsLive,
      Ended, KnownIsBorn, Threads, PCs, StopPCs, Goto, controlVars, threadVars,
      historyVars, objectVars, queueVars
<1>1. ASSUME NEW t \in Threads, Loop(t) PROVE (CallerInv /\ Owned /\ OneActive)'
  <2>1. CallerInv'
    BY <1>1 DEF CallerInv, Loop, LoopExits, LoopWaits, LoopTakes
  <2>2. Owned'
    BY <1>1 DEF CallerInv, Owned, Accounted, Loop, LoopExits, LoopWaits, LoopTakes
  <2>3. OneActive'
    BY <1>1 DEF CallerInv, OneActive, Owned, Accounted, Active, InLoop, Loop, LoopExits, LoopWaits, LoopTakes
  <2> QED
    BY <2>1, <2>2, <2>3
<1>2. ASSUME NEW t \in Threads, LoopOnFreed(t) PROVE (CallerInv /\ Owned /\ OneActive)'
  <2>1. CallerInv'
    BY <1>2 DEF CallerInv, LoopOnFreed
  <2>2. Owned'
    BY <1>2 DEF CallerInv, Owned, Accounted, LoopOnFreed
  <2>3. OneActive'
    BY <1>2 DEF CallerInv, OneActive, Owned, Accounted, Active, InLoop, LoopOnFreed
  <2> QED
    BY <2>1, <2>2, <2>3
<1>3. ASSUME NEW t \in Threads, Deliver(t) PROVE (CallerInv /\ Owned /\ OneActive)'
  <2>1. CallerInv'
    BY <1>3 DEF CallerInv, Deliver
  <2>2. Owned'
    BY <1>3 DEF CallerInv, Owned, Accounted, Deliver
  <2>3. OneActive'
    BY <1>3 DEF CallerInv, OneActive, Owned, Accounted, Active, InLoop, Deliver
  <2> QED
    BY <2>1, <2>2, <2>3
<1>4. ASSUME NEW t \in Threads, RequestExit(t) PROVE (CallerInv /\ Owned /\ OneActive)'
  <2>1. CallerInv'
    BY <1>4 DEF CallerInv, RequestExit
  <2>2. Owned'
    BY <1>4 DEF CallerInv, Owned, Accounted, RequestExit
  <2>3. OneActive'
    BY <1>4 DEF CallerInv, OneActive, Owned, Accounted, Active, InLoop, RequestExit
  <2> QED
    BY <2>1, <2>2, <2>3
<1>5. ASSUME NEW t \in Threads, StopSignals(t) PROVE (CallerInv /\ Owned /\ OneActive)'
  <2>1. CallerInv'
    BY <1>5 DEF CallerInv, StopSignals, MustWait
  <2>2. Owned'
    BY <1>5 DEF CallerInv, Owned, Accounted, StopSignals, MustWait
  <2>3. OneActive'
    BY <1>5 DEF CallerInv, OneActive, Owned, Accounted, Active, InLoop, StopSignals, MustWait
  <2> QED
    BY <2>1, <2>2, <2>3
<1>6. ASSUME NEW t \in Threads, Join(t) PROVE (CallerInv /\ Owned /\ OneActive)'
  <2>1. CallerInv'
    BY <1>6 DEF CallerInv, Join
  <2>2. Owned'
    BY <1>6 DEF CallerInv, Owned, Accounted, Join
  <2>3. OneActive'
    BY <1>6 DEF CallerInv, OneActive, Owned, Accounted, Active, InLoop, Join
  <2> QED
    BY <2>1, <2>2, <2>3
<1>7. ASSUME NEW t \in Threads, Joined(t) PROVE (CallerInv /\ Owned /\ OneActive)'
  <2>1. CallerInv'
    BY <1>7 DEF CallerInv, Joined, Exited
  <2>2. Owned'
    BY <1>7 DEF CallerInv, Owned, Accounted, Joined, Exited
  <2>3. OneActive'
    BY <1>7 DEF CallerInv, OneActive, Owned, Accounted, Active, InLoop, Joined, Exited
  <2> QED
    BY <2>1, <2>2, <2>3
<1>8. ASSUME NEW t \in Threads, StopReturns(t) PROVE (CallerInv /\ Owned /\ OneActive)'
  <2>1. CallerInv'
    BY <1>8 DEF CallerInv, StopReturns
  <2>2. Owned'
    BY <1>8 DEF CallerInv, Owned, Accounted, StopReturns
  <2>3. OneActive'
    BY <1>8 DEF CallerInv, OneActive, Owned, Accounted, Active, InLoop, StopReturns
  <2> QED
    BY <2>1, <2>2, <2>3
<1>9. ASSUME NEW t \in Threads, LocalLooped(t) PROVE (CallerInv /\ Owned /\ OneActive)'
  <2>1. CallerInv'
    BY <1>9 DEF CallerInv, LocalLooped
  <2>2. Owned'
    BY <1>9 DEF CallerInv, Owned, Accounted, LocalLooped
  <2>3. OneActive'
    BY <1>9 DEF CallerInv, OneActive, Owned, Accounted, Active, InLoop, LocalLooped
  <2> QED
    BY <2>1, <2>2, <2>3
<1>10. ASSUME NEW t \in Threads, ThreadLooped(t) PROVE (CallerInv /\ Owned /\ OneActive)'
  <2>1. CallerInv'
    BY <1>10 DEF CallerInv, ThreadLooped
  <2>2. Owned'
    BY <1>10 DEF CallerInv, Owned, Accounted, ThreadLooped
  <2>3. OneActive'
    BY <1>10 DEF CallerInv, OneActive, Owned, Accounted, Active, InLoop, ThreadLooped
  <2> QED
    BY <2>1, <2>2, <2>3
<1>11. ASSUME NEW t \in Threads, NEW d \in Delays, Post(t, d) PROVE (CallerInv /\ Owned /\ OneActive)'
  <2>1. CallerInv'
    BY <1>11 DEF CallerInv, Post
  <2>2. Owned'
    BY <1>11 DEF CallerInv, Owned, Accounted, Post
  <2>3. OneActive'
    BY <1>11 DEF CallerInv, OneActive, Owned, Accounted, Active, InLoop, Post
  <2> QED
    BY <2>1, <2>2, <2>3
<1>12. ASSUME NEW t \in Threads, StartLocal(t) PROVE (CallerInv /\ Owned /\ OneActive)'
  <2>1. CallerInv'
    BY <1>12 DEF CallerInv, StartLocal, MayStart
  <2>2. Owned'
    BY <1>12 DEF CallerInv, Owned, Accounted, StartLocal, MayStart
  <2>3. OneActive'
    BY <1>12 DEF CallerInv, OneActive, Owned, Accounted, Active, InLoop, StartLocal, MayStart
  <2> QED
    BY <2>1, <2>2, <2>3
<1>13. ASSUME NEW t \in Threads, NEW g \in LooperThreads, StartThread(t, g) PROVE (CallerInv /\ Owned /\ OneActive)'
  <2>1. CallerInv'
    <3>1. Fresh(g) => pc[g] = "unborn"
      BY DEF Fresh, LooperThreads
    <3>2. /\ pc' = [pc EXCEPT ![g] = "ready"]
          /\ caller' = caller
          /\ pc[g] = "unborn"
      BY <1>13, <3>1 DEF StartThread
    <3> QED
      BY <3>2 DEF CallerInv
  <2>2. Owned'
    BY <1>13 DEF CallerInv, Owned, Accounted, StartThread, Fresh, MayStart
  <2>3. OneActive'
    BY <1>13 DEF CallerInv, OneActive, Owned, Accounted, Active, InLoop, StartThread, Fresh, MayStart
  <2> QED
    BY <2>1, <2>2, <2>3
<1>14. ASSUME NEW t \in Threads, Stop(t) PROVE (CallerInv /\ Owned /\ OneActive)'
  <2>1. CallerInv'
    BY <1>14 DEF CallerInv, Stop, TakeDown, CanCall, InUserCode
  <2>2. Owned'
    BY <1>14 DEF CallerInv, Owned, Accounted, Stop, TakeDown, CanCall, InUserCode
  <2>3. OneActive'
    BY <1>14 DEF CallerInv, OneActive, Owned, Accounted, Active, InLoop, Stop, TakeDown, CanCall, InUserCode
  <2> QED
    BY <2>1, <2>2, <2>3
<1>15. ASSUME NEW t \in Threads, NEW r \in Holders, Release(t, r) PROVE (CallerInv /\ Owned /\ OneActive)'
  <2>1. CallerInv'
    BY <1>15 DEF CallerInv, Release, TakeDown, MayRelease, InUserCode
  <2>2. Owned'
    BY <1>15 DEF CallerInv, Owned, Accounted, Release, TakeDown, MayRelease, InUserCode
  <2>3. OneActive'
    BY <1>15 DEF CallerInv, OneActive, Owned, Accounted, Active, InLoop, Release, TakeDown, MayRelease, InUserCode
  <2> QED
    BY <2>1, <2>2, <2>3
<1>16. ASSUME NEW t \in Threads, WaitReturns(t) PROVE (CallerInv /\ Owned /\ OneActive)'
  <2>1. CallerInv'
    BY <1>16 DEF CallerInv, WaitReturns
  <2>2. Owned'
    BY <1>16 DEF CallerInv, Owned, Accounted, WaitReturns
  <2>3. OneActive'
    BY <1>16 DEF CallerInv, OneActive, Owned, Accounted, Active, InLoop, WaitReturns
  <2> QED
    BY <2>1, <2>2, <2>3
<1>17. ASSUME NEW t \in Threads, HandlerReturns(t) PROVE (CallerInv /\ Owned /\ OneActive)'
  <2>1. CallerInv'
    BY <1>17 DEF CallerInv, HandlerReturns
  <2>2. Owned'
    BY <1>17 DEF CallerInv, Owned, Accounted, HandlerReturns
  <2>3. OneActive'
    BY <1>17 DEF CallerInv, OneActive, Owned, Accounted, Active, InLoop, HandlerReturns
  <2> QED
    BY <2>1, <2>2, <2>3
<1>18. ASSUME NEW g \in LooperThreads, ThreadBegins(g) PROVE (CallerInv /\ Owned /\ OneActive)'
  <2>1. CallerInv'
    BY <1>18 DEF CallerInv, ThreadBegins
  <2>2. Owned'
    BY <1>18 DEF CallerInv, Owned, Accounted, ThreadBegins
  <2>3. OneActive'
    BY <1>18 DEF CallerInv, OneActive, Owned, Accounted, Active, InLoop, ThreadBegins
  <2> QED
    BY <2>1, <2>2, <2>3
<1>19. CASE Tick
  <2>1. UNCHANGED <<mThread, pc, caller, stopping, selfStopped>>
    BY <1>19 DEF Tick
  <2>2. CallerInv'
    BY <2>1 DEF CallerInv
  <2>3. Owned'
    BY <2>1 DEF Owned, Accounted
  <2>4. OneActive'
    BY <2>1 DEF OneActive, Active, InLoop
  <2> QED
    BY <1>0, <2>2, <2>3, <2>4
<1>20. CASE UNCHANGED vars
  <2>1. UNCHANGED <<mThread, pc, caller, stopping, selfStopped>>
    BY <1>20 DEF vars
  <2>2. CallerInv'
    BY <2>1 DEF CallerInv
  <2>3. Owned'
    BY <2>1 DEF Owned, Accounted
  <2>4. OneActive'
    BY <2>1 DEF OneActive, Active, InLoop
  <2> QED
    BY <1>0, <2>2, <2>3, <2>4
<1>21. (CallerInv /\ Owned /\ OneActive)'
  BY <1>1, <1>2, <1>3, <1>4, <1>5, <1>6, <1>7, <1>8, <1>9, <1>10, <1>11, <1>12, <1>13, <1>14, <1>15, <1>16, <1>17, <1>18, <1>19, <1>20 DEF Next, Step, Call
<1> QED
  BY <1>0, <1>21

(* An owner that does not overlap start() with an earlier run gets serial  *)
(* handlers, whatever the number of clients, threads and messages.         *)
THEOREM HandlersAreSerial == SerialControl => (Spec => []SerialHandlers)
<1> SUFFICES ASSUME SerialControl PROVE Spec => []SerialHandlers
  OBVIOUS
<1>1. SerialInv => SerialHandlers
  BY DEF SerialInv, OneActive, Active, InLoop, SerialHandlers, Handling
<1>2. SerialInv /\ [Next]_vars => SerialInv'
  BY SerialInvStep
<1> QED
  BY SerialInvInit, <1>1, <1>2, PTL DEF Spec
----------------------------------------------------------------------------
(* No use after free *)

Stopping(t) == pc[t] \in StopPCs

(* A stop() has yet to join the thread; or the thread took itself down, and *)
(* will leave its loop when it is back from the handler.                   *)
Joining(g) ==
  \E t \in Threads \ {g} :
    stopping[t] = g /\ pc[t] \in {"requestExit", "signal", "join", "joining"}
LeavesItself(g) ==
  /\ selfStopped
  /\ \/ pc[g] = "requestExit" /\ stopping[g] = g
     \/ /\ mExitPending[g]
        /\ \/ pc[g] = "signal" /\ stopping[g] = g
           \/ pc[g] \in {"stopped", "handle", "looped", "quit"}
Settled ==
  \A g \in LooperThreads : ~Ended(g) => mThread = g \/ Joining(g) \/ LeavesItself(g)

(* Who is inside stop() keeps the looper by a reference, unless it is the  *)
(* destructor, which is then alone; a looper without references, or that   *)
(* stopped itself, runs no thread.                                         *)
KeptInStop ==
  \A t \in Threads :
    Stopping(t) => refs = {} \/ t \in refs \/ (caller[t] = "handle" /\ Handler \in refs)
NothingRuns == mThread = NULL /\ ~mRunningLocally
LastStop ==
  /\ refs = {} => NothingRuns /\ \A t, u \in Threads : Stopping(t) /\ Stopping(u) => t = u
  /\ selfStopped => NothingRuns

(* Once the looper is freed, a LooperThread left is one on its way out.    *)
Gone ==
  ~alive =>
    /\ refs = {} /\ \A t \in Threads : ~Stopping(t)
    /\ \A g \in LooperThreads :
         ~Ended(g) => mExitPending[g] /\ pc[g] \in {"handle", "looped", "quit"}

RefTypeOK == refs \subseteq Holders /\ alive \in BOOLEAN

SafeInv == RefTypeOK /\ Settled /\ KeptInStop /\ LastStop /\ Gone /\ NeverUsedAfterFree

LEMMA SafeInvInit == Init => SafeInv
  BY LooperAssumption
     DEF Init, Threads, SafeInv, RefTypeOK, Settled, Ended, KeptInStop, Stopping, StopPCs, LastStop,
         NothingRuns, Gone, NeverUsedAfterFree

(* stop(), whoever calls it, leaves the thread it takes down to be joined,  *)
(* or to leave by itself.                                                  *)
LEMMA TakeDownSettles ==
  ASSUME SerialInv, SafeInv, NEW t \in Threads, InUserCode(t), TakeDown(t),
         ~NothingRuns, UNCHANGED <<mExitPending, caller>>
  PROVE  Settled'
<1> USE LooperAssumption DEF SerialInv, JoinInv, ControlTypeOK, CallerInv, Ended, Threads, PCs,
      StopPCs, Goto, SafeInv, NothingRuns, TakeDown, InUserCode
<1>1. ~selfStopped
  BY DEF LastStop
<1> SUFFICES ASSUME NEW g \in LooperThreads, ~Ended(g)'
             PROVE  (mThread = g \/ Joining(g) \/ LeavesItself(g))'
  BY DEF Settled
<1>2. ~Ended(g)
  OBVIOUS
<1>3. CASE mThread = g /\ t # g
  <2>1. stopping'[t] = g /\ pc'[t] = "requestExit"
    BY <1>3
  <2> QED
    BY <1>3, <2>1 DEF Joining
<1>4. CASE mThread = g /\ t = g
  <2>1. caller[t] = "handle" /\ selfStopped'
    BY <1>4
  <2>2. stopping'[g] = g /\ pc'[g] = "requestExit"
    BY <1>4
  <2> QED
    BY <2>1, <2>2 DEF LeavesItself
<1>5. CASE Joining(g)
  <2>1. PICK u \in Threads \ {g} :
          stopping[u] = g /\ pc[u] \in {"requestExit", "signal", "join", "joining"}
    BY <1>5 DEF Joining
  <2>2. u # t /\ stopping'[u] = g /\ pc'[u] = pc[u]
    BY <2>1
  <2> QED
    BY <2>1, <2>2 DEF Joining
<1> QED
  BY <1>1, <1>2, <1>3, <1>4, <1>5 DEF Settled, LeavesItself

LEMMA SafeInvStep == SerialControl /\ SerialInv /\ SafeInv /\ [Next]_vars => SafeInv'
<1> SUFFICES ASSUME SerialControl, SerialInv, SafeInv, [Next]_vars PROVE SafeInv'
  OBVIOUS
<1> USE LooperAssumption DEF SerialInv, JoinInv, ControlTypeOK, RunningIsLive, CallerInv,
      Ended, Threads, PCs, StopPCs, Goto, controlVars, threadVars,
      historyVars, objectVars, queueVars, SafeInv, RefTypeOK, Stopping, NothingRuns
<1>1. ASSUME NEW t \in Threads, Loop(t) PROVE SafeInv'
  <2>1. Settled'
    BY <1>1 DEF Settled, Joining, LeavesItself, Loop, LoopExits, LoopWaits, LoopTakes
  <2>2. KeptInStop'
    BY <1>1 DEF KeptInStop, OneActive, Active, InLoop, Holders, Loop, LoopExits, LoopWaits, LoopTakes
  <2>3. LastStop'
    BY <1>1 DEF LastStop, KeptInStop, Holders, Loop, LoopExits, LoopWaits, LoopTakes
  <2>4. Gone'
    BY <1>1 DEF Gone, Settled, Joining, LeavesItself, LastStop, KeptInStop, Holders, Loop, LoopExits, LoopWaits, LoopTakes
  <2>5. NeverUsedAfterFree'
    BY <1>1 DEF NeverUsedAfterFree, Gone, Loop, LoopExits, LoopWaits, LoopTakes
  <2>6. RefTypeOK'
    BY <1>1 DEF RefTypeOK, Loop, LoopExits, LoopWaits, LoopTakes
  <2> QED
    BY <2>1, <2>2, <2>3, <2>4, <2>5, <2>6
<1>2. ASSUME NEW t \in Threads, LoopOnFreed(t) PROVE SafeInv'
  <2>1. Settled'
    BY <1>2 DEF Settled, Joining, LeavesItself, LoopOnFreed
  <2>2. KeptInStop'
    BY <1>2 DEF KeptInStop, OneActive, Active, InLoop, Holders, LoopOnFreed
  <2>3. LastStop'
    BY <1>2 DEF LastStop, KeptInStop, Holders, LoopOnFreed
  <2>4. Gone'
    BY <1>2 DEF Gone, Settled, Joining, LeavesItself, LastStop, KeptInStop, Holders, LoopOnFreed
  <2>5. NeverUsedAfterFree'
    BY <1>2 DEF NeverUsedAfterFree, Gone, LoopOnFreed
  <2>6. RefTypeOK'
    BY <1>2 DEF RefTypeOK, LoopOnFreed
  <2> QED
    BY <2>1, <2>2, <2>3, <2>4, <2>5, <2>6
<1>3. ASSUME NEW t \in Threads, Deliver(t) PROVE SafeInv'
  <2>1. Settled'
    BY <1>3 DEF Settled, Joining, LeavesItself, Deliver
  <2>2. KeptInStop'
    BY <1>3 DEF KeptInStop, OneActive, Active, InLoop, Holders, Deliver
  <2>3. LastStop'
    BY <1>3 DEF LastStop, KeptInStop, Holders, Deliver
  <2>4. Gone'
    BY <1>3 DEF Gone, Settled, Joining, LeavesItself, LastStop, KeptInStop, Holders, Deliver
  <2>5. NeverUsedAfterFree'
    BY <1>3 DEF NeverUsedAfterFree, Gone, Deliver
  <2>6. RefTypeOK'
    BY <1>3 DEF RefTypeOK, Deliver
  <2> QED
    BY <2>1, <2>2, <2>3, <2>4, <2>5, <2>6
<1>4. ASSUME NEW t \in Threads, RequestExit(t) PROVE SafeInv'
  <2>1. Settled'
    BY <1>4 DEF Settled, Joining, LeavesItself, RequestExit
  <2>2. KeptInStop'
    BY <1>4 DEF KeptInStop, OneActive, Active, InLoop, Holders, RequestExit
  <2>3. LastStop'
    BY <1>4 DEF LastStop, KeptInStop, Holders, RequestExit
  <2>4. Gone'
    BY <1>4 DEF Gone, Settled, Joining, LeavesItself, LastStop, KeptInStop, Holders, RequestExit
  <2>5. NeverUsedAfterFree'
    BY <1>4 DEF NeverUsedAfterFree, Gone, RequestExit
  <2>6. RefTypeOK'
    BY <1>4 DEF RefTypeOK, RequestExit
  <2> QED
    BY <2>1, <2>2, <2>3, <2>4, <2>5, <2>6
<1>5. ASSUME NEW t \in Threads, StopSignals(t) PROVE SafeInv'
  <2>1. Settled'
    BY <1>5 DEF Settled, Joining, LeavesItself, StopSignals, MustWait
  <2>2. KeptInStop'
    BY <1>5 DEF KeptInStop, OneActive, Active, InLoop, Holders, StopSignals, MustWait
  <2>3. LastStop'
    BY <1>5 DEF LastStop, KeptInStop, Holders, StopSignals, MustWait
  <2>4. Gone'
    BY <1>5 DEF Gone, Settled, Joining, LeavesItself, LastStop, KeptInStop, Holders, StopSignals, MustWait
  <2>5. NeverUsedAfterFree'
    BY <1>5 DEF NeverUsedAfterFree, Gone, StopSignals, MustWait
  <2>6. RefTypeOK'
    BY <1>5 DEF RefTypeOK, StopSignals, MustWait
  <2> QED
    BY <2>1, <2>2, <2>3, <2>4, <2>5, <2>6
<1>6. ASSUME NEW t \in Threads, Join(t) PROVE SafeInv'
  <2>1. Settled'
    BY <1>6 DEF Settled, Joining, LeavesItself, Join
  <2>2. KeptInStop'
    BY <1>6 DEF KeptInStop, OneActive, Active, InLoop, Holders, Join
  <2>3. LastStop'
    BY <1>6 DEF LastStop, KeptInStop, Holders, Join
  <2>4. Gone'
    BY <1>6 DEF Gone, Settled, Joining, LeavesItself, LastStop, KeptInStop, Holders, Join
  <2>5. NeverUsedAfterFree'
    BY <1>6 DEF NeverUsedAfterFree, Gone, Join
  <2>6. RefTypeOK'
    BY <1>6 DEF RefTypeOK, Join
  <2> QED
    BY <2>1, <2>2, <2>3, <2>4, <2>5, <2>6
<1>7. ASSUME NEW t \in Threads, Joined(t) PROVE SafeInv'
  <2>1. Settled'
    BY <1>7 DEF Settled, Joining, LeavesItself, Joined, Exited
  <2>2. KeptInStop'
    BY <1>7 DEF KeptInStop, OneActive, Active, InLoop, Holders, Joined, Exited
  <2>3. LastStop'
    BY <1>7 DEF LastStop, KeptInStop, Holders, Joined, Exited
  <2>4. Gone'
    BY <1>7 DEF Gone, Settled, Joining, LeavesItself, LastStop, KeptInStop, Holders, Joined, Exited
  <2>5. NeverUsedAfterFree'
    BY <1>7 DEF NeverUsedAfterFree, Gone, Joined, Exited
  <2>6. RefTypeOK'
    BY <1>7 DEF RefTypeOK, Joined, Exited
  <2> QED
    BY <2>1, <2>2, <2>3, <2>4, <2>5, <2>6
<1>8. ASSUME NEW t \in Threads, StopReturns(t) PROVE SafeInv'
  <2>1. Settled'
    BY <1>8 DEF Settled, Joining, LeavesItself, StopReturns
  <2>2. KeptInStop'
    BY <1>8 DEF KeptInStop, OneActive, Active, InLoop, Holders, StopReturns
  <2>3. LastStop'
    BY <1>8 DEF LastStop, KeptInStop, Holders, StopReturns
  <2>4. Gone'
    BY <1>8 DEF Gone, Settled, Joining, LeavesItself, LastStop, KeptInStop, Holders, StopReturns
  <2>5. NeverUsedAfterFree'
    BY <1>8 DEF NeverUsedAfterFree, Gone, StopReturns
  <2>6. RefTypeOK'
    BY <1>8 DEF RefTypeOK, StopReturns
  <2> QED
    BY <2>1, <2>2, <2>3, <2>4, <2>5, <2>6
<1>9. ASSUME NEW t \in Threads, LocalLooped(t) PROVE SafeInv'
  <2>1. Settled'
    BY <1>9 DEF Settled, Joining, LeavesItself, LocalLooped
  <2>2. KeptInStop'
    BY <1>9 DEF KeptInStop, OneActive, Active, InLoop, Holders, LocalLooped
  <2>3. LastStop'
    BY <1>9 DEF LastStop, KeptInStop, Holders, LocalLooped
  <2>4. Gone'
    BY <1>9 DEF Gone, Settled, Joining, LeavesItself, LastStop, KeptInStop, Holders, LocalLooped
  <2>5. NeverUsedAfterFree'
    BY <1>9 DEF NeverUsedAfterFree, Gone, LocalLooped
  <2>6. RefTypeOK'
    BY <1>9 DEF RefTypeOK, LocalLooped
  <2> QED
    BY <2>1, <2>2, <2>3, <2>4, <2>5, <2>6
<1>10. ASSUME NEW t \in Threads, ThreadLooped(t) PROVE SafeInv'
  <2>1. Settled'
    BY <1>10 DEF Settled, Joining, LeavesItself, ThreadLooped
  <2>2. KeptInStop'
    BY <1>10 DEF KeptInStop, OneActive, Active, InLoop, Holders, ThreadLooped
  <2>3. LastStop'
    BY <1>10 DEF LastStop, KeptInStop, Holders, ThreadLooped
  <2>4. Gone'
    BY <1>10 DEF Gone, Settled, Joining, LeavesItself, LastStop, KeptInStop, Holders, ThreadLooped
  <2>5. NeverUsedAfterFree'
    BY <1>10 DEF NeverUsedAfterFree, Gone, ThreadLooped
  <2>6. RefTypeOK'
    BY <1>10 DEF RefTypeOK, ThreadLooped
  <2> QED
    BY <2>1, <2>2, <2>3, <2>4, <2>5, <2>6
<1>11. ASSUME NEW t \in Threads, NEW d \in Delays, Post(t, d) PROVE SafeInv'
  <2>1. Settled'
    BY <1>11 DEF Settled, Joining, LeavesItself, Post
  <2>2. KeptInStop'
    BY <1>11 DEF KeptInStop, OneActive, Active, InLoop, Holders, Post
  <2>3. LastStop'
    BY <1>11 DEF LastStop, KeptInStop, Holders, Post
  <2>4. Gone'
    BY <1>11 DEF Gone, Settled, Joining, LeavesItself, LastStop, KeptInStop, Holders, Post
  <2>5. NeverUsedAfterFree'
    BY <1>11 DEF NeverUsedAfterFree, Gone, Post
  <2>6. RefTypeOK'
    BY <1>11 DEF RefTypeOK, Post
  <2> QED
    BY <2>1, <2>2, <2>3, <2>4, <2>5, <2>6
<1>12. ASSUME NEW t \in Threads, StartLocal(t) PROVE SafeInv'
  <2>1. Settled'
    BY <1>12 DEF Settled, Joining, LeavesItself, StartLocal, CanCall, MayStart
  <2>2. KeptInStop'
    BY <1>12 DEF KeptInStop, OneActive, Active, InLoop, Holders, StartLocal, CanCall, MayStart
  <2>3. LastStop'
    BY <1>12 DEF LastStop, KeptInStop, Holders, StartLocal, CanCall, MayStart
  <2>4. Gone'
    BY <1>12 DEF Gone, Settled, Joining, LeavesItself, LastStop, KeptInStop, Holders, StartLocal, CanCall, MayStart
  <2>5. NeverUsedAfterFree'
    BY <1>12 DEF NeverUsedAfterFree, Gone, StartLocal, CanCall, MayStart
  <2>6. RefTypeOK'
    BY <1>12 DEF RefTypeOK, StartLocal, CanCall, MayStart
  <2> QED
    BY <2>1, <2>2, <2>3, <2>4, <2>5, <2>6
<1>13. ASSUME NEW t \in Threads, NEW g \in LooperThreads, StartThread(t, g) PROVE SafeInv'
  <2>1. Settled'
    BY <1>13 DEF Settled, Joining, LeavesItself, StartThread, CanCall, MayStart, Fresh
  <2>2. KeptInStop'
    BY <1>13 DEF KeptInStop, OneActive, Active, InLoop, Holders, StartThread, CanCall, MayStart, Fresh
  <2>3. LastStop'
    BY <1>13 DEF LastStop, KeptInStop, Holders, StartThread, CanCall, MayStart, Fresh
  <2>4. Gone'
    BY <1>13 DEF Gone, Settled, Joining, LeavesItself, LastStop, KeptInStop, Holders, StartThread, CanCall, MayStart, Fresh
  <2>5. NeverUsedAfterFree'
    BY <1>13 DEF NeverUsedAfterFree, Gone, StartThread, CanCall, MayStart, Fresh
  <2>6. RefTypeOK'
    BY <1>13 DEF RefTypeOK, StartThread, CanCall, MayStart, Fresh
  <2> QED
    BY <2>1, <2>2, <2>3, <2>4, <2>5, <2>6
<1>14. ASSUME NEW t \in Threads, Stop(t) PROVE SafeInv'
  <2>1. Settled'
    BY <1>14, TakeDownSettles DEF Stop, CanCall, InUserCode
  <2>2. KeptInStop'
    BY <1>14 DEF KeptInStop, OneActive, Active, InLoop, Holders, Stop, TakeDown, CanCall, InUserCode
  <2>3. LastStop'
    BY <1>14 DEF LastStop, KeptInStop, Holders, Stop, TakeDown, CanCall, InUserCode
  <2>4. Gone'
    BY <1>14 DEF Gone, Settled, Joining, LeavesItself, LastStop, KeptInStop, Holders, Stop, TakeDown, CanCall, InUserCode
  <2>5. NeverUsedAfterFree'
    BY <1>14 DEF NeverUsedAfterFree, Gone, Stop, TakeDown, CanCall, InUserCode
  <2>6. RefTypeOK'
    BY <1>14 DEF RefTypeOK, Stop, TakeDown, CanCall, InUserCode
  <2> QED
    BY <2>1, <2>2, <2>3, <2>4, <2>5, <2>6
<1>15. ASSUME NEW t \in Threads, NEW r \in Holders, Release(t, r) PROVE SafeInv'
  <2> DEFINE Quiet == UNCHANGED <<pc, stopping, controlVars, selfStopped>>
  <2>0. /\ InUserCode(t) /\ r \in refs /\ refs' = refs \ {r} /\ alive
        /\ r = t \/ (r = Handler /\ pc[t] = "handle")
        /\ UNCHANGED <<mExitPending, mRunning, caller, afterFree>>
        /\ \/ refs' # {} /\ Quiet /\ alive' = alive
           \/ refs' = {} /\ ~NothingRuns /\ TakeDown(t) /\ alive' = alive
           \/ refs' = {} /\ NothingRuns /\ Quiet /\ alive' = FALSE
    BY <1>15 DEF Release, MayRelease, Gone
  <2>9. ASSUME refs' = {} PROVE \A u \in Threads : ~Stopping(u)
    <3> SUFFICES ASSUME NEW u \in Threads, Stopping(u) PROVE FALSE
      OBVIOUS
    <3>1. u # t /\ refs = {r}
      BY <2>0, <2>9 DEF InUserCode
    <3>2. r = Handler /\ pc[t] = "handle" /\ caller[u] = "handle"
      BY <2>0, <3>1 DEF KeptInStop
    <3> QED
      BY <3>1, <3>2 DEF OneActive, Active, InLoop
  <2>1. Settled'
    <3>1. CASE Quiet
      BY <2>0, <3>1 DEF Settled, Joining, LeavesItself
    <3>2. CASE ~NothingRuns /\ TakeDown(t)
      BY <2>0, <3>2, TakeDownSettles
    <3> QED
      BY <2>0, <3>1, <3>2
  <2>2. KeptInStop'
    BY <1>15 DEF KeptInStop, OneActive, Active, InLoop, Holders, Release, TakeDown, MayRelease, InUserCode
  <2>3. LastStop'
    <3>1. CASE Quiet /\ (refs' # {} \/ NothingRuns)
      BY <2>9, <3>1 DEF LastStop
    <3>2. CASE refs' = {} /\ TakeDown(t)
      <4>1. NothingRuns' /\ \A u \in Threads : Stopping(u)' => u = t
        BY <2>0, <2>9, <3>2 DEF TakeDown
      <4> QED
        BY <4>1 DEF LastStop
    <3> QED
      BY <2>0, <3>1, <3>2
  <2>4. Gone'
    <3>1. CASE alive'
      BY <3>1 DEF Gone
    <3>2. CASE refs' = {} /\ NothingRuns /\ Quiet
      <4>1. \A u \in Threads : ~Stopping(u)
        BY <2>9, <3>2
      <4>2. ASSUME NEW g \in LooperThreads, ~Ended(g)
            PROVE  mExitPending[g] /\ pc[g] \in {"handle", "looped", "quit"}
        <5>1. mThread # g /\ ~Joining(g)
          BY <3>2, <4>1 DEF Joining
        <5>2. LeavesItself(g) /\ pc[g] \notin StopPCs
          BY <4>1, <4>2, <5>1 DEF Settled
        <5> QED
          BY <5>2 DEF LeavesItself
      <4> QED
        BY <2>0, <3>2, <4>1, <4>2 DEF Gone
    <3> QED
      BY <2>0, <3>1, <3>2
  <2>5. NeverUsedAfterFree'
    BY <1>15 DEF NeverUsedAfterFree, Gone, Release, TakeDown, MayRelease, InUserCode
  <2>6. RefTypeOK'
    BY <1>15 DEF RefTypeOK, Release, TakeDown, MayRelease, InUserCode
  <2> QED
    BY <2>1, <2>2, <2>3, <2>4, <2>5, <2>6
<1>16. ASSUME NEW t \in Threads, WaitReturns(t) PROVE SafeInv'
  <2>1. Settled'
    BY <1>16 DEF Settled, Joining, LeavesItself, WaitReturns
  <2>2. KeptInStop'
    BY <1>16 DEF KeptInStop, OneActive, Active, InLoop, Holders, WaitReturns
  <2>3. LastStop'
    BY <1>16 DEF LastStop, KeptInStop, Holders, WaitReturns
  <2>4. Gone'
    BY <1>16 DEF Gone, Settled, Joining, LeavesItself, LastStop, KeptInStop, Holders, WaitReturns
  <2>5. NeverUsedAfterFree'
    BY <1>16 DEF NeverUsedAfterFree, Gone, WaitReturns
  <2>6. RefTypeOK'
    BY <1>16 DEF RefTypeOK, WaitReturns
  <2> QED
    BY <2>1, <2>2, <2>3, <2>4, <2>5, <2>6
<1>17. ASSUME NEW t \in Threads, HandlerReturns(t) PROVE SafeInv'
  <2>1. Settled'
    BY <1>17 DEF Settled, Joining, LeavesItself, HandlerReturns
  <2>2. KeptInStop'
    BY <1>17 DEF KeptInStop, OneActive, Active, InLoop, Holders, HandlerReturns
  <2>3. LastStop'
    BY <1>17 DEF LastStop, KeptInStop, Holders, HandlerReturns
  <2>4. Gone'
    BY <1>17 DEF Gone, Settled, Joining, LeavesItself, LastStop, KeptInStop, Holders, HandlerReturns
  <2>5. NeverUsedAfterFree'
    BY <1>17 DEF NeverUsedAfterFree, Gone, HandlerReturns
  <2>6. RefTypeOK'
    BY <1>17 DEF RefTypeOK, HandlerReturns
  <2> QED
    BY <2>1, <2>2, <2>3, <2>4, <2>5, <2>6
<1>18. ASSUME NEW g \in LooperThreads, ThreadBegins(g) PROVE SafeInv'
  <2>1. Settled'
    BY <1>18 DEF Settled, Joining, LeavesItself, ThreadBegins
  <2>2. KeptInStop'
    BY <1>18 DEF KeptInStop, OneActive, Active, InLoop, Holders, ThreadBegins
  <2>3. LastStop'
    BY <1>18 DEF LastStop, KeptInStop, Holders, ThreadBegins
  <2>4. Gone'
    BY <1>18 DEF Gone, Settled, Joining, LeavesItself, LastStop, KeptInStop, Holders, ThreadBegins
  <2>5. NeverUsedAfterFree'
    BY <1>18 DEF NeverUsedAfterFree, Gone, ThreadBegins
  <2>6. RefTypeOK'
    BY <1>18 DEF RefTypeOK, ThreadBegins
  <2> QED
    BY <2>1, <2>2, <2>3, <2>4, <2>5, <2>6
<1>19. CASE Tick \/ UNCHANGED vars
  <2>1. UNCHANGED <<mThread, mRunningLocally, mExitPending, pc, caller, stopping, refs, alive,
                    selfStopped, afterFree>>
    BY <1>19 DEF Tick, vars
  <2>2. (Settled /\ Gone)'
    BY <2>1 DEF Settled, Joining, LeavesItself, Gone
  <2>3. (KeptInStop /\ LastStop /\ NeverUsedAfterFree)'
    BY <2>1 DEF KeptInStop, LastStop, NeverUsedAfterFree
  <2> QED
    BY <2>1, <2>2, <2>3
<1> QED
  BY <1>1, <1>2, <1>3, <1>4, <1>5, <1>6, <1>7, <1>8, <1>9, <1>10, <1>11, <1>12, <1>13, <1>14, <1>15, <1>16, <1>17, <1>18, <1>19 DEF Next, Step, Call

(* Under the owner's discipline no LooperThread ever runs loop(), or wakes *)
(* inside it, on a looper that was freed, also when a handler drops the    *)
(* last reference.  Clients that lent their thread to start(true) are not  *)
(* spoken of: they do (ALooper.cpp:217).                                   *)
THEOREM LooperOutlivesItsThreads == SerialControl => (Spec => []NeverUsedAfterFree)
<1> SUFFICES ASSUME SerialControl PROVE Spec => []NeverUsedAfterFree
  OBVIOUS
<1>1. Init => SerialInv /\ SafeInv
  BY SerialInvInit, SafeInvInit
<1>2. SerialInv /\ SafeInv /\ [Next]_vars => (SerialInv /\ SafeInv)'
  BY SerialInvStep, SafeInvStep
<1>3. SafeInv => NeverUsedAfterFree
  BY DEF SafeInv
<1> QED
  BY <1>1, <1>2, <1>3, PTL DEF Spec

----------------------------------------------------------------------------
(* A looper keeps the promise of MessageQueue *)

(* A set of numbers with 0 and the successor of each of its members is all *)
(* of Nat: among the sets 1..n of the numbers n left out there would be a  *)
(* smallest.                                                               *)
LEMMA Induction ==
  ASSUME NEW S, 0 \in S, \A n \in Nat : n \in S => n + 1 \in S
  PROVE  Nat \subseteq S
<1> SUFFICES ASSUME Nat \ S # {} PROVE FALSE
  OBVIOUS
<1> DEFINE T == {1 .. n : n \in Nat \ S}
           R == StrictSubsetOrdering(Nat)
<1>1. T \subseteq FiniteSubsetsOf(Nat) /\ T # {}
  <2>1. \A n \in Nat : 1 .. n \in SUBSET Nat /\ IsFiniteSet(1 .. n)
    BY FS_Interval
  <2> QED
    BY <2>1 DEF FiniteSubsetsOf
<1>2. IsWellFoundedOn(R, FiniteSubsetsOf(Nat))
  BY FS_StrictSubsetOrderingWellFounded
<1>3. PICK x \in T : \A y \in T : ~(<<y, x>> \in R)
  <2> HIDE DEF T, R
  <2> QED
    BY <1>1, <1>2, WFMin
<1>4. PICK n \in Nat \ S : x = 1 .. n
  OBVIOUS
<1>5. n # 0 /\ n - 1 \in Nat \ S
  <2>1. n # 0
    OBVIOUS
  <2>2. n - 1 \in Nat /\ (n - 1) + 1 = n
    BY <2>1
  <2> QED
    BY <2>1, <2>2
<1>6. 1 .. n - 1 \in SUBSET Nat /\ 1 .. n \in SUBSET Nat /\ 1 .. n - 1 \subseteq 1 .. n
      /\ n \in 1 .. n /\ n \notin 1 .. n - 1
  BY <1>5
<1>7. <<1 .. n - 1, 1 .. n>> \in R
  BY <1>6 DEF StrictSubsetOrdering
<1> QED
  BY <1>3, <1>4, <1>5, <1>7

(* The events of q stand in the order of the promise, no two alike.        *)
Ordered(q) == \A i, j \in 1 .. Len(q) : i < j => Promises!Precedes(q[i], q[j])

(* The walk in post() ends somewhere: what Walked chooses exists.          *)
LEMMA WalkEnds ==
  ASSUME NEW q \in Seq(Event), NEW whenUs \in Nat
  PROVE  Walked(q, whenUs) \in 0 .. Len(q) /\ WalksTo(q, whenUs, Walked(q, whenUs))
<1> DEFINE Passes(k) == \A i \in 1 .. k : q[i].mWhenUs <= whenUs
           S == {k \in Nat : (k <= Len(q) => Passes(k)) \/ \E n \in 0 .. Len(q) : WalksTo(q, whenUs, n)}
<1>1. 0 \in S
  OBVIOUS
<1>2. ASSUME NEW k \in Nat, k \in S PROVE k + 1 \in S
  <2>1. CASE \E n \in 0 .. Len(q) : WalksTo(q, whenUs, n)
    BY <2>1
  <2>2. CASE k + 1 <= Len(q) /\ Passes(k)
    <3>1. q[k + 1].mWhenUs \in Nat
      <4>1. q[k + 1] \in Event
        BY <2>2
      <4> QED
        BY <4>1, LooperAssumption DEF Event
    <3>2. CASE q[k + 1].mWhenUs <= whenUs
      BY <2>2, <3>2
    <3>3. CASE q[k + 1].mWhenUs > whenUs
      <4>1. k \in 0 .. Len(q) /\ WalksTo(q, whenUs, k)
        BY <2>2, <3>3 DEF WalksTo
      <4> QED
        BY <4>1
    <3> QED
      BY <3>1, <3>2, <3>3
  <2> QED
    BY <1>2, <2>1, <2>2
<1>3. Len(q) \in S
  <2> HIDE DEF S
  <2> QED
    BY <1>1, <1>2, Induction
<1>4. \E n \in 0 .. Len(q) : WalksTo(q, whenUs, n)
  BY <1>3 DEF WalksTo
<1> QED
  BY <1>4 DEF Walked

(* An event is put where it belongs, and nothing else changes.             *)
LEMMA InsertedKeeps ==
  ASSUME NEW q \in Seq(Event), Ordered(q), NEW e \in Event,
         \A f \in Contents(q) : f.mMessage < e.mMessage
  PROVE  /\ Inserted(q, e) \in Seq(Event) /\ Ordered(Inserted(q, e))
         /\ Contents(Inserted(q, e)) = Contents(q) \cup {e}
<1> DEFINE n == Walked(q, e.mWhenUs)
           r == Inserted(q, e)
<1>1. n \in 0 .. Len(q) /\ WalksTo(q, e.mWhenUs, n)
  <2>1. e.mWhenUs \in Nat
    BY LooperAssumption DEF Event
  <2> QED
    BY <2>1, WalkEnds
<1> HIDE DEF n
<1>2. /\ Ahead(q, e.mWhenUs) = SubSeq(q, 1, n) /\ Behind(q, e.mWhenUs) = SubSeq(q, n + 1, Len(q))
      /\ SubSeq(q, 1, n) \in Seq(Event) /\ Len(SubSeq(q, 1, n)) = n
      /\ SubSeq(q, n + 1, Len(q)) \in Seq(Event) /\ Len(SubSeq(q, n + 1, Len(q))) = Len(q) - n
      /\ \A i \in 1 .. n : SubSeq(q, 1, n)[i] = q[i]
      /\ \A i \in 1 .. Len(q) - n : SubSeq(q, n + 1, Len(q))[i] = q[n + i]
  BY <1>1 DEF Ahead, Behind, n
<1>3. /\ r \in Seq(Event) /\ Len(r) = Len(q) + 1 /\ r[n + 1] = e
      /\ \A i \in 1 .. n : r[i] = q[i]
      /\ \A i \in n + 2 .. Len(q) + 1 : r[i] = q[i - 1]
  <2> DEFINE a == SubSeq(q, 1, n)
             b == SubSeq(q, n + 1, Len(q))
  <2>1. r = a \o <<e>> \o b
    BY <1>2 DEF Inserted
  <2>2. /\ a \in Seq(Event) /\ Len(a) = n /\ b \in Seq(Event) /\ Len(b) = Len(q) - n
        /\ \A i \in 1 .. n : a[i] = q[i]
        /\ \A i \in 1 .. Len(q) - n : b[i] = q[n + i]
    BY <1>2
  <2> HIDE DEF a, b, r
  <2>3. /\ a \o <<e>> \in Seq(Event) /\ Len(a \o <<e>>) = n + 1 /\ (a \o <<e>>)[n + 1] = e
        /\ \A i \in 1 .. n : (a \o <<e>>)[i] = q[i]
    BY <1>1, <2>2
  <2> DEFINE p == a \o <<e>>
  <2> HIDE DEF p
  <2>4. /\ r = p \o b /\ p \in Seq(Event) /\ Len(p) = n + 1 /\ p[n + 1] = e
        /\ \A i \in 1 .. n : p[i] = q[i]
    BY <2>1, <2>3 DEF p
  <2>5. /\ r \in Seq(Event) /\ Len(r) = Len(q) + 1
        /\ \A i \in 1 .. n + 1 : r[i] = p[i]
    BY <1>1, <2>2, <2>4
  <2>6. ASSUME NEW i \in n + 2 .. Len(q) + 1 PROVE r[i] = q[i - 1]
    <3>1. r[i] = b[i - (n + 1)]
      BY <1>1, <2>2, <2>4
    <3>2. i - (n + 1) \in 1 .. Len(q) - n /\ n + (i - (n + 1)) = i - 1
      BY <1>1
    <3> QED
      BY <2>2, <3>1, <3>2
  <2> QED
    BY <1>1, <2>4, <2>5, <2>6
<1> HIDE DEF r
<1>4. Contents(r) = Contents(q) \cup {e}
  <2>1. ASSUME NEW i \in 1 .. Len(r) PROVE r[i] \in Contents(q) \cup {e}
    <3>1. i = n + 1 \/ i \in 1 .. n \/ i \in n + 2 .. Len(q) + 1
      BY <1>1, <1>3
    <3>2. CASE i = n + 1
      BY <1>3, <3>2
    <3>3. CASE i \in 1 .. n
      BY <1>1, <1>3, <3>3 DEF Contents
    <3>4. CASE i \in n + 2 .. Len(q) + 1
      <4>1. i - 1 \in 1 .. Len(q) /\ r[i] = q[i - 1]
        BY <1>1, <1>3, <3>4
      <4> QED
        BY <4>1 DEF Contents
    <3> QED
      BY <3>1, <3>2, <3>3, <3>4
  <2>2. ASSUME NEW j \in 1 .. Len(q) PROVE q[j] \in Contents(r)
    <3>1. CASE j <= n
      BY <1>1, <1>3, <3>1 DEF Contents
    <3>2. CASE j > n
      <4>1. j + 1 \in n + 2 .. Len(q) + 1 /\ (j + 1) - 1 = j
        BY <1>1, <3>2
      <4>2. r[j + 1] = q[j] /\ j + 1 \in 1 .. Len(r)
        BY <1>1, <1>3, <4>1
      <4> QED
        BY <4>2 DEF Contents
    <3> QED
      BY <1>1, <3>1, <3>2
  <2>3. e \in Contents(r)
    BY <1>1, <1>3 DEF Contents
  <2> QED
    BY <2>1, <2>2, <2>3 DEF Contents
<1>5. \A i \in 1 .. Len(q) : q[i] \in Event /\ q[i].mMessage < e.mMessage
  BY DEF Contents
<1>6. \A f \in Event : f.mWhenUs \in Nat /\ f.mMessage \in Nat
  BY LooperAssumption DEF Event
<1>7. \A i \in n + 1 .. Len(q) : q[i].mWhenUs > e.mWhenUs
  <2>1. n < Len(q) => q[n + 1].mWhenUs > e.mWhenUs
    BY <1>1 DEF WalksTo
  <2>2. ASSUME NEW i \in n + 1 .. Len(q) PROVE q[n + 1].mWhenUs <= q[i].mWhenUs
    <3>1. /\ n + 1 \in 1 .. Len(q) /\ i \in 1 .. Len(q)
          /\ q[i].mWhenUs \in Nat /\ q[n + 1].mWhenUs \in Nat
      BY <1>1, <1>5, <1>6
    <3>2. n + 1 = i \/ Promises!Precedes(q[n + 1], q[i])
      BY <1>1, <3>1 DEF Ordered
    <3> QED
      BY <3>1, <3>2 DEF Promises!Precedes
  <2> QED
    BY <1>1, <1>5, <1>6, <2>1, <2>2
<1>8. \A i \in 1 .. n : Promises!Precedes(q[i], e)
  BY <1>1, <1>5, <1>6 DEF WalksTo, Promises!Precedes
<1>9. Ordered(r)
  <2> SUFFICES ASSUME NEW i \in 1 .. Len(r), NEW j \in 1 .. Len(r), i < j
               PROVE  Promises!Precedes(r[i], r[j])
    BY DEF Ordered
  <2>1. CASE j <= n
    <3>1. r[i] = q[i] /\ r[j] = q[j] /\ i \in 1 .. Len(q) /\ j \in 1 .. Len(q)
      BY <1>1, <1>3, <2>1
    <3> QED
      BY <3>1 DEF Ordered
  <2>2. CASE j = n + 1
    BY <1>1, <1>3, <1>8, <2>2
  <2>3. CASE i = n + 1
    <3>1. j - 1 \in n + 1 .. Len(q) /\ r[j] = q[j - 1]
      BY <1>1, <1>3, <2>3
    <3> QED
      BY <1>3, <1>7, <2>3, <3>1 DEF Promises!Precedes
  <2>4. CASE i <= n /\ j > n + 1
    <3>1. j - 1 \in n + 1 .. Len(q) /\ r[j] = q[j - 1] /\ r[i] = q[i] /\ i \in 1 .. Len(q)
      BY <1>1, <1>3, <2>4
    <3> QED
      BY <1>1, <2>4, <3>1 DEF Ordered
  <2>5. CASE i > n + 1
    <3>1. /\ j - 1 \in 1 .. Len(q) /\ r[j] = q[j - 1] /\ i - 1 \in 1 .. Len(q) /\ r[i] = q[i - 1]
          /\ i - 1 < j - 1
      BY <1>1, <1>3, <2>5
    <3> QED
      BY <3>1 DEF Ordered
  <2> QED
    BY <1>1, <1>3, <2>1, <2>2, <2>3, <2>4, <2>5
<1> QED
  BY <1>3, <1>4, <1>9 DEF r

----------------------------------------------------------------------------
(* What the refinement rests on: the queue is in the order of the promise, *)
(* and so is what a thread holds in its hand.                              *)
InHand == {event[t] : t \in {u \in Threads : pc[u] = "deliver"}}
Pending == Contents(mEventQueue) \cup InHand

QueueInOrder ==
  /\ mEventQueue \in Seq(Event) /\ now \in 0 .. MaxTime /\ posted \in 0 .. MaxPosts
  /\ Ordered(mEventQueue)
  /\ \A e \in Contents(mEventQueue) : e.mMessage <= posted

HandFirst ==
  \A t \in Threads :
    pc[t] = "deliver" =>
      /\ event[t] \in Event /\ event[t].mWhenUs <= now /\ event[t].mMessage <= posted
      /\ \A f \in Contents(mEventQueue) : Promises!Precedes(event[t], f)

EventTyped == event \in [Threads -> Event \cup {NULL}]
FreedEmpty == ~alive => mEventQueue = <<>>

DeliveryInv == QueueInOrder /\ HandFirst /\ EventTyped /\ FreedEmpty

LEMMA DeliveryInvInit == Init => DeliveryInv
<1> SUFFICES ASSUME Init PROVE DeliveryInv
  OBVIOUS
<1>1. mEventQueue = <<>> /\ now = 0 /\ posted = 0 /\ alive = TRUE /\ \A t \in Threads : pc[t] # "deliver"
  BY DEF Init
<1>2. Contents(mEventQueue) = {}
  BY <1>1 DEF Contents
<1> QED
  BY <1>1, <1>2, LooperAssumption DEF Init, DeliveryInv, QueueInOrder, HandFirst, EventTyped, FreedEmpty, Ordered

(* What most steps keep.                                                   *)
Untouched ==
  /\ UNCHANGED <<mEventQueue, now, posted, delivered>>
  /\ \A t \in Threads :
       /\ pc'[t] = "deliver" <=> pc[t] = "deliver"
       /\ pc[t] = "deliver" => event'[t] = event[t]

LEMMA UntouchedKeeps ==
  ASSUME DeliveryInv, Untouched, EventTyped', alive' = alive
  PROVE  DeliveryInv' /\ UNCHANGED <<Pending, delivered, posted, now, alive>>
<1>1. Contents(mEventQueue)' = Contents(mEventQueue)
  BY DEF Untouched, Contents
<1>2. InHand' = InHand
  BY DEF Untouched, InHand
<1>3. QueueInOrder'
  BY <1>1 DEF DeliveryInv, Untouched, QueueInOrder, Ordered
<1>4. HandFirst'
  BY <1>1 DEF DeliveryInv, Untouched, HandFirst
<1>5. FreedEmpty'
  BY DEF DeliveryInv, Untouched, FreedEmpty
<1> QED
  BY <1>1, <1>2, <1>3, <1>4, <1>5 DEF DeliveryInv, Pending, Untouched

LEMMA PostPromises ==
  ASSUME DeliveryInv, NEW t \in Threads, NEW d \in Delays, Post(t, d), SafeInv
  PROVE  DeliveryInv' /\ Promises!Post(d)
<1> DEFINE e == [mWhenUs |-> now + d, mMessage |-> posted + 1]
<1>1. /\ posted < MaxPosts /\ now + d <= MaxTime /\ mEventQueue' = Inserted(mEventQueue, e)
      /\ posted' = posted + 1 /\ UNCHANGED <<now, pc, event, alive, delivered>> /\ refs # {}
  BY DEF Post, objectVars, historyVars
<1>2. e \in Event /\ e.mMessage = posted + 1 /\ e.mWhenUs >= now /\ e.mWhenUs \in Nat
  BY <1>1, LooperAssumption DEF DeliveryInv, QueueInOrder, Event
<1>3. /\ mEventQueue \in Seq(Event) /\ Ordered(mEventQueue) /\ posted \in Nat /\ MaxPosts \in Nat
      /\ now \in 0 .. MaxTime
      /\ \A f \in Contents(mEventQueue) : f.mMessage <= posted /\ f \in Event
  BY LooperAssumption DEF DeliveryInv, QueueInOrder, Contents
<1>4. \A f \in Event : f.mMessage \in Nat /\ f.mWhenUs \in Nat
  BY LooperAssumption DEF Event
<1> HIDE DEF e
<1>5. /\ mEventQueue' \in Seq(Event) /\ Ordered(mEventQueue')
      /\ Contents(mEventQueue') = Contents(mEventQueue) \cup {e}
  <2>1. \A f \in Contents(mEventQueue) : f.mMessage < e.mMessage
    BY <1>2, <1>3, <1>4
  <2> QED
    BY <1>1, <1>2, <1>3, <2>1, InsertedKeeps
<1>6. QueueInOrder'
  <2>1. posted' \in 0 .. MaxPosts /\ now' \in 0 .. MaxTime
    BY <1>1, <1>3
  <2>2. \A f \in Contents(mEventQueue') : f.mMessage <= posted'
    BY <1>1, <1>2, <1>3, <1>4, <1>5
  <2>3. Ordered(mEventQueue)' /\ Contents(mEventQueue)' = Contents(mEventQueue')
    BY <1>5 DEF Ordered, Contents
  <2> QED
    BY <1>5, <2>1, <2>2, <2>3 DEF QueueInOrder
<1>7. HandFirst'
  <2> SUFFICES ASSUME NEW u \in Threads, pc[u] = "deliver"
               PROVE  /\ event[u] \in Event /\ event[u].mWhenUs <= now
                      /\ event[u].mMessage <= posted + 1
                      /\ \A f \in Contents(mEventQueue') : Promises!Precedes(event[u], f)
    BY <1>1 DEF HandFirst, Contents
  <2>1. /\ event[u] \in Event /\ event[u].mWhenUs <= now /\ event[u].mMessage <= posted
        /\ \A f \in Contents(mEventQueue) : Promises!Precedes(event[u], f)
    BY DEF DeliveryInv, HandFirst
  <2>2. Promises!Precedes(event[u], e)
    BY <1>2, <1>3, <1>4, <2>1 DEF Promises!Precedes
  <2> QED
    BY <1>3, <1>4, <1>5, <2>1, <2>2
<1>8. FreedEmpty' /\ EventTyped'
  BY <1>1 DEF SafeInv, Gone, FreedEmpty, DeliveryInv, EventTyped
<1>9. Pending' = Pending \cup {e}
  <2>1. InHand' = InHand
    BY <1>1 DEF InHand
  <2> QED
    BY <1>5, <2>1 DEF Pending, Contents
<1> QED
  BY <1>1, <1>6, <1>7, <1>8, <1>9 DEF DeliveryInv, Promises!Post, Pending, InHand, e

(* The head of the queue comes before all that stays behind it.            *)
LEMMA HeadIsFirst ==
  ASSUME NEW q \in Seq(Event), Ordered(q), q # <<>>
  PROVE  /\ Head(q) \in Event /\ Tail(q) \in Seq(Event) /\ Ordered(Tail(q))
         /\ Contents(q) = Contents(Tail(q)) \cup {Head(q)}
         /\ \A f \in Contents(Tail(q)) : Promises!Precedes(Head(q), f)
<1>1. /\ Len(q) \in Nat \ {0} /\ Head(q) = q[1] /\ q[1] \in Event /\ Tail(q) \in Seq(Event)
      /\ Len(Tail(q)) = Len(q) - 1 /\ \A i \in 1 .. Len(q) - 1 : Tail(q)[i] = q[i + 1]
  <2>1. Len(q) \in Nat \ {0}
    BY EmptySeq
  <2> QED
    BY <2>1
<1>2. Ordered(Tail(q))
  <2> SUFFICES ASSUME NEW i \in 1 .. Len(q) - 1, NEW j \in 1 .. Len(q) - 1, i < j
               PROVE  Promises!Precedes(q[i + 1], q[j + 1])
    BY <1>1 DEF Ordered
  <2>1. i + 1 \in 1 .. Len(q) /\ j + 1 \in 1 .. Len(q) /\ i + 1 < j + 1
    BY <1>1
  <2> QED
    BY <2>1 DEF Ordered
<1>3. \A f \in Contents(Tail(q)) : \E j \in 2 .. Len(q) : f = q[j]
  BY <1>1 DEF Contents
<1>4. Contents(q) = Contents(Tail(q)) \cup {Head(q)}
  <2>1. ASSUME NEW i \in 1 .. Len(q) PROVE q[i] \in Contents(Tail(q)) \cup {Head(q)}
    <3>1. CASE i = 1
      BY <1>1, <3>1
    <3>2. CASE i # 1
      <4>1. i - 1 \in 1 .. Len(Tail(q)) /\ Tail(q)[i - 1] = q[i]
        BY <1>1, <3>2
      <4> QED
        BY <4>1 DEF Contents
    <3> QED
      BY <3>1, <3>2
  <2>2. Head(q) \in Contents(q)
    BY <1>1 DEF Contents
  <2>3. Contents(Tail(q)) \subseteq Contents(q)
    BY <1>1, <1>3 DEF Contents
  <2> QED
    BY <2>1, <2>2, <2>3 DEF Contents
<1>5. \A f \in Contents(Tail(q)) : Promises!Precedes(Head(q), f)
  BY <1>1, <1>3 DEF Ordered
<1> QED
  BY <1>1, <1>2, <1>4, <1>5

(* Taking an event off the queue moves it from the queue to the hand.      *)
LEMMA TakeStutters ==
  ASSUME DeliveryInv, SerialInv, NEW t \in Threads, Loop(t), LoopTakes(t)
  PROVE  DeliveryInv' /\ UNCHANGED <<Pending, delivered, posted, now, alive>>
<1> DEFINE e == Head(mEventQueue)
<1>1. /\ pc[t] = "loop" /\ mEventQueue # <<>> /\ e.mWhenUs <= now
      /\ mEventQueue' = Tail(mEventQueue) /\ alive
      /\ event' = [event EXCEPT ![t] = e] /\ pc' = [pc EXCEPT ![t] = "deliver"]
      /\ UNCHANGED <<now, posted, alive, delivered>>
  BY DEF Loop, LoopTakes, Due, Goto, Erased, objectVars, historyVars
<1>2. /\ e \in Event /\ mEventQueue' \in Seq(Event) /\ Ordered(mEventQueue')
      /\ Contents(mEventQueue) = Contents(mEventQueue') \cup {e}
      /\ \A f \in Contents(mEventQueue') : Promises!Precedes(e, f)
  BY <1>1, HeadIsFirst DEF DeliveryInv, QueueInOrder
<1> HIDE DEF e
<1>3. \A u \in Threads : u # t => pc[u] # "deliver"
  BY <1>1 DEF SerialInv, OneActive, Active, InLoop
<1>4. event'[t] = e /\ pc'[t] = "deliver" /\ EventTyped' /\ \A u \in Threads : pc'[u] = "deliver" => u = t
  BY <1>1, <1>2, <1>3 DEF DeliveryInv, EventTyped, SerialInv, JoinInv, ControlTypeOK
<1>5. Contents(mEventQueue)' = Contents(mEventQueue')
  BY DEF Contents
<1>6. QueueInOrder'
  <2>1. Ordered(mEventQueue)'
    BY <1>2 DEF Ordered
  <2> QED
    BY <1>1, <1>2, <1>5, <2>1 DEF DeliveryInv, QueueInOrder
<1>7. HandFirst'
  <2>1. e.mMessage <= posted
    BY <1>2 DEF DeliveryInv, QueueInOrder
  <2> QED
    BY <1>1, <1>2, <1>4, <1>5, <2>1 DEF HandFirst
<1>8. Pending' = Pending
  <2>1. InHand = {} /\ InHand' = {e}
    BY <1>1, <1>3, <1>4 DEF InHand
  <2> QED
    BY <1>2, <1>5, <2>1 DEF Pending
<1> QED
  BY <1>1, <1>4, <1>6, <1>7, <1>8 DEF DeliveryInv, FreedEmpty

(* Delivering gives the handler the pending event that is due first.       *)
LEMMA DeliverPromises ==
  ASSUME DeliveryInv, SerialInv, NEW t \in Threads, Deliver(t)
  PROVE  DeliveryInv' /\ \E m \in Pending : Promises!Deliver(m)
<1>0. PICK e : e = event[t]
  OBVIOUS
<1>1. /\ pc[t] = "deliver" /\ delivered' = Append(delivered, e) /\ pc' = [pc EXCEPT ![t] = "handle"]
      /\ UNCHANGED <<event, mEventQueue, now, posted, alive>>
  BY <1>0 DEF Deliver, Goto, queueVars, objectVars
<1>2. /\ e \in Event /\ e.mWhenUs <= now
      /\ \A f \in Contents(mEventQueue) : Promises!Precedes(e, f)
  BY <1>0, <1>1 DEF DeliveryInv, HandFirst
<1>3. ~Promises!Precedes(e, e)
  <2>1. e.mWhenUs \in Nat /\ e.mMessage \in Nat
    BY <1>2, LooperAssumption DEF Event
  <2> QED
    BY <2>1 DEF Promises!Precedes
<1>4. \A u \in Threads : u # t => pc[u] # "deliver"
  BY <1>1 DEF SerialInv, OneActive, Active, InLoop
<1>5. \A u \in Threads : pc'[u] # "deliver"
  BY <1>1, <1>4 DEF SerialInv, JoinInv, ControlTypeOK
<1>6. InHand = {e} /\ InHand' = {}
  BY <1>0, <1>1, <1>4, <1>5 DEF InHand
<1>7. Contents(mEventQueue)' = Contents(mEventQueue) /\ Pending = Contents(mEventQueue) \cup {e}
      /\ Pending' = Contents(mEventQueue) /\ e \notin Contents(mEventQueue)
  BY <1>1, <1>2, <1>3, <1>6 DEF Contents, Pending
<1>8. DeliveryInv'
  BY <1>1, <1>5, <1>7 DEF DeliveryInv, QueueInOrder, Ordered, HandFirst, EventTyped, FreedEmpty
<1>9. Promises!Deliver(e)
  <2>1. Pending' = Pending \ {e} /\ \A f \in Pending \ {e} : Promises!Precedes(e, f)
    BY <1>2, <1>7
  <2> QED
    BY <1>1, <1>2, <1>7, <2>1 DEF Promises!Deliver, Pending, InHand
<1>10. \E m \in Pending : Promises!Deliver(m)
  <2>1. e \in Pending
    BY <1>7
  <2> QED
    BY <1>9, <2>1
<1> QED
  BY <1>8, <1>10

(* Freeing the looper gives up the events nobody has taken up.             *)
LEMMA FreeCloses ==
  ASSUME DeliveryInv, alive, ~alive', mEventQueue' = <<>>, UNCHANGED <<delivered, posted, now, event>>,
         \A t \in Threads : pc'[t] = "deliver" <=> pc[t] = "deliver"
  PROVE  DeliveryInv' /\ Promises!Close
<1>1. Contents(mEventQueue)' = {} /\ InHand' = InHand
  BY DEF Contents, InHand
<1>2. QueueInOrder'
  BY <1>1, EmptySeq DEF DeliveryInv, QueueInOrder, Ordered
<1>3. HandFirst' /\ EventTyped' /\ FreedEmpty'
  BY <1>1 DEF DeliveryInv, HandFirst, EventTyped, FreedEmpty
<1>4. Pending' \subseteq Pending
  BY <1>1 DEF Pending
<1> QED
  BY <1>2, <1>3, <1>4 DEF DeliveryInv, Promises!Close, Pending, InHand

(* Every step of a looper is one of its promise, or none.                  *)
Keeps == DeliveryInv' /\ (Promises!Next \/ UNCHANGED <<Pending, delivered, posted, now, alive>>)

LEMMA UntouchedKept ==
  ASSUME DeliveryInv, Untouched, event' = event \/ EventTyped', alive' = alive
  PROVE  Keeps
<1>1. EventTyped'
  BY DEF DeliveryInv, EventTyped
<1> QED
  BY <1>1, UntouchedKeeps DEF Keeps

LEMMA KeepsStep ==
  ASSUME DeliveryInv, SerialInv, SafeInv, [Next]_vars
  PROVE  Keeps
<1> USE DEF queueVars, controlVars, threadVars, objectVars, historyVars
<1>t. pc \in [Threads -> PCs] /\ caller \in [Threads -> {"idle", "handle"}]
      /\ event \in [Threads -> Event \cup {NULL}] /\ LooperThreads \subseteq Threads
  BY DEF SerialInv, JoinInv, ControlTypeOK, DeliveryInv, EventTyped, Threads
<1>1. ASSUME NEW t \in Threads, Loop(t) PROVE Keeps
  <2>1. CASE LoopTakes(t)
    BY <1>1, <2>1, TakeStutters DEF Keeps
  <2>2. CASE LoopExits(t) \/ LoopWaits(t)
    <3>1. Untouched /\ event' = event /\ alive' = alive
      BY <1>1, <2>2, <1>t DEF Loop, LoopExits, LoopWaits, Goto, Untouched
    <3> QED
      BY <3>1, UntouchedKept
  <2> QED
    BY <1>1, <2>1, <2>2 DEF Loop
<1>2. ASSUME NEW t \in Threads, LoopOnFreed(t) PROVE Keeps
  <2>1. Untouched /\ event' = event /\ alive' = alive
    BY <1>2, <1>t DEF LoopOnFreed, Goto, Untouched
  <2> QED
    BY <2>1, UntouchedKept
<1>3. ASSUME NEW t \in Threads, Deliver(t) PROVE Keeps
  <2>1. DeliveryInv' /\ \E m \in Pending : Promises!Deliver(m)
    BY <1>3, DeliverPromises
  <2> QED
    BY <2>1 DEF Keeps, Promises!Next, Pending, InHand
<1>4. ASSUME NEW t \in Threads, RequestExit(t) \/ StopSignals(t) \/ Join(t) \/ Joined(t)
             \/ LocalLooped(t) \/ ThreadLooped(t) \/ WaitReturns(t)
      PROVE  Keeps
  <2>1. Untouched /\ event' = event /\ alive' = alive
    BY <1>4, <1>t DEF RequestExit, StopSignals, Join, Joined, LocalLooped, ThreadLooped, WaitReturns,
         Goto, Untouched
  <2> QED
    BY <2>1, UntouchedKept
<1>5. ASSUME NEW t \in Threads, HandlerReturns(t) PROVE Keeps
  <2>1. Untouched /\ EventTyped' /\ alive' = alive
    BY <1>5, <1>t DEF HandlerReturns, Goto, Untouched, EventTyped
  <2> QED
    BY <2>1, UntouchedKept
<1>6. ASSUME NEW t \in Threads, StopReturns(t) PROVE Keeps
  <2>1. /\ UNCHANGED <<delivered, posted, now, event>>
        /\ \A u \in Threads : pc'[u] = "deliver" <=> pc[u] = "deliver"
    BY <1>6, <1>t DEF StopReturns, Goto
  <2>2. alive
    BY <1>6 DEF SafeInv, Gone, StopReturns, StopPCs, Stopping
  <2>3. CASE refs = {}
    <3>1. alive' = FALSE /\ mEventQueue' = <<>>
      BY <1>6, <2>3 DEF StopReturns
    <3>2. DeliveryInv' /\ Promises!Close
      BY <2>1, <2>2, <3>1, FreeCloses
    <3> QED
      BY <3>2 DEF Keeps, Promises!Next
  <2>4. CASE refs # {}
    <3>1. alive' = TRUE /\ mEventQueue' = mEventQueue
      BY <1>6, <2>4 DEF StopReturns
    <3>2. Untouched /\ event' = event /\ alive' = alive
      BY <2>1, <2>2, <3>1 DEF Untouched, SafeInv, RefTypeOK
    <3> QED
      BY <3>2, UntouchedKept
  <2> QED
    BY <2>3, <2>4
<1>7. ASSUME NEW t \in Threads, NEW d \in Delays, Post(t, d) PROVE Keeps
  <2>1. DeliveryInv' /\ Promises!Post(d)
    BY <1>7, PostPromises
  <2> QED
    BY <2>1 DEF Keeps, Promises!Next
<1>8. ASSUME NEW t \in Threads, StartLocal(t) \/ Stop(t) PROVE Keeps
  <2>1. Untouched /\ event' = event /\ alive' = alive
    BY <1>8, <1>t DEF StartLocal, Stop, TakeDown, CanCall, InUserCode, Goto, Untouched
  <2> QED
    BY <2>1, UntouchedKept
<1>9. ASSUME NEW t \in Threads, NEW g \in LooperThreads, StartThread(t, g) PROVE Keeps
  <2>1. g \in Nat
    BY LooperAssumption DEF LooperThreads
  <2>2. pc[g] = "unborn"
    BY <1>9, <2>1 DEF StartThread, Fresh
  <2>3. Untouched /\ event' = event /\ alive' = alive
    BY <1>9, <1>t, <2>2 DEF StartThread, Goto, Untouched
  <2> QED
    BY <2>3, UntouchedKept
<1>10. ASSUME NEW t \in Threads, NEW r \in Holders, Release(t, r) PROVE Keeps
  <2>1. /\ UNCHANGED <<delivered, posted, now, event>>
        /\ \A u \in Threads : pc'[u] = "deliver" <=> pc[u] = "deliver"
    BY <1>10, <1>t DEF Release, TakeDown, MayRelease, InUserCode, Goto
  <2>2. alive
    BY <1>10 DEF SafeInv, Gone, Release, MayRelease
  <2>3. CASE alive' = FALSE /\ mEventQueue' = <<>>
    <3>1. DeliveryInv' /\ Promises!Close
      BY <2>1, <2>2, <2>3, FreeCloses
    <3> QED
      BY <3>1 DEF Keeps, Promises!Next
  <2>4. CASE UNCHANGED <<alive, mEventQueue>>
    <3>1. Untouched /\ event' = event /\ alive' = alive
      BY <2>1, <2>4 DEF Untouched
    <3> QED
      BY <3>1, UntouchedKept
  <2> QED
    BY <1>10, <2>3, <2>4 DEF Release
<1>11. ASSUME NEW g \in LooperThreads, ThreadBegins(g) PROVE Keeps
  <2>1. Untouched /\ event' = event /\ alive' = alive
    BY <1>11, <1>t DEF ThreadBegins, Goto, Untouched
  <2> QED
    BY <2>1, UntouchedKept
<1>12. CASE Tick
  <2>1. /\ now < MaxTime /\ now' = now + 1
        /\ UNCHANGED <<mEventQueue, pc, event, posted, alive, delivered>>
    BY <1>12 DEF Tick
  <2>2. Contents(mEventQueue)' = Contents(mEventQueue) /\ Pending' = Pending
    BY <2>1 DEF Contents, Pending, InHand
  <2>3. now' \in 0 .. MaxTime
    BY <2>1, LooperAssumption DEF DeliveryInv, QueueInOrder
  <2>4. QueueInOrder' /\ EventTyped' /\ FreedEmpty'
    BY <2>1, <2>2, <2>3 DEF DeliveryInv, QueueInOrder, Ordered, EventTyped, FreedEmpty
  <2>5. HandFirst'
    <3>1. \A t \in Threads : pc[t] = "deliver" => event[t].mWhenUs \in Nat
      BY LooperAssumption DEF DeliveryInv, HandFirst, Event
    <3>2. \A t \in Threads : pc[t] = "deliver" => event[t].mWhenUs <= now + 1
      BY <3>1, LooperAssumption DEF DeliveryInv, HandFirst, QueueInOrder
    <3> QED
      BY <2>1, <2>2, <3>2 DEF DeliveryInv, HandFirst
  <2>6. Promises!Tick
    BY <2>1, <2>2 DEF Promises!Tick, Pending, InHand
  <2> QED
    BY <2>4, <2>5, <2>6 DEF Keeps, DeliveryInv, Promises!Next
<1>13. CASE UNCHANGED vars
  <2>1. Untouched /\ event' = event /\ alive' = alive
    BY <1>13 DEF vars, Untouched
  <2> QED
    BY <2>1, UntouchedKept
<1> QED
  BY <1>1, <1>2, <1>3, <1>4, <1>5, <1>6, <1>7, <1>8, <1>9, <1>10, <1>11, <1>12, <1>13
  DEF Next, Step, Call

(* Under the owner's discipline a looper keeps its promise (MessageQueue): *)
(* each posted message is delivered at most once, never early, the one due *)
(* first before the others, and none is lost but with the looper.          *)
THEOREM LooperKeepsItsPromise == SerialControl => (Spec => Implements)
<1> SUFFICES ASSUME SerialControl PROVE Spec => Implements
  OBVIOUS
<1>1. Init => SerialInv /\ SafeInv /\ DeliveryInv
  BY SerialInvInit, SafeInvInit, DeliveryInvInit
<1>2. SerialInv /\ SafeInv /\ DeliveryInv /\ [Next]_vars => (SerialInv /\ SafeInv /\ DeliveryInv)'
  BY SerialInvStep, SafeInvStep, KeepsStep DEF Keeps
<1>3. Init => Promises!Init
  BY DEF Init, Promises!Init, Contents
<1>4. SerialInv /\ SafeInv /\ DeliveryInv /\ [Next]_vars => [Promises!Next]_(Promises!promise)
  BY KeepsStep DEF Keeps, Promises!promise, Pending, InHand
<1> QED
  BY <1>1, <1>2, <1>3, <1>4, PTL DEF Spec, Implements, Promises!Spec
=============================================================================
