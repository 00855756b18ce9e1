--------------------------- MODULE MercuryThread ---------------------------
(***************************************************************************)
(* The Thread class of src/libutils/Threads.cpp: one Thread object, the    *)
(* clients that run it, ask it to exit, wait for it and drop their         *)
(* references, and the successive threads created by run(), each inside    *)
(* _threadLoop().  mLock is explicit only where a call holds it over       *)
(* another thread's step: run() releases it after the thread was created.  *)
(***************************************************************************)
EXTENDS Naturals, FiniteSets

CONSTANTS
  Clients, Workers,   \* callers, and the threads that run() may create
  RawRunMayFail,      \* thread creation may fail when nobody holds a reference
  Free, NoThread      \* mLock is not held; mThread is thread_id_t(-1)

ASSUME ThreadAssumption ==
  /\ RawRunMayFail \in BOOLEAN
  /\ Free \notin Clients /\ NoThread \notin Workers

VARIABLES
  mLock, mExitPending, mRunning, mStatus, mHoldSelf, mThread,
  refs,      \* the clients that hold a strong reference
  caller,    \* where each client is: "raw", "idle", "run", "exitWait", "join"
  waiting,   \* the clients inside mThreadExitedCondition.wait(), not yet woken
  at,        \* where each worker is in _threadLoop()
  result,    \* the worker's local: call threadLoop() again
  strong,    \* the workers whose local sp<Thread> holds the object
  object,    \* "live" or "deleted"
  looped,    \* history: workers that called threadLoop()
  failed,    \* history: workers whose readyToRun() failed
  asked,     \* history: workers asked to exit
  fault      \* history: the object was used after it was deleted

members == <<mLock, mExitPending, mRunning, mStatus, mHoldSelf, mThread>>
clients == <<refs, caller, waiting>>
history == <<looped, failed, asked>>
vars == <<members, clients, at, result, strong, object, history, fault>>

(* Either every client starts with a reference, or the object is made for  *)
(* (new ThreadSubclass())->run() and there is none.                        *)
Init ==
  /\ mLock = Free /\ mExitPending = FALSE /\ mRunning = FALSE
  /\ mStatus = "ok" /\ mHoldSelf = FALSE /\ mThread = NoThread
  /\ refs \in {Clients, {}}
  /\ caller = [c \in Clients |-> IF refs = {} THEN "raw" ELSE "idle"]
  /\ waiting = {}
  /\ at = [w \in Workers |-> "none"] /\ result = [w \in Workers |-> TRUE]
  /\ strong = {} /\ object = "live"
  /\ looped = {} /\ failed = {} /\ asked = {} /\ fault = FALSE

Goto(w, label) == at' = [at EXCEPT ![w] = label]
Returns(c) == caller' = [caller EXCEPT ![c] = "idle"]
Result(w, r) == result' = [result EXCEPT ![w] = r]
Use == fault' = (fault \/ object = "deleted")

(* A strong reference was dropped: the last one deletes the object.        *)
Unreferenced(r, h, s) == r = {} /\ ~h /\ s = {}
Release(r, h, s) == object' = IF Unreferenced(r, h, s) THEN "deleted" ELSE object

(* mExitPending is set on the current thread's behalf.                     *)
Ask == mExitPending' = TRUE /\ asked' = asked \cup ({mThread} \cap Workers)
----------------------------------------------------------------------------
(* Clients.  Each call needs a reference, except the run() of              *)
(* (new ThreadSubclass())->run(), made through a raw pointer.              *)

Ready(c) == caller[c] = "idle" /\ c \in refs /\ mLock = Free

(* run(), up to the return of the thread creation, with mLock still held.  *)
(* A second run() while mRunning returns INVALID_OPERATION.                *)
RunAnew(c) == caller[c] = "raw" /\ refs = {} /\ strong = {} /\ \A w \in Workers : at[w] = "none"
Runs(c) == (Ready(c) \/ (RunAnew(c) /\ mLock = Free)) /\ ~mRunning

ClearHoldSelf == mHoldSelf' = FALSE

Run(c) ==
  /\ Runs(c)
  /\ mLock' = c /\ mStatus' = "ok" /\ mExitPending' = FALSE
  /\ mHoldSelf' = TRUE /\ mRunning' = TRUE
  /\ \E w \in Workers : at[w] = "none" /\ mThread' = w /\ Goto(w, "start")
  /\ caller' = [caller EXCEPT ![c] = "run"]
  /\ Use
  /\ UNCHANGED <<refs, waiting, result, strong, object, history>>

(* The creation failed: mHoldSelf is cleared, mLock still held.            *)
RunFails(c) ==
  /\ Runs(c) /\ (refs = {} => RawRunMayFail)
  /\ mLock' = c /\ mStatus' = "error" /\ mExitPending' = FALSE
  /\ ClearHoldSelf /\ mRunning' = FALSE /\ mThread' = NoThread
  /\ Release(refs, mHoldSelf', strong)
  /\ caller' = [caller EXCEPT ![c] = "run"]
  /\ Use
  /\ UNCHANGED <<refs, waiting, at, result, strong, history>>

(* The Autolock of run() goes out of scope.                                *)
RunReturns(c) ==
  /\ caller[c] = "run" /\ mLock = c
  /\ mLock' = Free /\ Use /\ Returns(c)
  /\ UNCHANGED <<mExitPending, mRunning, mStatus, mHoldSelf, mThread,
                 refs, waiting, at, result, strong, object, history>>

RequestExit(c) ==
  /\ Ready(c) /\ Ask
  /\ UNCHANGED <<mLock, mRunning, mStatus, mHoldSelf, mThread, clients,
                 at, result, strong, object, looped, failed, fault>>

(* requestExitAndWait() on a running thread: wait on the condition; on one *)
(* that is not running it ends with mExitPending cleared.                  *)
RequestExitAndWait(c) ==
  /\ Ready(c)
  /\ \/ /\ mRunning /\ Ask
        /\ caller' = [caller EXCEPT ![c] = "exitWait"] /\ waiting' = waiting \cup {c}
     \/ ~mRunning /\ mExitPending' = FALSE /\ UNCHANGED <<caller, waiting, asked>>
  /\ UNCHANGED <<mLock, mRunning, mStatus, mHoldSelf, mThread, refs,
                 at, result, strong, object, looped, failed, fault>>

(* join() on a running thread; otherwise it returns at once.               *)
Join(c) ==
  /\ Ready(c) /\ mRunning
  /\ caller' = [caller EXCEPT ![c] = "join"] /\ waiting' = waiting \cup {c}
  /\ UNCHANGED <<members, refs, at, result, strong, object, history, fault>>

(* A waiter leaves the condition without a broadcast.                      *)
WakeSpuriously(c) ==
  /\ c \in waiting /\ waiting' = waiting \ {c}
  /\ UNCHANGED <<members, refs, caller, at, result, strong, object, history, fault>>

(* A woken waiter has mLock again: it waits on if the thread runs.         *)
Stopped == ~mRunning

Wake(c) ==
  /\ caller[c] \in {"exitWait", "join"} /\ c \notin waiting /\ mLock = Free
  /\ IF Stopped
       THEN /\ Returns(c) /\ UNCHANGED waiting
            /\ mExitPending' = (mExitPending /\ caller[c] = "join")
       ELSE waiting' = waiting \cup {c} /\ UNCHANGED <<caller, mExitPending>>
  /\ Use
  /\ UNCHANGED <<mLock, mRunning, mStatus, mHoldSelf, mThread, refs,
                 at, result, strong, object, history>>

DropReference(c) ==
  /\ caller[c] = "idle" /\ c \in refs
  /\ refs' = refs \ {c} /\ Release(refs', mHoldSelf, strong)
  /\ UNCHANGED <<members, caller, waiting, at, result, strong, history, fault>>
----------------------------------------------------------------------------
(* _threadLoop() *)

(* mutant of Start: no local reference is taken                            *)
StartBare(w) ==
  /\ at[w] = "start"
  /\ mHoldSelf' = FALSE /\ Release(refs, FALSE, strong)
  /\ Goto(w, "ready") /\ Use
  /\ UNCHANGED <<mLock, mExitPending, mRunning, mStatus, mThread, clients,
                 result, strong, history>>

(* The local sp<> takes over from mHoldSelf.                               *)
Start(w) ==
  /\ at[w] = "start"
  /\ strong' = strong \cup {w} /\ mHoldSelf' = FALSE
  /\ Goto(w, "ready") /\ Use
  /\ UNCHANGED <<mLock, mExitPending, mRunning, mStatus, mThread, clients,
                 result, object, history>>

ReadyToRun(w) ==
  /\ at[w] = "ready" /\ Use
  /\ \/ /\ mStatus' = "ok" /\ Goto(w, "first") /\ UNCHANGED <<result, failed>>
     \/ /\ mStatus' = "error" /\ Goto(w, "check")
        /\ Result(w, FALSE) /\ failed' = failed \cup {w}
  /\ UNCHANGED <<mLock, mExitPending, mRunning, mHoldSelf, mThread, clients,
                 strong, object, looped, asked>>

(* A round of threadLoop() begins.                                         *)
BeginRound(w) == Goto(w, "loop") /\ looped' = looped \cup {w}

(* exitPending() before the first round                                    *)
FirstRound(w) ==
  /\ at[w] = "first" /\ mLock = Free /\ Use
  /\ IF mExitPending
       THEN Goto(w, "check") /\ UNCHANGED looped
       ELSE BeginRound(w)
  /\ UNCHANGED <<members, clients, result, strong, object, failed, asked>>

(* threadLoop() may ask its own thread to exit, and returns.               *)
RequestsOwnExit(w) ==
  /\ at[w] = "loop" /\ mLock = Free /\ Ask /\ Use
  /\ UNCHANGED <<mLock, mRunning, mStatus, mHoldSelf, mThread, clients,
                 at, result, strong, object, looped, failed>>

EndRound(w) ==
  /\ at[w] = "loop" /\ Use
  /\ \E r \in BOOLEAN : Result(w, r)
  /\ Goto(w, "check")
  /\ UNCHANGED <<members, clients, strong, object, history>>

Exits(w) == ~result[w] \/ mExitPending

(* mutant of CheckExit: the waiters are not woken                          *)
CheckExitSilently(w) ==
  /\ at[w] = "check" /\ mLock = Free /\ Use
  /\ IF Exits(w)
       THEN /\ mExitPending' = TRUE /\ mRunning' = FALSE /\ mThread' = NoThread
            /\ Goto(w, "end")
       ELSE Goto(w, "drop") /\ UNCHANGED <<mExitPending, mRunning, mThread>>
  /\ UNCHANGED <<mLock, mStatus, mHoldSelf, refs, caller, waiting, result, strong, object, history>>

(* mutant of CheckExit: the end is announced before the last round         *)
CheckExitEarly(w) ==
  /\ at[w] = "check" /\ mLock = Free /\ Use
  /\ IF Exits(w)
       THEN /\ mExitPending' = TRUE /\ mRunning' = FALSE /\ mThread' = NoThread
            /\ waiting' = {} /\ Goto(w, IF result[w] THEN "loop" ELSE "end")
       ELSE Goto(w, "drop") /\ UNCHANGED <<mExitPending, mRunning, mThread, waiting>>
  /\ UNCHANGED <<mLock, mStatus, mHoldSelf, refs, caller, result, strong, object, history>>

CheckExit(w) ==
  /\ at[w] = "check" /\ mLock = Free /\ Use
  /\ IF Exits(w)
       THEN /\ mExitPending' = TRUE /\ mRunning' = FALSE /\ mThread' = NoThread
            /\ waiting' = {} /\ Goto(w, "end")
       ELSE Goto(w, "drop") /\ UNCHANGED <<mExitPending, mRunning, mThread, waiting>>
  /\ UNCHANGED <<mLock, mStatus, mHoldSelf, refs, caller, result, strong, object, history>>

(* mutant of DropStrong: the reference is kept from round to round         *)
KeepStrong(w) ==
  /\ at[w] = "drop" /\ Goto(w, "promote")
  /\ UNCHANGED <<members, clients, result, strong, object, history, fault>>

(* strong.clear(), then weak.promote(): the object lives on between rounds *)
(* only by the references of others.                                       *)
DropStrong(w) ==
  /\ at[w] = "drop"
  /\ strong' = strong \ {w} /\ Release(refs, mHoldSelf, strong')
  /\ Goto(w, "promote")
  /\ UNCHANGED <<members, clients, result, history, fault>>

PromoteWeak(w) ==
  /\ at[w] = "promote"
  /\ \/ object = "live" /\ strong' = strong \cup {w} /\ BeginRound(w)
     \/ object = "deleted" /\ Goto(w, "gone") /\ UNCHANGED <<strong, looped>>
  /\ UNCHANGED <<members, clients, result, object, failed, asked, fault>>

(* The local sp<> is destroyed as _threadLoop() returns.                   *)
End(w) ==
  /\ at[w] = "end"
  /\ strong' = strong \ {w} /\ Release(refs, mHoldSelf, strong')
  /\ Goto(w, "gone")
  /\ UNCHANGED <<members, clients, result, history, fault>>
----------------------------------------------------------------------------
Client(c) ==
  \/ Run(c) \/ RunFails(c) \/ RunReturns(c) \/ RequestExit(c)
  \/ RequestExitAndWait(c) \/ Join(c) \/ WakeSpuriously(c) \/ Wake(c)
  \/ DropReference(c)

Worker(w) ==
  \/ Start(w) \/ ReadyToRun(w) \/ FirstRound(w) \/ RequestsOwnExit(w)
  \/ EndRound(w) \/ CheckExit(w) \/ DropStrong(w) \/ PromoteWeak(w) \/ End(w)

Next == (\E c \in Clients : Client(c)) \/ (\E w \in Workers : Worker(w))

Spec == Init /\ [][Next]_vars

(* The scheduler runs every thread, threadLoop() returns each time, and a  *)
(* woken waiter gets mLock although others keep taking it.                 *)
FairSpec ==
  /\ Spec
  /\ \A w \in Workers :
       WF_vars(\/ Start(w) \/ ReadyToRun(w) \/ FirstRound(w) \/ EndRound(w)
               \/ CheckExit(w) \/ DropStrong(w) \/ PromoteWeak(w) \/ End(w))
  /\ \A c \in Clients : WF_vars(RunReturns(c)) /\ SF_vars(Wake(c))
----------------------------------------------------------------------------
(* Properties *)

Locations == {"none", "start", "ready", "first", "loop", "check", "drop",
              "promote", "end", "gone"}

(* A worker that has been created and has not announced its end            *)
Active(w) == at[w] \in {"start", "ready", "first", "loop", "check", "drop", "promote"}

(* Every variable stays in its domain; the object holds itself only until  *)
(* the new thread has taken it over, and not after a failed run().         *)
TypeOK ==
  /\ mHoldSelf => \E w \in Workers : at[w] = "start"
  /\ mLock \in Clients \cup {Free} /\ mThread \in Workers \cup {NoThread}
  /\ {mExitPending, mRunning, mHoldSelf, fault} \subseteq BOOLEAN
  /\ mStatus \in {"ok", "error"} /\ object \in {"live", "deleted"}
  /\ refs \subseteq Clients /\ waiting \subseteq Clients
  /\ caller \in [Clients -> {"raw", "idle", "run", "exitWait", "join"}]
  /\ at \in [Workers -> Locations] /\ result \in [Workers -> BOOLEAN]
  /\ strong \subseteq Workers /\ looped \subseteq Workers /\ failed \subseteq Workers
  /\ asked \subseteq Workers

(* No thread uses the object after its last reference has gone: neither    *)
(* the worker between rounds, nor the caller of run() on its way out.      *)
NoUseAfterDelete == ~fault

(* mRunning says whether a worker is in the user's code, and there is only *)
(* one, the one mThread names, even when run() is called again as soon as  *)
(* the thread has announced its end.                                       *)
OneWorker ==
  /\ \A w \in Workers : Active(w) => mRunning /\ mThread = w
  /\ mRunning => \E w \in Workers : Active(w) \/ object = "deleted"

(* requestExitAndWait() and join() return to a caller that was waiting     *)
(* only while no worker is in the user's code.                             *)
WaitMeansStopped ==
  [][\A c \in Clients :
       caller[c] \in {"exitWait", "join"} /\ caller'[c] = "idle"
         => \A w \in Workers : ~Active(w)]_vars

(* "running at least once after a successful ::readyToRun() (unless the    *)
(* thread has already been asked to exit)", also when the caller of run()  *)
(* kept no reference.                                                      *)
RunsAtLeastOnce ==
  \A w \in Workers :
    at[w] \in {"drop", "promote", "end", "gone"} => w \in looped \cup failed \cup asked

(* requestExitAndWait() returns, unless the object is run again meanwhile  *)
(* (run() then forgets the request, and the waiter waits for the new       *)
(* thread).                                                                *)
RunAgain == \E v, w \in Workers : v # w /\ at[v] # "none" /\ at[w] # "none"

ExitWaitReturns ==
  \A c \in Clients :
    (caller[c] = "exitWait") ~> (caller[c] = "idle" \/ RunAgain)

(* A thread whose object no client refers to dies, and the object with it. *)
DiesUnreferenced ==
  (refs = {} /\ \E w \in Workers : at[w] # "none") ~> (object = "deleted")
=============================================================================
