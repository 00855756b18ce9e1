------------------------- MODULE MercuryThreadProofs -------------------------
(* Proofs about MercuryThread for any number of clients and of successive  *)
(* threads.  Three inductive invariants carry them: a worker in the user's *)
(* code is the one mThread names; who uses the object owns a reference;    *)
(* a worker ends without a round only for a reason.                        *)
EXTENDS MercuryThread, TLAPS

(* What the proofs need of the types; the rest of TypeOK is not needed.    *)
Types ==
  /\ at \in [Workers -> Locations] /\ caller \in [Clients -> {"raw", "idle", "run", "exitWait", "join"}]
  /\ mRunning \in BOOLEAN /\ mHoldSelf \in BOOLEAN /\ fault \in BOOLEAN
  /\ refs \subseteq Clients /\ strong \subseteq Workers

(* The inductive form of OneWorker.                                        *)
Control == Types /\ OneWorker

LEMMA InitControl == Init => Control
<1> SUFFICES ASSUME Init PROVE Control
  OBVIOUS
<1>1. \A w \in Workers : at[w] = "none"
  BY DEF Init
<1>2. OneWorker
  BY <1>1 DEF OneWorker, Active, Init
<1>3. Types
  BY ThreadAssumption DEF Types, Init, Locations
<1> QED
  BY <1>2, <1>3 DEF Control

LEMMA NextControl == Control /\ [Next]_vars => Control'
<1> SUFFICES ASSUME Control, [Next]_vars PROVE Control'
  OBVIOUS
<1> USE ThreadAssumption DEF Control, Types, OneWorker, Active, Locations, Goto, Returns, Result, Use, Ask,
      members, clients, history, Ready, Release
<1>1. ASSUME NEW c \in Clients, Run(c) PROVE Control'
  <2>1. ~mRunning /\ mRunning' = TRUE /\ object' = object
    BY <1>1 DEF Run, Runs
  <2>2. PICK w \in Workers : at[w] = "none" /\ mThread' = w /\ at' = [at EXCEPT ![w] = "start"]
    BY <1>1 DEF Run
  <2>3. Types'
    BY <1>1, <2>2 DEF Run
  <2> QED
    BY <2>1, <2>2, <2>3
<1>2. ASSUME NEW c \in Clients, RunFails(c) PROVE Control'
  BY <1>2 DEF RunFails, Runs, ClearHoldSelf
<1>3. ASSUME NEW c \in Clients, RunReturns(c) PROVE Control'
  BY <1>3 DEF RunReturns
<1>4. ASSUME NEW c \in Clients, RequestExit(c) PROVE Control'
  BY <1>4 DEF RequestExit
<1>5. ASSUME NEW c \in Clients, RequestExitAndWait(c) PROVE Control'
  BY <1>5 DEF RequestExitAndWait
<1>6. ASSUME NEW c \in Clients, Join(c) PROVE Control'
  BY <1>6 DEF Join
<1>7. ASSUME NEW c \in Clients, WakeSpuriously(c) PROVE Control'
  BY <1>7 DEF WakeSpuriously
<1>8. ASSUME NEW c \in Clients, Wake(c) PROVE Control'
  BY <1>8 DEF Wake
<1>9. ASSUME NEW c \in Clients, DropReference(c) PROVE Control'
  BY <1>9 DEF DropReference
<1>10. ASSUME NEW w \in Workers, Start(w) PROVE Control'
  BY <1>10 DEF Start
<1>11. ASSUME NEW w \in Workers, ReadyToRun(w) PROVE Control'
  BY <1>11 DEF ReadyToRun
<1>12. ASSUME NEW w \in Workers, FirstRound(w) PROVE Control'
  BY <1>12 DEF FirstRound, BeginRound
<1>13. ASSUME NEW w \in Workers, RequestsOwnExit(w) PROVE Control'
  BY <1>13 DEF RequestsOwnExit
<1>14. ASSUME NEW w \in Workers, EndRound(w) PROVE Control'
  BY <1>14 DEF EndRound
<1>15. ASSUME NEW w \in Workers, CheckExit(w) PROVE Control'
  BY <1>15 DEF CheckExit
<1>16. ASSUME NEW w \in Workers, DropStrong(w) PROVE Control'
  BY <1>16 DEF DropStrong
<1>17. ASSUME NEW w \in Workers, PromoteWeak(w) PROVE Control'
  BY <1>17 DEF PromoteWeak, BeginRound
<1>18. ASSUME NEW w \in Workers, End(w) PROVE Control'
  BY <1>18 DEF End
<1>19. CASE UNCHANGED vars
  BY <1>19 DEF vars
<1> QED
  BY <1>1, <1>2, <1>3, <1>4, <1>5, <1>6, <1>7, <1>8, <1>9, <1>10, <1>11, <1>12, <1>13,
     <1>14, <1>15, <1>16, <1>17, <1>18, <1>19 DEF Next, Client, Worker

(* At any time at most one worker is in the user's code, and mRunning and  *)
(* mThread tell the truth about it.                                        *)
THEOREM OneWorkerAlways == Spec => []OneWorker
<1>1. Control => OneWorker
  BY DEF Control
<1> QED
  BY InitControl, NextControl, <1>1, PTL DEF Spec

(* requestExitAndWait() and join() return to a waiter only when no worker  *)
(* is in the user's code.                                                  *)
THEOREM WaitersSeeItStopped == Spec => WaitMeansStopped
<1>1. Control /\ [Next]_vars =>
        [\A c \in Clients :
           caller[c] \in {"exitWait", "join"} /\ caller'[c] = "idle"
             => \A w \in Workers : ~Active(w)]_vars
  <2> SUFFICES ASSUME Control, Next,
                      NEW c \in Clients, caller[c] \in {"exitWait", "join"}, caller'[c] = "idle"
               PROVE  ~mRunning
    BY DEF Control, OneWorker
  <2> USE DEF Control, Types
  <2>1. ASSUME NEW d \in Clients, Client(d) PROVE ~mRunning
    BY <2>1 DEF Client, Run, RunFails, RunReturns, RequestExit, RequestExitAndWait, Join,
         WakeSpuriously, Wake, DropReference, Returns, clients, Stopped, Runs, RunAnew, Ready
  <2>2. ASSUME NEW w \in Workers, Worker(w) PROVE FALSE
    BY <2>2 DEF Worker, Start, ReadyToRun, FirstRound, RequestsOwnExit, EndRound, CheckExit,
         DropStrong, PromoteWeak, End, clients
  <2> QED
    BY <2>1, <2>2 DEF Next
<1> QED
  BY InitControl, NextControl, <1>1, PTL DEF Spec, WaitMeansStopped

(* Who uses the object owns a reference to it: a client inside a call its  *)
(* own, a worker the one mHoldSelf keeps for it and then its local one.    *)
(* The caller of (new ThreadSubclass())->run() owns none, but holds mLock  *)
(* until run() returns, and the worker cannot get past its first round     *)
(* without it.                                                             *)
Covered(c) ==
  /\ mLock = c
  /\ \E w \in Workers :
       \/ at[w] = "start"
       \/ at[w] \in {"ready", "first", "check"} /\ w \in strong

Owned ==
  /\ object = "deleted" => Unreferenced(refs, mHoldSelf, strong)
  /\ \A c \in Clients : caller[c] \in {"exitWait", "join"} => c \in refs
  /\ \A c \in Clients : caller[c] = "run" => c \in refs \/ Covered(c)
  /\ \A c \in Clients :
       caller[c] = "raw" =>
         /\ refs = {}
         /\ (\A w \in Workers : at[w] = "none") => object = "live"
  /\ \A w \in Workers : at[w] = "start" => mHoldSelf
  /\ \A w \in Workers :
       at[w] \in {"ready", "first", "loop", "check", "drop", "end"} => w \in strong
  /\ fault = FALSE

LEMMA InitOwned == Init => Owned
  BY DEF Init, Owned, Unreferenced, Covered

LEMMA NextOwned == ~RawRunMayFail /\ Control /\ Owned /\ [Next]_vars => Owned'
<1> SUFFICES ASSUME ~RawRunMayFail, Control, Owned, [Next]_vars PROVE Owned'
  OBVIOUS
<1> USE ThreadAssumption DEF Control, Types, OneWorker, Active, Locations, Owned, Covered, Unreferenced, Goto, Returns,
      Result, Use, Ask, members, clients, history, Ready, Release
<1>1. ASSUME NEW c \in Clients, Run(c) PROVE Owned'
  BY <1>1 DEF Run, Runs, RunAnew
<1>2. ASSUME NEW c \in Clients, RunFails(c) PROVE Owned'
  BY <1>2 DEF RunFails, Runs, RunAnew, ClearHoldSelf
<1>3. ASSUME NEW c \in Clients, RunReturns(c) PROVE Owned'
  BY <1>3 DEF RunReturns
<1>4. ASSUME NEW c \in Clients, RequestExit(c) PROVE Owned'
  BY <1>4 DEF RequestExit
<1>5. ASSUME NEW c \in Clients, RequestExitAndWait(c) PROVE Owned'
  BY <1>5 DEF RequestExitAndWait
<1>6. ASSUME NEW c \in Clients, Join(c) PROVE Owned'
  BY <1>6 DEF Join
<1>7. ASSUME NEW c \in Clients, WakeSpuriously(c) PROVE Owned'
  BY <1>7 DEF WakeSpuriously
<1>8. ASSUME NEW c \in Clients, Wake(c) PROVE Owned'
  BY <1>8 DEF Wake, Stopped
<1>9. ASSUME NEW c \in Clients, DropReference(c) PROVE Owned'
  <2> USE DEF DropReference
  <2>0. caller[c] = "idle" /\ c \in refs
    BY <1>9
  <2>1. \A d \in Clients : caller[d] # "raw" /\ (caller[d] # "idle" => d # c)
    BY <2>0
  <2>2. \A d \in Clients : Covered(d) => Covered(d)'
    BY <1>9
  <2>3. object' = "deleted" => Unreferenced(refs, mHoldSelf, strong)'
    BY <1>9
  <2>4. /\ refs' = refs \ {c}
        /\ UNCHANGED <<caller, at, strong, mHoldSelf, fault>>
    BY <1>9
  <2>5. \A d \in Clients : caller'[d] = "run" => d \in refs' \/ Covered(d)'
    BY <2>1, <2>2, <2>4
  <2>6. \A d \in Clients : caller'[d] \in {"exitWait", "join"} => d \in refs'
    BY <2>1, <2>4
  <2> QED
    BY <2>1, <2>3, <2>4, <2>5, <2>6
<1>10. ASSUME NEW w \in Workers, Start(w) PROVE Owned'
  BY <1>10 DEF Start
<1>11. ASSUME NEW w \in Workers, ReadyToRun(w) PROVE Owned'
  BY <1>11 DEF ReadyToRun
<1>12. ASSUME NEW w \in Workers, FirstRound(w) PROVE Owned'
  BY <1>12 DEF FirstRound, BeginRound
<1>13. ASSUME NEW w \in Workers, RequestsOwnExit(w) PROVE Owned'
  BY <1>13 DEF RequestsOwnExit
<1>14. ASSUME NEW w \in Workers, EndRound(w) PROVE Owned'
  BY <1>14 DEF EndRound
<1>15. ASSUME NEW w \in Workers, CheckExit(w) PROVE Owned'
  BY <1>15 DEF CheckExit
<1>16. ASSUME NEW w \in Workers, DropStrong(w) PROVE Owned'
  BY <1>16 DEF DropStrong
<1>17. ASSUME NEW w \in Workers, PromoteWeak(w) PROVE Owned'
  BY <1>17 DEF PromoteWeak, BeginRound
<1>18. ASSUME NEW w \in Workers, End(w) PROVE Owned'
  BY <1>18 DEF End
<1>19. CASE UNCHANGED vars
  BY <1>19 DEF vars
<1> QED
  BY <1>1, <1>2, <1>3, <1>4, <1>5, <1>6, <1>7, <1>8, <1>9, <1>10, <1>11,
     <1>12, <1>13, <1>14, <1>15, <1>16, <1>17, <1>18, <1>19 DEF Next, Client, Worker

(* No thread, client or worker, ever uses the deleted object, not even when *)
(* the caller of run() keeps no reference, as long as creating the thread   *)
(* then succeeds (the violation run shows what happens if it fails).        *)
THEOREM NothingUsedAfterDelete == ~RawRunMayFail => (Spec => []NoUseAfterDelete)
<1> SUFFICES ASSUME ~RawRunMayFail PROVE Spec => []NoUseAfterDelete
  OBVIOUS
<1>1. Init => Control /\ Owned
  BY InitControl, InitOwned
<1>2. Control /\ Owned /\ [Next]_vars => (Control /\ Owned)'
  BY NextControl, NextOwned
<1>3. Owned => NoUseAfterDelete
  BY DEF Owned, NoUseAfterDelete
<1> QED
  BY <1>1, <1>2, <1>3, PTL DEF Spec
----------------------------------------------------------------------------
(* The first round *)

(* A worker is past its first round only if it ran, could not, or was asked *)
(* not to; and an exit that is pending for the worker that runs was asked   *)
(* of that worker, since run() forgets what was asked of an earlier one.    *)
Reasons ==
  /\ \A w \in Workers :
       at[w] \in {"loop", "check", "drop", "promote", "end", "gone"}
         => w \in looped \cup failed \cup asked
  /\ \A w \in Workers : Active(w) /\ mExitPending => w \in asked

LEMMA InitReasons == Init => Reasons
  BY DEF Init, Reasons, Active

LEMMA NextReasons == Control /\ Reasons /\ [Next]_vars => Reasons'
<1> SUFFICES ASSUME Control, Reasons, [Next]_vars PROVE Reasons'
  OBVIOUS
<1> USE ThreadAssumption DEF Control, Types, OneWorker, Active, Locations, Reasons, Goto, Returns,
      Result, Use, Ask, members, clients, history, Ready, Release
<1>1. ASSUME NEW c \in Clients, Run(c) PROVE Reasons'
  BY <1>1 DEF Run, Runs, RunAnew
<1>2. ASSUME NEW c \in Clients, RunFails(c) PROVE Reasons'
  BY <1>2 DEF RunFails, Runs, RunAnew, ClearHoldSelf
<1>3. ASSUME NEW c \in Clients, RunReturns(c) PROVE Reasons'
  BY <1>3 DEF RunReturns
<1>4. ASSUME NEW c \in Clients, RequestExit(c) PROVE Reasons'
  BY <1>4 DEF RequestExit
<1>5. ASSUME NEW c \in Clients, RequestExitAndWait(c) PROVE Reasons'
  BY <1>5 DEF RequestExitAndWait
<1>6. ASSUME NEW c \in Clients, Join(c) PROVE Reasons'
  BY <1>6 DEF Join
<1>7. ASSUME NEW c \in Clients, WakeSpuriously(c) PROVE Reasons'
  BY <1>7 DEF WakeSpuriously
<1>8. ASSUME NEW c \in Clients, Wake(c) PROVE Reasons'
  BY <1>8 DEF Wake, Stopped
<1>9. ASSUME NEW c \in Clients, DropReference(c) PROVE Reasons'
  BY <1>9 DEF DropReference
<1>10. ASSUME NEW w \in Workers, Start(w) PROVE Reasons'
  BY <1>10 DEF Start
<1>11. ASSUME NEW w \in Workers, ReadyToRun(w) PROVE Reasons'
  BY <1>11 DEF ReadyToRun
<1>12. ASSUME NEW w \in Workers, FirstRound(w) PROVE Reasons'
  BY <1>12 DEF FirstRound, BeginRound
<1>13. ASSUME NEW w \in Workers, RequestsOwnExit(w) PROVE Reasons'
  BY <1>13 DEF RequestsOwnExit
<1>14. ASSUME NEW w \in Workers, EndRound(w) PROVE Reasons'
  BY <1>14 DEF EndRound
<1>15. ASSUME NEW w \in Workers, CheckExit(w) PROVE Reasons'
  BY <1>15 DEF CheckExit, Exits
<1>16. ASSUME NEW w \in Workers, DropStrong(w) PROVE Reasons'
  BY <1>16 DEF DropStrong
<1>17. ASSUME NEW w \in Workers, PromoteWeak(w) PROVE Reasons'
  BY <1>17 DEF PromoteWeak, BeginRound
<1>18. ASSUME NEW w \in Workers, End(w) PROVE Reasons'
  BY <1>18 DEF End
<1>19. CASE UNCHANGED vars
  BY <1>19 DEF vars
<1> QED
  BY <1>1, <1>2, <1>3, <1>4, <1>5, <1>6, <1>7, <1>8, <1>9, <1>10, <1>11, <1>12, <1>13,
     <1>14, <1>15, <1>16, <1>17, <1>18, <1>19 DEF Next, Client, Worker

(* Every thread that run() creates calls threadLoop() at least once, unless *)
(* readyToRun() failed or the thread was asked to exit.                     *)
THEOREM EveryThreadRuns == Spec => []RunsAtLeastOnce
<1>1. Init => Control /\ Reasons
  BY InitControl, InitReasons
<1>2. Control /\ Reasons /\ [Next]_vars => (Control /\ Reasons)'
  BY NextControl, NextReasons
<1>3. Reasons => RunsAtLeastOnce
  BY DEF Reasons, RunsAtLeastOnce
<1> QED
  BY <1>1, <1>2, <1>3, PTL DEF Spec
----------------------------------------------------------------------------
(* Types *)

LEMMA TypeOKStep == TypeOK /\ [Next]_vars => TypeOK'
<1> SUFFICES ASSUME TypeOK, [Next]_vars PROVE TypeOK'
  OBVIOUS
<1> USE ThreadAssumption DEF TypeOK, Locations, Goto, Returns, Result, Use, Ask, members, clients,
      history, Ready, Release
<1>1. ASSUME NEW c \in Clients, Run(c) PROVE TypeOK'
  BY <1>1 DEF Run, Runs, RunAnew
<1>2. ASSUME NEW c \in Clients, RunFails(c) PROVE TypeOK'
  BY <1>2 DEF RunFails, Runs, ClearHoldSelf, RunAnew
<1>3. ASSUME NEW c \in Clients, RunReturns(c) PROVE TypeOK'
  BY <1>3 DEF RunReturns
<1>4. ASSUME NEW c \in Clients, RequestExit(c) PROVE TypeOK'
  BY <1>4 DEF RequestExit
<1>5. ASSUME NEW c \in Clients, RequestExitAndWait(c) PROVE TypeOK'
  BY <1>5 DEF RequestExitAndWait
<1>6. ASSUME NEW c \in Clients, Join(c) PROVE TypeOK'
  BY <1>6 DEF Join
<1>7. ASSUME NEW c \in Clients, WakeSpuriously(c) PROVE TypeOK'
  BY <1>7 DEF WakeSpuriously
<1>8. ASSUME NEW c \in Clients, Wake(c) PROVE TypeOK'
  BY <1>8 DEF Wake, Stopped
<1>9. ASSUME NEW c \in Clients, DropReference(c) PROVE TypeOK'
  BY <1>9 DEF DropReference
<1>10. ASSUME NEW w \in Workers, Start(w) PROVE TypeOK'
  BY <1>10 DEF Start
<1>11. ASSUME NEW w \in Workers, ReadyToRun(w) PROVE TypeOK'
  BY <1>11 DEF ReadyToRun
<1>12. ASSUME NEW w \in Workers, FirstRound(w) PROVE TypeOK'
  BY <1>12 DEF FirstRound, BeginRound
<1>13. ASSUME NEW w \in Workers, RequestsOwnExit(w) PROVE TypeOK'
  BY <1>13 DEF RequestsOwnExit
<1>14. ASSUME NEW w \in Workers, EndRound(w) PROVE TypeOK'
  BY <1>14 DEF EndRound
<1>15. ASSUME NEW w \in Workers, CheckExit(w) PROVE TypeOK'
  BY <1>15 DEF CheckExit, Exits
<1>16. ASSUME NEW w \in Workers, DropStrong(w) PROVE TypeOK'
  BY <1>16 DEF DropStrong
<1>17. ASSUME NEW w \in Workers, PromoteWeak(w) PROVE TypeOK'
  BY <1>17 DEF PromoteWeak, BeginRound
<1>18. ASSUME NEW w \in Workers, End(w) PROVE TypeOK'
  BY <1>18 DEF End
<1>19. CASE UNCHANGED vars
  BY <1>19 DEF vars
<1> QED
  BY <1>1, <1>2, <1>3, <1>4, <1>5, <1>6, <1>7, <1>8, <1>9, <1>10,
     <1>11, <1>12, <1>13, <1>14, <1>15, <1>16, <1>17, <1>18, <1>19 DEF Next, Client, Worker

(* Every variable of a Thread stays in its domain; in particular mHoldSelf *)
(* is set only while a created thread has yet to take the object over.     *)
THEOREM ThreadTypes == Spec => []TypeOK
<1>1. Init => TypeOK
  BY ThreadAssumption DEF Init, TypeOK, Locations
<1> QED
  BY TypeOKStep, <1>1, PTL DEF Spec
=============================================================================
