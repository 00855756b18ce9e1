----------------------------- MODULE MCLibrary -----------------------------
(***************************************************************************)
(* Storage that is shared and counted, in three parts that do not call     *)
(* each other: vectors, references, and a group of buffers.  A behaviour   *)
(* is one of one part, the others off.                                     *)
(***************************************************************************)
EXTENDS VectorImpl, TLC

CONSTANTS
  Sharers,                                   \* the threads of the references and the group
  Creator, InitialStrong, MaxHeld, Origins,  \* of RefBase
  Pooled, Private, NoOwner, NoBuffer, MaxRefs,  \* of MediaBufferGroup
  t1, t2, creator, va, vb, vs, p1, p2, c1    \* what a small instance has of each

VARIABLE part

\* Vectors: two plain ones and a sorted one, and two threads
MCThreads == {t1, t2}
MCPlain == {va, vb}
MCSorted == {vs}
MCBuffers == 1 .. 5
Item(k, n) == [key |-> k, value |-> n]
MCItems == {Item(1, 2), Item(2, 1)}
MCArrays == {<<Item(1, 2)>>, <<Item(2, 1), Item(1, 1), Item(1, 2)>>}
Given(items, sharers, n) == [items |-> items, sharers |-> sharers, ops |-> n]
MCBeginnings ==
  {Given(<<>>, {}, 1), Given(<<Item(2, 1), Item(1, 1), Item(1, 2)>>, {va, vb}, 1),
   Given(<<Item(1, 1), Item(2, 1)>>, {va, vs}, 1)}
VectorsOff == Init /\ trivial = FALSE /\ live = {}
----------------------------------------------------------------------------
\* References: an object that threads share
VARIABLES weakLifetime, firstRefs, mStrong, mWeak, object, impl, strong, weak, raw,
          refPc, cur, refFault
refVars == <<weakLifetime, firstRefs, mStrong, mWeak, object, impl, strong, weak, raw,
             refPc, cur, refFault>>

\* RefBaseProofs is RefBase with what is proved about it
Object == INSTANCE RefBaseProofs WITH
  Threads <- Sharers, Beginnings <- Origins, pc <- refPc, fault <- refFault

ObjectOff ==
  /\ weakLifetime = 0 /\ firstRefs = 0 /\ mStrong = 0 /\ mWeak = 0 /\ object = 0
  /\ impl = 0 /\ strong = 0 /\ weak = 0 /\ raw = 0 /\ refPc = 0 /\ cur = 0
  /\ refFault = 0
----------------------------------------------------------------------------
\* The group: a pool of buffers, and others outside it
VARIABLES list, mRefCount, mOriginal, holds, life, mLock, waiting, groupPc, scan, buf, group,
          groupFault, aborted
groupVars == <<list, mRefCount, mOriginal, holds, life, mLock, waiting, groupPc, scan, buf, group,
               groupFault, aborted>>

Pool == INSTANCE MediaBufferGroupProofs WITH
  Threads <- Sharers, LateAdd <- FALSE, ClonePrivate <- FALSE, Joined <- TRUE,
  pc <- groupPc, fault <- groupFault

PoolOff ==
  /\ list = 0 /\ mRefCount = 0 /\ mOriginal = 0 /\ holds = 0 /\ life = 0 /\ mLock = 0
  /\ waiting = 0 /\ groupPc = 0 /\ scan = 0 /\ buf = 0 /\ group = 0 /\ groupFault = 0
  /\ aborted = 0
----------------------------------------------------------------------------
(* The references and the group are used as the code uses them.            *)
ASSUME LibraryAssumption == Object!Sane /\ Pool!Discipline

MCInit ==
  \/ part = "vectors" /\ Init /\ ObjectOff /\ PoolOff
  \/ part = "object" /\ VectorsOff /\ Object!Init /\ PoolOff
  \/ part = "pool" /\ VectorsOff /\ ObjectOff /\ Pool!Init

PlayVectors == part = "vectors" /\ Next /\ UNCHANGED <<part, refVars, groupVars>>
PlayObject == part = "object" /\ Object!Next /\ UNCHANGED <<part, vars, groupVars>>
PlayPool == part = "pool" /\ Pool!Next /\ UNCHANGED <<part, vars, refVars>>

all == <<part, vars, refVars, groupVars>>

MCSpec == MCInit /\ [][PlayVectors \/ PlayObject \/ PlayPool]_all

(* ReferencesAreRight: RefBase's counts agree with the references held,    *)
(* these keep what they refer to, nothing is freed twice or leaks.         *)
ReferencesAreRight == part = "object" => Object!ReferencesAreRight /\ Object!IInv

(* GroupIsRight: the count of a pooled MediaBuffer is its references, and  *)
(* no wakeup is lost between release() and acquire_buffer().               *)
GroupIsRight == part = "pool" => Pool!GroupIsRight /\ Pool!IInv

(* AcquiredIsAlone: acquire_buffer() hands out a buffer nobody else has.   *)
AcquiredIsAlone == [][part = "pool" => Pool!AcquiresAlone]_groupVars

MCHolders == {t1, t2, creator}
MCPooled == {p1, p2}
MCPrivate == {c1}
MCOrigins == {{"strong"}, {"weak"}}
MCSym == Permutations({t1, t2}) \cup Permutations({p1, p2})
=============================================================================
