-------------------------- MODULE MediaBufferGroup --------------------------
(***************************************************************************)
(* MediaBufferGroup and MediaBuffer of src/libstagefright: a pool of       *)
(* buffers that threads acquire, share, clone and release.  The reference  *)
(* counts change outside the group's lock, so the scan of acquire_buffer() *)
(* is stepped buffer by buffer and release() in the two steps it takes.    *)
(***************************************************************************)
EXTENDS Naturals, Sequences, FiniteSets

CONSTANTS
  Threads,
  Pooled,        \* the buffers that are added to the group
  Private,       \* the buffers outside it: new ones and clones
  NoOwner, NoBuffer,
  MaxRefs,       \* bound: references to a buffer
  LateAdd,       \* add_buffer() may be called once buffers are being acquired
  ClonePrivate,  \* buffers outside the group may be cloned
  Joined         \* the group is destroyed only when no release() is under way

Buffers == Pooled \cup Private

(* What the constants stand for; TLC evaluates it where they have values.  *)
Distinct ==
  /\ IsFiniteSet(Threads) /\ IsFiniteSet(Buffers) /\ Pooled \cap Private = {}
  /\ NoBuffer \notin Buffers /\ NoOwner \notin Threads /\ MaxRefs \in Nat \ {0}

VARIABLES
  list,       \* mFirstBuffer, then its mNextBuffer, ...
  mRefCount, mOriginal,
  holds,      \* the references each thread holds, by buffer
  life,       \* of a private buffer: "none", "live", "deleted"
  mLock, waiting,
  pc, scan,   \* where each thread is, and at which buffer of the list
  buf,        \* the buffer it is releasing
  group,      \* "new" until the first acquire_buffer(), "live", "destroyed"
  fault,      \* history: the group or a buffer was used after it was deleted
  aborted     \* a CHECK failed

vars == <<list, mRefCount, mOriginal, holds, life, mLock, waiting, pc, scan,
          buf, group, fault, aborted>>

Init ==
  /\ list = << >> /\ mRefCount = [b \in Buffers |-> 0]
  /\ mOriginal = [b \in Buffers |-> NoBuffer]
  /\ holds = [t \in Threads |-> [b \in Buffers |-> 0]]
  /\ life = [b \in Private |-> "none"]
  /\ mLock = NoOwner /\ waiting = {}
  /\ pc = [t \in Threads |-> "idle"] /\ scan = [t \in Threads |-> 0]
  /\ buf = [t \in Threads |-> NoBuffer]
  /\ group = "new" /\ fault = FALSE /\ aborted = FALSE

Goto(t, label) == pc' = [pc EXCEPT ![t] = label]
Idle(t) == pc[t] = "idle" /\ ~aborted
\* the references to a buffer that threads hold, one by one
Refs(b) == UNION {{t} \X (1 .. holds[t][b]) : t \in Threads}
Held(b) == Cardinality(Refs(b))
AddRef(b) == mRefCount' = [mRefCount EXCEPT ![b] = @ + 1]
Gains(t, b) == holds' = [holds EXCEPT ![t][b] = @ + 1]
Added == {list[i] : i \in DOMAIN list}
----------------------------------------------------------------------------
AddBuffer(t, b) ==
  /\ Idle(t) /\ b \in Pooled \ Added /\ mLock = NoOwner
  /\ group = "new" \/ (LateAdd /\ group = "live")
  /\ list' = Append(list, b)
  /\ UNCHANGED <<mRefCount, mOriginal, holds, life, mLock, waiting, pc, scan,
                 buf, group, fault, aborted>>

(* acquire_buffer(): with mLock held, the list is walked from the front.   *)
Acquire(t) ==
  /\ Idle(t) /\ mLock = NoOwner /\ group # "destroyed"
  /\ mLock' = t /\ group' = "live"
  /\ scan' = [scan EXCEPT ![t] = 1] /\ Goto(t, "scan")
  /\ UNCHANGED <<list, mRefCount, mOriginal, holds, life, waiting, buf, fault, aborted>>

AtLeastZero(n) == TRUE      \* mutant of Unused: a buffer in use is handed out
Unused(n) == n = 0

Take(t) ==
  /\ pc[t] = "scan" /\ scan[t] \in DOMAIN list
  /\ \E b \in {list[scan[t]]} : Unused(mRefCount[b]) /\ AddRef(b) /\ Gains(t, b)
  /\ mLock' = NoOwner /\ Goto(t, "idle") /\ scan' = [scan EXCEPT ![t] = 0]
  /\ UNCHANGED <<list, mOriginal, life, waiting, buf, group, fault, aborted>>

Skip(t) ==
  /\ pc[t] = "scan" /\ scan[t] \in DOMAIN list
  /\ ~Unused(mRefCount[list[scan[t]]])
  /\ scan' = [scan EXCEPT ![t] = @ + 1]
  /\ UNCHANGED <<list, mRefCount, mOriginal, holds, life, mLock, waiting, pc,
                 buf, group, fault, aborted>>

(* "All buffers are in use. Block until one of them is returned to us."    *)
Wait(t) ==
  /\ pc[t] = "scan" /\ scan[t] > Len(list)
  /\ mLock' = NoOwner /\ waiting' = waiting \cup {t} /\ Goto(t, "wait")
  /\ scan' = [scan EXCEPT ![t] = 0]
  /\ UNCHANGED <<list, mRefCount, mOriginal, holds, life, buf, group, fault, aborted>>

(* A woken thread has mLock again and walks the list from the front.       *)
Rescan(t) ==
  /\ pc[t] = "wait" /\ t \notin waiting /\ mLock = NoOwner
  /\ mLock' = t /\ scan' = [scan EXCEPT ![t] = 1] /\ Goto(t, "scan")
  /\ UNCHANGED <<list, mRefCount, mOriginal, holds, life, waiting, buf, group, fault, aborted>>

WakeSpuriously(t) ==
  /\ t \in waiting /\ waiting' = waiting \ {t}
  /\ UNCHANGED <<list, mRefCount, mOriginal, holds, life, mLock, pc, scan, buf,
                 group, fault, aborted>>
----------------------------------------------------------------------------
(* What a thread does with a buffer it holds *)

Share(t, b) ==
  /\ Idle(t) /\ holds[t][b] > 0 /\ b \in Pooled /\ mRefCount[b] < MaxRefs
  /\ AddRef(b) /\ Gains(t, b)
  /\ UNCHANGED <<list, mOriginal, life, mLock, waiting, pc, scan, buf, group, fault, aborted>>

Moves(t, u, b) == holds' = [holds EXCEPT ![t][b] = @ - 1, ![u][b] = @ + 1]

(* A reference is passed to another thread.                                *)
HandOver(t, u, b) ==
  /\ Idle(t) /\ pc[u] = "idle" /\ t # u /\ holds[t][b] > 0 /\ Moves(t, u, b)
  /\ UNCHANGED <<list, mRefCount, mOriginal, life, mLock, waiting, pc, scan, buf,
                 group, fault, aborted>>

(* new MediaBuffer: a buffer of no group starts with mRefCount 0.          *)
NewBuffer(t, b) ==
  /\ Idle(t) /\ b \in Private /\ life[b] = "none"
  /\ life' = [life EXCEPT ![b] = "live"] /\ Gains(t, b)
  /\ UNCHANGED <<list, mRefCount, mOriginal, mLock, waiting, pc, scan, buf,
                 group, fault, aborted>>

(* mutant of Clone: the clone does not keep its original                   *)
CloneWithoutRef(t, b, c) ==
  /\ Idle(t) /\ holds[t][b] > 0 /\ (b \in Pooled \/ ClonePrivate)
  /\ c \in Private /\ life[c] = "none" /\ mRefCount[b] < MaxRefs
  /\ life' = [life EXCEPT ![c] = "live"] /\ Gains(t, c)
  /\ mOriginal' = [mOriginal EXCEPT ![c] = b]
  /\ UNCHANGED <<list, mRefCount, mLock, waiting, pc, scan, buf, group, fault, aborted>>

Clone(t, b, c) ==
  /\ Idle(t) /\ holds[t][b] > 0 /\ (b \in Pooled \/ ClonePrivate)
  /\ c \in Private /\ life[c] = "none" /\ mRefCount[b] < MaxRefs
  /\ life' = [life EXCEPT ![c] = "live"] /\ Gains(t, c)
  /\ AddRef(b) /\ mOriginal' = [mOriginal EXCEPT ![c] = b]
  /\ UNCHANGED <<list, mLock, waiting, pc, scan, buf, group, fault, aborted>>

Lets(t, b) == holds' = [holds EXCEPT ![t][b] = @ - 1]

(* release() of a buffer of the group                                      *)
Release(t, b) ==
  /\ Idle(t) /\ holds[t][b] > 0 /\ b \in Pooled
  /\ Lets(t, b) /\ buf' = [buf EXCEPT ![t] = b] /\ Goto(t, "dec")
  /\ UNCHANGED <<list, mRefCount, mOriginal, life, mLock, waiting, scan, group, fault, aborted>>

(* release() without an observer: CHECK_EQ(mRefCount, 0), delete, and the  *)
(* destructor releases the original, which may be private itself.          *)
ReleasePrivate(t, b) ==
  /\ Idle(t) /\ holds[t][b] > 0 /\ b \in Private
  /\ Lets(t, b)
  /\ IF mRefCount[b] # 0 \/ (mOriginal[b] \in Private /\ mRefCount[mOriginal[b]] # 0)
       THEN aborted' = TRUE /\ UNCHANGED <<life, buf, pc>>
       ELSE /\ life' = [life EXCEPT ![b] = "deleted"] /\ UNCHANGED aborted
            /\ IF mOriginal[b] = NoBuffer
                 THEN UNCHANGED <<buf, pc>>
                 ELSE buf' = [buf EXCEPT ![t] = mOriginal[b]] /\ Goto(t, "dec")
  /\ UNCHANGED <<list, mRefCount, mOriginal, mLock, waiting, scan, group, fault>>

PastLast(n) == n = 0        \* mutant of Last: the new count is tested
Last(n) == n = 1

Decrement(t) ==
  /\ pc[t] = "dec" /\ ~aborted
  /\ fault' = (fault \/ group = "destroyed")
  /\ aborted' = (mRefCount[buf[t]] = 0)
  /\ mRefCount' = [mRefCount EXCEPT ![buf[t]] = IF aborted' THEN 0 ELSE @ - 1]
  /\ Goto(t, IF Last(mRefCount[buf[t]]) THEN "signal" ELSE "idle")
  /\ buf' = [buf EXCEPT ![t] = NoBuffer]
  /\ UNCHANGED <<list, mOriginal, holds, life, mLock, waiting, scan, group>>

(* signalBufferReturned(), called on the observer read after the           *)
(* decrement: mCondition.signal() wakes one thread that waits.             *)
WakeOne ==
  IF waiting = {} THEN waiting' = waiting ELSE \E u \in waiting : waiting' = waiting \ {u}

Signal(t) ==
  /\ pc[t] = "signal" /\ mLock = NoOwner
  /\ WakeOne /\ Goto(t, "idle")
  /\ fault' = (fault \/ group = "destroyed")
  /\ UNCHANGED <<list, mRefCount, mOriginal, holds, life, mLock, scan, buf, group, aborted>>

(* ~MediaBufferGroup(), when no thread acquires: it frees the buffers, of  *)
(* which it demands that no reference is left.                             *)
Outside(t) == pc[t] = "idle" \/ (pc[t] \in {"dec", "signal"} /\ ~Joined)

Destroy(t) ==
  /\ Idle(t) /\ group = "live" /\ mLock = NoOwner /\ \A u \in Threads : Outside(u)
  /\ \A b \in Added : Held(b) = 0
  /\ \A c \in Private : life[c] = "live" => mOriginal[c] \notin Pooled
  /\ IF \E b \in Added : mRefCount[b] # 0
       THEN aborted' = TRUE /\ UNCHANGED group
       ELSE group' = "destroyed" /\ UNCHANGED aborted
  /\ UNCHANGED <<list, mRefCount, mOriginal, holds, life, mLock, waiting, pc, scan, buf, fault>>
----------------------------------------------------------------------------
Step(t) ==
  \/ Take(t) \/ Skip(t) \/ Wait(t) \/ Rescan(t) \/ Decrement(t) \/ Signal(t)

Call(t) ==
  \/ Acquire(t) \/ WakeSpuriously(t) \/ Destroy(t)
  \/ \E b \in Buffers :
       \/ AddBuffer(t, b) \/ Share(t, b) \/ NewBuffer(t, b)
       \/ Release(t, b) \/ ReleasePrivate(t, b)
       \/ \E u \in Threads : HandOver(t, u, b)
       \/ \E c \in Private : Clone(t, b, c)

Next == \E t \in Threads : Step(t) \/ Call(t)

Spec == Init /\ [][Next]_vars
----------------------------------------------------------------------------
(* Properties *)

(* Every variable stays in its domain, and a buffer is in the list once.   *)
TypeOK ==
  /\ list \in Seq(Pooled) /\ Cardinality(Added) = Len(list)
  /\ mRefCount \in [Buffers -> 0 .. MaxRefs + 1]
  /\ mOriginal \in [Buffers -> Buffers \cup {NoBuffer}]
  /\ holds \in [Threads -> [Buffers -> 0 .. MaxRefs + 1]]
  /\ life \in [Private -> {"none", "live", "deleted"}]
  /\ mLock \in Threads \cup {NoOwner} /\ waiting \subseteq Threads
  /\ pc \in [Threads -> {"idle", "scan", "wait", "dec", "signal"}]
  /\ scan \in [Threads -> Nat] /\ buf \in [Threads -> Buffers \cup {NoBuffer}]
  /\ group \in {"new", "live", "destroyed"} /\ {fault, aborted} \subseteq BOOLEAN

Clones(b) == {c \in Private : life[c] = "live" /\ mOriginal[c] = b}
Releasing(b) == {t \in Threads : pc[t] = "dec" /\ buf[t] = b}

(* The count of a pooled buffer is the number of its references: those     *)
(* threads hold, its live clones, and releases that have not subtracted.   *)
CountIsReferences ==
  \A b \in Pooled :
    mRefCount[b] = Held(b) + Cardinality(Clones(b)) + Cardinality(Releasing(b))

(* "the returned buffer will have a reference count of 1": an acquired     *)
(* buffer is nobody else's, not even as the data of a clone.               *)
AcquiresAlone ==
  \A t \in Threads, b \in Pooled :
    pc[t] = "scan" /\ holds'[t][b] > holds[t][b]
      => /\ mRefCount'[b] = 1 /\ Clones(b) = {}
         /\ \A u \in Threads : holds[u][b] = 0

AcquiredIsAlone == [][AcquiresAlone]_vars

Unclaimed == {b \in Added : mRefCount[b] = 0}
OnTheWay == {t \in Threads : pc[t] = "signal" \/ (pc[t] = "wait" /\ t \notin waiting)
                               \/ pc[t] = "scan"}

(* No wakeup is lost between a release, which takes no lock, and a waiter: *)
(* while a thread waits, each free buffer has a thread that will signal    *)
(* for it or look at it.                                                   *)
NoLostWakeup ==
  waiting # {} => Cardinality(Unclaimed) <= Cardinality(OnTheWay)

(* No CHECK fails, and nothing is used after it was deleted.               *)
NeverAborts == ~aborted /\ ~fault

(* The counts are right, they lose no wakeup and lead to no abort.         *)
GroupIsRight == CountIsReferences /\ NoLostWakeup /\ NeverAborts
----------------------------------------------------------------------------
(* The inductive invariant behind GroupIsRight and AcquiredIsAlone *)

(* The types that the counts rest on.                                      *)
Domains ==
  /\ list \in Seq(Pooled) /\ mRefCount \in [Buffers -> Nat]
  /\ \A i, j \in 1 .. Len(list) : list[i] = list[j] => i = j
  /\ mOriginal \in [Buffers -> Pooled \cup {NoBuffer}]
  /\ holds \in [Threads -> [Buffers -> Nat]]
  /\ life \in [Private -> {"none", "live", "deleted"}]
  /\ mLock \in Threads \cup {NoOwner} /\ waiting \subseteq Threads
  /\ pc \in [Threads -> {"idle", "scan", "wait", "dec", "signal"}]
  /\ scan \in [Threads -> Nat] /\ buf \in [Threads -> Pooled \cup {NoBuffer}]
  /\ group \in {"new", "live", "destroyed"} /\ fault \in BOOLEAN /\ aborted \in BOOLEAN
  /\ \A b \in Buffers : IsFiniteSet(Refs(b))

(* A buffer outside the group has one reference, which no count counts; a  *)
(* buffer that is not in the list yet has none.                            *)
PrivateOnce ==
  \A c \in Private :
    /\ mRefCount[c] = 0 /\ (life[c] = "none" => mOriginal[c] = NoBuffer)
    /\ \A t, u \in Threads : holds[t][c] > 0 /\ holds[u][c] > 0 => t = u
    /\ \A t \in Threads : holds[t][c] \in {0, 1} /\ (holds[t][c] = 1 => life[c] = "live")

UnusedUntilAdded == \A b \in Pooled \ Added : mRefCount[b] = 0

(* mLock is held while the list is walked, and only then.                  *)
Places ==
  \A t \in Threads :
    /\ pc[t] = "scan" <=> mLock = t
    /\ pc[t] = "scan" => scan[t] \in 1 .. Len(list) + 1
    /\ t \in waiting => pc[t] = "wait"
    /\ pc[t] = "dec" => buf[t] \in Pooled

(* A free buffer that a walk has passed was released during the walk: its  *)
(* release is about to signal.                                             *)
Passed(t) == {b \in Unclaimed : \E i \in 1 .. scan[t] - 1 : list[i] = b}
Signalling == {t \in Threads : pc[t] = "signal"}

PassedAreSignalled ==
  \A t \in Threads : pc[t] = "scan" => Cardinality(Passed(t)) <= Cardinality(Signalling)

(* Nothing is acquired before the group has its buffers, or after it went. *)
Stages ==
  /\ group = "new" => waiting = {} /\ \A t \in Threads : pc[t] \notin {"scan", "wait"}
  /\ group = "destroyed" =>
       /\ \A t \in Threads : pc[t] = "idle"
       /\ \A b \in Pooled : mRefCount[b] = 0

IInv ==
  /\ Domains /\ PrivateOnce /\ UnusedUntilAdded /\ Places /\ PassedAreSignalled /\ Stages
  /\ CountIsReferences /\ NoLostWakeup /\ NeverAborts
=============================================================================
