----------------------- MODULE MediaBufferGroupProofs -----------------------
(* Proofs about MediaBufferGroup for any threads, buffers and bound on     *)
(* references: counts are references, no wakeup is lost, no CHECK fails.   *)
EXTENDS MediaBufferGroup, FiniteSetTheorems, TLAPS

(* How a group is used: filled before it is acquired from, destroyed when  *)
(* no release() is under way, and only its own buffers are cloned.         *)
Discipline == Distinct /\ Joined /\ ~LateAdd /\ ~ClonePrivate

LEMMA BuffersFinite ==
  ASSUME Distinct, NEW S, S \subseteq Buffers \/ S \subseteq Threads
  PROVE  IsFiniteSet(S) /\ Cardinality(S) \in Nat
  BY FS_Subset, FS_CardinalityType DEF Distinct

LEMMA Updated ==
  ASSUME NEW f \in [Threads -> [Buffers -> Nat]], NEW t \in Threads, NEW b \in Buffers,
         NEW n \in Nat, NEW g, g = [f EXCEPT ![t][b] = n]
  PROVE  /\ g \in [Threads -> [Buffers -> Nat]] /\ g[t][b] = n
         /\ \A u \in Threads, c \in Buffers : u # t \/ c # b => g[u][c] = f[u][c]
  OBVIOUS

(* A reference more or less, one moved from a thread to another.           *)
LEMMA RefsAre ==
  \A b, r : r \in Refs(b) <=> \E t \in Threads : \E i \in 1 .. holds[t][b] : r = <<t, i>>
  BY DEF Refs

LEMMA RefsWillBe ==
  \A b, r : r \in Refs(b)' <=> \E t \in Threads : \E i \in 1 .. holds'[t][b] : r = <<t, i>>
  BY DEF Refs

LEMMA GainCounts ==
  ASSUME Domains, NEW t \in Threads, NEW b \in Buffers, Gains(t, b)
  PROVE  /\ IsFiniteSet(Refs(b)') /\ Held(b)' = Held(b) + 1 /\ Held(b) \in Nat
         /\ \A c \in Buffers \ {b} : Refs(c)' = Refs(c)
         /\ holds' \in [Threads -> [Buffers -> Nat]]
<1> DEFINE new == <<t, holds[t][b] + 1>>
<1>1. holds \in [Threads -> [Buffers -> Nat]] /\ IsFiniteSet(Refs(b))
  BY DEF Domains
<1>2. /\ holds' \in [Threads -> [Buffers -> Nat]]
      /\ holds'[t][b] = holds[t][b] + 1
      /\ \A u \in Threads, c \in Buffers : u # t \/ c # b => holds'[u][c] = holds[u][c]
  BY <1>1 DEF Gains
<1>3. Refs(b)' = Refs(b) \cup {new}
  <2>1. \A u \in Threads, i \in Int :
          i \in 1 .. holds'[u][b] <=> i \in 1 .. holds[u][b] \/ <<u, i>> = new
    <3> SUFFICES ASSUME NEW u \in Threads, NEW i \in Int
                 PROVE  i \in 1 .. holds'[u][b] <=>
                          i \in 1 .. holds[u][b] \/ (u = t /\ i = holds[t][b] + 1)
      OBVIOUS
    <3>1. holds[u][b] \in Nat /\ holds'[u][b] = IF u = t THEN holds[u][b] + 1 ELSE holds[u][b]
      BY <1>1, <1>2
    <3> QED
      BY <3>1
  <2> QED
    BY <2>1, <1>1, <1>2, RefsAre, RefsWillBe
<1>4. new \notin Refs(b)
  BY <1>1, RefsAre
<1>5. \A c \in Buffers \ {b} : Refs(c)' = Refs(c)
  <2> SUFFICES ASSUME NEW c \in Buffers \ {b}, NEW r PROVE r \in Refs(c)' <=> r \in Refs(c)
    OBVIOUS
  <2> QED
    BY <1>2, RefsAre, RefsWillBe
<1>6. Cardinality(Refs(b)) \in Nat
  BY <1>1, FS_CardinalityType
<1> HIDE DEF new
<1>7. IsFiniteSet(Refs(b) \cup {new}) /\ Cardinality(Refs(b) \cup {new}) = Cardinality(Refs(b)) + 1
  BY <1>1, <1>4, FS_AddElement
<1> QED
  BY <1>2, <1>3, <1>5, <1>6, <1>7 DEF Held

LEMMA LetCounts ==
  ASSUME Domains, NEW t \in Threads, NEW b \in Buffers, holds[t][b] > 0, Lets(t, b)
  PROVE  /\ IsFiniteSet(Refs(b)') /\ Held(b)' = Held(b) - 1 /\ Held(b) \in Nat
         /\ \A c \in Buffers \ {b} : Refs(c)' = Refs(c)
         /\ holds' \in [Threads -> [Buffers -> Nat]]
<1> DEFINE old == <<t, holds[t][b]>>
<1>1. holds \in [Threads -> [Buffers -> Nat]] /\ IsFiniteSet(Refs(b))
  BY DEF Domains
<1>2. /\ holds' \in [Threads -> [Buffers -> Nat]]
      /\ holds'[t][b] = holds[t][b] - 1
      /\ \A u \in Threads, c \in Buffers : u # t \/ c # b => holds'[u][c] = holds[u][c]
  BY <1>1 DEF Lets
<1>3. Refs(b)' = Refs(b) \ {old}
  <2>1. \A u \in Threads, i \in Int :
          i \in 1 .. holds'[u][b] <=> i \in 1 .. holds[u][b] /\ <<u, i>> # old
    BY <1>1, <1>2
  <2> QED
    BY <2>1, <1>1, <1>2, RefsAre, RefsWillBe
<1>4. old \in Refs(b)
  BY <1>1, RefsAre
<1>5. \A c \in Buffers \ {b} : Refs(c)' = Refs(c)
  <2> SUFFICES ASSUME NEW c \in Buffers \ {b}, NEW r PROVE r \in Refs(c)' <=> r \in Refs(c)
    OBVIOUS
  <2> QED
    BY <1>2, RefsAre, RefsWillBe
<1>6. Cardinality(Refs(b)) \in Nat
  BY <1>1, FS_CardinalityType
<1> HIDE DEF old
<1>7. IsFiniteSet(Refs(b) \ {old}) /\ Cardinality(Refs(b) \ {old}) = Cardinality(Refs(b)) - 1
  BY <1>1, <1>4, FS_RemoveElement
<1> QED
  BY <1>2, <1>3, <1>5, <1>6, <1>7 DEF Held

LEMMA MoveCounts ==
  ASSUME Domains, NEW t \in Threads, NEW u \in Threads, t # u, NEW b \in Buffers,
         holds[t][b] > 0, Moves(t, u, b)
  PROVE  /\ IsFiniteSet(Refs(b)') /\ Held(b)' = Held(b)
         /\ \A c \in Buffers \ {b} : Refs(c)' = Refs(c)
         /\ holds' \in [Threads -> [Buffers -> Nat]]
         /\ holds'[t][b] = holds[t][b] - 1 /\ holds'[u][b] = holds[u][b] + 1
         /\ \A v \in Threads, c \in Buffers : (v # t /\ v # u) \/ c # b => holds'[v][c] = holds[v][c]
<1> DEFINE mid == [holds EXCEPT ![t][b] = @ - 1]
           old == <<t, holds[t][b]>>
           new == <<u, holds[u][b] + 1>>
           less == Refs(b) \ {old}
<1>1. holds \in [Threads -> [Buffers -> Nat]] /\ IsFiniteSet(Refs(b))
  BY DEF Domains
<1>2. /\ mid \in [Threads -> [Buffers -> Nat]] /\ mid[t][b] = holds[t][b] - 1
      /\ \A v \in Threads, c \in Buffers : v # t \/ c # b => mid[v][c] = holds[v][c]
  BY <1>1
<1>3. holds' = [mid EXCEPT ![u][b] = mid[u][b] + 1]
  BY DEF Moves
<1> HIDE DEF mid
<1>4. /\ holds' \in [Threads -> [Buffers -> Nat]]
      /\ holds'[u][b] = mid[u][b] + 1
      /\ \A v \in Threads, c \in Buffers : v # u \/ c # b => holds'[v][c] = mid[v][c]
  <2>1. mid[u][b] + 1 \in Nat
    BY <1>2
  <2> QED
    BY <1>2, <1>3, <2>1, Updated
<1>5. /\ holds'[t][b] = holds[t][b] - 1 /\ holds'[u][b] = holds[u][b] + 1
      /\ \A v \in Threads, c \in Buffers : (v # t /\ v # u) \/ c # b => holds'[v][c] = holds[v][c]
  BY <1>2, <1>4
<1>6. Refs(b)' = less \cup {new}
  <2>1. \A v \in Threads, i \in Int :
          i \in 1 .. holds'[v][b] <=> (i \in 1 .. holds[v][b] /\ <<v, i>> # old) \/ <<v, i>> = new
    <3> SUFFICES ASSUME NEW v \in Threads, NEW i \in Int
                 PROVE  i \in 1 .. holds'[v][b] <=>
                          \/ i \in 1 .. holds[v][b] /\ ~(v = t /\ i = holds[t][b])
                          \/ v = u /\ i = holds[u][b] + 1
      OBVIOUS
    <3>1. holds[v][b] \in Nat /\ holds[t][b] \in Nat /\ holds[u][b] \in Nat
      BY <1>1
    <3>2. holds'[v][b] = IF v = t THEN holds[v][b] - 1
                         ELSE IF v = u THEN holds[v][b] + 1 ELSE holds[v][b]
      BY <1>5
    <3> QED
      BY <3>1, <3>2
  <2> QED
    BY <2>1, <1>1, <1>4, RefsAre, RefsWillBe
<1>7. old \in Refs(b) /\ new \notin less
  BY <1>1, RefsAre
<1>8. \A c \in Buffers \ {b} : Refs(c)' = Refs(c)
  <2> SUFFICES ASSUME NEW c \in Buffers \ {b}, NEW r PROVE r \in Refs(c)' <=> r \in Refs(c)
    OBVIOUS
  <2> QED
    BY <1>5, RefsAre, RefsWillBe
<1>9. Cardinality(Refs(b)) \in Nat
  BY <1>1, FS_CardinalityType
<1> HIDE DEF old, new
<1>10. IsFiniteSet(less) /\ Cardinality(less) = Cardinality(Refs(b)) - 1
  BY <1>1, <1>7, FS_RemoveElement
<1> HIDE DEF less
<1>11. IsFiniteSet(less \cup {new}) /\ Cardinality(less \cup {new}) = Cardinality(less) + 1
  BY <1>10, <1>7, FS_AddElement
<1> QED
  BY <1>4, <1>5, <1>6, <1>8, <1>9, <1>10, <1>11 DEF Held
----------------------------------------------------------------------------
(* The walk through the list *)

LEMMA InvInit == Distinct /\ Init => IInv
<1> SUFFICES ASSUME Distinct, Init PROVE IInv
  OBVIOUS
<1>1. \A b \in Buffers : Refs(b) = {} /\ IsFiniteSet(Refs(b)) /\ Held(b) = 0
  <2> SUFFICES ASSUME NEW b \in Buffers PROVE Refs(b) = {}
    BY FS_EmptySet DEF Held
  <2> QED
    BY RefsAre DEF Init
<1>2. Domains
  <2>1. list = << >> /\ list \in Seq(Pooled) /\ Len(list) = 0
    BY DEF Init
  <2>2. \A i, j \in 1 .. Len(list) : list[i] = list[j] => i = j
    BY <2>1
  <2> QED
    BY <1>1, <2>1, <2>2 DEF Domains, Init
<1>3. Added = {} /\ waiting = {} /\ \A t \in Threads : pc[t] = "idle" /\ mLock # t
  BY DEF Init, Added, Distinct
<1>4. CountIsReferences
  <2> SUFFICES ASSUME NEW b \in Pooled
               PROVE  mRefCount[b] = Held(b) + Cardinality(Clones(b)) + Cardinality(Releasing(b))
    BY DEF CountIsReferences
  <2>1. Clones(b) = {} /\ Releasing(b) = {}
    BY <1>3 DEF Init, Clones, Releasing
  <2> QED
    BY <1>1, <2>1, FS_EmptySet DEF Init, Buffers
<1>5. PrivateOnce /\ UnusedUntilAdded /\ Places /\ Stages /\ NeverAborts
  BY <1>3 DEF Init, PrivateOnce, UnusedUntilAdded, Places, Stages, NeverAborts, Buffers
<1>6. PassedAreSignalled /\ NoLostWakeup
  BY <1>3 DEF PassedAreSignalled, NoLostWakeup
<1> QED
  BY <1>2, <1>4, <1>5, <1>6 DEF IInv

(* What changes no reference keeps the counts.                             *)
LEMMA CountsStay ==
  ASSUME IInv, UNCHANGED <<mRefCount, mOriginal, holds, life>>,
         \A b \in Pooled : Releasing(b)' = Releasing(b)
  PROVE  CountIsReferences' /\ PrivateOnce' /\ \A b \in Buffers : IsFiniteSet(Refs(b)')
<1>1. \A b : Refs(b)' = Refs(b) /\ Held(b)' = Held(b) /\ Clones(b)' = Clones(b)
  BY DEF Refs, Held, Clones
<1> QED
  BY <1>1 DEF IInv, Domains, CountIsReferences, PrivateOnce

LEMMA ThreadSets ==
  ASSUME Distinct, Domains
  PROVE  /\ IsFiniteSet(OnTheWay) /\ Cardinality(OnTheWay) \in Nat
         /\ IsFiniteSet(Signalling) /\ Cardinality(Signalling) \in Nat
         /\ IsFiniteSet(Unclaimed) /\ Cardinality(Unclaimed) \in Nat
         /\ \A t : IsFiniteSet(Passed(t)) /\ Cardinality(Passed(t)) \in Nat
<1>1. Added \subseteq Buffers
  BY DEF Added, Domains, Buffers
<1>2. OnTheWay \subseteq Threads /\ Signalling \subseteq Threads
  BY DEF OnTheWay, Signalling
<1>3. Unclaimed \subseteq Buffers /\ \A t : Passed(t) \subseteq Buffers
  BY <1>1 DEF Unclaimed, Passed
<1> QED
  BY <1>2, <1>3, BuffersFinite

LEMMA AcquireStep ==
  ASSUME Discipline, IInv, NEW t \in Threads, Acquire(t)
  PROVE  IInv'
<1> USE DEF IInv, Discipline
<1>1. /\ pc[t] = "idle" /\ mLock = NoOwner /\ group # "destroyed" /\ mLock' = t /\ group' = "live"
      /\ scan' = [scan EXCEPT ![t] = 1] /\ pc' = [pc EXCEPT ![t] = "scan"]
      /\ UNCHANGED <<list, mRefCount, mOriginal, holds, life, waiting, buf, fault, aborted>>
  BY DEF Acquire, Idle, Goto
<1>2. CountIsReferences' /\ PrivateOnce' /\ \A b \in Buffers : IsFiniteSet(Refs(b)')
  <2>1. \A b : Releasing(b)' = Releasing(b)
    BY <1>1 DEF Releasing, Domains
  <2> QED
    BY <1>1, <2>1, CountsStay
<1>3. Domains'
  BY <1>1, <1>2 DEF Domains
<1>4. Added' = Added /\ Unclaimed' = Unclaimed /\ Signalling' = Signalling
  BY <1>1 DEF Added, Unclaimed, Signalling, Domains
<1>5. UnusedUntilAdded' /\ Stages' /\ NeverAborts'
  BY <1>1, <1>4 DEF UnusedUntilAdded, Stages, NeverAborts
<1>6. Places'
  BY <1>1 DEF Places, Domains, Distinct
<1>7. PassedAreSignalled'
  <2>1. \A u \in Threads : pc'[u] = "scan" => u = t
    BY <1>1 DEF Places, Distinct, Domains
  <2>2. Passed(t)' = {}
    BY <1>1 DEF Passed, Domains
  <2> QED
    BY <1>4, <2>1, <2>2, FS_EmptySet, ThreadSets DEF PassedAreSignalled
<1>8. NoLostWakeup'
  <2>1. OnTheWay' = OnTheWay \cup {t}
    BY <1>1 DEF OnTheWay, Domains
  <2>2. Cardinality(OnTheWay) \in Nat /\ IsFiniteSet(OnTheWay) /\ Cardinality(Unclaimed) \in Nat
    BY ThreadSets
  <2>3. Cardinality(OnTheWay') \in {Cardinality(OnTheWay), Cardinality(OnTheWay) + 1}
    BY <2>1, <2>2, FS_AddElement
  <2> QED
    BY <1>1, <1>4, <2>2, <2>3 DEF NoLostWakeup
<1> QED
  BY <1>2, <1>3, <1>5, <1>6, <1>7, <1>8

LEMMA SkipStep ==
  ASSUME Discipline, IInv, NEW t \in Threads, Skip(t)
  PROVE  IInv'
<1> USE DEF IInv, Discipline
<1>1. /\ pc[t] = "scan" /\ scan[t] \in DOMAIN list /\ mRefCount[list[scan[t]]] # 0
      /\ scan' = [scan EXCEPT ![t] = @ + 1]
      /\ UNCHANGED <<list, mRefCount, mOriginal, holds, life, mLock, waiting, pc,
                     buf, group, fault, aborted>>
  BY DEF Skip, Unused
<1>2. CountIsReferences' /\ PrivateOnce' /\ \A b \in Buffers : IsFiniteSet(Refs(b)')
  <2>1. \A b : Releasing(b)' = Releasing(b)
    BY <1>1 DEF Releasing, Domains
  <2> QED
    BY <1>1, <2>1, CountsStay
<1>3. Domains'
  BY <1>1, <1>2 DEF Domains
<1>4. /\ Added' = Added /\ Unclaimed' = Unclaimed /\ Signalling' = Signalling
      /\ OnTheWay' = OnTheWay
  BY <1>1 DEF Added, Unclaimed, Signalling, OnTheWay, Domains
<1>5. UnusedUntilAdded' /\ Stages' /\ NeverAborts' /\ NoLostWakeup'
  BY <1>1, <1>4 DEF UnusedUntilAdded, Stages, NeverAborts, NoLostWakeup
<1>6. Places'
  BY <1>1 DEF Places, Domains
<1>7. \A u \in Threads : pc[u] = "scan" => Passed(u)' = Passed(u)
  <2> SUFFICES ASSUME NEW u \in Threads, pc[u] = "scan" PROVE Passed(u)' = Passed(u)
    OBVIOUS
  <2>1. u = t
    BY <1>1 DEF Places
  <2>2. scan'[t] = scan[t] + 1 /\ scan[t] \in 1 .. Len(list)
    BY <1>1 DEF Domains
  <2>3. list[scan[t]] \notin Unclaimed
    BY <1>1 DEF Unclaimed
  <2>4. \A b \in Unclaimed :
          (\E i \in 1 .. scan'[t] - 1 : list[i] = b) <=> (\E i \in 1 .. scan[t] - 1 : list[i] = b)
    <3> SUFFICES ASSUME NEW b \in Unclaimed, NEW i \in 1 .. scan'[t] - 1, list[i] = b
                 PROVE  i \in 1 .. scan[t] - 1
      BY <2>2
    <3> QED
      BY <2>2, <2>3
  <2> QED
    BY <1>1, <1>4, <2>1, <2>4 DEF Passed
<1>8. PassedAreSignalled'
  BY <1>1, <1>4, <1>7 DEF PassedAreSignalled
<1> QED
  BY <1>2, <1>3, <1>5, <1>6, <1>8

(* The buffer that is taken has no reference yet, and is not free any more. *)
LEMMA UnreferencedIsAlone ==
  ASSUME Distinct, IInv, NEW b \in Pooled, mRefCount[b] = 0
  PROVE  /\ Clones(b) = {} /\ Releasing(b) = {} /\ \A u \in Threads : holds[u][b] = 0
<1>1. /\ IsFiniteSet(Clones(b)) /\ Cardinality(Clones(b)) \in Nat
      /\ IsFiniteSet(Releasing(b)) /\ Cardinality(Releasing(b)) \in Nat
  <2>1. Clones(b) \subseteq Buffers /\ Releasing(b) \subseteq Threads
    BY DEF Clones, Releasing, Buffers
  <2> QED
    BY <2>1, BuffersFinite
<1>2. IsFiniteSet(Refs(b)) /\ Cardinality(Refs(b)) \in Nat
  BY FS_CardinalityType DEF IInv, Domains, Buffers
<1>3. Cardinality(Refs(b)) + Cardinality(Clones(b)) + Cardinality(Releasing(b)) = 0
  BY DEF IInv, CountIsReferences, Held
<1>4. Refs(b) = {} /\ Clones(b) = {} /\ Releasing(b) = {}
  <2>1. Cardinality(Refs(b)) = 0 /\ Cardinality(Clones(b)) = 0 /\ Cardinality(Releasing(b)) = 0
    BY <1>1, <1>2, <1>3
  <2> QED
    BY <2>1, <1>1, <1>2, FS_EmptySet
<1>5. \A u \in Threads : holds[u][b] = 0
  <2> SUFFICES ASSUME NEW u \in Threads, holds[u][b] # 0 PROVE FALSE
    OBVIOUS
  <2>1. holds[u][b] \in Nat
    BY DEF IInv, Domains, Buffers
  <2>2. <<u, 1>> \in Refs(b)
    BY <2>1, RefsAre
  <2> QED
    BY <1>4, <2>2
<1> QED
  BY <1>4, <1>5

LEMMA TakeStep ==
  ASSUME Discipline, IInv, NEW t \in Threads, Take(t)
  PROVE  IInv'
<1> USE DEF IInv, Discipline
<1>0. pc[t] = "scan" /\ scan[t] \in DOMAIN list /\ list[scan[t]] \in Pooled
  BY DEF Take, Domains
<1> PICK b \in Pooled : b = list[scan[t]]
  BY <1>0
<1>1. /\ mRefCount[b] = 0
      /\ mRefCount' = [mRefCount EXCEPT ![b] = @ + 1] /\ Gains(t, b)
      /\ scan' = [scan EXCEPT ![t] = 0] /\ pc' = [pc EXCEPT ![t] = "idle"] /\ mLock' = NoOwner
      /\ UNCHANGED <<list, mOriginal, life, waiting, buf, group, fault, aborted>>
  BY DEF Take, Unused, AddRef, Goto
<1>2. b \in Pooled /\ b \in Buffers /\ b \in Added
  BY <1>0 DEF Buffers, Added
<1>3. /\ IsFiniteSet(Refs(b)') /\ Held(b)' = Held(b) + 1 /\ Held(b) \in Nat
      /\ \A c \in Buffers \ {b} : Refs(c)' = Refs(c)
      /\ holds' \in [Threads -> [Buffers -> Nat]]
  BY <1>1, <1>2, GainCounts
<1>4. Domains'
  <2>1. \A c \in Buffers : IsFiniteSet(Refs(c)')
    BY <1>3 DEF Domains
  <2>2. mRefCount' \in [Buffers -> Nat]
    BY <1>1, <1>2 DEF Domains
  <2>3. mLock' \in Threads \cup {NoOwner} /\ scan' \in [Threads -> Nat]
    BY <1>1 DEF Domains
  <2>4. pc' \in [Threads -> {"idle", "scan", "wait", "dec", "signal"}]
    BY <1>1 DEF Domains
  <2> QED
    BY <1>1, <1>3, <2>1, <2>2, <2>3, <2>4 DEF Domains
<1>5. \A c : Clones(c)' = Clones(c) /\ Releasing(c)' = Releasing(c)
  BY <1>0, <1>1 DEF Clones, Releasing, Domains
<1>6. CountIsReferences'
  <2> SUFFICES ASSUME NEW c \in Pooled
               PROVE  mRefCount'[c] = Held(c)' + Cardinality(Clones(c)) + Cardinality(Releasing(c))
    BY <1>5 DEF CountIsReferences
  <2>1. CASE c = b
    <3>1. Clones(b) = {} /\ Releasing(b) = {}
      BY <1>1, <1>2, UnreferencedIsAlone
    <3>2. mRefCount'[b] = 1 /\ Cardinality(Clones(b)) = 0 /\ Cardinality(Releasing(b)) = 0
      BY <1>1, <1>2, <3>1, FS_EmptySet DEF Domains
    <3>3. mRefCount[b] = Held(b) + Cardinality(Clones(b)) + Cardinality(Releasing(b))
      BY <1>2 DEF CountIsReferences
    <3> QED
      BY <1>1, <1>3, <2>1, <3>2, <3>3
  <2>2. CASE c # b
    <3>1. Held(c)' = Held(c)
      BY <1>3, <2>2 DEF Held, Buffers
    <3>2. mRefCount'[c] = mRefCount[c]
      BY <1>1, <2>2 DEF Domains, Buffers
    <3> QED
      BY <3>1, <3>2 DEF CountIsReferences
  <2> QED
    BY <2>1, <2>2
<1>7. PrivateOnce'
  <2>1. \A c \in Private : c # b
    BY <1>2 DEF Distinct
  <2>2. \A c \in Private, u \in Threads : holds'[u][c] = holds[u][c] /\ mRefCount'[c] = mRefCount[c]
    BY <1>1, <1>2, <2>1 DEF Gains, Domains, Buffers
  <2> QED
    BY <1>1, <2>2 DEF PrivateOnce
<1>8. Added' = Added /\ Signalling' = Signalling
  BY <1>0, <1>1 DEF Added, Signalling, Domains
<1>9. Unclaimed' = Unclaimed \ {b} /\ b \in Unclaimed
  <2>1. \A c \in Added : mRefCount'[c] = IF c = b THEN 1 ELSE mRefCount[c]
    BY <1>1, <1>2 DEF Domains, Added, Buffers
  <2> QED
    BY <1>1, <1>2, <1>8, <2>1 DEF Unclaimed
<1>10. UnusedUntilAdded'
  BY <1>1, <1>2, <1>8 DEF UnusedUntilAdded, Domains, Buffers
<1>11. \A u \in Threads : pc'[u] # "scan"
  BY <1>0, <1>1 DEF Places, Domains
<1>12. Places' /\ PassedAreSignalled'
  BY <1>0, <1>1, <1>11 DEF Places, PassedAreSignalled, Domains, Distinct
<1>13. Stages' /\ NeverAborts'
  BY <1>0, <1>1, <1>11 DEF Stages, NeverAborts
<1>14. NoLostWakeup'
  <2>1. OnTheWay' = OnTheWay \ {t} /\ t \in OnTheWay
    BY <1>0, <1>1 DEF OnTheWay, Domains, Places
  <2>2. /\ Cardinality(OnTheWay) \in Nat /\ IsFiniteSet(OnTheWay)
        /\ Cardinality(Unclaimed) \in Nat /\ IsFiniteSet(Unclaimed)
    BY ThreadSets
  <2>3. /\ Cardinality(OnTheWay') = Cardinality(OnTheWay) - 1
        /\ Cardinality(Unclaimed') = Cardinality(Unclaimed) - 1
    BY <1>9, <2>1, <2>2, FS_RemoveElement
  <2> QED
    BY <1>1, <2>2, <2>3 DEF NoLostWakeup
<1> QED
  BY <1>4, <1>6, <1>7, <1>10, <1>12, <1>13, <1>14

(* A thread goes to wait with a signal under way for every free buffer.    *)
LEMMA WaitStep ==
  ASSUME Discipline, IInv, NEW t \in Threads, Wait(t)
  PROVE  IInv'
<1> USE DEF IInv, Discipline
<1>1. /\ pc[t] = "scan" /\ scan[t] > Len(list)
      /\ mLock' = NoOwner /\ waiting' = waiting \cup {t} /\ pc' = [pc EXCEPT ![t] = "wait"]
      /\ scan' = [scan EXCEPT ![t] = 0]
      /\ UNCHANGED <<list, mRefCount, mOriginal, holds, life, buf, group, fault, aborted>>
  BY DEF Wait, Goto
<1>2. CountIsReferences' /\ PrivateOnce' /\ \A b \in Buffers : IsFiniteSet(Refs(b)')
  <2>1. \A b : Releasing(b)' = Releasing(b)
    BY <1>1 DEF Releasing, Domains
  <2> QED
    BY <1>1, <2>1, CountsStay
<1>3. Domains'
  BY <1>1, <1>2 DEF Domains
<1>4. Added' = Added /\ Unclaimed' = Unclaimed /\ Signalling' = Signalling
  BY <1>1 DEF Added, Unclaimed, Signalling, Domains
<1>5. UnusedUntilAdded' /\ NeverAborts'
  BY <1>1, <1>4 DEF UnusedUntilAdded, NeverAborts
<1>6. \A u \in Threads : pc'[u] # "scan"
  BY <1>1 DEF Places, Domains
<1>7. Places' /\ PassedAreSignalled' /\ Stages'
  BY <1>1, <1>6 DEF Places, PassedAreSignalled, Domains, Distinct, Stages
<1>8. NoLostWakeup'
  <2>1. Passed(t) = Unclaimed
    <3>1. scan[t] - 1 = Len(list)
      BY <1>1 DEF Places, Domains
    <3> QED
      BY <3>1 DEF Passed, Unclaimed, Added, Domains
  <2>2. Cardinality(Unclaimed) <= Cardinality(Signalling)
    BY <1>1, <2>1 DEF PassedAreSignalled
  <2>3. Signalling \subseteq OnTheWay'
    BY <1>1 DEF Signalling, OnTheWay, Domains
  <2>4. IsFiniteSet(OnTheWay') /\ Cardinality(OnTheWay') \in Nat
    BY BuffersFinite DEF OnTheWay
  <2>5. Cardinality(Signalling) <= Cardinality(OnTheWay')
    BY <2>3, <2>4, FS_Subset
  <2> QED
    BY <1>4, <2>2, <2>4, <2>5, ThreadSets DEF NoLostWakeup
<1> QED
  BY <1>2, <1>3, <1>5, <1>7, <1>8

(* What changes neither who is free nor who walks, waits or signals.       *)
LEMMA WakeupsStay ==
  ASSUME IInv, UNCHANGED <<list, waiting, scan, mLock, group>>, Unclaimed' = Unclaimed,
         pc' \in [Threads -> {"idle", "scan", "wait", "dec", "signal"}],
         \A u \in Threads : pc'[u] = pc[u] \/ {pc[u], pc'[u]} \subseteq {"idle", "dec"}
  PROVE  NoLostWakeup' /\ PassedAreSignalled'
<1>1. OnTheWay' = OnTheWay /\ Signalling' = Signalling
  <2>1. \A u \in Threads : /\ pc'[u] = "signal" <=> pc[u] = "signal"
                           /\ pc'[u] = "wait" <=> pc[u] = "wait"
                           /\ pc'[u] = "scan" <=> pc[u] = "scan"
    OBVIOUS
  <2> QED
    BY <2>1 DEF OnTheWay, Signalling
<1>2. \A u : Passed(u)' = Passed(u)
  BY DEF Passed
<1>3. \A u \in Threads : pc'[u] = "scan" <=> pc[u] = "scan"
  OBVIOUS
<1> QED
  BY <1>1, <1>2, <1>3 DEF IInv, NoLostWakeup, PassedAreSignalled

LEMMA RescanStep ==
  ASSUME Discipline, IInv, NEW t \in Threads, Rescan(t)
  PROVE  IInv'
<1> USE DEF IInv, Discipline
<1>1. /\ pc[t] = "wait" /\ t \notin waiting /\ mLock = NoOwner
      /\ mLock' = t /\ scan' = [scan EXCEPT ![t] = 1] /\ pc' = [pc EXCEPT ![t] = "scan"]
      /\ UNCHANGED <<list, mRefCount, mOriginal, holds, life, waiting, buf, group, fault, aborted>>
  BY DEF Rescan, Goto
<1>2. CountIsReferences' /\ PrivateOnce' /\ \A b \in Buffers : IsFiniteSet(Refs(b)')
  <2>1. \A b : Releasing(b)' = Releasing(b)
    BY <1>1 DEF Releasing, Domains
  <2> QED
    BY <1>1, <2>1, CountsStay
<1>3. Domains'
  BY <1>1, <1>2 DEF Domains
<1>4. /\ Added' = Added /\ Unclaimed' = Unclaimed /\ Signalling' = Signalling
      /\ OnTheWay' = OnTheWay
  BY <1>1 DEF Added, Unclaimed, Signalling, OnTheWay, Domains
<1>5. UnusedUntilAdded' /\ NeverAborts' /\ NoLostWakeup'
  BY <1>1, <1>4 DEF UnusedUntilAdded, NeverAborts, NoLostWakeup
<1>6. group = "live"
  <2>1. group # "destroyed"
    BY <1>1 DEF Stages
  <2> QED
    BY <1>1, <2>1 DEF Stages, Domains
<1>7. Stages'
  BY <1>1, <1>6 DEF Stages
<1>8. Places'
  BY <1>1 DEF Places, Domains, Distinct
<1>9. PassedAreSignalled'
  <2>1. \A u \in Threads : pc'[u] = "scan" => u = t
    BY <1>1 DEF Places, Distinct, Domains
  <2>2. Passed(t)' = {}
    BY <1>1 DEF Passed, Domains
  <2> QED
    BY <1>4, <2>1, <2>2, FS_EmptySet, ThreadSets DEF PassedAreSignalled
<1> QED
  BY <1>2, <1>3, <1>5, <1>7, <1>8, <1>9

LEMMA WakeSpuriouslyStep ==
  ASSUME Discipline, IInv, NEW t \in Threads, WakeSpuriously(t)
  PROVE  IInv'
<1> USE DEF IInv, Discipline
<1>1. /\ t \in waiting /\ waiting' = waiting \ {t}
      /\ UNCHANGED <<list, mRefCount, mOriginal, holds, life, mLock, pc, scan, buf, group,
                     fault, aborted>>
  BY DEF WakeSpuriously
<1>2. CountIsReferences' /\ PrivateOnce' /\ \A b \in Buffers : IsFiniteSet(Refs(b)')
  <2>1. \A b : Releasing(b)' = Releasing(b)
    BY <1>1 DEF Releasing, Domains
  <2> QED
    BY <1>1, <2>1, CountsStay
<1>3. Domains'
  BY <1>1, <1>2 DEF Domains
<1>4. /\ Added' = Added /\ Unclaimed' = Unclaimed /\ Signalling' = Signalling
      /\ \A u : Passed(u)' = Passed(u)
  BY <1>1 DEF Added, Unclaimed, Signalling, Passed
<1>5. UnusedUntilAdded' /\ NeverAborts' /\ Stages' /\ Places' /\ PassedAreSignalled'
  BY <1>1, <1>4 DEF UnusedUntilAdded, NeverAborts, Stages, Places, PassedAreSignalled
<1>6. NoLostWakeup'
  <2>1. OnTheWay' = OnTheWay \cup {t}
    BY <1>1 DEF OnTheWay, Places
  <2>2. Cardinality(OnTheWay) \in Nat /\ IsFiniteSet(OnTheWay) /\ Cardinality(Unclaimed) \in Nat
    BY ThreadSets
  <2>3. Cardinality(OnTheWay') \in {Cardinality(OnTheWay), Cardinality(OnTheWay) + 1}
    BY <2>1, <2>2, FS_AddElement
  <2> QED
    BY <1>1, <1>4, <2>2, <2>3 DEF NoLostWakeup
<1> QED
  BY <1>2, <1>3, <1>5, <1>6

LEMMA AddBufferStep ==
  ASSUME Discipline, IInv, NEW t \in Threads, NEW b \in Buffers, AddBuffer(t, b)
  PROVE  IInv'
<1> USE DEF IInv, Discipline
<1>1. /\ b \in Pooled /\ b \notin Added /\ group = "new" /\ list' = Append(list, b)
      /\ UNCHANGED <<mRefCount, mOriginal, holds, life, mLock, waiting, pc, scan,
                     buf, group, fault, aborted>>
  BY DEF AddBuffer
<1>2. CountIsReferences' /\ PrivateOnce' /\ \A c \in Buffers : IsFiniteSet(Refs(c)')
  <2>1. \A c : Releasing(c)' = Releasing(c)
    BY <1>1 DEF Releasing
  <2> QED
    BY <1>1, <2>1, CountsStay
<1>3. /\ list \in Seq(Pooled) /\ Len(list) \in Nat
      /\ list' \in Seq(Pooled) /\ Len(list') = Len(list) + 1 /\ list'[Len(list')] = b
      /\ \A i \in 1 .. Len(list) : list'[i] = list[i]
  BY <1>1 DEF Domains
<1>4. \A i \in 1 .. Len(list) : list[i] # b
  BY <1>1 DEF Added, Domains
<1>5. Domains'
  <2>1. \A i, j \in 1 .. Len(list') : list'[i] = list'[j] => i = j
    <3> SUFFICES ASSUME NEW i \in 1 .. Len(list'), NEW j \in 1 .. Len(list'), list'[i] = list'[j]
                 PROVE  i = j
      OBVIOUS
    <3>1. CASE i = Len(list') \/ j = Len(list')
      BY <1>3, <1>4, <3>1
    <3>2. CASE i # Len(list') /\ j # Len(list')
      <4>1. i \in 1 .. Len(list) /\ j \in 1 .. Len(list)
        BY <1>3, <3>2
      <4> QED
        BY <1>3, <4>1 DEF Domains
    <3> QED
      BY <3>1, <3>2
  <2> QED
    BY <1>1, <1>2, <1>3, <2>1 DEF Domains
<1>6. Added \subseteq Added'
  <2>1. DOMAIN list = 1 .. Len(list) /\ DOMAIN list' = 1 .. Len(list')
    BY <1>3
  <2>2. \A i \in DOMAIN list : i \in DOMAIN list' /\ list'[i] = list[i]
    BY <1>3, <2>1
  <2> QED
    BY <2>2 DEF Added
<1>7. UnusedUntilAdded' /\ NeverAborts' /\ Stages'
  BY <1>1, <1>6 DEF UnusedUntilAdded, NeverAborts, Stages
<1>8. waiting' = {} /\ \A u \in Threads : pc'[u] # "scan"
  BY <1>1 DEF Stages
<1>9. Places' /\ PassedAreSignalled' /\ NoLostWakeup'
  BY <1>1, <1>8 DEF Places, PassedAreSignalled, NoLostWakeup
<1> QED
  BY <1>2, <1>5, <1>7, <1>9

----------------------------------------------------------------------------
(* What is done with a buffer *)

(* A buffer with a reference is counted, in the list, and its group lives. *)
LEMMA ReferencesAreCounted ==
  ASSUME Distinct, IInv, NEW b \in Pooled,
         (\E t \in Threads : holds[t][b] > 0) \/ Clones(b) # {} \/ Releasing(b) # {}
  PROVE  mRefCount[b] \in Nat \ {0} /\ b \in Added /\ group # "destroyed"
<1>1. mRefCount[b] \in Nat
  BY DEF IInv, Domains, Buffers
<1>2. mRefCount[b] # 0
  <2> SUFFICES ASSUME mRefCount[b] = 0 PROVE FALSE
    OBVIOUS
  <2> QED
    BY UnreferencedIsAlone
<1> QED
  BY <1>1, <1>2 DEF IInv, UnusedUntilAdded, Stages

(* A step that touches one pooled buffer keeps the counts of the others.   *)
LEMMA CountsOfOne ==
  ASSUME IInv, NEW b \in Pooled,
         \A c \in Pooled \ {b} : /\ Refs(c)' = Refs(c) /\ mRefCount'[c] = mRefCount[c]
                                 /\ Clones(c)' = Clones(c) /\ Releasing(c)' = Releasing(c),
         mRefCount'[b] = Held(b)' + Cardinality(Clones(b)') + Cardinality(Releasing(b)')
  PROVE  CountIsReferences'
<1> SUFFICES ASSUME NEW c \in Pooled \ {b}
             PROVE  mRefCount'[c] =
                      Held(c)' + Cardinality(Clones(c)') + Cardinality(Releasing(c)')
  BY DEF CountIsReferences
<1> QED
  BY DEF IInv, CountIsReferences, Held

LEMMA CountsAreNat ==
  ASSUME Distinct, Domains, NEW b \in Buffers
  PROVE  /\ IsFiniteSet(Clones(b)) /\ Cardinality(Clones(b)) \in Nat
         /\ IsFiniteSet(Releasing(b)) /\ Cardinality(Releasing(b)) \in Nat
         /\ IsFiniteSet(Refs(b)) /\ Held(b) \in Nat
<1>1. Clones(b) \subseteq Buffers /\ Releasing(b) \subseteq Threads
  BY DEF Clones, Releasing, Buffers
<1>2. IsFiniteSet(Refs(b))
  BY DEF Domains
<1> QED
  BY <1>1, <1>2, BuffersFinite, FS_CardinalityType DEF Held

LEMMA ShareStep ==
  ASSUME Discipline, IInv, NEW t \in Threads, NEW b \in Buffers, Share(t, b)
  PROVE  IInv'
<1> USE DEF IInv, Discipline
<1>1. /\ b \in Pooled /\ holds[t][b] > 0
      /\ mRefCount' = [mRefCount EXCEPT ![b] = @ + 1] /\ Gains(t, b)
      /\ UNCHANGED <<list, mOriginal, life, mLock, waiting, pc, scan, buf, group,
                     fault, aborted>>
  BY DEF Share, AddRef
<1>2. mRefCount[b] \in Nat \ {0} /\ b \in Added /\ group # "destroyed"
  BY <1>1, ReferencesAreCounted
<1>3. /\ IsFiniteSet(Refs(b)') /\ Held(b)' = Held(b) + 1 /\ Held(b) \in Nat
      /\ \A c \in Buffers \ {b} : Refs(c)' = Refs(c)
      /\ holds' \in [Threads -> [Buffers -> Nat]]
  BY <1>1, GainCounts
<1>4. Domains'
  <2>1. \A c \in Buffers : IsFiniteSet(Refs(c)')
    BY <1>3 DEF Domains
  <2>2. mRefCount' \in [Buffers -> Nat]
    BY <1>1 DEF Domains
  <2> QED
    BY <1>1, <1>3, <2>1, <2>2 DEF Domains
<1>5. mRefCount'[b] = mRefCount[b] + 1 /\ \A c \in Buffers \ {b} : mRefCount'[c] = mRefCount[c]
  BY <1>1 DEF Domains
<1>6. CountIsReferences'
  <2>1. \A c : Clones(c)' = Clones(c) /\ Releasing(c)' = Releasing(c)
    BY <1>1 DEF Clones, Releasing
  <2>2. mRefCount[b] = Held(b) + Cardinality(Clones(b)) + Cardinality(Releasing(b))
    BY <1>1 DEF CountIsReferences
  <2>3. mRefCount'[b] = Held(b)' + Cardinality(Clones(b)') + Cardinality(Releasing(b)')
    BY <1>3, <1>5, <2>1, <2>2, CountsAreNat
  <2> QED
    BY <1>1, <1>3, <1>5, <2>1, <2>3, CountsOfOne DEF Buffers
<1>7. PrivateOnce'
  <2>1. \A c \in Private : c # b
    BY <1>1 DEF Distinct
  <2>2. \A c \in Private, u \in Threads : holds'[u][c] = holds[u][c] /\ mRefCount'[c] = mRefCount[c]
    BY <1>1, <2>1 DEF Gains, Domains, Buffers
  <2> QED
    BY <1>1, <2>2 DEF PrivateOnce
<1>8. Added' = Added /\ Unclaimed' = Unclaimed
  <2>1. Added' = Added /\ Added \subseteq Buffers
    BY <1>1 DEF Added, Domains, Buffers
  <2> QED
    BY <1>2, <1>5, <2>1 DEF Unclaimed
<1>9. UnusedUntilAdded' /\ Places' /\ Stages' /\ NeverAborts'
  BY <1>1, <1>2, <1>5, <1>8 DEF UnusedUntilAdded, Places, Stages, NeverAborts, Buffers
<1>10. NoLostWakeup' /\ PassedAreSignalled'
  <2>1. pc' \in [Threads -> {"idle", "scan", "wait", "dec", "signal"}]
    BY <1>4 DEF Domains
  <2> QED
    BY <1>1, <1>8, <2>1, WakeupsStay
<1> QED
  BY <1>4, <1>6, <1>7, <1>9, <1>10

LEMMA HandOverStep ==
  ASSUME Discipline, IInv, NEW t \in Threads, NEW u \in Threads, NEW b \in Buffers,
         HandOver(t, u, b)
  PROVE  IInv'
<1> USE DEF IInv, Discipline
<1>1. /\ t # u /\ holds[t][b] > 0 /\ Moves(t, u, b)
      /\ UNCHANGED <<list, mRefCount, mOriginal, life, mLock, waiting, pc, scan, buf, group,
                     fault, aborted>>
  BY DEF HandOver
<1>2. /\ IsFiniteSet(Refs(b)') /\ Held(b)' = Held(b)
      /\ \A c \in Buffers \ {b} : Refs(c)' = Refs(c)
      /\ holds' \in [Threads -> [Buffers -> Nat]]
      /\ holds'[t][b] = holds[t][b] - 1 /\ holds'[u][b] = holds[u][b] + 1
      /\ \A v \in Threads, c \in Buffers : (v # t /\ v # u) \/ c # b => holds'[v][c] = holds[v][c]
  BY <1>1, MoveCounts
<1>3. Domains'
  <2>1. \A c \in Buffers : IsFiniteSet(Refs(c)')
    BY <1>2 DEF Domains
  <2> QED
    BY <1>1, <1>2, <2>1 DEF Domains
<1>4. /\ Added' = Added /\ Unclaimed' = Unclaimed
      /\ \A c : Clones(c)' = Clones(c) /\ Releasing(c)' = Releasing(c)
  BY <1>1 DEF Added, Unclaimed, Clones, Releasing
<1>5. CountIsReferences'
  <2>1. \A c \in Pooled : Held(c)' = Held(c)
    BY <1>2 DEF Held, Buffers
  <2> QED
    BY <1>1, <1>4, <2>1 DEF CountIsReferences
<1>6. PrivateOnce'
  <2> SUFFICES ASSUME NEW c \in Private
               PROVE  /\ \A v, w \in Threads : holds'[v][c] > 0 /\ holds'[w][c] > 0 => v = w
                      /\ \A v \in Threads : /\ holds'[v][c] \in {0, 1}
                                            /\ holds'[v][c] = 1 => life[c] = "live"
    BY <1>1 DEF PrivateOnce
  <2>1. CASE c = b
    <3>1. holds[t][b] = 1 /\ life[b] = "live" /\ \A v \in Threads : v # t => holds[v][b] = 0
      BY <1>1, <2>1 DEF PrivateOnce
    <3>2. \A v \in Threads : holds'[v][b] = IF v = u THEN 1 ELSE 0
      BY <1>1, <1>2, <3>1
    <3> QED
      BY <2>1, <3>1, <3>2
  <2>2. CASE c # b
    BY <1>2, <2>2 DEF PrivateOnce, Buffers
  <2> QED
    BY <2>1, <2>2
<1>7. UnusedUntilAdded' /\ Places' /\ Stages' /\ NeverAborts'
  BY <1>1, <1>4 DEF UnusedUntilAdded, Places, Stages, NeverAborts
<1>8. NoLostWakeup' /\ PassedAreSignalled'
  <2>1. pc' \in [Threads -> {"idle", "scan", "wait", "dec", "signal"}]
    BY <1>3 DEF Domains
  <2> QED
    BY <1>1, <1>4, <2>1, WakeupsStay
<1> QED
  BY <1>3, <1>5, <1>6, <1>7, <1>8

(* A private buffer that comes to be has its one reference.                *)
LEMMA PrivateIsBorn ==
  ASSUME Discipline, IInv, NEW t \in Threads, NEW c \in Private, life[c] = "none",
         Gains(t, c), life' = [life EXCEPT ![c] = "live"],
         \A d \in Private : mRefCount'[d] = 0 /\ (d # c => mOriginal'[d] = mOriginal[d])
  PROVE  /\ PrivateOnce' /\ holds' \in [Threads -> [Buffers -> Nat]]
         /\ life' \in [Private -> {"none", "live", "deleted"}]
         /\ \A d \in Buffers : IsFiniteSet(Refs(d)')
         /\ \A d \in Pooled : Refs(d)' = Refs(d)
<1> USE DEF IInv, Discipline
<1>1. c \in Buffers /\ c \notin Pooled
  BY DEF Distinct, Buffers
<1>2. /\ IsFiniteSet(Refs(c)') /\ holds' \in [Threads -> [Buffers -> Nat]]
      /\ \A d \in Buffers \ {c} : Refs(d)' = Refs(d)
  BY <1>1, GainCounts
<1>3. life'[c] = "live" /\ \A d \in Private : d # c => life'[d] = life[d]
  BY DEF Domains
<1>4. /\ holds'[t][c] = holds[t][c] + 1
      /\ \A u \in Threads, d \in Buffers : u # t \/ d # c => holds'[u][d] = holds[u][d]
  BY <1>1 DEF Gains, Domains
<1>5. \A u \in Threads : holds[u][c] = 0
  BY DEF PrivateOnce
<1>6. PrivateOnce'
  <2> SUFFICES ASSUME NEW d \in Private
               PROVE  /\ life'[d] = "none" => mOriginal'[d] = NoBuffer
                      /\ \A v, w \in Threads : holds'[v][d] > 0 /\ holds'[w][d] > 0 => v = w
                      /\ \A v \in Threads : /\ holds'[v][d] \in {0, 1}
                                            /\ holds'[v][d] = 1 => life'[d] = "live"
    BY DEF PrivateOnce
  <2>1. CASE d = c
    <3>1. \A v \in Threads : holds'[v][c] = IF v = t THEN 1 ELSE 0
      BY <1>1, <1>4, <1>5
    <3> QED
      BY <2>1, <3>1, <1>3
  <2>2. CASE d # c
    <3>1. \A v \in Threads : holds'[v][d] = holds[v][d]
      BY <1>4, <2>2 DEF Buffers
    <3> QED
      BY <2>2, <3>1, <1>3 DEF PrivateOnce
  <2> QED
    BY <2>1, <2>2
<1>7. life' \in [Private -> {"none", "live", "deleted"}]
  BY DEF Domains
<1> QED
  <2>1. \A d \in Buffers : IsFiniteSet(Refs(d))
    BY DEF Domains
  <2>2. \A d \in Pooled : d \in Buffers \ {c}
    BY <1>1 DEF Buffers
  <2>3. \A d \in Buffers : IsFiniteSet(Refs(d)')
    BY <1>2, <2>1
  <2> QED
    BY <1>2, <1>6, <1>7, <2>2, <2>3

LEMMA NewBufferStep ==
  ASSUME Discipline, IInv, NEW t \in Threads, NEW b \in Buffers, NewBuffer(t, b)
  PROVE  IInv'
<1> USE DEF IInv, Discipline
<1>1. /\ b \in Private /\ life[b] = "none" /\ life' = [life EXCEPT ![b] = "live"] /\ Gains(t, b)
      /\ UNCHANGED <<list, mRefCount, mOriginal, mLock, waiting, pc, scan, buf, group,
                     fault, aborted>>
  BY DEF NewBuffer
<1>2. /\ PrivateOnce' /\ holds' \in [Threads -> [Buffers -> Nat]]
      /\ life' \in [Private -> {"none", "live", "deleted"}]
      /\ \A d \in Buffers : IsFiniteSet(Refs(d)')
      /\ \A d \in Pooled : Refs(d)' = Refs(d)
  <2>1. \A d \in Private : mRefCount'[d] = 0 /\ mOriginal'[d] = mOriginal[d]
    BY <1>1 DEF PrivateOnce
  <2> QED
    BY <1>1, <2>1, PrivateIsBorn
<1>3. Domains'
  BY <1>1, <1>2 DEF Domains
<1>4. Added' = Added /\ Unclaimed' = Unclaimed /\ \A d : Releasing(d)' = Releasing(d)
  BY <1>1 DEF Added, Unclaimed, Releasing
<1>5. CountIsReferences'
  <2>1. mOriginal[b] = NoBuffer
    BY <1>1 DEF PrivateOnce
  <2>2. \A d \in Pooled : Clones(d)' = Clones(d)
    BY <1>1, <2>1 DEF Clones, Domains, Distinct, Buffers
  <2> QED
    BY <1>1, <1>2, <1>4, <2>2 DEF CountIsReferences, Held
<1>6. UnusedUntilAdded' /\ Places' /\ Stages' /\ NeverAborts'
  BY <1>1, <1>4 DEF UnusedUntilAdded, Places, Stages, NeverAborts
<1>7. NoLostWakeup' /\ PassedAreSignalled'
  <2>1. pc' \in [Threads -> {"idle", "scan", "wait", "dec", "signal"}]
    BY <1>3 DEF Domains
  <2> QED
    BY <1>1, <1>4, <2>1, WakeupsStay
<1> QED
  BY <1>2, <1>3, <1>5, <1>6, <1>7

LEMMA CloneStep ==
  ASSUME Discipline, IInv, NEW t \in Threads, NEW b \in Buffers, NEW c \in Private,
         Clone(t, b, c)
  PROVE  IInv'
<1> USE DEF IInv, Discipline
<1>1. /\ b \in Pooled /\ holds[t][b] > 0 /\ life[c] = "none"
      /\ life' = [life EXCEPT ![c] = "live"] /\ Gains(t, c)
      /\ mRefCount' = [mRefCount EXCEPT ![b] = @ + 1] /\ mOriginal' = [mOriginal EXCEPT ![c] = b]
      /\ UNCHANGED <<list, mLock, waiting, pc, scan, buf, group, fault, aborted>>
  BY DEF Clone, AddRef
<1>2. mRefCount[b] \in Nat \ {0} /\ b \in Added /\ group # "destroyed"
  BY <1>1, ReferencesAreCounted
<1>3. mRefCount'[b] = mRefCount[b] + 1 /\ \A d \in Buffers \ {b} : mRefCount'[d] = mRefCount[d]
  BY <1>1 DEF Domains
<1>4. /\ PrivateOnce' /\ holds' \in [Threads -> [Buffers -> Nat]]
      /\ life' \in [Private -> {"none", "live", "deleted"}]
      /\ \A d \in Buffers : IsFiniteSet(Refs(d)')
      /\ \A d \in Pooled : Refs(d)' = Refs(d)
  <2>1. \A d \in Private : mRefCount'[d] = 0 /\ (d # c => mOriginal'[d] = mOriginal[d])
    BY <1>1, <1>3 DEF PrivateOnce, Domains, Distinct, Buffers
  <2> QED
    BY <1>1, <2>1, PrivateIsBorn
<1>5. Domains'
  <2>1. mRefCount' \in [Buffers -> Nat] /\ mOriginal' \in [Buffers -> Pooled \cup {NoBuffer}]
    BY <1>1 DEF Domains, Buffers
  <2> QED
    BY <1>1, <1>4, <2>1 DEF Domains
<1>6. CountIsReferences'
  <2>1. \A d : Releasing(d)' = Releasing(d)
    BY <1>1 DEF Releasing
  <2>2. mOriginal'[c] = b /\ life'[c] = "live" /\ mOriginal[c] = NoBuffer
    BY <1>1 DEF Domains, Buffers, PrivateOnce
  <2>3. \A d \in Private \ {c} : mOriginal'[d] = mOriginal[d] /\ life'[d] = life[d]
    BY <1>1 DEF Domains
  <2>4. Clones(b)' = Clones(b) \cup {c} /\ c \notin Clones(b)
    BY <1>1, <2>2, <2>3 DEF Clones
  <2>5. \A d \in Pooled \ {b} : Clones(d)' = Clones(d)
    BY <1>1, <2>2, <2>3 DEF Clones, Distinct, Buffers
  <2>6. /\ IsFiniteSet(Clones(b)) /\ Cardinality(Clones(b)) \in Nat /\ Held(b) \in Nat
        /\ Cardinality(Releasing(b)) \in Nat
    BY CountsAreNat
  <2>7. Cardinality(Clones(b)') = Cardinality(Clones(b)) + 1
    BY <2>4, <2>6, FS_AddElement
  <2>8. Held(b)' = Held(b)
    BY <1>1, <1>4 DEF Held
  <2>9. mRefCount[b] = Held(b) + Cardinality(Clones(b)) + Cardinality(Releasing(b))
    BY <1>1 DEF CountIsReferences
  <2>10. mRefCount'[b] = Held(b)' + Cardinality(Clones(b)') + Cardinality(Releasing(b)')
    BY <1>3, <2>1, <2>6, <2>7, <2>8, <2>9
  <2> QED
    BY <1>1, <1>3, <1>4, <2>1, <2>5, <2>10, CountsOfOne DEF Buffers
<1>7. Added' = Added /\ Unclaimed' = Unclaimed
  <2>1. Added' = Added /\ Added \subseteq Buffers
    BY <1>1 DEF Added, Domains, Buffers
  <2> QED
    BY <1>2, <1>3, <2>1 DEF Unclaimed
<1>8. UnusedUntilAdded' /\ Places' /\ Stages' /\ NeverAborts'
  BY <1>1, <1>2, <1>3, <1>7 DEF UnusedUntilAdded, Places, Stages, NeverAborts, Buffers
<1>9. NoLostWakeup' /\ PassedAreSignalled'
  <2>1. pc' \in [Threads -> {"idle", "scan", "wait", "dec", "signal"}]
    BY <1>5 DEF Domains
  <2> QED
    BY <1>1, <1>7, <2>1, WakeupsStay
<1> QED
  BY <1>4, <1>5, <1>6, <1>8, <1>9

LEMMA ReleaseStep ==
  ASSUME Discipline, IInv, NEW t \in Threads, NEW b \in Buffers, Release(t, b)
  PROVE  IInv'
<1> USE DEF IInv, Discipline
<1>1. /\ b \in Pooled /\ holds[t][b] > 0 /\ Lets(t, b) /\ pc[t] = "idle"
      /\ buf' = [buf EXCEPT ![t] = b] /\ pc' = [pc EXCEPT ![t] = "dec"]
      /\ UNCHANGED <<list, mRefCount, mOriginal, life, mLock, waiting, scan, group,
                     fault, aborted>>
  BY DEF Release, Idle, Goto
<1>2. mRefCount[b] \in Nat \ {0} /\ b \in Added /\ group # "destroyed"
  BY <1>1, ReferencesAreCounted
<1>3. /\ IsFiniteSet(Refs(b)') /\ Held(b)' = Held(b) - 1 /\ Held(b) \in Nat
      /\ \A c \in Buffers \ {b} : Refs(c)' = Refs(c)
      /\ holds' \in [Threads -> [Buffers -> Nat]]
  BY <1>1, LetCounts
<1>4. Domains'
  <2>1. \A c \in Buffers : IsFiniteSet(Refs(c)')
    BY <1>3 DEF Domains
  <2>2. buf' \in [Threads -> Pooled \cup {NoBuffer}]
    BY <1>1 DEF Domains
  <2>3. pc' \in [Threads -> {"idle", "scan", "wait", "dec", "signal"}]
    BY <1>1 DEF Domains
  <2> QED
    BY <1>1, <1>3, <2>1, <2>2, <2>3 DEF Domains
<1>5. /\ pc'[t] = "dec" /\ buf'[t] = b
      /\ \A u \in Threads : u # t => pc'[u] = pc[u] /\ buf'[u] = buf[u]
  BY <1>1 DEF Domains
<1>6. CountIsReferences'
  <2>1. \A c : Clones(c)' = Clones(c)
    BY <1>1 DEF Clones
  <2>2. Releasing(b)' = Releasing(b) \cup {t} /\ t \notin Releasing(b)
    BY <1>1, <1>5 DEF Releasing
  <2>3. \A c \in Pooled \ {b} : Releasing(c)' = Releasing(c)
    BY <1>1, <1>5 DEF Releasing
  <2>4. /\ IsFiniteSet(Releasing(b)) /\ Cardinality(Releasing(b)) \in Nat
        /\ Cardinality(Clones(b)) \in Nat
    BY CountsAreNat
  <2>5. Cardinality(Releasing(b)') = Cardinality(Releasing(b)) + 1
    BY <2>2, <2>4, FS_AddElement
  <2>6. mRefCount[b] = Held(b) + Cardinality(Clones(b)) + Cardinality(Releasing(b))
    BY <1>1 DEF CountIsReferences
  <2>7. mRefCount'[b] = Held(b)' + Cardinality(Clones(b)') + Cardinality(Releasing(b)')
    BY <1>1, <1>3, <2>1, <2>4, <2>5, <2>6
  <2> QED
    BY <1>1, <1>3, <2>1, <2>3, <2>7, CountsOfOne DEF Buffers
<1>7. PrivateOnce'
  <2>1. \A c \in Private : c # b
    BY <1>1 DEF Distinct
  <2>2. \A c \in Private, u \in Threads : holds'[u][c] = holds[u][c]
    BY <1>1, <2>1 DEF Lets, Domains, Buffers
  <2> QED
    BY <1>1, <2>2 DEF PrivateOnce
<1>8. Added' = Added /\ Unclaimed' = Unclaimed
  BY <1>1 DEF Added, Unclaimed
<1>9. UnusedUntilAdded' /\ Stages' /\ NeverAborts'
  BY <1>1, <1>2, <1>5, <1>8 DEF UnusedUntilAdded, Stages, NeverAborts
<1>10. Places'
  BY <1>1, <1>5 DEF Places
<1>11. NoLostWakeup' /\ PassedAreSignalled'
  <2>1. pc' \in [Threads -> {"idle", "scan", "wait", "dec", "signal"}]
    BY <1>4 DEF Domains
  <2>2. \A u \in Threads : pc'[u] = pc[u] \/ {pc[u], pc'[u]} \subseteq {"idle", "dec"}
    BY <1>1, <1>5
  <2> QED
    BY <1>1, <1>8, <2>1, <2>2, WakeupsStay
<1> QED
  BY <1>4, <1>6, <1>7, <1>9, <1>10, <1>11

(* The destructor of a clone hands its reference on to release().          *)
LEMMA ReleasePrivateStep ==
  ASSUME Discipline, IInv, NEW t \in Threads, NEW b \in Buffers, ReleasePrivate(t, b)
  PROVE  IInv'
<1> USE DEF IInv, Discipline
<1>1. /\ b \in Private /\ holds[t][b] > 0 /\ Lets(t, b) /\ pc[t] = "idle"
      /\ UNCHANGED <<list, mRefCount, mOriginal, mLock, waiting, scan, group, fault>>
  BY DEF ReleasePrivate, Idle
<1>2. /\ mRefCount[b] = 0 /\ holds[t][b] = 1 /\ life[b] = "live"
      /\ \A u \in Threads : u # t => holds[u][b] = 0
  BY <1>1 DEF PrivateOnce, Domains
<1>0. mOriginal[b] \in Pooled \cup {NoBuffer}
  BY <1>1 DEF Domains, Buffers
<1> PICK o \in Pooled \cup {NoBuffer} : o = mOriginal[b]
  BY <1>0
<1>3. /\ o = mOriginal[b] /\ o \notin Private /\ b \notin Pooled
      /\ NoBuffer \notin Pooled /\ NoBuffer \notin Private
  BY <1>1 DEF Distinct, Buffers
<1>4. /\ life' = [life EXCEPT ![b] = "deleted"] /\ aborted' = aborted
      /\ IF o = NoBuffer
           THEN UNCHANGED <<buf, pc>>
           ELSE buf' = [buf EXCEPT ![t] = o] /\ pc' = [pc EXCEPT ![t] = "dec"]
  BY <1>2, <1>3 DEF ReleasePrivate, Goto
<1>5. /\ IsFiniteSet(Refs(b)') /\ \A c \in Buffers \ {b} : Refs(c)' = Refs(c)
      /\ holds' \in [Threads -> [Buffers -> Nat]]
  BY <1>1, LetCounts
<1>6. /\ pc' \in [Threads -> {"idle", "scan", "wait", "dec", "signal"}]
      /\ buf' \in [Threads -> Pooled \cup {NoBuffer}]
      /\ \A u \in Threads : u # t => pc'[u] = pc[u] /\ buf'[u] = buf[u]
      /\ pc'[t] = (IF o = NoBuffer THEN "idle" ELSE "dec")
      /\ o # NoBuffer => buf'[t] = o
  <2>1. CASE o = NoBuffer
    BY <1>1, <1>4, <2>1 DEF Domains
  <2>2. CASE o # NoBuffer
    BY <1>1, <1>3, <1>4, <2>2 DEF Domains
  <2> QED
    BY <2>1, <2>2
<1>7. Domains'
  <2>1. \A c \in Buffers : IsFiniteSet(Refs(c)')
    BY <1>5 DEF Domains
  <2>2. life' \in [Private -> {"none", "live", "deleted"}]
    BY <1>1, <1>4 DEF Domains
  <2> QED
    BY <1>1, <1>4, <1>5, <1>6, <2>1, <2>2 DEF Domains
<1>8. life'[b] = "deleted" /\ \A c \in Private : c # b => life'[c] = life[c]
  BY <1>1, <1>4 DEF Domains
<1>9. \A c \in Pooled : Refs(c)' = Refs(c) /\ Held(c)' = Held(c)
  BY <1>3, <1>5 DEF Held, Buffers
<1>10. o # NoBuffer =>
          /\ Clones(o)' = Clones(o) \ {b} /\ b \in Clones(o)
          /\ Releasing(o)' = Releasing(o) \cup {t} /\ t \notin Releasing(o)
  BY <1>1, <1>2, <1>6, <1>8 DEF Clones, Releasing
<1>11. \A c \in Pooled : c # o => Clones(c)' = Clones(c) /\ Releasing(c)' = Releasing(c)
  BY <1>1, <1>6, <1>8 DEF Clones, Releasing
<1>12. CountIsReferences'
  <2>1. CASE o = NoBuffer
    <3>1. \A c \in Pooled : Clones(c)' = Clones(c) /\ Releasing(c)' = Releasing(c)
      BY <1>3, <1>11, <2>1
    <3> QED
      BY <1>1, <1>9, <3>1 DEF CountIsReferences
  <2>2. CASE o # NoBuffer
    <3>1. o \in Pooled /\ o \in Buffers
      BY <1>3, <2>2 DEF Buffers
    <3>2. /\ IsFiniteSet(Clones(o)) /\ Cardinality(Clones(o)) \in Nat
          /\ IsFiniteSet(Releasing(o)) /\ Cardinality(Releasing(o)) \in Nat /\ Held(o) \in Nat
      BY <3>1, CountsAreNat
    <3>3. /\ Cardinality(Clones(o)') = Cardinality(Clones(o)) - 1
          /\ Cardinality(Releasing(o)') = Cardinality(Releasing(o)) + 1
      BY <1>10, <2>2, <3>2, FS_AddElement, FS_RemoveElement
    <3>4. mRefCount[o] = Held(o) + Cardinality(Clones(o)) + Cardinality(Releasing(o))
      BY <3>1 DEF CountIsReferences
    <3>5. mRefCount'[o] = Held(o)' + Cardinality(Clones(o)') + Cardinality(Releasing(o)')
      BY <1>1, <1>9, <3>1, <3>2, <3>3, <3>4
    <3> QED
      BY <1>1, <1>9, <1>11, <3>1, <3>5, CountsOfOne
  <2> QED
    BY <2>1, <2>2
<1>13. PrivateOnce'
  <2>1. \A u \in Threads, c \in Private :
           holds'[u][c] = IF c = b THEN 0 ELSE holds[u][c]
    BY <1>1, <1>2 DEF Lets, Domains, Buffers
  <2> QED
    BY <1>1, <1>8, <2>1 DEF PrivateOnce
<1>14. Added' = Added /\ Unclaimed' = Unclaimed
  BY <1>1 DEF Added, Unclaimed
<1>15. o # NoBuffer => group # "destroyed"
  BY <1>3, <1>10, ReferencesAreCounted
<1>16. UnusedUntilAdded' /\ NeverAborts'
  BY <1>1, <1>4, <1>14 DEF UnusedUntilAdded, NeverAborts
<1>17. Stages'
  BY <1>1, <1>6, <1>15 DEF Stages
<1>18. Places'
  BY <1>1, <1>3, <1>6 DEF Places
<1>19. NoLostWakeup' /\ PassedAreSignalled'
  <2>1. \A u \in Threads : pc'[u] = pc[u] \/ {pc[u], pc'[u]} \subseteq {"idle", "dec"}
    BY <1>1, <1>6
  <2> QED
    BY <1>1, <1>6, <1>14, <2>1, WakeupsStay
<1> QED
  BY <1>7, <1>12, <1>13, <1>16, <1>17, <1>18, <1>19

(* The last reference frees the buffer, and a signal for it is under way.  *)
LEMMA DecrementStep ==
  ASSUME Discipline, IInv, NEW t \in Threads, Decrement(t)
  PROVE  IInv'
<1> USE DEF IInv, Discipline
<1>0. pc[t] = "dec" /\ buf[t] \in Pooled
  BY DEF Decrement, Places
<1> PICK b \in Pooled : b = buf[t]
  BY <1>0
<1>1. t \in Releasing(b) /\ b \in Buffers
  BY <1>0 DEF Releasing, Buffers
<1>2. mRefCount[b] \in Nat \ {0} /\ b \in Added /\ group # "destroyed"
  BY <1>1, ReferencesAreCounted
<1>3. /\ aborted' = FALSE /\ fault' = fault
      /\ mRefCount' = [mRefCount EXCEPT ![b] = @ - 1]
      /\ pc' = [pc EXCEPT ![t] = IF mRefCount[b] = 1 THEN "signal" ELSE "idle"]
      /\ buf' = [buf EXCEPT ![t] = NoBuffer]
      /\ UNCHANGED <<list, mOriginal, holds, life, mLock, waiting, scan, group>>
  <2>1. aborted' = FALSE
    <3>1. aborted' = (mRefCount[b] = 0)
      BY DEF Decrement
    <3> QED
      BY <1>2, <3>1
  <2>2. fault' = fault
    <3>1. fault' = (fault \/ group = "destroyed")
      BY DEF Decrement
    <3>2. fault \in BOOLEAN /\ group # "destroyed"
      BY <1>2 DEF Domains
    <3> QED
      BY <3>1, <3>2
  <2> QED
    BY <2>1, <2>2 DEF Decrement, Goto, Last
<1>4. mRefCount'[b] = mRefCount[b] - 1 /\ \A c \in Buffers \ {b} : mRefCount'[c] = mRefCount[c]
  BY <1>1, <1>3 DEF Domains
<1>5. /\ pc'[t] = (IF mRefCount[b] = 1 THEN "signal" ELSE "idle")
      /\ \A u \in Threads : u # t => pc'[u] = pc[u] /\ buf'[u] = buf[u]
      /\ pc' \in [Threads -> {"idle", "scan", "wait", "dec", "signal"}]
  BY <1>3 DEF Domains
<1>6. \A c : Refs(c)' = Refs(c) /\ Held(c)' = Held(c) /\ Clones(c)' = Clones(c)
  BY <1>3 DEF Refs, Held, Clones
<1>7. Domains'
  <2>1. mRefCount' \in [Buffers -> Nat]
    BY <1>1, <1>2, <1>3 DEF Domains
  <2>2. buf' \in [Threads -> Pooled \cup {NoBuffer}]
    BY <1>3 DEF Domains
  <2> QED
    <3>1. \A c \in Buffers : IsFiniteSet(Refs(c)')
      BY <1>6 DEF Domains
    <3> QED
      BY <1>3, <1>5, <2>1, <2>2, <3>1 DEF Domains
<1>8. CountIsReferences'
  <2>1. Releasing(b)' = Releasing(b) \ {t}
    BY <1>0, <1>5 DEF Releasing
  <2>2. \A c \in Pooled \ {b} : Releasing(c)' = Releasing(c)
    BY <1>0, <1>5 DEF Releasing
  <2>3. /\ IsFiniteSet(Releasing(b)) /\ Cardinality(Releasing(b)) \in Nat
        /\ Cardinality(Clones(b)) \in Nat /\ Held(b) \in Nat
    BY <1>1, CountsAreNat
  <2>4. Cardinality(Releasing(b)') = Cardinality(Releasing(b)) - 1
    <3>1. Cardinality(Releasing(b) \ {t}) = Cardinality(Releasing(b)) - 1
      BY <1>1, <2>3, FS_RemoveElement
    <3> QED
      BY <2>1, <3>1
  <2>5. mRefCount[b] = Held(b) + Cardinality(Clones(b)) + Cardinality(Releasing(b))
    BY DEF CountIsReferences
  <2>6. mRefCount'[b] = Held(b)' + Cardinality(Clones(b)') + Cardinality(Releasing(b)')
    BY <1>4, <1>6, <2>3, <2>4, <2>5
  <2> QED
    BY <1>4, <1>6, <2>2, <2>6, CountsOfOne DEF Buffers
<1>9. PrivateOnce'
  <2>1. \A c \in Private : c # b /\ mRefCount'[c] = mRefCount[c]
    BY <1>4 DEF Distinct, Buffers
  <2> QED
    BY <1>3, <2>1 DEF PrivateOnce
<1>10. Added' = Added /\ Added \subseteq Buffers
  BY <1>3 DEF Added, Domains, Buffers
<1>11. UnusedUntilAdded' /\ Stages' /\ NeverAborts'
  BY <1>2, <1>3, <1>4, <1>5, <1>10 DEF UnusedUntilAdded, Stages, NeverAborts, Buffers
<1>12. Places'
  BY <1>0, <1>3, <1>5 DEF Places
<1>13. CASE mRefCount[b] # 1
  <2>1. Unclaimed' = Unclaimed
    BY <1>2, <1>4, <1>10, <1>13 DEF Unclaimed
  <2>2. \A u \in Threads : pc'[u] = pc[u] \/ {pc[u], pc'[u]} \subseteq {"idle", "dec"}
    BY <1>0, <1>5, <1>13
  <2>3. NoLostWakeup' /\ PassedAreSignalled'
    BY <1>3, <1>5, <2>1, <2>2, WakeupsStay
  <2> QED
    BY <1>7, <1>8, <1>9, <1>11, <1>12, <2>3
<1>14. CASE mRefCount[b] = 1
  <2>1. Unclaimed' = Unclaimed \cup {b} /\ b \notin Unclaimed
    BY <1>2, <1>4, <1>10, <1>14 DEF Unclaimed
  <2>2. Signalling' = Signalling \cup {t} /\ t \notin Signalling
    BY <1>0, <1>5, <1>14 DEF Signalling
  <2>3. OnTheWay' = OnTheWay \cup {t} /\ t \notin OnTheWay
    BY <1>0, <1>3, <1>5, <1>14 DEF OnTheWay
  <2>4. /\ IsFiniteSet(OnTheWay) /\ Cardinality(OnTheWay) \in Nat
        /\ IsFiniteSet(Signalling) /\ Cardinality(Signalling) \in Nat
        /\ IsFiniteSet(Unclaimed) /\ Cardinality(Unclaimed) \in Nat
        /\ \A u : IsFiniteSet(Passed(u)) /\ Cardinality(Passed(u)) \in Nat
    BY ThreadSets
  <2>5. /\ Cardinality(Unclaimed') = Cardinality(Unclaimed) + 1
        /\ Cardinality(Signalling') = Cardinality(Signalling) + 1
        /\ Cardinality(OnTheWay') = Cardinality(OnTheWay) + 1
    BY <2>1, <2>2, <2>3, <2>4, FS_AddElement
  <2>6. NoLostWakeup'
    BY <1>3, <2>4, <2>5 DEF NoLostWakeup
  <2>7. PassedAreSignalled'
    <3> SUFFICES ASSUME NEW u \in Threads, pc'[u] = "scan"
                 PROVE  Cardinality(Passed(u)') <= Cardinality(Signalling')
      BY DEF PassedAreSignalled
    <3>1. pc[u] = "scan"
      BY <1>5, <1>14
    <3>2. Cardinality(Passed(u)) <= Cardinality(Signalling)
      BY <3>1 DEF PassedAreSignalled
    <3>3. Passed(u)' = Passed(u) \/ Passed(u)' = Passed(u) \cup {b}
      BY <1>3, <2>1 DEF Passed
    <3>4. IsFiniteSet(Passed(u)) /\ Cardinality(Passed(u)) \in Nat
      BY <2>4
    <3>5. Cardinality(Passed(u) \cup {b}) \in {Cardinality(Passed(u)), Cardinality(Passed(u)) + 1}
      BY <3>4, FS_AddElement
    <3>6. Cardinality(Passed(u)') \in {Cardinality(Passed(u)), Cardinality(Passed(u)) + 1}
      BY <3>3, <3>5
    <3> QED
      BY <2>4, <2>5, <3>2, <3>4, <3>6
  <2> QED
    BY <1>7, <1>8, <1>9, <1>11, <1>12, <2>6, <2>7
<1> QED
  BY <1>13, <1>14

(* The signal is spent on a waiter, which is on its way from then on.      *)
LEMMA SignalStep ==
  ASSUME Discipline, IInv, NEW t \in Threads, Signal(t)
  PROVE  IInv'
<1> USE DEF IInv, Discipline
<1>1. /\ pc[t] = "signal" /\ mLock = NoOwner /\ WakeOne /\ pc' = [pc EXCEPT ![t] = "idle"]
      /\ UNCHANGED <<list, mRefCount, mOriginal, holds, life, mLock, scan, buf, group, aborted>>
  BY DEF Signal, Goto
<1>2. group # "destroyed" /\ fault' = fault
  <2>1. group # "destroyed"
    BY <1>1 DEF Stages
  <2>2. fault' = (fault \/ group = "destroyed")
    BY DEF Signal
  <2>3. fault \in BOOLEAN
    BY DEF Domains
  <2> QED
    BY <2>1, <2>2, <2>3
<1>3. waiting' \subseteq waiting
  BY <1>1 DEF WakeOne
<1>4. /\ pc' \in [Threads -> {"idle", "scan", "wait", "dec", "signal"}] /\ pc'[t] = "idle"
      /\ \A u \in Threads : u # t => pc'[u] = pc[u]
  BY <1>1 DEF Domains
<1>5. CountIsReferences' /\ PrivateOnce' /\ \A b \in Buffers : IsFiniteSet(Refs(b)')
  <2>1. \A b : Releasing(b)' = Releasing(b)
    BY <1>1, <1>4 DEF Releasing
  <2> QED
    BY <1>1, <2>1, CountsStay
<1>6. Domains'
  BY <1>1, <1>2, <1>3, <1>4, <1>5 DEF Domains
<1>7. Added' = Added /\ Unclaimed' = Unclaimed
  BY <1>1 DEF Added, Unclaimed
<1>8. \A u \in Threads : pc'[u] # "scan"
  BY <1>1, <1>4 DEF Places, Distinct
<1>9. UnusedUntilAdded' /\ NeverAborts' /\ PassedAreSignalled' /\ Stages'
  BY <1>1, <1>2, <1>3, <1>4, <1>7, <1>8
    DEF UnusedUntilAdded, NeverAborts, PassedAreSignalled, Stages
<1>10. Places'
  BY <1>1, <1>3, <1>4 DEF Places
<1>11. NoLostWakeup'
  <2>1. CASE waiting = {}
    BY <1>3, <2>1 DEF NoLostWakeup
  <2>2. CASE waiting # {}
    <3>1. PICK u \in waiting : waiting' = waiting \ {u}
      BY <1>1, <2>2 DEF WakeOne
    <3>2. u \in Threads /\ pc[u] = "wait" /\ u # t
      BY <1>1, <3>1 DEF Places, Domains
    <3>3. OnTheWay' = (OnTheWay \ {t}) \cup {u} /\ t \in OnTheWay /\ u \notin OnTheWay
      BY <1>1, <1>4, <3>1, <3>2 DEF OnTheWay
    <3>4. IsFiniteSet(OnTheWay) /\ Cardinality(OnTheWay) \in Nat
      BY ThreadSets
    <3>5. /\ IsFiniteSet(OnTheWay \ {t})
          /\ Cardinality(OnTheWay \ {t}) = Cardinality(OnTheWay) - 1
      BY <3>3, <3>4, FS_RemoveElement
    <3>6. Cardinality((OnTheWay \ {t}) \cup {u}) = Cardinality(OnTheWay \ {t}) + 1
      BY <3>3, <3>5, FS_AddElement
    <3> QED
      BY <1>7, <2>2, <3>3, <3>4, <3>5, <3>6 DEF NoLostWakeup
  <2> QED
    BY <2>1, <2>2
<1> QED
  BY <1>5, <1>6, <1>9, <1>10, <1>11

(* The destructor finds no reference: the group ends and nothing aborts.   *)
LEMMA DestroyStep ==
  ASSUME Discipline, IInv, NEW t \in Threads, Destroy(t)
  PROVE  IInv'
<1> USE DEF IInv, Discipline
<1>1. \A u \in Threads : pc[u] = "idle"
  BY DEF Destroy, Outside
<1>2. \A b \in Pooled : mRefCount[b] = 0
  <2> SUFFICES ASSUME NEW b \in Added, b \in Pooled PROVE mRefCount[b] = 0
    BY DEF UnusedUntilAdded
  <2>1. Held(b) = 0
    BY DEF Destroy
  <2>2. Clones(b) = {} /\ Releasing(b) = {}
    BY <1>1 DEF Clones, Releasing, Destroy
  <2>3. mRefCount[b] = Held(b) + Cardinality(Clones(b)) + Cardinality(Releasing(b))
    BY DEF CountIsReferences
  <2>4. Cardinality(Clones(b)) = 0 /\ Cardinality(Releasing(b)) = 0
    BY <2>2, FS_EmptySet
  <2> QED
    BY <2>1, <2>3, <2>4
<1>3. \A b \in Added : mRefCount[b] = 0
  BY <1>2 DEF Added, Domains
<1>4. /\ group' = "destroyed" /\ aborted' = aborted /\ group = "live"
      /\ UNCHANGED <<list, mRefCount, mOriginal, holds, life, mLock, waiting, pc, scan, buf, fault>>
  BY <1>3 DEF Destroy
<1>5. CountIsReferences' /\ PrivateOnce' /\ \A b \in Buffers : IsFiniteSet(Refs(b)')
  <2>1. \A b : Releasing(b)' = Releasing(b)
    BY <1>4 DEF Releasing
  <2> QED
    BY <1>4, <2>1, CountsStay
<1>6. Domains'
  BY <1>4, <1>5 DEF Domains
<1>7. Added' = Added /\ Unclaimed' = Unclaimed /\ OnTheWay' = OnTheWay
  BY <1>4 DEF Added, Unclaimed, OnTheWay
<1>8. UnusedUntilAdded' /\ NeverAborts' /\ PassedAreSignalled' /\ NoLostWakeup'
  BY <1>1, <1>4, <1>7 DEF UnusedUntilAdded, NeverAborts, PassedAreSignalled, NoLostWakeup
<1>9. Stages' /\ Places'
  BY <1>1, <1>2, <1>4 DEF Stages, Places
<1> QED
  BY <1>5, <1>6, <1>8, <1>9
----------------------------------------------------------------------------
LEMMA InvStep == Discipline /\ IInv /\ [Next]_vars => IInv'
<1> SUFFICES ASSUME Discipline, IInv, [Next]_vars PROVE IInv'
  OBVIOUS
<1>1. CASE UNCHANGED vars
  <2>1. UNCHANGED <<list, mRefCount, mOriginal, holds, life, mLock, waiting, pc, scan, buf,
                    group, fault, aborted>>
    BY <1>1 DEF vars
  <2>2. \A b : Refs(b)' = Refs(b) /\ Held(b)' = Held(b) /\ Clones(b)' = Clones(b)
               /\ Releasing(b)' = Releasing(b)
    BY <2>1 DEF Refs, Held, Clones, Releasing
  <2>3. /\ Added' = Added /\ Unclaimed' = Unclaimed /\ OnTheWay' = OnTheWay
        /\ Signalling' = Signalling /\ \A u : Passed(u)' = Passed(u)
    BY <2>1 DEF Added, Unclaimed, OnTheWay, Signalling, Passed
  <2>4. Domains' /\ PrivateOnce' /\ UnusedUntilAdded' /\ Places' /\ Stages'
    BY <2>1, <2>2, <2>3 DEF IInv, Domains, PrivateOnce, UnusedUntilAdded, Places, Stages
  <2>5. PassedAreSignalled' /\ CountIsReferences' /\ NoLostWakeup' /\ NeverAborts'
    BY <2>1, <2>2, <2>3
      DEF IInv, PassedAreSignalled, CountIsReferences, NoLostWakeup, NeverAborts
  <2> QED
    BY <2>4, <2>5 DEF IInv
<1>2. ASSUME NEW t \in Threads, Step(t) PROVE IInv'
  BY <1>2, TakeStep, SkipStep, WaitStep, RescanStep, DecrementStep, SignalStep DEF Step
<1>3. ASSUME NEW t \in Threads, Call(t) PROVE IInv'
  BY <1>3, AcquireStep, WakeSpuriouslyStep, DestroyStep, AddBufferStep, ShareStep,
     NewBufferStep, ReleaseStep, ReleasePrivateStep, HandOverStep, CloneStep DEF Call
<1> QED
  BY <1>1, <1>2, <1>3 DEF Next

THEOREM GroupInvariant == Discipline => (Spec => []IInv)
<1> SUFFICES ASSUME Discipline PROVE Spec => []IInv
  OBVIOUS
<1>1. Init => IInv
  BY InvInit DEF Discipline
<1>2. IInv /\ [Next]_vars => IInv'
  BY InvStep
<1> QED
  BY <1>1, <1>2, PTL DEF Spec

(* Whatever the threads, a count is its references, no wakeup of           *)
(* acquire_buffer() is lost, and neither CHECK of release() fails.         *)
THEOREM GroupStaysRight == Discipline => (Spec => []GroupIsRight)
<1> SUFFICES ASSUME Discipline PROVE Spec => []GroupIsRight
  OBVIOUS
<1>1. IInv => GroupIsRight
  BY DEF IInv, GroupIsRight
<1> QED
  BY <1>1, GroupInvariant, PTL

(* Only a walk that takes a free buffer gives somebody a reference where    *)
(* it stands in the walk.                                                  *)
LEMMA TakesAlone == Discipline /\ IInv /\ [Next]_vars => [AcquiresAlone]_vars
<1> SUFFICES ASSUME Discipline, IInv, Next, NEW t \in Threads, NEW b \in Pooled,
                    pc[t] = "scan", holds'[t][b] > holds[t][b]
             PROVE  /\ mRefCount'[b] = 1 /\ Clones(b) = {}
                    /\ \A u \in Threads : holds[u][b] = 0
  BY DEF AcquiresAlone
<1>0. b \in Buffers /\ holds[t][b] \in Nat
  BY DEF Buffers, IInv, Domains
<1>1. PICK u \in Threads : Step(u) \/ Call(u)
  BY DEF Next
<1>2. Take(u)
  <2> SUFFICES ASSUME ~Take(u) PROVE holds'[t][b] = holds[t][b]
    BY <1>0
  <2>1. CASE Step(u)
    BY <2>1 DEF Step, Take, Skip, Wait, Rescan, Decrement, Signal
  <2>2. CASE Acquire(u) \/ WakeSpuriously(u) \/ Destroy(u)
    BY <2>2 DEF Acquire, WakeSpuriously, Destroy
  <2>3. ASSUME NEW c \in Buffers,
               AddBuffer(u, c) \/ Share(u, c) \/ NewBuffer(u, c) \/ Release(u, c)
               \/ ReleasePrivate(u, c)
        PROVE  holds'[t][b] = holds[t][b]
    <3>1. AddBuffer(u, c) \/ (pc[u] = "idle" /\ (Gains(u, c) \/ Lets(u, c)))
      BY <2>3 DEF Share, NewBuffer, Release, ReleasePrivate, Idle
    <3>2. UNCHANGED holds \/ u # t
      BY <3>1 DEF AddBuffer
    <3> QED
      BY <1>0, <3>1, <3>2 DEF AddBuffer, Gains, Lets, IInv, Domains
  <2>4. ASSUME NEW c \in Buffers, NEW v \in Threads, HandOver(u, v, c)
        PROVE  holds'[t][b] = holds[t][b]
    <3>1. u # v /\ u # t /\ v # t /\ holds[u][c] > 0 /\ Moves(u, v, c)
      BY <2>4 DEF HandOver, Idle
    <3> QED
      BY <1>0, <3>1, MoveCounts DEF IInv
  <2>5. ASSUME NEW c \in Buffers, NEW d \in Private, Clone(u, c, d)
        PROVE  holds'[t][b] = holds[t][b]
    <3>1. u # t /\ Gains(u, d)
      BY <2>5 DEF Clone, Idle
    <3> QED
      BY <1>0, <3>1 DEF Gains, IInv, Domains
  <2> QED
    BY <1>1, <2>1, <2>2, <2>3, <2>4, <2>5 DEF Call
<1>3. PICK c \in Pooled : c = list[scan[u]]
  BY <1>2 DEF Take, IInv, Domains
<1>4. mRefCount[c] = 0 /\ mRefCount' = [mRefCount EXCEPT ![c] = @ + 1] /\ Gains(u, c)
  BY <1>2, <1>3 DEF Take, Unused, AddRef
<1>5. b = c
  BY <1>0, <1>4 DEF Gains, IInv, Domains
<1> QED
  BY <1>0, <1>4, <1>5, UnreferencedIsAlone DEF Discipline, IInv, Domains

(* acquire_buffer() returns a buffer that nobody else refers to, not even  *)
(* a clone: its count is 1 when it returns.                                *)
THEOREM AcquiredBufferIsAlone == Discipline => (Spec => AcquiredIsAlone)
<1> SUFFICES ASSUME Discipline PROVE Spec => AcquiredIsAlone
  OBVIOUS
<1> QED
  BY TakesAlone, GroupInvariant, PTL DEF Spec, AcquiredIsAlone
=============================================================================
