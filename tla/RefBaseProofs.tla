---------------------------- MODULE RefBaseProofs ----------------------------
(* Proofs about RefBase, for any number of threads: the counts are the     *)
(* references, what is referred to is there, and nothing is left behind.   *)
EXTENDS RefBase, FiniteSetTheorems, TLAPS

LEMMA HeldIsBounded ==
  ASSUME Bounded, NEW k \in Nat, NEW f \in [Threads -> 0 .. k]
  PROVE  IsFiniteSet(Refs(f)) /\ Held(f) \in Nat /\ Held(f) <= k * Cardinality(Threads)
<1>1. IsFiniteSet(Threads) /\ Cardinality(Threads) \in Nat
  BY FS_CardinalityType DEF Bounded
<1>2. IsFiniteSet(1 .. k) /\ Cardinality(1 .. k) = k
  <2>1. IsFiniteSet(1 .. k) /\ Cardinality(1 .. k) = IF 1 > k THEN 0 ELSE k - 1 + 1
    BY FS_Interval
  <2> QED
    BY <2>1
<1>3. /\ IsFiniteSet(Threads \X (1 .. k))
      /\ Cardinality(Threads \X (1 .. k)) = Cardinality(Threads) * k
  BY <1>1, <1>2, FS_Product
<1>4. Refs(f) \subseteq Threads \X (1 .. k)
  BY DEF Refs
<1>5. IsFiniteSet(Refs(f)) /\ Cardinality(Refs(f)) <= Cardinality(Threads \X (1 .. k))
  BY <1>3, <1>4, FS_Subset
<1>6. Cardinality(Refs(f)) \in Nat
  BY <1>5, FS_CardinalityType
<1> QED
  BY <1>1, <1>3, <1>5, <1>6 DEF Held

LEMMA OneMore ==
  ASSUME Bounded, NEW k \in Nat, NEW f \in [Threads -> 0 .. k], NEW g \in [Threads -> 0 .. k],
         NEW t \in Threads, g[t] = f[t] + 1, \A u \in Threads \ {t} : g[u] = f[u]
  PROVE  Held(g) = Held(f) + 1
<1> DEFINE new == <<t, f[t] + 1>>
<1>1. \A r : r \in Refs(f) <=> \E u \in Threads : \E i \in 1 .. f[u] : r = <<u, i>>
  BY DEF Refs
<1>2. \A r : r \in Refs(g) <=> \E u \in Threads : \E i \in 1 .. g[u] : r = <<u, i>>
  BY DEF Refs
<1>3. Refs(g) = Refs(f) \cup {new}
  <2>1. \A u \in Threads, i \in Int : i \in 1 .. g[u] <=> i \in 1 .. f[u] \/ <<u, i>> = new
    <3> SUFFICES ASSUME NEW u \in Threads, NEW i \in Int
                 PROVE  i \in 1 .. g[u] <=> i \in 1 .. f[u] \/ (u = t /\ i = f[t] + 1)
      OBVIOUS
    <3>1. f[u] \in Nat /\ g[u] = IF u = t THEN f[u] + 1 ELSE f[u]
      OBVIOUS
    <3> QED
      BY <3>1
  <2> QED
    BY <1>1, <1>2, <2>1
<1>4. new \notin Refs(f)
  BY <1>1
<1>5. IsFiniteSet(Refs(f)) /\ Cardinality(Refs(f)) \in Nat
  BY HeldIsBounded DEF Held
<1> HIDE DEF new
<1>6. Cardinality(Refs(f) \cup {new}) = Cardinality(Refs(f)) + 1
  BY <1>4, <1>5, FS_AddElement
<1> QED
  BY <1>3, <1>6 DEF Held

(* One thread's part of a sum changes by at most one, and so does the sum. *)
Differ(f, g, t, d) == g[t] = f[t] + d /\ \A u \in Threads \ {t} : g[u] = f[u]

LEMMA SumFollows ==
  ASSUME Bounded, NEW k \in Nat, NEW f \in [Threads -> 0 .. k], NEW g \in [Threads -> 0 .. k],
         NEW t \in Threads, NEW d \in {-1, 0, 1}, Differ(f, g, t, d)
  PROVE  Held(g) = Held(f) + d
<1>0. g[t] = f[t] + d /\ \A u \in Threads \ {t} : g[u] = f[u]
  BY DEF Differ
<1>1. Held(f) \in Nat /\ Held(g) \in Nat
  BY HeldIsBounded
<1>2. CASE d = 1
  BY <1>0, <1>2, OneMore
<1>3. CASE d = -1
  <2>1. f[t] = g[t] + 1
    BY <1>0, <1>3
  <2>2. Held(f) = Held(g) + 1
    BY <1>0, <2>1, OneMore
  <2> QED
    BY <1>1, <1>3, <2>2
<1>4. CASE d = 0
  <2>1. g = f
    BY <1>0, <1>4
  <2> QED
    BY <1>1, <1>4, <2>1
<1> QED
  BY <1>2, <1>3, <1>4

LEMMA SumIsZero ==
  ASSUME Bounded, NEW k \in Nat, NEW f \in [Threads -> 0 .. k]
  PROVE  Held(f) = 0 <=> \A t \in Threads : f[t] = 0
<1>1. IsFiniteSet(Refs(f))
  BY HeldIsBounded
<1>2. Held(f) = 0 <=> Refs(f) = {}
  BY <1>1, FS_EmptySet DEF Held
<1>3. ASSUME NEW t \in Threads, f[t] # 0 PROVE Refs(f) # {}
  <2>1. <<t, 1>> \in {t} \X (1 .. f[t])
    BY <1>3
  <2> QED
    BY <2>1 DEF Refs
<1>4. ASSUME \A t \in Threads : f[t] = 0 PROVE Refs(f) = {}
  BY <1>4 DEF Refs
<1> QED
  BY <1>2, <1>3, <1>4
----------------------------------------------------------------------------
(* What the invariant says of the counts *)

CountTypes ==
  /\ CountedStrong \in [Threads -> 0 .. MaxHeld]
  /\ CountedWeak \in [Threads -> 0 .. 2 * MaxHeld + 1]
  /\ Held(CountedStrong) \in Nat /\ Held(CountedStrong) < InitialStrong
  /\ Held(CountedWeak) \in Nat /\ InitialStrong \in Nat \ {0}

LEMMA CountedTypes == Bounded /\ Domains => CountTypes
<1> SUFFICES ASSUME Bounded, Domains PROVE CountTypes
  OBVIOUS
<1>1. MaxHeld \in Nat /\ InitialStrong \in Nat /\ 2 * MaxHeld + 1 \in Nat
  BY DEF Bounded
<1>2. CountedStrong \in [Threads -> 0 .. MaxHeld]
  <2> SUFFICES ASSUME NEW t \in Threads
               PROVE  strong[t] + One(pc[t] \in TakenStrong) \in 0 .. MaxHeld
    BY DEF CountedStrong
  <2>1. strong[t] \in 0 .. MaxHeld
    BY DEF Domains
  <2>2. pc[t] \in TakenStrong => strong[t] < MaxHeld
    BY DEF Domains, TakenStrong
  <2> QED
    BY <1>1, <2>1, <2>2 DEF One
<1>3. CountedWeak \in [Threads -> 0 .. 2 * MaxHeld + 1]
  <2> SUFFICES ASSUME NEW t \in Threads
               PROVE  strong[t] + weak[t] + One(pc[t] \in TakenWeak) \in 0 .. 2 * MaxHeld + 1
    BY DEF CountedWeak
  <2>1. strong[t] \in 0 .. MaxHeld /\ weak[t] \in 0 .. MaxHeld
    BY DEF Domains
  <2> QED
    BY <1>1, <2>1 DEF One
<1>4. /\ Held(CountedStrong) \in Nat /\ Held(CountedWeak) \in Nat
      /\ Held(CountedStrong) <= MaxHeld * Cardinality(Threads)
  BY <1>1, <1>2, <1>3, HeldIsBounded
<1>5. MaxHeld * Cardinality(Threads) \in Nat /\ MaxHeld * Cardinality(Threads) < InitialStrong
  <2>1. Cardinality(Threads) \in Nat
    BY FS_CardinalityType DEF Bounded
  <2> QED
    BY <1>1, <2>1 DEF Bounded
<1>6. /\ Held(CountedStrong) < InitialStrong /\ InitialStrong > 0
  BY <1>1, <1>4, <1>5
<1> QED
  BY <1>1, <1>2, <1>3, <1>4, <1>6 DEF CountTypes

CountsSay ==
  /\ mStrong \in Nat /\ mWeak \in Nat /\ InitialStrong \in Nat \ {0}
  /\ mStrong < 2 * InitialStrong
  /\ \A t \in Threads :
       /\ strong[t] > 0 \/ pc[t] \in TakenStrong => mStrong > 0 /\ mStrong # InitialStrong
       /\ strong[t] > 0 \/ weak[t] > 0 \/ pc[t] \in TakenWeak => mWeak > 0
  /\ (\A t \in Threads : strong[t] = 0 /\ pc[t] \notin TakenStrong)
       => mStrong \in {0, InitialStrong}

LEMMA CountFacts == Bounded /\ Domains /\ CountsAreTaken => CountsSay
<1> SUFFICES ASSUME Bounded, Domains, CountsAreTaken PROVE CountsSay
  OBVIOUS
<1> DEFINE s == Held(CountedStrong)
<1>1. /\ CountedStrong \in [Threads -> 0 .. MaxHeld] /\ MaxHeld \in Nat
      /\ CountedWeak \in [Threads -> 0 .. 2 * MaxHeld + 1] /\ 2 * MaxHeld + 1 \in Nat
      /\ s \in Nat /\ s < InitialStrong
      /\ Held(CountedWeak) \in Nat /\ InitialStrong \in Nat \ {0}
  BY CountedTypes DEF CountTypes, Bounded
<1>2. mStrong \in {s, s + InitialStrong} /\ mWeak = Held(CountedWeak)
  BY DEF CountsAreTaken
<1>3. s = 0 <=> \A t \in Threads : CountedStrong[t] = 0
  BY <1>1, SumIsZero
<1>4. Held(CountedWeak) = 0 <=> \A t \in Threads : CountedWeak[t] = 0
  BY <1>1, SumIsZero
<1>5. \A t \in Threads : /\ strong[t] \in Nat /\ weak[t] \in Nat
                         /\ CountedStrong[t] = 0 <=> strong[t] = 0 /\ pc[t] \notin TakenStrong
                         /\ CountedWeak[t] = 0 <=>
                              strong[t] = 0 /\ weak[t] = 0 /\ pc[t] \notin TakenWeak
  <2> SUFFICES ASSUME NEW t \in Threads
               PROVE  /\ strong[t] \in Nat /\ weak[t] \in Nat
                      /\ CountedStrong[t] = 0 <=> strong[t] = 0 /\ pc[t] \notin TakenStrong
                      /\ CountedWeak[t] = 0 <=>
                              strong[t] = 0 /\ weak[t] = 0 /\ pc[t] \notin TakenWeak
    OBVIOUS
  <2>1. strong[t] \in Nat /\ weak[t] \in Nat
    BY <1>1 DEF Domains
  <2>2. /\ CountedStrong[t] = strong[t] + One(pc[t] \in TakenStrong)
        /\ CountedWeak[t] = strong[t] + weak[t] + One(pc[t] \in TakenWeak)
    BY DEF CountedStrong, CountedWeak
  <2> QED
    BY <2>1, <2>2 DEF One
<1> HIDE DEF s
<1> QED
  BY <1>1, <1>2, <1>3, <1>4, <1>5 DEF CountsSay

(* A thread goes to p with other references; the counts change with its    *)
(* part of them, and the bias may go.                                      *)
Moves(t, p, s, w) ==
  /\ pc' = [pc EXCEPT ![t] = p]
  /\ strong' = [strong EXCEPT ![t] = s] /\ weak' = [weak EXCEPT ![t] = w]
  /\ s <= MaxHeld /\ w <= MaxHeld
  /\ p \notin {"idle", "dec2", "decWeak1", "decWeak2"} => s < MaxHeld

Counts(t, p, s, w, ds, dw) ==
  /\ s + One(p \in TakenStrong) = strong[t] + One(pc[t] \in TakenStrong) + ds
  /\ s + w + One(p \in TakenWeak) = strong[t] + weak[t] + One(pc[t] \in TakenWeak) + dw
  /\ mWeak' = mWeak + dw
  /\ \/ mStrong' = mStrong + ds
     \/ mStrong >= InitialStrong /\ mStrong' = mStrong + ds - InitialStrong

LEMMA Moved ==
  ASSUME Bounded, Domains, NEW t \in Threads, NEW p \in PCs, NEW s \in Nat, NEW w \in Nat,
         Moves(t, p, s, w)
  PROVE  /\ strong' \in [Threads -> 0 .. MaxHeld] /\ weak' \in [Threads -> 0 .. MaxHeld]
         /\ pc' \in [Threads -> PCs] /\ pc'[t] = p /\ strong'[t] = s /\ weak'[t] = w
         /\ \A u \in Threads \ {t} : pc'[u] = pc[u] /\ strong'[u] = strong[u] /\ weak'[u] = weak[u]
         /\ \A u \in Threads :
              pc'[u] \notin {"idle", "dec2", "decWeak1", "decWeak2"} => strong'[u] < MaxHeld
<1>1. MaxHeld \in Nat
  BY DEF Bounded
<1>2. s \in 0 .. MaxHeld /\ w \in 0 .. MaxHeld
  BY <1>1 DEF Moves
<1>3. /\ strong \in [Threads -> 0 .. MaxHeld] /\ weak \in [Threads -> 0 .. MaxHeld]
      /\ pc \in [Threads -> PCs]
      /\ \A u \in Threads :
           pc[u] \notin {"idle", "dec2", "decWeak1", "decWeak2"} => strong[u] < MaxHeld
  BY DEF Domains
<1>4. strong' = [strong EXCEPT ![t] = s] /\ weak' = [weak EXCEPT ![t] = w] /\ pc' = [pc EXCEPT ![t] = p]
  BY DEF Moves
<1>5. /\ strong' \in [Threads -> 0 .. MaxHeld] /\ weak' \in [Threads -> 0 .. MaxHeld]
      /\ pc' \in [Threads -> PCs]
  BY <1>2, <1>3, <1>4
<1>6. /\ pc'[t] = p /\ strong'[t] = s /\ weak'[t] = w
      /\ \A u \in Threads \ {t} : pc'[u] = pc[u] /\ strong'[u] = strong[u] /\ weak'[u] = weak[u]
  BY <1>3, <1>4
<1>7. \A u \in Threads :
         pc'[u] \notin {"idle", "dec2", "decWeak1", "decWeak2"} => strong'[u] < MaxHeld
  BY <1>3, <1>6 DEF Moves
<1> QED
  BY <1>5, <1>6, <1>7

LEMMA CountsFollow ==
  ASSUME Bounded, Domains, Domains', CountsAreTaken, NEW t \in Threads,
         NEW p \in PCs, NEW s \in Nat, NEW w \in Nat, Moves(t, p, s, w),
         NEW ds \in {-1, 0, 1}, NEW dw \in {-1, 0, 1}, Counts(t, p, s, w, ds, dw)
  PROVE  /\ CountsAreTaken'
         /\ mStrong < InitialStrong => mStrong' < InitialStrong
<1>1. /\ pc'[t] = p /\ strong'[t] = s /\ weak'[t] = w
      /\ \A u \in Threads \ {t} : pc'[u] = pc[u] /\ strong'[u] = strong[u] /\ weak'[u] = weak[u]
  BY Moved
<1>2. /\ CountedStrong \in [Threads -> 0 .. MaxHeld]
      /\ CountedWeak \in [Threads -> 0 .. 2 * MaxHeld + 1]
      /\ MaxHeld \in Nat /\ 2 * MaxHeld + 1 \in Nat
      /\ Held(CountedStrong) \in Nat /\ Held(CountedStrong) < InitialStrong
      /\ Held(CountedWeak) \in Nat /\ InitialStrong \in Nat \ {0}
  BY CountedTypes DEF CountTypes, Bounded
<1>3. /\ CountedStrong' \in [Threads -> 0 .. MaxHeld]
      /\ CountedWeak' \in [Threads -> 0 .. 2 * MaxHeld + 1]
      /\ Held(CountedStrong)' \in Nat /\ Held(CountedStrong)' < InitialStrong
  <2>1. Bounded'
    BY DEF Bounded
  <2>2. CountTypes'
    BY <2>1, CountedTypes, PTL
  <2> QED
    BY <2>2 DEF CountTypes
<1>4. Differ(CountedStrong, CountedStrong', t, ds)
  BY <1>1 DEF Counts, CountedStrong, Differ
<1>5. Differ(CountedWeak, CountedWeak', t, dw)
  BY <1>1 DEF Counts, CountedWeak, Differ
<1>6. Held(CountedStrong') = Held(CountedStrong) + ds
  BY <1>2, <1>3, <1>4, SumFollows
<1>7. Held(CountedWeak') = Held(CountedWeak) + dw
  BY <1>2, <1>3, <1>5, SumFollows
<1>8. Held(CountedStrong)' = Held(CountedStrong') /\ Held(CountedWeak)' = Held(CountedWeak')
  BY DEF Held, Refs
<1>9. /\ mStrong \in {Held(CountedStrong), Held(CountedStrong) + InitialStrong}
      /\ mWeak = Held(CountedWeak)
  BY DEF CountsAreTaken
<1>10. /\ mStrong' \in {Held(CountedStrong)', Held(CountedStrong)' + InitialStrong}
       /\ mWeak' = Held(CountedWeak)'
       /\ mStrong < InitialStrong => mStrong' < InitialStrong
  BY <1>2, <1>3, <1>6, <1>7, <1>8, <1>9 DEF Counts
<1> QED
  BY <1>10 DEF CountsAreTaken

(* Whoever can act knows that nobody is making the first reference or      *)
(* freeing the counts, which are there.                                    *)
LEMMA ActorKnows ==
  ASSUME IInv, NEW t \in Threads, ~Nothing(t)
  PROVE  /\ raw = {} /\ impl = "live"
         /\ \A u \in Threads \ {t} :
              /\ pc[u] # "decWeak2"
              /\ pc[u] \in {"inc1", "inc2", "inc3"} => strong[u] > 0 /\ pc[u] # "inc3"
<1>1. raw = {} /\ impl = "live"
  BY DEF IInv, FirstIsAlone, LastOfAll, Domains
<1>2. ASSUME NEW u \in Threads \ {t}
      PROVE  /\ pc[u] # "decWeak2"
             /\ pc[u] \in {"inc1", "inc2", "inc3"} => strong[u] > 0 /\ pc[u] # "inc3"
  <2>1. ~Alone(u)
    BY <1>2 DEF Alone
  <2>2. strong[u] \in 0 .. MaxHeld
    BY DEF IInv, Domains
  <2>3. pc[u] # "decWeak2"
    BY <2>1 DEF IInv, LastOfAll
  <2>4. pc[u] \in {"inc1", "inc2", "inc3"} => strong[u] # 0
    BY <2>1 DEF IInv, FirstIsAlone
  <2>5. pc[u] = "inc3" => strong[u] = 0
    BY DEF IInv, FirstIsAlone
  <2> QED
    BY <2>2, <2>3, <2>4, <2>5
<1> QED
  BY <1>1, <1>2

(* A step by which no last reference goes and no first one is made.        *)
Fits(t, p, s, w, c) ==
  /\ cur' = [cur EXCEPT ![t] = c] /\ UNCHANGED <<kind, memory, raw>>
  /\ p \notin {"inc3", "decWeak2"} /\ (p \in {"inc1", "inc2"} => s > 0)
  /\ mWeak' > 0 \/ s > 0 \/ w > 0 \/ p \in TakenWeak
  /\ \/ weakLifetime
     \/ p # "dec2" /\ pc[t] # "dec2" /\ (mStrong' > 0 <=> mStrong > 0)
  /\ s > 0 \/ p \in {"dec1", "dec2"} => mStrong < InitialStrong \/ mStrong' < InitialStrong
  /\ p \in {"try1", "try2", "try3", "first", "revive"} => w > 0
  /\ p \in {"try3", "first"} => c > 0
  /\ p = "first" => ~weakLifetime
  /\ p = "revive" => weakLifetime
  /\ p = "fix2" => c >= InitialStrong
  /\ fault' \in BOOLEAN /\ ~fault'

LEMMA OrdinaryStep ==
  ASSUME Bounded, IInv, NEW t \in Threads, ~Nothing(t),
         NEW p \in PCs, NEW s \in Nat, NEW w \in Nat, NEW c \in Int, Moves(t, p, s, w),
         NEW ds \in {-1, 0, 1}, NEW dw \in {-1, 0, 1}, Counts(t, p, s, w, ds, dw),
         Fits(t, p, s, w, c)
  PROVE  IInv'
<1> USE DEF IInv
<1>1. /\ strong' \in [Threads -> 0 .. MaxHeld] /\ weak' \in [Threads -> 0 .. MaxHeld]
      /\ pc' \in [Threads -> PCs] /\ pc'[t] = p /\ strong'[t] = s /\ weak'[t] = w
      /\ \A u \in Threads \ {t} : pc'[u] = pc[u] /\ strong'[u] = strong[u] /\ weak'[u] = weak[u]
      /\ \A u \in Threads :
           pc'[u] \notin {"idle", "dec2", "decWeak1", "decWeak2"} => strong'[u] < MaxHeld
  BY Moved
<1>2. /\ cur' \in [Threads -> Int] /\ cur'[t] = c
      /\ \A u \in Threads \ {t} : cur'[u] = cur[u]
  BY DEF Fits, Domains
<1>3. UNCHANGED <<weakLifetime, firstRefs, object, impl, raw>>
  BY DEF Fits, kind, memory
<1>4. /\ raw = {} /\ impl = "live"
      /\ \A u \in Threads \ {t} :
           /\ pc[u] # "decWeak2"
           /\ pc[u] \in {"inc1", "inc2", "inc3"} => strong[u] > 0 /\ pc[u] # "inc3"
  BY ActorKnows
<1>5. mStrong' \in Int /\ mWeak' \in Int
  BY DEF Domains, Counts, Bounded
<1>6. fault' \in BOOLEAN /\ NoFault'
  BY DEF Fits, NoFault
<1>7. Domains'
  BY <1>1, <1>2, <1>3, <1>5, <1>6 DEF Domains
<1>8. CountsAreTaken' /\ (mStrong < InitialStrong => mStrong' < InitialStrong)
  BY <1>7, CountsFollow
<1>9. CountsSay
  BY CountFacts
<1>10. CountsSay'
  <2>1. Bounded'
    BY DEF Bounded
  <2>2. Domains' /\ CountsAreTaken'
    BY <1>7, <1>8
  <2> QED
    BY <2>1, <2>2, CountFacts, PTL
<1>11. Unbiased'
  BY <1>1, <1>8 DEF Unbiased, Fits
<1>12. Promoting'
  BY <1>1, <1>2, <1>3 DEF Promoting, Fits
<1>13. FirstIsAlone'
  BY <1>1, <1>3, <1>4 DEF FirstIsAlone, Fits
<1>14. mWeak' > 0
  BY <1>1, <1>10 DEF Fits, CountsSay
<1>15. LastOfAll'
  BY <1>1, <1>3, <1>4, <1>14 DEF LastOfAll, Fits
<1>16. CASE weakLifetime
  <2>1. LastStrong' /\ ObjectIsKept'
    BY <1>3, <1>16 DEF LastStrong, ObjectIsKept
  <2> QED
    BY <1>6, <1>7, <1>8, <1>11, <1>12, <1>13, <1>15, <2>1
<1>17. CASE ~weakLifetime
  <2>1. /\ mStrong' > 0 <=> mStrong > 0
        /\ \A u \in Threads : pc'[u] = "dec2" <=> pc[u] = "dec2"
    BY <1>1, <1>17 DEF Fits
  <2>2. LastStrong'
    BY <1>3, <1>9, <1>10, <2>1 DEF LastStrong, CountsSay
  <2>3. ObjectIsKept'
    BY <1>3, <2>1 DEF ObjectIsKept
  <2> QED
    BY <1>6, <1>7, <1>8, <1>11, <1>12, <1>13, <1>15, <2>2, <2>3
<1> QED
  BY <1>16, <1>17

(* What is used is there.                                                  *)
LEMMA UsedIsThere ==
  ASSUME Domains, NoFault, NEW used, Use(used), "impl" \in used => impl = "live",
         "object" \in used => object = "live"
  PROVE  fault' \in BOOLEAN /\ ~fault'
<1>1. fault' = (fault \/ ("impl" \in used /\ impl = "freed")
                      \/ ("object" \in used /\ object = "deleted"))
  BY DEF Use
<1>2. ~("impl" \in used /\ impl = "freed") /\ ~("object" \in used /\ object = "deleted")
  OBVIOUS
<1>3. fault = FALSE
  BY DEF Domains, NoFault
<1> QED
  BY <1>1, <1>2, <1>3

(* A thread inside an operation, or with a reference, finds the counts     *)
(* there, and with a strong reference the object.                          *)
LEMMA ActorSees ==
  ASSUME Bounded, IInv, NEW t \in Threads, ~Nothing(t)
  PROVE  /\ raw = {} /\ impl = "live" /\ CountsSay
         /\ mStrong > 0 \/ weakLifetime => object = "live"
         /\ strong[t] \in Nat /\ weak[t] \in Nat /\ cur[t] \in Int
         /\ strong = [strong EXCEPT ![t] = @] /\ weak = [weak EXCEPT ![t] = @]
         /\ cur = [cur EXCEPT ![t] = @]
         /\ strong[t] <= MaxHeld /\ weak[t] <= MaxHeld /\ MaxHeld \in Nat
         /\ pc[t] \notin {"idle", "dec2", "decWeak1", "decWeak2"} => strong[t] < MaxHeld
<1>1. raw = {} /\ impl = "live"
  BY ActorKnows
<1>2. CountsSay
  BY CountFacts DEF IInv
<1>3. mStrong > 0 \/ weakLifetime => object = "live"
  BY <1>1 DEF IInv, ObjectIsKept
<1>4. /\ strong[t] \in Nat /\ weak[t] \in Nat /\ cur[t] \in Int
      /\ strong = [strong EXCEPT ![t] = @] /\ weak = [weak EXCEPT ![t] = @]
      /\ cur = [cur EXCEPT ![t] = @]
      /\ strong[t] <= MaxHeld /\ weak[t] <= MaxHeld /\ MaxHeld \in Nat
      /\ pc[t] \notin {"idle", "dec2", "decWeak1", "decWeak2"} => strong[t] < MaxHeld
  BY DEF IInv, Domains, Bounded
<1> QED
  BY <1>1, <1>2, <1>3, <1>4
----------------------------------------------------------------------------
(* Promoting a weak reference *)

LEMMA Try1Step ==
  ASSUME Bounded, IInv, NEW t \in Threads, Try1(t)
  PROVE  IInv'
<1>1. /\ pc[t] = "try1" /\ pc' = [pc EXCEPT ![t] = "try2"] /\ mWeak' = mWeak + 1
      /\ Use({"impl"}) /\ UNCHANGED <<kind, mStrong, memory, strong, weak, raw, cur>>
  BY DEF Try1, Goto, handles
<1>2. ~Nothing(t)
  BY <1>1 DEF Nothing
<1>3. fault' \in BOOLEAN /\ ~fault'
  BY <1>1, <1>2, ActorSees, UsedIsThere DEF IInv
<1>4. Moves(t, "try2", strong[t], weak[t])
  BY <1>1, <1>2, ActorSees DEF Moves
<1>5. Counts(t, "try2", strong[t], weak[t], 0, 1)
  BY <1>1, <1>2, ActorSees DEF Counts, One, TakenStrong, TakenWeak, CountsSay
<1>6. Fits(t, "try2", strong[t], weak[t], cur[t])
  BY <1>1, <1>2, <1>3, ActorSees
    DEF Fits, IInv, Promoting, Unbiased, TakenWeak, TakenStrong, kind, memory
<1> QED
  BY <1>2, <1>4, <1>5, <1>6, ActorSees, OrdinaryStep DEF PCs

LEMMA Try2Step ==
  ASSUME Bounded, IInv, NEW t \in Threads, Try2(t)
  PROVE  IInv'
<1>1. /\ pc[t] = "try2" /\ pc' = [pc EXCEPT ![t] = Choice(mStrong)]
      /\ cur' = [cur EXCEPT ![t] = mStrong] /\ Use({"impl"})
      /\ UNCHANGED <<kind, mStrong, mWeak, memory, strong, weak, raw>>
  BY DEF Try2, Goto, Read, handles
<1>2. ~Nothing(t)
  BY <1>1 DEF Nothing
<1>3. fault' \in BOOLEAN /\ ~fault'
  BY <1>1, <1>2, ActorSees, UsedIsThere DEF IInv
<1>4. /\ Choice(mStrong) \in {"try3", "decWeak1", "first", "revive"}
      /\ Choice(mStrong) = "try3" => mStrong > 0
      /\ Choice(mStrong) = "first" => mStrong > 0 /\ ~weakLifetime
      /\ Choice(mStrong) = "revive" => weakLifetime
  <2>1. mStrong \in Nat
    BY <1>2, ActorSees DEF CountsSay
  <2>2. CASE Easy(mStrong)
    BY <2>1, <2>2 DEF Choice, Easy
  <2>3. CASE ~Easy(mStrong) /\ Hopeless(mStrong)
    BY <2>1, <2>3 DEF Choice
  <2>4. CASE ~Easy(mStrong) /\ ~Hopeless(mStrong)
    BY <2>1, <2>4 DEF Choice, Hopeless
  <2> QED
    BY <2>2, <2>3, <2>4
<1> PICK p \in {"try3", "decWeak1", "first", "revive"} : p = Choice(mStrong)
  BY <1>4
<1>5. Moves(t, p, strong[t], weak[t])
  BY <1>1, <1>2, ActorSees DEF Moves
<1>6. Counts(t, p, strong[t], weak[t], 0, 0)
  BY <1>1, <1>2, ActorSees DEF Counts, One, TakenStrong, TakenWeak, CountsSay
<1>7. Fits(t, p, strong[t], weak[t], mStrong)
  BY <1>1, <1>2, <1>3, <1>4, ActorSees
    DEF Fits, IInv, Promoting, Unbiased, TakenWeak, TakenStrong, CountsSay, kind, memory
<1> QED
  BY <1>2, <1>5, <1>6, <1>7, ActorSees, OrdinaryStep DEF PCs, CountsSay

(* Either swap succeeds on the count that was read, or not at all.         *)
LEMMA SwapStep ==
  ASSUME Bounded, IInv, NEW t \in Threads, NEW p \in {"fix1", "last"},
         pc[t] \in {"try3", "first"}, pc' = [pc EXCEPT ![t] = p],
         mStrong = cur[t], mStrong' = mStrong + 1, Use({"impl"}),
         UNCHANGED <<kind, mWeak, memory, strong, weak, raw, cur>>
  PROVE  IInv'
<1>2. ~Nothing(t)
  BY DEF Nothing
<1>3. fault' \in BOOLEAN /\ ~fault'
  BY <1>2, ActorSees, UsedIsThere DEF IInv
<1>4. Moves(t, p, strong[t], weak[t])
  BY <1>2, ActorSees DEF Moves
<1>5. Counts(t, p, strong[t], weak[t], 1, 0)
  BY <1>2, ActorSees DEF Counts, One, TakenStrong, TakenWeak, CountsSay
<1>6. cur[t] > 0
  BY DEF IInv, Promoting
<1>7. Fits(t, p, strong[t], weak[t], cur[t])
  BY <1>2, <1>3, <1>6, ActorSees
    DEF Fits, IInv, Promoting, Unbiased, TakenWeak, TakenStrong, CountsSay, kind, memory
<1> QED
  BY <1>2, <1>4, <1>5, <1>7, ActorSees, OrdinaryStep DEF PCs, CountsSay

(* A step of a thread that changes no count.                               *)
LEMMA LookStep ==
  ASSUME Bounded, IInv, NEW t \in Threads, NEW p \in PCs, NEW c \in Int,
         pc[t] \notin {"idle", "dec2"}, pc' = [pc EXCEPT ![t] = p], cur' = [cur EXCEPT ![t] = c],
         UNCHANGED <<kind, mStrong, mWeak, memory, strong, weak, raw>>,
         fault' \in BOOLEAN, ~fault',
         One(p \in TakenStrong) = One(pc[t] \in TakenStrong),
         p \in TakenWeak /\ pc[t] \in TakenWeak, p \notin {"inc3", "inc2", "dec1", "dec2"},
         p \in {"try2", "try3", "first", "revive"} => pc[t] \in {"try1", "try2", "try3", "first"},
         p \in {"try3", "first"} => c > 0, p = "first" => ~weakLifetime,
         p = "revive" => weakLifetime, p = "fix2" => c >= InitialStrong,
         pc[t] \notin {"idle", "dec2", "decWeak1", "decWeak2"}
  PROVE  IInv'
<1>1. ~Nothing(t)
  BY DEF Nothing
<1>2. Moves(t, p, strong[t], weak[t])
  BY <1>1, ActorSees DEF Moves
<1>3. Counts(t, p, strong[t], weak[t], 0, 0)
  BY <1>1, ActorSees DEF Counts, One, CountsSay
<1>4. Fits(t, p, strong[t], weak[t], c)
  BY <1>1, ActorSees
    DEF Fits, IInv, Promoting, Unbiased, TakenWeak, TakenStrong, CountsSay, kind, memory
<1> QED
  BY <1>1, <1>2, <1>3, <1>4, ActorSees, OrdinaryStep

LEMMA Try3Step ==
  ASSUME Bounded, IInv, NEW t \in Threads, Try3(t)
  PROVE  IInv'
<1>1. pc[t] = "try3" /\ Use({"impl"}) /\ UNCHANGED <<kind, mWeak, memory, strong, weak, raw, cur>>
  BY DEF Try3, handles
<1>2. ~Nothing(t)
  BY <1>1 DEF Nothing
<1>3. fault' \in BOOLEAN /\ ~fault'
  BY <1>1, <1>2, ActorSees, UsedIsThere DEF IInv
<1>4. CASE mStrong = cur[t]
  BY <1>1, <1>4, SwapStep DEF Try3, Goto
<1>5. CASE mStrong # cur[t]
  <2>1. mStrong' = mStrong /\ pc' = [pc EXCEPT ![t] = "try2"] /\ cur' = [cur EXCEPT ![t] = cur[t]]
    BY <1>1, <1>2, <1>5, ActorSees DEF Try3, Goto
  <2>2. cur[t] \in Int
    BY <1>2, ActorSees
  <2> QED
    BY <1>1, <1>3, <2>1, <2>2, LookStep DEF PCs, TakenStrong, TakenWeak, One
<1> QED
  BY <1>4, <1>5

LEMMA FirstStep ==
  ASSUME Bounded, IInv, NEW t \in Threads, First(t)
  PROVE  IInv'
<1>1. pc[t] = "first" /\ Use({"impl"}) /\ UNCHANGED <<kind, mWeak, memory, strong, weak, raw>>
  BY DEF First, handles
<1>2. ~Nothing(t)
  BY <1>1 DEF Nothing
<1>3. fault' \in BOOLEAN /\ ~fault'
  BY <1>1, <1>2, ActorSees, UsedIsThere DEF IInv
<1>4. CASE mStrong = cur[t] /\ mStrong' = mStrong + 1 /\ cur' = cur
  <2>1. PICK p \in {"fix1", "last"} : pc' = [pc EXCEPT ![t] = p]
    BY <1>4 DEF First, Goto
  <2> QED
    BY <1>1, <1>4, <2>1, SwapStep
<1>5. CASE mStrong # cur[t]
  <2>1. /\ mStrong' = mStrong /\ cur' = [cur EXCEPT ![t] = mStrong]
        /\ pc' = [pc EXCEPT ![t] = IF mStrong <= 0 THEN "decWeak1" ELSE "first"]
    BY <1>5 DEF First, Goto, Read
  <2>2. mStrong \in Int /\ ~weakLifetime
    BY <1>1 DEF IInv, Domains, Promoting
  <2>3. CASE mStrong <= 0
    BY <1>1, <1>3, <2>1, <2>2, <2>3, LookStep DEF PCs, TakenStrong, TakenWeak, One
  <2>4. CASE ~(mStrong <= 0)
    <3>1. pc' = [pc EXCEPT ![t] = "first"] /\ mStrong > 0
      BY <2>1, <2>2, <2>4
    <3> QED
      BY <1>1, <1>3, <2>1, <2>2, <3>1, LookStep DEF PCs, TakenStrong, TakenWeak, One
  <2> QED
    BY <2>3, <2>4
<1> QED
  BY <1>4, <1>5 DEF First

LEMMA LastStrongRefStep ==
  ASSUME Bounded, IInv, NEW t \in Threads, LastStrongRef(t)
  PROVE  IInv'
<1>1. /\ pc[t] = "last" /\ pc' = [pc EXCEPT ![t] = "fix1"] /\ Use({"object"})
      /\ UNCHANGED <<kind, mStrong, mWeak, memory, strong, weak, raw, cur>>
  BY DEF LastStrongRef, Goto, handles
<1>2. ~Nothing(t)
  BY <1>1 DEF Nothing
<1>3. fault' \in BOOLEAN /\ ~fault'
  <2>1. mStrong > 0
    BY <1>1, <1>2, ActorSees DEF CountsSay, TakenStrong
  <2> QED
    BY <1>1, <1>2, <2>1, ActorSees, UsedIsThere DEF IInv
<1>4. cur[t] \in Int /\ cur' = [cur EXCEPT ![t] = cur[t]]
  BY <1>1, <1>2, ActorSees
<1> QED
  BY <1>1, <1>3, <1>4, LookStep DEF PCs, TakenStrong, TakenWeak, One

(* The weak reference that is promoted keeps an object of extended         *)
(* lifetime, which may have had no strong reference for a while.           *)
LEMMA ReviveStep ==
  ASSUME Bounded, IInv, NEW t \in Threads, Revive(t)
  PROVE  IInv'
<1>1. /\ pc[t] = "revive" /\ Use({"impl", "object"}) /\ mStrong' = mStrong + 1
      /\ cur' = [cur EXCEPT ![t] = mStrong]
      /\ UNCHANGED <<kind, mWeak, memory, strong, weak, raw>>
  BY DEF Revive, handles, Read
<1>2. ~Nothing(t)
  BY <1>1 DEF Nothing
<1>3. PICK p \in {"fix1", "last"} : pc' = [pc EXCEPT ![t] = p]
  BY DEF Revive, Goto
<1>4. weakLifetime
  BY <1>1 DEF IInv, Promoting
<1>5. fault' \in BOOLEAN /\ ~fault'
  BY <1>1, <1>2, <1>4, ActorSees, UsedIsThere DEF IInv
<1>6. Moves(t, p, strong[t], weak[t])
  BY <1>1, <1>2, <1>3, ActorSees DEF Moves
<1>7. Counts(t, p, strong[t], weak[t], 1, 0)
  BY <1>1, <1>2, ActorSees DEF Counts, One, TakenStrong, TakenWeak, CountsSay
<1>8. Fits(t, p, strong[t], weak[t], mStrong)
  BY <1>1, <1>2, <1>4, <1>5, ActorSees
    DEF Fits, IInv, Unbiased, TakenWeak, TakenStrong, CountsSay, kind, memory
<1> QED
  BY <1>2, <1>6, <1>7, <1>8, ActorSees, OrdinaryStep DEF PCs, CountsSay

LEMMA Fix1Step ==
  ASSUME Bounded, IInv, NEW t \in Threads, Fix1(t)
  PROVE  IInv'
<1>1. /\ pc[t] = "fix1" /\ Use({"impl"}) /\ cur' = [cur EXCEPT ![t] = mStrong]
      /\ UNCHANGED <<kind, mStrong, mWeak, memory, weak, raw>>
  BY DEF Fix1, Read
<1>2. ~Nothing(t) /\ mStrong \in Int
  BY <1>1 DEF Nothing, IInv, Domains
<1>3. fault' \in BOOLEAN /\ ~fault'
  BY <1>1, <1>2, ActorSees, UsedIsThere DEF IInv
<1>4. CASE mStrong >= InitialStrong
  <2>1. pc' = [pc EXCEPT ![t] = "fix2"] /\ strong' = strong
    BY <1>4 DEF Fix1, Goto, Biased
  <2> QED
    BY <1>1, <1>2, <1>3, <1>4, <2>1, LookStep DEF PCs, TakenStrong, TakenWeak, One
<1>5. CASE ~(mStrong >= InitialStrong)
  <2>1. pc' = [pc EXCEPT ![t] = "idle"] /\ strong' = [strong EXCEPT ![t] = strong[t] + 1]
    BY <1>5 DEF Fix1, Goto, Biased, Gain
  <2>2. Moves(t, "idle", strong[t] + 1, weak[t])
    BY <1>1, <1>2, <2>1, ActorSees DEF Moves
  <2>3. Counts(t, "idle", strong[t] + 1, weak[t], 0, 0)
    BY <1>1, <1>2, ActorSees DEF Counts, One, TakenStrong, TakenWeak, CountsSay
  <2>4. Fits(t, "idle", strong[t] + 1, weak[t], mStrong)
    BY <1>1, <1>2, <1>3, <1>5, ActorSees DEF Fits, TakenWeak, CountsSay, kind, memory
  <2> QED
    <3>1. strong[t] + 1 \in Nat /\ weak[t] \in Nat /\ "idle" \in PCs
      BY <1>2, ActorSees DEF PCs
    <3> QED
      BY <1>2, <2>2, <2>3, <2>4, <3>1, OrdinaryStep
<1> QED
  BY <1>4, <1>5

(* The bias is taken away by a swap, so only once.                         *)
LEMMA Fix2Step ==
  ASSUME Bounded, IInv, NEW t \in Threads, Fix2(t)
  PROVE  IInv'
<1>1. /\ pc[t] = "fix2" /\ Use({"impl"})
      /\ UNCHANGED <<kind, mWeak, memory, weak, raw, cur>>
  BY DEF Fix2
<1>2. ~Nothing(t) /\ cur[t] >= InitialStrong
  BY <1>1 DEF Nothing, IInv, Promoting
<1>3. fault' \in BOOLEAN /\ ~fault'
  BY <1>1, <1>2, ActorSees, UsedIsThere DEF IInv
<1>4. CASE mStrong = cur[t]
  <2>1. /\ pc' = [pc EXCEPT ![t] = "idle"] /\ strong' = [strong EXCEPT ![t] = strong[t] + 1]
        /\ mStrong' = mStrong - InitialStrong
    BY <1>4 DEF Fix2, Goto, Gain
  <2>2. Moves(t, "idle", strong[t] + 1, weak[t])
    BY <1>1, <1>2, <2>1, ActorSees DEF Moves
  <2>3. Counts(t, "idle", strong[t] + 1, weak[t], 0, 0)
    BY <1>1, <1>2, <1>4, <2>1, ActorSees DEF Counts, One, TakenStrong, TakenWeak, CountsSay
  <2>4. mStrong > InitialStrong /\ mStrong < 2 * InitialStrong /\ InitialStrong \in Nat
    BY <1>1, <1>2, <1>4, ActorSees DEF CountsSay, TakenStrong
  <2>5. mStrong' > 0 /\ mStrong > 0 /\ mStrong' < InitialStrong
    BY <1>4, <2>1, <2>4, ActorSees, <1>2 DEF CountsSay
  <2>6. Fits(t, "idle", strong[t] + 1, weak[t], cur[t])
    BY <1>1, <1>2, <1>3, <2>5, ActorSees DEF Fits, TakenWeak, CountsSay, kind, memory
  <2> QED
    <3>1. strong[t] + 1 \in Nat /\ weak[t] \in Nat /\ cur[t] \in Int /\ "idle" \in PCs
      BY <1>2, ActorSees DEF PCs
    <3> QED
      BY <1>2, <2>2, <2>3, <2>6, <3>1, OrdinaryStep
<1>5. CASE mStrong # cur[t]
  <2>1. /\ pc' = [pc EXCEPT ![t] = "fix1"] /\ UNCHANGED <<mStrong, strong>>
        /\ cur' = [cur EXCEPT ![t] = cur[t]] /\ cur[t] \in Int
    BY <1>1, <1>2, <1>5, ActorSees DEF Fix2, Goto
  <2> QED
    BY <1>1, <1>3, <2>1, LookStep DEF PCs, TakenStrong, TakenWeak, One
<1> QED
  BY <1>4, <1>5

----------------------------------------------------------------------------
(* Beginning an operation, with a reference *)

LEMMA CopyStrongStep ==
  ASSUME Bounded, IInv, NEW t \in Threads, CopyStrong(t), strong[t] > 0
  PROVE  IInv'
<1>1. /\ pc[t] = "idle" /\ strong[t] > 0 /\ strong[t] < MaxHeld /\ raw' = raw \ {t}
      /\ pc' = [pc EXCEPT ![t] = "inc1"]
      /\ UNCHANGED <<kind, mStrong, mWeak, memory, strong, weak, cur, fault>>
  BY DEF CopyStrong, Goto
<1>2. ~Nothing(t) /\ raw = {} /\ raw' = {}
  BY <1>1, ActorKnows DEF Nothing
<1>3. fault' \in BOOLEAN /\ ~fault'
  BY <1>1 DEF IInv, Domains, NoFault
<1>4. Moves(t, "inc1", strong[t], weak[t])
  BY <1>1, <1>2, ActorSees DEF Moves
<1>5. Counts(t, "inc1", strong[t], weak[t], 0, 0)
  BY <1>1, <1>2, ActorSees DEF Counts, One, TakenStrong, TakenWeak, CountsSay
<1>6. Fits(t, "inc1", strong[t], weak[t], cur[t])
  BY <1>1, <1>2, <1>3, ActorSees
    DEF Fits, IInv, Promoting, Unbiased, TakenWeak, TakenStrong, CountsSay, kind, memory
<1>7. strong[t] \in Nat /\ weak[t] \in Nat /\ cur[t] \in Int /\ "inc1" \in PCs
  BY <1>1, <1>2, ActorSees DEF PCs
<1> QED
  BY <1>2, <1>4, <1>5, <1>6, <1>7, OrdinaryStep

LEMMA CreateWeakStep ==
  ASSUME Bounded, IInv, NEW t \in Threads, CreateWeak(t), strong[t] > 0 \/ weak[t] > 0
  PROVE  IInv'
<1>1. /\ pc[t] = "idle" /\ weak[t] < MaxHeld /\ (strong[t] > 0 \/ weak[t] > 0)
      /\ raw' \subseteq raw /\ mWeak' = mWeak + 1 /\ weak' = [weak EXCEPT ![t] = weak[t] + 1]
      /\ Use({"impl"}) /\ UNCHANGED <<kind, mStrong, memory, strong, pc, cur>>
  BY DEF CreateWeak, Gain, Goto
<1>2. ~Nothing(t) /\ raw = {} /\ raw' = {}
  BY <1>1, ActorKnows DEF Nothing
<1>3. fault' \in BOOLEAN /\ ~fault'
  BY <1>1, <1>2, ActorSees, UsedIsThere DEF IInv
<1>0. /\ strong[t] \in Nat /\ weak[t] \in Nat /\ cur[t] \in Int /\ strong[t] <= MaxHeld
      /\ MaxHeld \in Nat /\ mWeak \in Nat /\ mStrong \in Nat
      /\ pc' = [pc EXCEPT ![t] = "idle"] /\ strong' = [strong EXCEPT ![t] = strong[t]]
      /\ cur' = [cur EXCEPT ![t] = cur[t]]
  <2>1. pc' = [pc EXCEPT ![t] = "idle"]
    BY <1>1 DEF IInv, Domains
  <2> QED
    BY <1>1, <1>2, <2>1, ActorSees DEF CountsSay
<1>4. Moves(t, "idle", strong[t], weak[t] + 1)
  BY <1>0, <1>1 DEF Moves
<1>5. Counts(t, "idle", strong[t], weak[t] + 1, 0, 1)
  BY <1>0, <1>1 DEF Counts, One, TakenStrong, TakenWeak
<1>6. Fits(t, "idle", strong[t], weak[t] + 1, cur[t])
  <2>1. strong[t] > 0 => mStrong' < InitialStrong
    BY <1>1 DEF IInv, Unbiased
  <2>2. weak[t] + 1 > 0 /\ mStrong' = mStrong
    BY <1>0, <1>1
  <2> QED
    BY <1>0, <1>1, <1>2, <1>3, <2>1, <2>2 DEF Fits, kind, memory
<1>7. strong[t] \in Nat /\ weak[t] + 1 \in Nat /\ cur[t] \in Int /\ "idle" \in PCs
  BY <1>1, <1>2, ActorSees DEF PCs
<1> QED
  BY <1>2, <1>4, <1>5, <1>6, <1>7, OrdinaryStep

LEMMA DropStrongStep ==
  ASSUME Bounded, IInv, NEW t \in Threads, DropStrong(t)
  PROVE  IInv'
<1>1. /\ pc[t] = "idle" /\ strong[t] > 0 /\ strong' = [strong EXCEPT ![t] = strong[t] - 1]
      /\ pc' = [pc EXCEPT ![t] = "dec1"]
      /\ UNCHANGED <<kind, mStrong, mWeak, memory, weak, raw, cur, fault>>
  BY DEF DropStrong, Lose, Goto
<1>2. ~Nothing(t) /\ raw = {} /\ raw' = {}
  BY <1>1, ActorKnows DEF Nothing
<1>3. fault' \in BOOLEAN /\ ~fault'
  BY <1>1 DEF IInv, Domains, NoFault
<1>4. Moves(t, "dec1", strong[t] - 1, weak[t])
  BY <1>1, <1>2, ActorSees DEF Moves
<1>5. Counts(t, "dec1", strong[t] - 1, weak[t], 0, 0)
  BY <1>1, <1>2, ActorSees DEF Counts, One, TakenStrong, TakenWeak, CountsSay
<1>6. Fits(t, "dec1", strong[t] - 1, weak[t], cur[t])
  BY <1>1, <1>2, <1>3, ActorSees
    DEF Fits, IInv, Promoting, Unbiased, TakenWeak, TakenStrong, CountsSay, kind, memory
<1>7. strong[t] - 1 \in Nat /\ weak[t] \in Nat /\ cur[t] \in Int /\ "dec1" \in PCs
  BY <1>1, <1>2, ActorSees DEF PCs
<1> QED
  BY <1>2, <1>4, <1>5, <1>6, <1>7, OrdinaryStep

LEMMA DropWeakStep ==
  ASSUME Bounded, IInv, NEW t \in Threads, DropWeak(t)
  PROVE  IInv'
<1>1. /\ pc[t] = "idle" /\ weak[t] > 0 /\ weak' = [weak EXCEPT ![t] = weak[t] - 1]
      /\ pc' = [pc EXCEPT ![t] = "decWeak1"]
      /\ UNCHANGED <<kind, mStrong, mWeak, memory, strong, raw, cur, fault>>
  BY DEF DropWeak, Lose, Goto
<1>2. ~Nothing(t) /\ raw = {} /\ raw' = {}
  BY <1>1, ActorKnows DEF Nothing
<1>3. fault' \in BOOLEAN /\ ~fault'
  BY <1>1 DEF IInv, Domains, NoFault
<1>4. Moves(t, "decWeak1", strong[t], weak[t] - 1)
  BY <1>1, <1>2, ActorSees DEF Moves
<1>5. Counts(t, "decWeak1", strong[t], weak[t] - 1, 0, 0)
  BY <1>1, <1>2, ActorSees DEF Counts, One, TakenStrong, TakenWeak, CountsSay
<1>6. Fits(t, "decWeak1", strong[t], weak[t] - 1, cur[t])
  BY <1>1, <1>2, <1>3, ActorSees
    DEF Fits, IInv, Promoting, Unbiased, TakenWeak, TakenStrong, CountsSay, kind, memory
<1>7. strong[t] \in Nat /\ weak[t] - 1 \in Nat /\ cur[t] \in Int /\ "decWeak1" \in PCs
  BY <1>1, <1>2, ActorSees DEF PCs
<1> QED
  BY <1>2, <1>4, <1>5, <1>6, <1>7, OrdinaryStep

LEMMA PromoteStep ==
  ASSUME Bounded, IInv, NEW t \in Threads, Promote(t)
  PROVE  IInv'
<1>1. /\ pc[t] = "idle" /\ weak[t] > 0 /\ strong[t] < MaxHeld
      /\ pc' = [pc EXCEPT ![t] = "try1"]
      /\ UNCHANGED <<kind, mStrong, mWeak, memory, strong, weak, raw, cur, fault>>
  BY DEF Promote, handles, Goto
<1>2. ~Nothing(t) /\ raw = {} /\ raw' = {}
  BY <1>1, ActorKnows DEF Nothing
<1>3. fault' \in BOOLEAN /\ ~fault'
  BY <1>1 DEF IInv, Domains, NoFault
<1>4. Moves(t, "try1", strong[t], weak[t])
  BY <1>1, <1>2, ActorSees DEF Moves
<1>5. Counts(t, "try1", strong[t], weak[t], 0, 0)
  BY <1>1, <1>2, ActorSees DEF Counts, One, TakenStrong, TakenWeak, CountsSay
<1>6. Fits(t, "try1", strong[t], weak[t], cur[t])
  BY <1>1, <1>2, <1>3, ActorSees
    DEF Fits, IInv, Promoting, Unbiased, TakenWeak, TakenStrong, CountsSay, kind, memory
<1>7. strong[t] \in Nat /\ weak[t] \in Nat /\ cur[t] \in Int /\ "try1" \in PCs
  BY <1>1, <1>2, ActorSees DEF PCs
<1> QED
  BY <1>2, <1>4, <1>5, <1>6, <1>7, OrdinaryStep
----------------------------------------------------------------------------
(* Taking and dropping strong references *)

LEMMA IncStrong1Step ==
  ASSUME Bounded, IInv, NEW t \in Threads, IncStrong1(t), strong[t] > 0
  PROVE  IInv'
<1>1. /\ pc[t] = "inc1" /\ strong[t] > 0 /\ mWeak' = mWeak + 1 /\ Use({"impl", "object"})
      /\ pc' = [pc EXCEPT ![t] = "inc2"]
      /\ UNCHANGED <<kind, mStrong, memory, strong, weak, raw, cur>>
  BY DEF IncStrong1, handles, Goto
<1>2. ~Nothing(t) /\ raw = {} /\ raw' = {}
  BY <1>1, ActorKnows DEF Nothing
<1>3. fault' \in BOOLEAN /\ ~fault'
  <2>1. mStrong > 0
    BY <1>1, <1>2, ActorSees DEF CountsSay, TakenStrong
  <2> QED
    BY <1>1, <1>2, <2>1, ActorSees, UsedIsThere DEF IInv
<1>4. Moves(t, "inc2", strong[t], weak[t])
  BY <1>1, <1>2, ActorSees DEF Moves
<1>5. Counts(t, "inc2", strong[t], weak[t], 0, 1)
  BY <1>1, <1>2, ActorSees DEF Counts, One, TakenStrong, TakenWeak, CountsSay
<1>6. Fits(t, "inc2", strong[t], weak[t], cur[t])
  BY <1>1, <1>2, <1>3, ActorSees
    DEF Fits, IInv, Promoting, Unbiased, TakenWeak, TakenStrong, CountsSay, kind, memory
<1>7. strong[t] \in Nat /\ weak[t] \in Nat /\ cur[t] \in Int /\ "inc2" \in PCs
  BY <1>1, <1>2, ActorSees DEF PCs
<1> QED
  BY <1>2, <1>4, <1>5, <1>6, <1>7, OrdinaryStep

LEMMA IncStrong2Step ==
  ASSUME Bounded, IInv, NEW t \in Threads, IncStrong2(t), strong[t] > 0
  PROVE  IInv'
<1>1. /\ pc[t] = "inc2" /\ mStrong' = mStrong + 1 /\ Use({"impl"})
      /\ UNCHANGED <<kind, mWeak, memory, weak, raw, cur>>
  BY DEF IncStrong2
<1>2. ~Nothing(t) /\ mStrong # InitialStrong /\ mStrong < InitialStrong /\ mStrong > 0
  <2>1. ~Nothing(t)
    BY <1>1 DEF Nothing
  <2> QED
    BY <2>1, ActorSees DEF CountsSay, IInv, Unbiased
<1>3. fault' \in BOOLEAN /\ ~fault'
  BY <1>1, <1>2, ActorSees, UsedIsThere DEF IInv
<1>4. pc' = [pc EXCEPT ![t] = "idle"] /\ strong' = [strong EXCEPT ![t] = strong[t] + 1]
  BY <1>2 DEF IncStrong2, Goto, Gain
<1>5. Moves(t, "idle", strong[t] + 1, weak[t])
  BY <1>1, <1>2, <1>4, ActorSees DEF Moves
<1>6. Counts(t, "idle", strong[t] + 1, weak[t], 1, 0)
  BY <1>1, <1>2, ActorSees DEF Counts, One, TakenStrong, TakenWeak, CountsSay
<1>7. Fits(t, "idle", strong[t] + 1, weak[t], cur[t])
  BY <1>1, <1>2, <1>3, ActorSees DEF Fits, TakenWeak, CountsSay, kind, memory
<1>8. strong[t] + 1 \in Nat /\ weak[t] \in Nat /\ cur[t] \in Int /\ "idle" \in PCs
  BY <1>2, ActorSees DEF PCs
<1> QED
  BY <1>2, <1>5, <1>6, <1>7, <1>8, OrdinaryStep

(* The decrement, by a thread whose reference is not the last or whose     *)
(* object does not go with it.                                             *)
LEMMA DecStrong1Step ==
  ASSUME Bounded, IInv, NEW t \in Threads, DecStrong1(t), mStrong # 1 \/ weakLifetime
  PROVE  IInv'
<1>1. /\ pc[t] = "dec1" /\ mStrong' = mStrong - 1 /\ Use({"impl"})
      /\ UNCHANGED <<kind, mWeak, memory, strong, weak, raw, cur>>
  BY DEF DecStrong1, handles
<1>2. ~Nothing(t) /\ mStrong > 0
  <2>1. ~Nothing(t)
    BY <1>1 DEF Nothing
  <2> QED
    BY <1>1, <2>1, ActorSees DEF CountsSay, TakenStrong
<1>3. fault' \in BOOLEAN /\ ~fault'
  BY <1>1, <1>2, ActorSees, UsedIsThere DEF IInv
<1>4. PICK p \in {"dec2", "decWeak1"} : /\ pc' = [pc EXCEPT ![t] = p]
                                        /\ p = "dec2" => mStrong = 1
  BY DEF DecStrong1, Goto, Last
<1>5. Moves(t, p, strong[t], weak[t])
  BY <1>1, <1>2, <1>4, ActorSees DEF Moves
<1>6. Counts(t, p, strong[t], weak[t], -1, 0)
  BY <1>1, <1>2, ActorSees DEF Counts, One, TakenStrong, TakenWeak, CountsSay
<1>7. mStrong < InitialStrong
  BY <1>1 DEF IInv, Unbiased
<1>8. Fits(t, p, strong[t], weak[t], cur[t])
  BY <1>1, <1>2, <1>3, <1>4, <1>7, ActorSees DEF Fits, TakenWeak, CountsSay, kind, memory
<1> QED
  BY <1>2, <1>5, <1>6, <1>8, ActorSees, OrdinaryStep DEF PCs

(* onLastStrongRef() of an object of extended lifetime, which stays.       *)
LEMMA DecStrong2Step ==
  ASSUME Bounded, IInv, NEW t \in Threads, DecStrong2(t), weakLifetime
  PROVE  IInv'
<1>1. /\ pc[t] = "dec2" /\ Use({"impl", "object"}) /\ pc' = [pc EXCEPT ![t] = "decWeak1"]
      /\ UNCHANGED <<kind, mStrong, mWeak, memory, strong, weak, raw, cur>>
  BY DEF DecStrong2, handles, Goto
<1>2. ~Nothing(t)
  BY <1>1 DEF Nothing
<1>3. fault' \in BOOLEAN /\ ~fault'
  BY <1>1, <1>2, ActorSees, UsedIsThere DEF IInv
<1>4. Moves(t, "decWeak1", strong[t], weak[t])
  BY <1>1, <1>2, ActorSees DEF Moves
<1>5. Counts(t, "decWeak1", strong[t], weak[t], 0, 0)
  BY <1>1, <1>2, ActorSees DEF Counts, One, TakenStrong, TakenWeak, CountsSay
<1>6. Fits(t, "decWeak1", strong[t], weak[t], cur[t])
  BY <1>1, <1>2, <1>3, ActorSees
    DEF Fits, IInv, Unbiased, TakenWeak, CountsSay, kind, memory
<1> QED
  BY <1>2, <1>4, <1>5, <1>6, ActorSees, OrdinaryStep DEF PCs

LEMMA DecWeak1Step ==
  ASSUME Bounded, IInv, NEW t \in Threads, DecWeak1(t), mWeak # 1
  PROVE  IInv'
<1>1. /\ pc[t] = "decWeak1" /\ mWeak' = mWeak - 1 /\ Use({"impl"})
      /\ pc' = [pc EXCEPT ![t] = "idle"]
      /\ UNCHANGED <<kind, mStrong, memory, strong, weak, raw, cur>>
  BY DEF DecWeak1, handles, Goto, Last
<1>2. ~Nothing(t)
  BY <1>1 DEF Nothing
<1>3. fault' \in BOOLEAN /\ ~fault'
  BY <1>1, <1>2, ActorSees, UsedIsThere DEF IInv
<1>4. Moves(t, "idle", strong[t], weak[t])
  BY <1>1, <1>2, ActorSees DEF Moves
<1>5. Counts(t, "idle", strong[t], weak[t], 0, -1)
  BY <1>1, <1>2, ActorSees DEF Counts, One, TakenStrong, TakenWeak, CountsSay
<1>6. mWeak > 1
  BY <1>1, <1>2, ActorSees DEF CountsSay, TakenWeak
<1>7. Fits(t, "idle", strong[t], weak[t], cur[t])
  BY <1>1, <1>2, <1>3, <1>6, ActorSees
    DEF Fits, IInv, Unbiased, TakenWeak, CountsSay, kind, memory
<1> QED
  BY <1>2, <1>4, <1>5, <1>7, ActorSees, OrdinaryStep DEF PCs

----------------------------------------------------------------------------
(* The first reference, made by a thread that is alone with the object *)

LEMMA MakerStep ==
  ASSUME Bounded, IInv, NEW t \in Threads, \A u \in Threads \ {t} : Nothing(u),
         NEW p \in {"idle", "inc1", "inc2", "inc3"}, NEW s \in Nat, NEW w \in Nat,
         Moves(t, p, s, w), NEW ds \in {-1, 0, 1}, NEW dw \in {-1, 0, 1},
         Counts(t, p, s, w, ds, dw), pc[t] \notin {"dec2", "decWeak2"},
         UNCHANGED <<kind, memory, cur>>, impl = "live", raw' = {},
         p # "idle" => s = 0 /\ w = 0 /\ mStrong' = InitialStrong + One(p = "inc3"),
         s > 0 => mStrong' = 1, mStrong > 0, mStrong' > 0,
         s > 0 \/ w > 0 \/ p # "idle", fault' \in BOOLEAN, ~fault'
  PROVE  IInv'
<1> USE DEF IInv
<1>1. /\ strong' \in [Threads -> 0 .. MaxHeld] /\ weak' \in [Threads -> 0 .. MaxHeld]
      /\ pc' \in [Threads -> PCs] /\ pc'[t] = p /\ strong'[t] = s /\ weak'[t] = w
      /\ \A u \in Threads \ {t} : pc'[u] = pc[u] /\ strong'[u] = strong[u] /\ weak'[u] = weak[u]
      /\ \A u \in Threads :
           pc'[u] \notin {"idle", "dec2", "decWeak1", "decWeak2"} => strong'[u] < MaxHeld
  BY Moved DEF PCs
<1>2. UNCHANGED <<weakLifetime, firstRefs, object, impl, cur>> /\ impl = "live"
  BY DEF kind, memory
<1>3. \A u \in Threads \ {t} : pc'[u] = "idle" /\ strong'[u] = 0 /\ weak'[u] = 0 /\ Nothing(u)'
  BY <1>1 DEF Nothing
<1>4. Domains'
  <2>1. mStrong' \in Int /\ mWeak' \in Int
    BY DEF Domains, Counts, Bounded
  <2> QED
    BY <1>1, <1>2, <2>1 DEF Domains
<1>5. CountsAreTaken'
  <2>1. p \in PCs
    BY DEF PCs
  <2> QED
    BY <1>4, <2>1, CountsFollow
<1>6. CountsSay'
  <2>1. Bounded'
    BY DEF Bounded
  <2>2. Domains' /\ CountsAreTaken'
    BY <1>4, <1>5
  <2> QED
    BY <2>1, <2>2, CountFacts, PTL
<1>7. Unbiased'
  <2>1. s > 0 => mStrong' # InitialStrong /\ mStrong' = 1 /\ InitialStrong \in Nat \ {0}
    BY <1>1, <1>6 DEF CountsSay
  <2>2. s > 0 => mStrong' < InitialStrong
    BY <2>1
  <2> QED
    BY <1>1, <1>3, <2>2 DEF Unbiased
<1>8. Promoting'
  BY <1>1, <1>3 DEF Promoting
<1>9. FirstIsAlone'
  BY <1>1, <1>3 DEF FirstIsAlone, Alone
<1>10. \A u \in Threads : pc'[u] # "dec2" /\ pc[u] # "dec2" /\ pc'[u] # "decWeak2"
  BY <1>1, <1>3 DEF Nothing
<1>11. LastStrong'
  BY <1>10 DEF LastStrong
<1>12. LastOfAll'
  <2>1. mWeak' = 0 => p = "inc1"
    BY <1>1, <1>6 DEF CountsSay, TakenWeak, TakenStrong
  <2> QED
    BY <1>1, <1>2, <1>10, <2>1 DEF LastOfAll
<1>13. ObjectIsKept'
  BY <1>2, <1>10 DEF ObjectIsKept
<1>14. NoFault'
  BY DEF NoFault
<1> QED
  BY <1>4, <1>5, <1>7, <1>8, <1>9, <1>11, <1>12, <1>13, <1>14

(* The creator's raw pointer: nobody has a reference yet.                  *)
LEMMA RawFacts ==
  ASSUME Bounded, IInv, raw # {}
  PROVE  /\ mStrong = InitialStrong /\ impl = "live" /\ InitialStrong \in Nat \ {0}
         /\ \A u \in Threads : Nothing(u) /\ strong[u] = 0 /\ weak[u] = 0 /\ pc[u] = "idle"
         /\ CountsSay
<1>1. CountsSay
  BY CountFacts DEF IInv
<1>2. mStrong = InitialStrong /\ \A u \in Threads : Nothing(u)
  BY DEF IInv, FirstIsAlone
<1>3. impl = "live"
  BY DEF IInv, LastOfAll, Domains
<1> QED
  BY <1>1, <1>2, <1>3 DEF Nothing, CountsSay

LEMMA CopyRawStep ==
  ASSUME Bounded, IInv, NEW t \in Threads, CopyStrong(t), strong[t] = 0
  PROVE  IInv'
<1>1. /\ t \in raw /\ raw' = raw \ {t} /\ strong[t] < MaxHeld /\ pc' = [pc EXCEPT ![t] = "inc1"]
      /\ UNCHANGED <<kind, mStrong, mWeak, memory, strong, weak, cur, fault>>
  BY DEF CopyStrong, Goto
<1>2. /\ mStrong = InitialStrong /\ impl = "live" /\ InitialStrong \in Nat \ {0}
      /\ \A u \in Threads : Nothing(u) /\ strong[u] = 0 /\ weak[u] = 0 /\ pc[u] = "idle"
      /\ CountsSay
  BY <1>1, RawFacts
<1>3. raw' = {} /\ fault' \in BOOLEAN /\ ~fault'
  BY <1>1 DEF IInv, Domains, NoFault
<1>4. Moves(t, "inc1", 0, 0)
  BY <1>1, <1>2 DEF Moves, IInv, Domains
<1>5. Counts(t, "inc1", 0, 0, 0, 0)
  BY <1>1, <1>2 DEF Counts, One, TakenStrong, TakenWeak, CountsSay
<1> QED
  BY <1>1, <1>2, <1>3, <1>4, <1>5, MakerStep DEF One

LEMMA CreateFromRawStep ==
  ASSUME Bounded, IInv, NEW t \in Threads, CreateWeak(t), strong[t] = 0, weak[t] = 0
  PROVE  IInv'
<1>1. /\ t \in raw /\ "weak" \in firstRefs /\ mWeak' = mWeak + 1 /\ weak[t] < MaxHeld
      /\ weak' = [weak EXCEPT ![t] = weak[t] + 1] /\ Use({"impl"})
      /\ UNCHANGED <<kind, mStrong, memory, strong, pc, cur>>
  BY DEF CreateWeak, Gain
<1>2. /\ mStrong = InitialStrong /\ impl = "live" /\ InitialStrong \in Nat \ {0}
      /\ \A u \in Threads : Nothing(u) /\ strong[u] = 0 /\ weak[u] = 0 /\ pc[u] = "idle"
      /\ CountsSay
  BY <1>1, RawFacts
<1>3. raw' = {}
  <2>1. "strong" \notin firstRefs
    BY <1>1 DEF IInv, Domains
  <2> QED
    BY <1>1, <2>1 DEF CreateWeak, IInv, Domains
<1>4. fault' \in BOOLEAN /\ ~fault'
  BY <1>1, <1>2, UsedIsThere DEF IInv
<1>5. Moves(t, "idle", 0, 1)
  <2>1. MaxHeld \in Nat
    BY DEF Bounded
  <2> QED
    BY <1>1, <1>2, <2>1 DEF Moves, IInv, Domains
<1>6. Counts(t, "idle", 0, 1, 0, 1)
  BY <1>1, <1>2 DEF Counts, One, TakenStrong, TakenWeak, CountsSay
<1> QED
  BY <1>1, <1>2, <1>3, <1>4, <1>5, <1>6, MakerStep

LEMMA MakerFacts ==
  ASSUME Bounded, IInv, NEW t \in Threads, pc[t] \in {"inc1", "inc2", "inc3"}, strong[t] = 0
  PROVE  /\ mStrong = InitialStrong + One(pc[t] = "inc3") /\ impl = "live" /\ object = "live"
         /\ InitialStrong \in Nat \ {0} /\ raw = {} /\ weak[t] = 0 /\ mStrong > 0
         /\ \A u \in Threads \ {t} : Nothing(u)
         /\ CountsSay /\ 0 < MaxHeld /\ MaxHeld \in Nat
<1>1. ~Nothing(t)
  BY DEF Nothing
<1>2. /\ mStrong = InitialStrong + One(pc[t] = "inc3") /\ weak[t] = 0 /\ raw = {}
      /\ \A u \in Threads \ {t} : Nothing(u)
  BY DEF IInv, FirstIsAlone, Alone
<1>3. CountsSay /\ impl = "live" /\ (mStrong > 0 => object = "live")
      /\ strong[t] < MaxHeld /\ MaxHeld \in Nat
  BY <1>1, ActorSees
<1>4. mStrong > 0
  BY <1>2, <1>3 DEF CountsSay, One
<1> QED
  BY <1>2, <1>3, <1>4 DEF CountsSay

LEMMA FirstIncStep ==
  ASSUME Bounded, IInv, NEW t \in Threads, strong[t] = 0,
         IncStrong1(t) \/ IncStrong2(t) \/ IncStrong3(t)
  PROVE  IInv'
<1>0. pc[t] \in {"inc1", "inc2", "inc3"}
  BY DEF IncStrong1, IncStrong2, IncStrong3
<1>1. /\ mStrong = InitialStrong + One(pc[t] = "inc3") /\ impl = "live" /\ object = "live"
      /\ InitialStrong \in Nat \ {0} /\ raw = {} /\ weak[t] = 0 /\ mStrong > 0
      /\ \A u \in Threads \ {t} : Nothing(u)
      /\ CountsSay /\ 0 < MaxHeld /\ MaxHeld \in Nat
  BY <1>0, MakerFacts
<1>2. /\ fault' \in BOOLEAN /\ ~fault'
      /\ UNCHANGED <<kind, memory, cur>> /\ raw' = {} /\ weak' = weak
  <2>1. Use({"impl", "object"}) \/ Use({"impl"})
    BY DEF IncStrong1, IncStrong2, IncStrong3
  <2>2. fault' \in BOOLEAN /\ ~fault'
    BY <1>1, <2>1, UsedIsThere DEF IInv
  <2> QED
    BY <1>1, <2>2 DEF IncStrong1, IncStrong2, IncStrong3, handles
<1>3. /\ weak' = [weak EXCEPT ![t] = 0] /\ [strong EXCEPT ![t] = 0] = strong
      /\ mStrong \in Nat /\ mWeak \in Nat
  BY <1>1, <1>2 DEF IInv, Domains, CountsSay
<1>4. CASE IncStrong1(t)
  <2>1. /\ pc[t] = "inc1" /\ pc' = [pc EXCEPT ![t] = "inc2"]
        /\ mWeak' = mWeak + 1 /\ UNCHANGED <<mStrong, strong>>
    BY <1>4 DEF IncStrong1, Goto, handles
  <2>2. Moves(t, "inc2", 0, 0)
    BY <1>1, <1>3, <2>1 DEF Moves
  <2>3. Counts(t, "inc2", 0, 0, 0, 1)
    BY <1>1, <1>3, <2>1 DEF Counts, One, TakenStrong, TakenWeak
  <2>4. mStrong' = InitialStrong + One("inc2" = "inc3") /\ mStrong' > 0
    BY <1>1, <2>1 DEF One
  <2> QED
    BY <1>1, <1>2, <2>1, <2>2, <2>3, <2>4, MakerStep
<1>5. CASE IncStrong2(t)
  <2>1. pc[t] = "inc2" /\ mStrong = InitialStrong
    BY <1>1, <1>5 DEF IncStrong2, One
  <2>2. /\ pc' = [pc EXCEPT ![t] = "inc3"] /\ mStrong' = mStrong + 1
        /\ UNCHANGED <<mWeak, strong>>
    BY <1>5, <2>1 DEF IncStrong2, Goto
  <2>3. Moves(t, "inc3", 0, 0)
    BY <1>1, <1>3, <2>2 DEF Moves
  <2>4. Counts(t, "inc3", 0, 0, 1, 0)
    BY <1>1, <1>3, <2>1, <2>2 DEF Counts, One, TakenStrong, TakenWeak
  <2>5. mStrong' = InitialStrong + One("inc3" = "inc3") /\ mStrong' > 0
    BY <1>1, <2>1, <2>2 DEF One
  <2> QED
    BY <1>1, <1>2, <2>1, <2>3, <2>4, <2>5, MakerStep
<1>6. CASE IncStrong3(t)
  <2>1. pc[t] = "inc3" /\ mStrong = InitialStrong + 1
    BY <1>1, <1>6 DEF IncStrong3, One
  <2>2. /\ pc' = [pc EXCEPT ![t] = "idle"] /\ mStrong' = 1 /\ mStrong' = mStrong - InitialStrong
        /\ strong' = [strong EXCEPT ![t] = 1] /\ mWeak' = mWeak
    BY <1>1, <1>6, <2>1 DEF IncStrong3, Goto, Gain
  <2>3. Moves(t, "idle", 1, 0)
    BY <1>1, <1>3, <2>2 DEF Moves
  <2>4. Counts(t, "idle", 1, 0, 0, 0)
    BY <1>1, <1>3, <2>1, <2>2 DEF Counts, One, TakenStrong, TakenWeak
  <2> QED
    BY <1>1, <1>2, <2>1, <2>2, <2>3, <2>4, MakerStep
<1> QED
  BY <1>4, <1>5, <1>6

----------------------------------------------------------------------------
(* The last references *)

LEMMA LastStrongDropped ==
  ASSUME Bounded, IInv, NEW t \in Threads, DecStrong1(t), mStrong = 1, ~weakLifetime
  PROVE  IInv'
<1> USE DEF IInv
<1>1. /\ pc[t] = "dec1" /\ mStrong' = 0 /\ mStrong' = mStrong - 1 /\ Use({"impl"})
      /\ pc' = [pc EXCEPT ![t] = "dec2"]
      /\ UNCHANGED <<kind, mWeak, memory, strong, weak, raw, cur>>
  BY DEF DecStrong1, handles, Goto, Last
<1>2. ~Nothing(t)
  BY <1>1 DEF Nothing
<1>3. fault' \in BOOLEAN /\ NoFault'
  BY <1>1, <1>2, ActorSees, UsedIsThere DEF NoFault
<1>4. Moves(t, "dec2", strong[t], weak[t])
  BY <1>1, <1>2, ActorSees DEF Moves
<1>5. Counts(t, "dec2", strong[t], weak[t], -1, 0)
  BY <1>1, <1>2, ActorSees DEF Counts, One, TakenStrong, TakenWeak, CountsSay
<1>6. strong[t] \in Nat /\ weak[t] \in Nat /\ "dec2" \in PCs
  BY <1>2, ActorSees DEF PCs
<1>7. /\ strong' \in [Threads -> 0 .. MaxHeld] /\ weak' \in [Threads -> 0 .. MaxHeld]
      /\ pc' \in [Threads -> PCs] /\ pc'[t] = "dec2"
      /\ \A u \in Threads \ {t} : pc'[u] = pc[u] /\ strong'[u] = strong[u] /\ weak'[u] = weak[u]
      /\ \A u \in Threads :
           pc'[u] \notin {"idle", "dec2", "decWeak1", "decWeak2"} => strong'[u] < MaxHeld
  BY <1>4, <1>6, Moved
<1>8. UNCHANGED <<weakLifetime, firstRefs, object, impl, raw, cur>>
  BY <1>1 DEF kind, memory
<1>9. Domains'
  BY <1>1, <1>3, <1>7, <1>8 DEF Domains
<1>10. CountsAreTaken'
  BY <1>4, <1>5, <1>6, <1>9, CountsFollow
<1>11. CountsSay'
  <2>1. Bounded'
    BY DEF Bounded
  <2> QED
    BY <1>9, <1>10, <2>1, CountFacts, PTL
<1>12. /\ raw = {} /\ impl = "live" /\ object = "live"
       /\ \A u \in Threads \ {t} :
            /\ pc[u] # "decWeak2"
            /\ pc[u] \in {"inc1", "inc2", "inc3"} => strong[u] > 0 /\ pc[u] # "inc3"
  BY <1>2, ActorKnows, ActorSees
<1>13. Unbiased'
  BY <1>1, <1>11 DEF Unbiased, CountsSay
<1>14. Promoting'
  BY <1>1, <1>7, <1>8 DEF Promoting
<1>15. FirstIsAlone'
  BY <1>7, <1>8, <1>12 DEF FirstIsAlone
<1>16. LastStrong'
  <2>1. \A u \in Threads \ {t} : pc[u] # "dec2"
    BY DEF LastStrong
  <2> QED
    BY <1>1, <1>7, <2>1 DEF LastStrong
<1>17. LastOfAll'
  <2>1. mWeak' > 0
    BY <1>7, <1>11 DEF CountsSay, TakenWeak
  <2> QED
    BY <1>7, <1>8, <1>12, <2>1 DEF LastOfAll
<1>18. ObjectIsKept'
  BY <1>7, <1>8, <1>12 DEF ObjectIsKept
<1> QED
  BY <1>3, <1>9, <1>10, <1>13, <1>14, <1>15, <1>16, <1>17, <1>18

LEMMA ObjectDeleted ==
  ASSUME Bounded, IInv, NEW t \in Threads, DecStrong2(t), ~weakLifetime
  PROVE  IInv'
<1> USE DEF IInv
<1>1. /\ pc[t] = "dec2" /\ DeleteObject /\ pc' = [pc EXCEPT ![t] = "decWeak1"]
      /\ UNCHANGED <<kind, mStrong, mWeak, strong, weak, raw, cur>>
  BY DEF DecStrong2, handles, Goto
<1>2. ~Nothing(t)
  BY <1>1 DEF Nothing
<1>3. mStrong = 0 /\ \A u \in Threads \ {t} : pc[u] # "dec2"
  BY <1>1 DEF LastStrong
<1>4. /\ raw = {} /\ impl = "live" /\ object = "live" /\ CountsSay
      /\ \A u \in Threads \ {t} :
           /\ pc[u] # "decWeak2"
           /\ pc[u] \in {"inc1", "inc2", "inc3"} => strong[u] > 0 /\ pc[u] # "inc3"
  <2>1. object = "live"
    BY <1>1, <1>2, ActorKnows DEF ObjectIsKept
  <2> QED
    BY <1>2, <2>1, ActorKnows, ActorSees
<1>5. object' = "deleted" /\ impl' = "live" /\ fault' \in BOOLEAN /\ NoFault'
  <2>1. ~FreesImpl
    BY <1>3, <1>4 DEF FreesImpl, CountsSay
  <2>2. fault' = (fault \/ object = "deleted" \/ impl = "freed") /\ fault = FALSE
    BY <1>1 DEF DeleteObject, Domains, NoFault
  <2>3. fault' = FALSE
    BY <1>4, <2>2
  <2> QED
    BY <1>1, <1>4, <2>1, <2>3 DEF DeleteObject, NoFault
<1>6. Moves(t, "decWeak1", strong[t], weak[t])
  BY <1>1, <1>2, ActorSees DEF Moves
<1>7. Counts(t, "decWeak1", strong[t], weak[t], 0, 0)
  BY <1>1, <1>2, ActorSees DEF Counts, One, TakenStrong, TakenWeak, CountsSay
<1>8. strong[t] \in Nat /\ weak[t] \in Nat /\ "decWeak1" \in PCs
  BY <1>2, ActorSees DEF PCs
<1>9. /\ strong' \in [Threads -> 0 .. MaxHeld] /\ weak' \in [Threads -> 0 .. MaxHeld]
      /\ pc' \in [Threads -> PCs] /\ pc'[t] = "decWeak1"
      /\ \A u \in Threads \ {t} : pc'[u] = pc[u] /\ strong'[u] = strong[u] /\ weak'[u] = weak[u]
      /\ \A u \in Threads :
           pc'[u] \notin {"idle", "dec2", "decWeak1", "decWeak2"} => strong'[u] < MaxHeld
  BY <1>6, <1>8, Moved
<1>10. UNCHANGED <<weakLifetime, firstRefs, mStrong, mWeak, raw, cur>>
  BY <1>1 DEF kind
<1>11. Domains'
  BY <1>5, <1>9, <1>10 DEF Domains
<1>12. CountsAreTaken'
  BY <1>6, <1>7, <1>8, <1>11, CountsFollow
<1>13. Unbiased' /\ Promoting'
  BY <1>1, <1>9, <1>10 DEF Unbiased, Promoting
<1>14. FirstIsAlone'
  BY <1>4, <1>9, <1>10 DEF FirstIsAlone
<1>15. LastStrong'
  BY <1>3, <1>9, <1>10 DEF LastStrong
<1>16. LastOfAll'
  <2>1. mWeak' > 0
    BY <1>1, <1>4 DEF CountsSay, TakenWeak
  <2> QED
    BY <1>4, <1>5, <1>9, <1>10, <2>1 DEF LastOfAll
<1>17. ObjectIsKept'
  BY <1>3, <1>5, <1>9, <1>10 DEF ObjectIsKept
<1> QED
  BY <1>5, <1>11, <1>12, <1>13, <1>14, <1>15, <1>16, <1>17

(* The last reference of all: nobody else has one, or can get one.         *)
LEMMA LastWeakDropped ==
  ASSUME Bounded, IInv, NEW t \in Threads, DecWeak1(t), mWeak = 1
  PROVE  IInv'
<1> USE DEF IInv
<1>1. /\ pc[t] = "decWeak1" /\ mWeak' = 0 /\ mWeak' = mWeak - 1 /\ Use({"impl"})
      /\ pc' = [pc EXCEPT ![t] = "decWeak2"]
      /\ UNCHANGED <<kind, mStrong, memory, strong, weak, raw, cur>>
  BY DEF DecWeak1, handles, Goto, Last
<1>2. ~Nothing(t)
  BY <1>1 DEF Nothing
<1>3. fault' \in BOOLEAN /\ NoFault'
  BY <1>1, <1>2, ActorSees, UsedIsThere DEF NoFault
<1>4. Moves(t, "decWeak2", strong[t], weak[t])
  BY <1>1, <1>2, ActorSees DEF Moves
<1>5. Counts(t, "decWeak2", strong[t], weak[t], 0, -1)
  BY <1>1, <1>2, ActorSees DEF Counts, One, TakenStrong, TakenWeak, CountsSay
<1>6. strong[t] \in Nat /\ weak[t] \in Nat /\ "decWeak2" \in PCs
  BY <1>2, ActorSees DEF PCs
<1>7. /\ strong' \in [Threads -> 0 .. MaxHeld] /\ weak' \in [Threads -> 0 .. MaxHeld]
      /\ pc' \in [Threads -> PCs] /\ pc'[t] = "decWeak2"
      /\ \A u \in Threads \ {t} : pc'[u] = pc[u] /\ strong'[u] = strong[u] /\ weak'[u] = weak[u]
      /\ \A u \in Threads :
           pc'[u] \notin {"idle", "dec2", "decWeak1", "decWeak2"} => strong'[u] < MaxHeld
  BY <1>4, <1>6, Moved
<1>8. UNCHANGED <<weakLifetime, firstRefs, mStrong, object, impl, raw, cur>>
  BY <1>1 DEF kind, memory
<1>9. Domains'
  BY <1>1, <1>3, <1>7, <1>8 DEF Domains
<1>10. CountsAreTaken'
  BY <1>4, <1>5, <1>6, <1>9, CountsFollow
<1>11. CountsSay'
  <2>1. Bounded'
    BY DEF Bounded
  <2> QED
    BY <1>9, <1>10, <2>1, CountFacts, PTL
<1>12. /\ raw = {} /\ impl = "live"
       /\ \A u \in Threads \ {t} :
            /\ pc[u] # "decWeak2"
            /\ pc[u] \in {"inc1", "inc2", "inc3"} => strong[u] > 0 /\ pc[u] # "inc3"
  BY <1>2, ActorKnows
<1>13. \A u \in Threads : strong'[u] = 0 /\ weak'[u] = 0 /\ pc'[u] \notin TakenWeak
  <2> SUFFICES ASSUME NEW u \in Threads
               PROVE  strong'[u] = 0 /\ weak'[u] = 0 /\ pc'[u] \notin TakenWeak
    OBVIOUS
  <2>1. strong'[u] \in Nat /\ weak'[u] \in Nat
    BY <1>7
  <2> QED
    BY <1>1, <1>11, <2>1 DEF CountsSay
<1>14. \A u \in Threads \ {t} : pc'[u] = "idle"
  <2> SUFFICES ASSUME NEW u \in Threads \ {t} PROVE pc[u] = "idle"
    BY <1>7
  <2>1. strong[u] = 0 /\ weak[u] = 0 /\ pc[u] \notin TakenWeak
    BY <1>7, <1>13
  <2>2. pc[u] \in PCs
    BY DEF Domains
  <2>3. pc[u] # "try1"
    BY <2>1 DEF Promoting
  <2>4. pc[u] \notin {"inc1", "decWeak2"}
    BY <1>12, <2>1
  <2> QED
    BY <2>1, <2>2, <2>3, <2>4 DEF PCs, TakenWeak, TakenStrong
<1>15. Unbiased'
  BY <1>7, <1>13, <1>14 DEF Unbiased
<1>16. Promoting' /\ FirstIsAlone' /\ LastStrong'
  BY <1>7, <1>8, <1>12, <1>14 DEF Promoting, FirstIsAlone, LastStrong
<1>17. LastOfAll'
  <2>1. \A u \in Threads \ {t} : Nothing(u)'
    BY <1>13, <1>14 DEF Nothing
  <2> QED
    BY <1>7, <1>8, <1>12, <1>13, <1>14, <2>1 DEF LastOfAll, Alone
<1>18. ObjectIsKept'
  <2>1. \A u \in Threads : pc'[u] = "dec2" <=> pc[u] = "dec2"
    BY <1>1, <1>7
  <2> QED
    BY <1>8, <2>1 DEF ObjectIsKept
<1> QED
  BY <1>3, <1>9, <1>10, <1>15, <1>16, <1>17, <1>18

LEMMA AllFreed ==
  ASSUME Bounded, IInv, NEW t \in Threads, DecWeak2(t)
  PROVE  IInv'
<1> USE DEF IInv
<1>1. /\ pc[t] = "decWeak2" /\ pc' = [pc EXCEPT ![t] = "idle"]
      /\ IF weakLifetime \/ mStrong = InitialStrong THEN DeleteObject ELSE FreeImpl
      /\ UNCHANGED <<kind, mStrong, mWeak, strong, weak, raw, cur>>
  BY DEF DecWeak2, handles, Goto
<1>2. ~Nothing(t)
  BY <1>1 DEF Nothing
<1>3. /\ raw = {} /\ strong[t] = 0 /\ weak[t] = 0
      /\ \A u \in Threads \ {t} : pc[u] = "idle" /\ strong[u] = 0 /\ weak[u] = 0
  BY <1>1 DEF LastOfAll, Alone, Nothing
<1>4. impl = "live" /\ CountsSay /\ MaxHeld \in Nat
  BY <1>2, ActorSees
<1>5. mStrong \in {0, InitialStrong} /\ InitialStrong \in Nat \ {0}
  BY <1>1, <1>3, <1>4 DEF CountsSay, TakenStrong
<1>6. /\ object' = "deleted" /\ impl' = "freed" /\ fault' \in BOOLEAN /\ NoFault'
  <2>1. fault = FALSE
    BY DEF Domains, NoFault
  <2>2. CASE weakLifetime \/ mStrong = InitialStrong
    <3>1. DeleteObject /\ object = "live"
      BY <1>1, <1>4, <1>5, <2>2 DEF ObjectIsKept
    <3>2. FreesImpl
      <4>1. mWeak = 0
        <5>1. mWeak = Held(CountedWeak)
          BY DEF CountsAreTaken
        <5>2. \A u \in Threads : CountedWeak[u] = 0
          BY <1>1, <1>3 DEF CountedWeak, One, TakenWeak, TakenStrong
        <5>3. CountedWeak \in [Threads -> 0 .. 2 * MaxHeld + 1] /\ 2 * MaxHeld + 1 \in Nat
          BY <1>4, CountedTypes DEF CountTypes
        <5> QED
          BY <5>1, <5>2, <5>3, SumIsZero
      <4> QED
        BY <2>2, <4>1 DEF FreesImpl
    <3>3. fault' = (fault \/ object = "deleted" \/ impl = "freed")
      BY <3>1 DEF DeleteObject
    <3>4. fault' = FALSE
      BY <1>4, <2>1, <3>1, <3>3
    <3> QED
      BY <3>1, <3>2, <3>4 DEF DeleteObject, NoFault
  <2>3. CASE ~(weakLifetime \/ mStrong = InitialStrong)
    <3>1. FreeImpl
      BY <1>1, <2>3
    <3>2. \A u \in Threads : pc[u] # "dec2"
      BY <1>1, <1>3
    <3>3. object # "live"
      BY <1>5, <2>3, <3>2 DEF ObjectIsKept
    <3>4. object = "deleted"
      BY <3>3 DEF Domains
    <3>5. fault' = (fault \/ impl = "freed")
      BY <3>1 DEF FreeImpl
    <3>6. fault' = FALSE
      BY <1>4, <2>1, <3>5
    <3> QED
      BY <3>1, <3>4, <3>6 DEF FreeImpl, NoFault
  <2> QED
    BY <2>2, <2>3
<1>7. Moves(t, "idle", strong[t], weak[t])
  BY <1>1, <1>2, ActorSees DEF Moves
<1>8. Counts(t, "idle", strong[t], weak[t], 0, 0)
  BY <1>1, <1>2, ActorSees DEF Counts, One, TakenStrong, TakenWeak, CountsSay
<1>9. strong[t] \in Nat /\ weak[t] \in Nat /\ "idle" \in PCs
  BY <1>2, ActorSees DEF PCs
<1>10. /\ strong' \in [Threads -> 0 .. MaxHeld] /\ weak' \in [Threads -> 0 .. MaxHeld]
       /\ pc' \in [Threads -> PCs] /\ pc'[t] = "idle"
       /\ \A u \in Threads \ {t} : pc'[u] = pc[u] /\ strong'[u] = strong[u] /\ weak'[u] = weak[u]
       /\ \A u \in Threads :
            pc'[u] \notin {"idle", "dec2", "decWeak1", "decWeak2"} => strong'[u] < MaxHeld
  BY <1>7, <1>9, Moved
<1>11. UNCHANGED <<weakLifetime, firstRefs, mStrong, mWeak, raw, cur, strong, weak>>
  BY <1>1 DEF kind
<1>12. Domains'
  BY <1>6, <1>10, <1>11 DEF Domains
<1>13. CountsAreTaken'
  BY <1>7, <1>8, <1>9, <1>12, CountsFollow
<1>14. \A u \in Threads : pc'[u] = "idle" /\ strong'[u] = 0 /\ weak'[u] = 0
  BY <1>3, <1>10, <1>11
<1>15. Unbiased' /\ Promoting' /\ FirstIsAlone' /\ LastStrong'
  BY <1>3, <1>11, <1>14 DEF Unbiased, Promoting, FirstIsAlone, LastStrong
<1>16. LastOfAll' /\ ObjectIsKept'
  BY <1>3, <1>6, <1>11, <1>14 DEF LastOfAll, ObjectIsKept, Nothing
<1> QED
  BY <1>6, <1>12, <1>13, <1>15, <1>16

(* A reference passed on is the same reference.                            *)
MovedFrom(t, u, f, g) ==
  /\ g[t] = f[t] - 1 /\ g[u] = f[u] + 1
  /\ \A v \in Threads : v # t /\ v # u => g[v] = f[v]

LEMMA SumIsMoved ==
  ASSUME Bounded, NEW k \in Nat, NEW f \in [Threads -> 0 .. k], NEW g \in [Threads -> 0 .. k],
         NEW t \in Threads, NEW u \in Threads, t # u, MovedFrom(t, u, f, g)
  PROVE  Held(g) = Held(f)
<1> DEFINE m == [f EXCEPT ![t] = g[t]]
<1>1. /\ m \in [Threads -> 0 .. k] /\ m[t] = f[t] - 1
      /\ \A v \in Threads \ {t} : m[v] = f[v]
  BY DEF MovedFrom
<1>2. g[u] = m[u] + 1 /\ \A v \in Threads \ {u} : g[v] = m[v]
  BY <1>1 DEF MovedFrom
<1> HIDE DEF m
<1>3. f[t] = m[t] + 1
  BY <1>1
<1>4. Held(f) = Held(m) + 1
  BY <1>1, <1>3, OneMore
<1>5. Held(g) = Held(m) + 1
  BY <1>1, <1>2, OneMore
<1> QED
  BY <1>4, <1>5

LEMMA HandOverStep ==
  ASSUME Bounded, IInv, NEW t \in Threads, NEW u \in Threads, HandOver(t, u)
  PROVE  IInv'
<1> USE DEF IInv
<1>1. /\ pc[t] = "idle" /\ pc[u] = "idle" /\ t # u
      /\ UNCHANGED <<kind, mStrong, mWeak, memory, raw, pc, cur, fault>>
  BY DEF HandOver
<1>2. strong \in [Threads -> 0 .. MaxHeld] /\ weak \in [Threads -> 0 .. MaxHeld] /\ MaxHeld \in Nat
  BY DEF Domains, Bounded
<1>3. /\ strong[t] > 0 \/ weak[t] > 0
      /\ strong' \in [Threads -> 0 .. MaxHeld] /\ weak' \in [Threads -> 0 .. MaxHeld]
      /\ \A v \in Threads \ {t, u} : strong'[v] = strong[v] /\ weak'[v] = weak[v]
      /\ \A v \in Threads : strong'[v] > 0 => \E x \in Threads : strong[x] > 0
      /\ \/ strong'[t] = strong[t] - 1 /\ strong'[u] = strong[u] + 1 /\ weak' = weak
         \/ weak'[t] = weak[t] - 1 /\ weak'[u] = weak[u] + 1 /\ strong' = strong
  <2>1. CASE /\ strong[t] > 0 /\ strong[u] < MaxHeld
             /\ strong' = Gain(Lose(strong, t), u) /\ UNCHANGED weak
    <3> DEFINE m == [strong EXCEPT ![t] = @ - 1]
    <3>1. /\ m \in [Threads -> 0 .. MaxHeld] /\ m[t] = strong[t] - 1
          /\ \A v \in Threads \ {t} : m[v] = strong[v]
      BY <1>2, <2>1
    <3>2. strong' = [m EXCEPT ![u] = m[u] + 1]
      BY <2>1 DEF Gain, Lose
    <3> HIDE DEF m
    <3>3. /\ strong' \in [Threads -> 0 .. MaxHeld] /\ strong'[u] = m[u] + 1
          /\ \A v \in Threads \ {u} : strong'[v] = m[v]
      <4>1. m[u] + 1 \in 0 .. MaxHeld
        BY <1>1, <1>2, <2>1, <3>1
      <4> QED
        BY <3>1, <3>2, <4>1
    <3> QED
      BY <1>1, <1>2, <2>1, <3>1, <3>3
  <2>2. CASE /\ weak[t] > 0 /\ weak[u] < MaxHeld
             /\ weak' = Gain(Lose(weak, t), u) /\ UNCHANGED strong
    <3> DEFINE m == [weak EXCEPT ![t] = @ - 1]
    <3>1. /\ m \in [Threads -> 0 .. MaxHeld] /\ m[t] = weak[t] - 1
          /\ \A v \in Threads \ {t} : m[v] = weak[v]
      BY <1>2, <2>2
    <3>2. weak' = [m EXCEPT ![u] = m[u] + 1]
      BY <2>2 DEF Gain, Lose
    <3> HIDE DEF m
    <3>3. /\ weak' \in [Threads -> 0 .. MaxHeld] /\ weak'[u] = m[u] + 1
          /\ \A v \in Threads \ {u} : weak'[v] = m[v]
      <4>1. m[u] + 1 \in 0 .. MaxHeld
        BY <1>1, <1>2, <2>2, <3>1
      <4> QED
        BY <3>1, <3>2, <4>1
    <3> QED
      BY <1>1, <1>2, <2>2, <3>1, <3>3
  <2> QED
    BY <2>1, <2>2 DEF HandOver
<1>4. ~Nothing(t)
  BY <1>3 DEF Nothing
<1>5. /\ raw = {} /\ impl = "live"
      /\ \A v \in Threads \ {t} :
           /\ pc[v] # "decWeak2"
           /\ pc[v] \in {"inc1", "inc2", "inc3"} => strong[v] > 0 /\ pc[v] # "inc3"
  BY <1>4, ActorKnows
<1>6. UNCHANGED <<weakLifetime, firstRefs, mStrong, mWeak, object, impl, raw, pc, cur, fault>>
  BY <1>1 DEF kind, memory
<1>7. Domains'
  <2>1. \A v \in Threads :
          pc[v] \notin {"idle", "dec2", "decWeak1", "decWeak2"} => strong'[v] < MaxHeld
    BY <1>1, <1>3 DEF Domains
  <2> QED
    BY <1>3, <1>6, <2>1 DEF Domains
<1>8. CountsAreTaken'
  <2>1. /\ CountedStrong \in [Threads -> 0 .. MaxHeld] /\ MaxHeld \in Nat
        /\ CountedWeak \in [Threads -> 0 .. 2 * MaxHeld + 1] /\ 2 * MaxHeld + 1 \in Nat
    BY <1>2, CountedTypes DEF CountTypes
  <2>2. /\ CountedStrong' \in [Threads -> 0 .. MaxHeld]
        /\ CountedWeak' \in [Threads -> 0 .. 2 * MaxHeld + 1]
    <3>1. Bounded'
      BY DEF Bounded
    <3>2. CountTypes'
      BY <1>7, <3>1, CountedTypes, PTL
    <3> QED
      BY <3>2 DEF CountTypes
  <2>3. \A v \in Threads \ {t, u} :
          CountedStrong'[v] = CountedStrong[v] /\ CountedWeak'[v] = CountedWeak[v]
    BY <1>3, <1>6 DEF CountedStrong, CountedWeak
  <2>4. /\ CountedStrong[t] = strong[t] /\ CountedStrong[u] = strong[u]
        /\ CountedStrong'[t] = strong'[t] /\ CountedStrong'[u] = strong'[u]
        /\ CountedWeak[t] = strong[t] + weak[t] /\ CountedWeak[u] = strong[u] + weak[u]
        /\ CountedWeak'[t] = strong'[t] + weak'[t] /\ CountedWeak'[u] = strong'[u] + weak'[u]
    BY <1>1, <1>2, <1>3, <1>6 DEF CountedStrong, CountedWeak, One, TakenStrong, TakenWeak
  <2>5. CountedWeak'[t] = CountedWeak[t] - 1 /\ CountedWeak'[u] = CountedWeak[u] + 1
    BY <1>2, <1>3, <2>4
  <2>6. Held(CountedWeak') = Held(CountedWeak)
    <3>1. MovedFrom(t, u, CountedWeak, CountedWeak')
      BY <2>3, <2>5 DEF MovedFrom
    <3>2. \A f, g \in [Threads -> 0 .. 2 * MaxHeld + 1] : MovedFrom(t, u, f, g) => Held(g) = Held(f)
      BY <1>1, <2>1, SumIsMoved
    <3> QED
      BY <2>1, <2>2, <3>1, <3>2
  <2>7. Held(CountedStrong') = Held(CountedStrong)
    <3>1. CASE strong' = strong
      <4>1. CountedStrong' = CountedStrong
        BY <1>6, <3>1 DEF CountedStrong
      <4> QED
        BY <4>1
    <3>2. CASE strong'[t] = strong[t] - 1 /\ strong'[u] = strong[u] + 1
      <4>1. MovedFrom(t, u, CountedStrong, CountedStrong')
        BY <2>3, <2>4, <3>2 DEF MovedFrom
      <4> QED
        BY <1>1, <2>1, <2>2, <4>1, SumIsMoved
    <3> QED
      BY <1>3, <3>1, <3>2
  <2>8. Held(CountedStrong)' = Held(CountedStrong') /\ Held(CountedWeak)' = Held(CountedWeak')
    BY DEF Held, Refs
  <2> QED
    BY <1>6, <2>6, <2>7, <2>8 DEF CountsAreTaken
<1>9. Unbiased'
  BY <1>3, <1>6 DEF Unbiased
<1>10. Promoting'
  <2>1. \A v \in Threads : pc[v] # "idle" => weak'[v] = weak[v]
    BY <1>1, <1>3
  <2> QED
    BY <1>6, <2>1 DEF Promoting
<1>11. FirstIsAlone'
  <2>1. \A v \in Threads : pc[v] # "idle" => strong'[v] = strong[v] /\ v # t
    BY <1>1, <1>3
  <2> QED
    BY <1>5, <1>6, <2>1 DEF FirstIsAlone
<1>12. LastStrong' /\ ObjectIsKept'
  BY <1>6 DEF LastStrong, ObjectIsKept
<1>13. LastOfAll'
  BY <1>1, <1>5, <1>6 DEF LastOfAll
<1>14. NoFault'
  BY <1>6 DEF NoFault
<1> QED
  BY <1>7, <1>8, <1>9, <1>10, <1>11, <1>12, <1>13, <1>14
----------------------------------------------------------------------------
(* References, as the constants of the code bound them.                    *)
Sane == Bounded /\ OneFirst

LEMMA InvInit == Sane /\ Init => IInv
<1> SUFFICES ASSUME Sane, Init PROVE IInv
  OBVIOUS
<1> USE DEF Sane
<1>1. /\ MaxHeld \in Nat /\ InitialStrong \in Nat
      /\ \A t \in Threads : strong[t] = 0 /\ weak[t] = 0 /\ pc[t] = "idle" /\ Nothing(t)
  BY DEF Init, Bounded, Nothing
<1>2. Domains
  <2>1. firstRefs \in {{"strong"}, {"weak"}} /\ weakLifetime \in BOOLEAN
    BY DEF Init, OneFirst
  <2>2. strong \in [Threads -> 0 .. MaxHeld] /\ weak \in [Threads -> 0 .. MaxHeld]
    BY <1>1 DEF Init
  <2>3. pc \in [Threads -> PCs] /\ cur \in [Threads -> Int]
    BY DEF Init, PCs
  <2> QED
    <3>1. \A t \in Threads :
            pc[t] \notin {"idle", "dec2", "decWeak1", "decWeak2"} => strong[t] < MaxHeld
      BY <1>1
    <3>2. /\ mStrong \in Int /\ mWeak \in Int /\ raw \subseteq {Creator}
          /\ object \in {"live", "deleted"} /\ impl \in {"live", "freed"}
      BY <1>1 DEF Init
    <3>3. fault = FALSE
      BY DEF Init
    <3> QED
      BY <2>1, <2>2, <2>3, <3>1, <3>2, <3>3 DEF Domains
<1>3. /\ CountedStrong \in [Threads -> 0 .. MaxHeld]
      /\ CountedWeak \in [Threads -> 0 .. 2 * MaxHeld + 1] /\ 2 * MaxHeld + 1 \in Nat
      /\ InitialStrong \in Nat \ {0}
  BY <1>1, <1>2, CountedTypes DEF CountTypes
<1>4. \A t \in Threads : CountedStrong[t] = 0 /\ CountedWeak[t] = 0
  BY <1>1 DEF CountedStrong, CountedWeak, One, TakenWeak, TakenStrong
<1>5. Held(CountedStrong) = 0 /\ Held(CountedWeak) = 0
  BY <1>1, <1>3, <1>4, SumIsZero
<1>6. CountsAreTaken
  BY <1>1, <1>5 DEF CountsAreTaken, Init
<1>7. Unbiased /\ Promoting /\ FirstIsAlone /\ LastStrong /\ LastOfAll /\ ObjectIsKept /\ NoFault
  BY <1>1, <1>3
    DEF Init, Unbiased, Promoting, FirstIsAlone, LastStrong, LastOfAll, ObjectIsKept, NoFault
<1> QED
  BY <1>2, <1>6, <1>7 DEF IInv

LEMMA InvStep == Sane /\ IInv /\ [Next]_vars => IInv'
<1> SUFFICES ASSUME Bounded, IInv, [Next]_vars PROVE IInv'
  BY DEF Sane
<1>1. CASE UNCHANGED vars
  <2>1. UNCHANGED <<weakLifetime, firstRefs, mStrong, mWeak, object, impl, strong, weak, raw,
                    pc, cur, fault>>
    BY <1>1 DEF vars, kind
  <2>2. UNCHANGED <<CountedStrong, CountedWeak>>
    BY <2>1 DEF CountedStrong, CountedWeak
  <2>3. CountsAreTaken'
    BY <2>1, <2>2 DEF IInv, CountsAreTaken, Held, Refs
  <2>4. Domains' /\ Unbiased' /\ Promoting' /\ NoFault'
    BY <2>1 DEF IInv, Domains, Unbiased, Promoting, NoFault
  <2>5. FirstIsAlone' /\ LastStrong' /\ LastOfAll' /\ ObjectIsKept'
    BY <2>1 DEF IInv, FirstIsAlone, LastStrong, LastOfAll, ObjectIsKept, Nothing, Alone
  <2> QED
    BY <2>3, <2>4, <2>5 DEF IInv
<1>2. ASSUME NEW t \in Threads, Step(t) PROVE IInv'
  <2>0. strong[t] \in Nat
    BY DEF IInv, Domains
  <2>1. CASE IncStrong1(t)
    BY <2>0, <2>1, IncStrong1Step, FirstIncStep
  <2>2. CASE IncStrong2(t)
    BY <2>0, <2>2, IncStrong2Step, FirstIncStep
  <2>3. CASE IncStrong3(t)
    BY <2>3, FirstIncStep DEF IncStrong3, IInv, FirstIsAlone
  <2>4. CASE DecStrong1(t)
    BY <2>4, DecStrong1Step, LastStrongDropped
  <2>5. CASE DecStrong2(t)
    BY <2>5, DecStrong2Step, ObjectDeleted
  <2>6. CASE DecWeak1(t)
    BY <2>6, DecWeak1Step, LastWeakDropped
  <2> QED
    BY <1>2, <2>1, <2>2, <2>3, <2>4, <2>5, <2>6, AllFreed, Try1Step, Try2Step, Try3Step,
       FirstStep, ReviveStep, LastStrongRefStep, Fix1Step, Fix2Step DEF Step
<1>3. ASSUME NEW t \in Threads, Begin(t) PROVE IInv'
  <2>0. strong[t] \in Nat /\ weak[t] \in Nat
    BY DEF IInv, Domains
  <2>1. CASE CopyStrong(t)
    BY <2>0, <2>1, CopyStrongStep, CopyRawStep
  <2>2. CASE CreateWeak(t)
    BY <2>0, <2>2, CreateWeakStep, CreateFromRawStep
  <2> QED
    BY <1>3, <2>1, <2>2, DropStrongStep, DropWeakStep, PromoteStep, HandOverStep DEF Begin
<1> QED
  BY <1>1, <1>2, <1>3 DEF Next

THEOREM RefInvariant == Sane => (Spec => []IInv)
<1> SUFFICES ASSUME Sane PROVE Spec => []IInv
  OBVIOUS
<1>1. Init => IInv
  BY InvInit
<1>2. IInv /\ [Next]_vars => IInv'
  BY InvStep
<1> QED
  BY <1>1, <1>2, PTL DEF Spec
----------------------------------------------------------------------------
(* Two kinds of references held by the same threads are held together.     *)
LEMMA HeldTogether ==
  ASSUME Bounded, NEW k \in Nat, NEW f \in [Threads -> 0 .. k], NEW g \in [Threads -> 0 .. k],
         NEW h \in [Threads -> Nat], \A t \in Threads : h[t] = f[t] + g[t]
  PROVE  Held(h) = Held(f) + Held(g)
<1> DEFINE after == UNION {{t} \X (f[t] + 1 .. f[t] + g[t]) : t \in Threads}
           shift == [r \in Refs(g) |-> <<r[1], f[r[1]] + r[2]>>]
<1>1. /\ \A r : r \in Refs(f) <=> \E u \in Threads : \E i \in 1 .. f[u] : r = <<u, i>>
      /\ \A r : r \in Refs(g) <=> \E u \in Threads : \E i \in 1 .. g[u] : r = <<u, i>>
      /\ \A r : r \in Refs(h) <=> \E u \in Threads : \E i \in 1 .. h[u] : r = <<u, i>>
  BY DEF Refs
<1>2. \A r : r \in after <=> \E u \in Threads : \E i \in f[u] + 1 .. f[u] + g[u] : r = <<u, i>>
  OBVIOUS
<1>3. \A u \in Threads : f[u] \in Nat /\ g[u] \in Nat
  OBVIOUS
<1>4. Refs(h) = Refs(f) \cup after
  <2>1. \A u \in Threads, i \in Int :
          i \in 1 .. h[u] <=> i \in 1 .. f[u] \/ i \in f[u] + 1 .. f[u] + g[u]
    BY <1>3
  <2> QED
    BY <1>1, <1>2, <2>1
<1>5. Refs(f) \cap after = {}
  <2>1. \A u \in Threads, i \in Int : ~(i \in 1 .. f[u] /\ i \in f[u] + 1 .. f[u] + g[u])
    BY <1>3
  <2> QED
    BY <1>1, <1>2, <2>1
<1>6. shift \in Bijection(Refs(g), after)
  <2>1. ASSUME NEW r \in Refs(g)
        PROVE  /\ r[1] \in Threads /\ r[2] \in 1 .. g[r[1]] /\ r = <<r[1], r[2]>>
               /\ shift[r] \in after /\ shift[r] = <<r[1], f[r[1]] + r[2]>>
    <3>1. PICK u \in Threads, i \in Int : i \in 1 .. g[u] /\ r = <<u, i>>
      BY <1>1
    <3>2. f[u] + i \in f[u] + 1 .. f[u] + g[u]
      BY <1>3, <3>1
    <3>3. shift[r] = <<u, f[u] + i>>
      BY <3>1
    <3> QED
      BY <1>2, <3>1, <3>2, <3>3
  <2>2. \A r, q \in Refs(g) : shift[r] = shift[q] => r = q
    <3> SUFFICES ASSUME NEW r \in Refs(g), NEW q \in Refs(g), shift[r] = shift[q]
                 PROVE  r = q
      OBVIOUS
    <3>1. r[1] = q[1] /\ f[r[1]] + r[2] = f[q[1]] + q[2]
      BY <2>1
    <3>2. f[r[1]] \in Nat /\ r[2] \in Int /\ q[2] \in Int /\ f[q[1]] = f[r[1]]
      BY <1>3, <2>1, <3>1
    <3>3. r[2] = q[2]
      BY <3>1, <3>2
    <3> QED
      BY <2>1, <3>1, <3>3
  <2>3. \A s \in after : \E r \in Refs(g) : shift[r] = s
    <3> SUFFICES ASSUME NEW s \in after PROVE \E r \in Refs(g) : shift[r] = s
      OBVIOUS
    <3>1. PICK u \in Threads, i \in Int : i \in f[u] + 1 .. f[u] + g[u] /\ s = <<u, i>>
      BY <1>2
    <3>2. i - f[u] \in 1 .. g[u] /\ f[u] + (i - f[u]) = i
      BY <1>3, <3>1
    <3>3. <<u, i - f[u]>> \in Refs(g)
      BY <1>1, <3>2
    <3> QED
      BY <3>1, <3>2, <3>3
  <2>4. shift \in [Refs(g) -> after]
    BY <2>1
  <2> QED
    BY <2>2, <2>3, <2>4 DEF Bijection, Injection, Surjection, IsInjective
<1> HIDE DEF after, shift
<1>7. /\ IsFiniteSet(Refs(f)) /\ Cardinality(Refs(f)) \in Nat
      /\ IsFiniteSet(Refs(g)) /\ Cardinality(Refs(g)) \in Nat
  BY HeldIsBounded DEF Held
<1>8. IsFiniteSet(after) /\ Cardinality(after) = Cardinality(Refs(g))
  <2>1. ExistsBijection(Refs(g), after)
    BY <1>6 DEF ExistsBijection
  <2> QED
    BY <1>7, <2>1, FS_Bijection
<1>9. Cardinality(Refs(f) \cup after)
        = Cardinality(Refs(f)) + Cardinality(after) - Cardinality(Refs(f) \cap after)
  BY <1>7, <1>8, FS_Union
<1>10. Cardinality(Refs(f) \cap after) = 0
  BY <1>5, FS_EmptySet
<1> QED
  BY <1>4, <1>7, <1>8, <1>9, <1>10 DEF Held

LEMMA InvariantIsRight == Sane /\ IInv => ReferencesAreRight
<1> SUFFICES ASSUME Bounded, IInv PROVE ReferencesAreRight
  BY DEF Sane
<1> USE DEF IInv
<1>1. /\ CountedStrong \in [Threads -> 0 .. MaxHeld] /\ MaxHeld \in Nat
      /\ CountedWeak \in [Threads -> 0 .. 2 * MaxHeld + 1] /\ 2 * MaxHeld + 1 \in Nat
      /\ Held(CountedStrong) \in Nat /\ Held(CountedStrong) < InitialStrong
      /\ Held(CountedWeak) \in Nat /\ InitialStrong \in Nat \ {0}
      /\ strong \in [Threads -> 0 .. MaxHeld] /\ weak \in [Threads -> 0 .. MaxHeld]
  BY CountedTypes DEF CountTypes, Bounded, Domains
<1>2. /\ mStrong \in {Held(CountedStrong), Held(CountedStrong) + InitialStrong}
      /\ mWeak = Held(CountedWeak)
  BY DEF CountsAreTaken
<1>3. HeldIsAlive
  <2> SUFFICES ASSUME NEW t \in Threads
               PROVE  /\ strong[t] > 0 => object = "live"
                      /\ weak[t] > 0 => impl = "live"
    BY DEF HeldIsAlive
  <2>1. strong[t] > 0 \/ weak[t] > 0 => impl = "live"
    BY <1>1 DEF LastOfAll, Nothing, Domains
  <2>2. ASSUME strong[t] > 0 PROVE object = "live"
    <3>1. CountedStrong[t] # 0
      BY <1>1, <2>2 DEF CountedStrong, One
    <3>2. Held(CountedStrong) # 0
      BY <1>1, <3>1, SumIsZero
    <3>3. mStrong > 0
      BY <1>1, <1>2, <3>2
    <3> QED
      BY <2>1, <2>2, <3>3 DEF ObjectIsKept
  <2> QED
    BY <2>1, <2>2
<1>4. ASSUME Quiet
      PROVE  /\ Held(CountedStrong) = Held(strong)
             /\ Held(CountedWeak) = Held(strong) + Held(weak)
  <2>1. \A t \in Threads : pc[t] = "idle"
    BY <1>4 DEF Quiet
  <2>2. CountedStrong = strong
    <3>1. \A t \in Threads : CountedStrong[t] = strong[t]
      BY <1>1, <2>1 DEF CountedStrong, TakenStrong, One
    <3> QED
      BY <1>1, <3>1
  <2>3. \A t \in Threads : CountedWeak[t] = strong[t] + weak[t]
    BY <1>1, <2>1 DEF CountedWeak, TakenWeak, TakenStrong, One
  <2>4. CountedWeak \in [Threads -> Nat]
    BY <1>1
  <2>5. Held(CountedWeak) = Held(strong) + Held(weak)
    <3>1. \A h \in [Threads -> Nat] :
             (\A t \in Threads : h[t] = strong[t] + weak[t]) => Held(h) = Held(strong) + Held(weak)
      BY <1>1, HeldTogether
    <3> QED
      BY <2>3, <2>4, <3>1
  <2> QED
    BY <2>2, <2>5
<1>5. CountsAgree
  <2> SUFFICES ASSUME Quiet
               PROVE  /\ mStrong \in {Held(strong), InitialStrong}
                      /\ mStrong = InitialStrong => Held(strong) = 0
                      /\ mWeak = Held(strong) + Held(weak)
    BY DEF CountsAgree
  <2>1. CASE mStrong = Held(CountedStrong)
    BY <1>1, <1>2, <1>4, <2>1
  <2>2. CASE mStrong = Held(CountedStrong) + InitialStrong
    <3>1. \A t \in Threads : strong[t] = 0
      <4>1. ~(mStrong < InitialStrong)
        BY <1>1, <2>2
      <4> QED
        BY <1>1, <4>1 DEF Unbiased
    <3>2. Held(strong) = 0
      BY <1>1, <3>1, SumIsZero
    <3> QED
      BY <1>1, <1>2, <1>4, <2>2, <3>2
  <2> QED
    BY <1>2, <2>1, <2>2
<1>6. NoLeak
  <2> SUFFICES ASSUME Quiet, Started, Held(strong) = 0
               PROVE  /\ ~weakLifetime /\ mStrong # InitialStrong => object = "deleted"
                      /\ Held(weak) = 0 => object = "deleted" /\ impl = "freed"
    BY DEF NoLeak
  <2>1. raw = {} /\ \A t \in Threads : pc[t] = "idle"
    BY DEF Quiet, Started, Domains
  <2>2. object # "live" => object = "deleted"
    BY DEF Domains
  <2>3. ASSUME ~weakLifetime, mStrong # InitialStrong PROVE object = "deleted"
    <3>1. mStrong = 0
      BY <1>1, <1>2, <1>4, <2>3
    <3> QED
      BY <2>1, <2>2, <2>3, <3>1 DEF ObjectIsKept
  <2>4. ASSUME Held(weak) = 0 PROVE object = "deleted" /\ impl = "freed"
    <3>1. mWeak = 0
      BY <1>2, <1>4, <2>4
    <3>2. impl # "live"
      BY <2>1, <3>1 DEF LastOfAll
    <3> QED
      BY <2>2, <3>2 DEF ObjectIsKept, Domains
  <2> QED
    BY <2>3, <2>4
<1> QED
  BY <1>3, <1>5, <1>6 DEF ReferencesAreRight

(* Whatever the threads do with their references, strong and weak, and     *)
(* however their operations interleave, the counts of RefBase are the      *)
(* references held, an object or its counts are never used or freed after  *)
(* they are gone, a strong reference keeps the object and a weak one the   *)
(* counts, and the last one to go leaves nothing behind.                   *)
THEOREM ReferencesStayRight == Sane => (Spec => []ReferencesAreRight)
<1> SUFFICES ASSUME Sane PROVE Spec => []ReferencesAreRight
  OBVIOUS
<1>1. IInv => ReferencesAreRight
  BY InvariantIsRight
<1>2. Spec => []IInv
  BY RefInvariant
<1> QED
  BY <1>1, <1>2, PTL

=============================================================================
