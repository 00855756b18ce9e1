--------------------------- MODULE LibraryProofs ---------------------------
(***************************************************************************)
(* Proofs about shared storage.  Of VectorImpl, for any threads, vectors,  *)
(* buffers, items and bounds: copy on write never changes a buffer that    *)
(* someone else holds, no buffer is freed too early or never, no vector    *)
(* counts more than its buffer has room for, and every vector is the       *)
(* sequence that Vectors promises.  Of the parts of MCLibrary: what        *)
(* RefBaseProofs and MediaBufferGroupProofs prove of RefBase and           *)
(* MediaBufferGroup holds of its object and its pool.                      *)
(***************************************************************************)
EXTENDS MCLibrary, FiniteSetTheorems, SequenceTheorems, TLAPS

All == Vecs \cup Threads

LEMMA AllFinite == IsFiniteSet(All)
  BY VectorAssumption, FS_Union DEF VectorAssumption, All

LEMMA HoldersFinite == \A b : IsFiniteSet(Holders(b))
<1> TAKE b
<1> QED
  BY AllFinite, FS_Subset DEF Holders, All

(* The operations are always functions of the threads whose records can be *)
(* updated.                                                                *)
LEMMA OpGoes ==
  ASSUME TypeOK, NEW t \in Threads, NEW label, op[t].pc # "idle", Goto(t, label)
  PROVE  /\ op'[t].pc = label /\ op'[t].kind = op[t].kind /\ op'[t].v = op[t].v
         /\ op'[t].w = op[t].w /\ op'[t].sole = op[t].sole /\ op'[t].old = op[t].old
         /\ DOMAIN op'[t] = Fields
         /\ \A u \in Threads : u # t => op'[u] = op[u]
         /\ op' = [u \in Threads |-> op'[u]]
  BY DEF TypeOK, Goto, Fields

LEMMA InvInit == Init => IInv
<1> SUFFICES ASSUME Init PROVE IInv
  OBVIOUS
<1>1. PICK given \in Beginnings, b \in SharedBuffers :
        /\ hold = [h \in All |-> IF h \in given.sharers THEN b ELSE None]
        /\ mRefs = [c \in SharedBuffers |-> IF c \in (IF given.sharers = {} THEN {} ELSE {b})
                                        THEN Cardinality(given.sharers) ELSE 0]
        /\ live = IF given.sharers = {} THEN {} ELSE {b}
  BY DEF Init, All
<1>2. given.sharers \subseteq Vecs /\ IsFiniteSet(given.sharers)
  BY VectorAssumption, FS_Subset DEF VectorAssumption
<1>3. Cardinality(given.sharers) \in Nat
  BY <1>2, FS_CardinalityType
<1>4. op = [t \in Threads |-> Idle] /\ \A t \in Threads : op[t].pc = "idle" /\ hold[t] = None
  <2>1. Threads \cap Vecs = {}
    BY VectorAssumption DEF VectorAssumption
  <2> QED
    BY <1>1, <1>2, <2>1 DEF Init, Idle, All
<1>5. TypeOK
  BY <1>1, <1>3, <1>4 DEF TypeOK, All
<1>6. CountsAgree
  <2> SUFFICES ASSUME NEW c \in SharedBuffers
               PROVE  mRefs[c] = Cardinality(Holders(c)) /\ (Holders(c) # {} => c \in live)
    BY DEF CountsAgree
  <2>2. CASE c = b /\ given.sharers # {}
    <3>1. Holders(c) = given.sharers
      BY <1>1, <1>2, <2>2, VectorAssumption DEF Holders, All, VectorAssumption
    <3> QED
      BY <1>1, <2>2, <3>1
  <2>3. CASE ~(c = b /\ given.sharers # {})
    <3>1. Holders(c) = {}
      BY <1>1, <1>2, <2>3, VectorAssumption DEF Holders, All, VectorAssumption
    <3> QED
      BY <1>1, <2>3, <3>1, FS_EmptySet
  <2> QED
    BY <2>2, <2>3
<1> QED
  BY <1>4, <1>5, <1>6 DEF IInv, LocksHeld, Phases, Phase

(* An operation that begins keeps what others are in the middle of.        *)
LEMMA BeginStep ==
  ASSUME IInv, NEW t \in Threads, NEW o, Begin(t, o), hold[t] = None,
         DOMAIN o = Fields, o.v \in Vecs, o.w \in Vecs,
         o.pc \in {"own", "alloc", "sole", "release", "free", "fill", "share"},
         o.kind \in {"edit", "assign", "copy", "finish"}, o.sole = FALSE, o.old = None,
         o.pc \in {"own", "sole"} => hold[o.v] # None,
         o.pc \in {"fill", "share"} => hold[o.v] = None,
         o.pc \notin {"release", "free"},
         o.pc \in {"own", "alloc"} => o.kind = "edit"
  PROVE  IInv'
<1> USE DEF IInv
<1>1. /\ op[t].pc = "idle" /\ op'[t] = o /\ \A u \in Threads : u # t => op'[u] = op[u]
      /\ op' = [u \in Threads |-> op'[u]]
      /\ UNCHANGED <<hold, mRefs, live>>
  BY DEF Begin, TypeOK, buffers
<1>2. TypeOK'
  BY <1>1 DEF TypeOK
<1>3. CountsAgree'
  BY <1>1 DEF CountsAgree, Holders
<1>4. LocksHeld'
  <2>1. \A u \in Threads : u # t /\ op[u].pc # "idle" =>
          o.v # op[u].v /\ o.v # op[u].w /\ op[u].v # o.w
    BY DEF Begin, Unused, Steady
  <2> QED
    BY <1>1, <2>1 DEF LocksHeld
<1>5. Phases'
  BY <1>1 DEF Phases, Phase, Alone, Holders
<1> QED
  BY <1>2, <1>3, <1>4, <1>5

LEMMA IdleHoldsNothing ==
  ASSUME IInv, NEW t \in Threads, op[t].pc = "idle"
  PROVE  hold[t] = None
  BY DEF IInv, Phases, Phase

LEMMA EditStep ==
  ASSUME IInv, NEW t \in Threads, NEW v \in Vecs, NEW w \in Vecs, NEW ready,
         NEW at, NEW n, NEW new, Edit(t, v, w, ready, at, n, new)
  PROVE  IInv'
<1>1. op[t].pc = "idle" /\ hold[t] = None
  BY IdleHoldsNothing DEF Edit, Begin
<1> DEFINE o == [pc |-> CASE ready.way = "alloc" -> "alloc"
                          [] ready.way # "alloc" /\ hold[v] # None -> "own"
                          [] ready.way # "alloc" /\ hold[v] = None -> "fill",
                 kind |-> "edit", v |-> v, w |-> w, way |-> ready.way, cap |-> ready.cap,
                 at |-> at, n |-> n, new |-> new, sole |-> FALSE, old |-> None]
<1>2. Begin(t, o)
  BY DEF Edit
<1>3. /\ o.pc \in {"own", "alloc", "fill"} /\ (o.pc = "own" => hold[v] # None)
      /\ (o.pc = "fill" => hold[v] = None)
  BY DEF Edit
<1>4. /\ DOMAIN o = Fields /\ o.v = v /\ o.w = w /\ o.kind = "edit"
      /\ o.sole = FALSE /\ o.old = None
  BY DEF Fields
<1> HIDE DEF o
<1> QED
  BY <1>1, <1>2, <1>3, <1>4, BeginStep

LEMMA ReplaceStep ==
  ASSUME IInv, NEW t \in Threads, NEW v \in Vecs, NEW w \in Vecs,
         NEW kind \in {"assign", "copy", "finish"}, Replace(t, kind, v, w)
  PROVE  IInv'
<1>1. op[t].pc = "idle" /\ hold[t] = None
  BY IdleHoldsNothing DEF Replace, Begin
<1> DEFINE o == [pc |-> IF hold[v] = None THEN "share" ELSE "sole",
                 kind |-> kind, v |-> v, w |-> w, way |-> "edit", cap |-> 0,
                 at |-> 0, n |-> 0, new |-> <<>>, sole |-> FALSE, old |-> None]
<1>2. Begin(t, o)
  BY DEF Replace
<1>3. /\ o.pc \in {"sole", "share"} /\ (o.pc = "sole" => hold[v] # None)
      /\ (o.pc = "share" => hold[v] = None)
  OBVIOUS
<1>4. /\ DOMAIN o = Fields /\ o.v = v /\ o.w = w /\ o.kind = kind
      /\ o.sole = FALSE /\ o.old = None
  BY DEF Fields
<1> HIDE DEF o
<1> QED
  BY <1>1, <1>2, <1>3, <1>4, BeginStep

LEMMA CallStep ==
  ASSUME IInv, NEW t \in Threads, Call(t)
  PROVE  IInv'
<1>1. CASE \E v \in Plain :
             \/ InsertArrayAt(t, v) \/ InsertVectorAt(t, v) \/ RemoveItemsAt(t, v) \/ Clear(t, v)
             \/ ReplaceAt(t, v) \/ Sort(t, v) \/ SetCapacity(t, v)
  <2> PICK v \in Plain :
             \/ InsertArrayAt(t, v) \/ InsertVectorAt(t, v) \/ RemoveItemsAt(t, v) \/ Clear(t, v)
             \/ ReplaceAt(t, v) \/ Sort(t, v) \/ SetCapacity(t, v)
    BY <1>1
  <2>1. v \in Vecs
    BY DEF Vecs
  <2>2. CASE InsertArrayAt(t, v)
    BY <2>1, <2>2, EditStep DEF InsertArrayAt
  <2>3. CASE InsertVectorAt(t, v)
    BY <2>1, <2>3, EditStep DEF InsertVectorAt
  <2>4. CASE RemoveItemsAt(t, v)
    BY <2>1, <2>4, EditStep DEF RemoveItemsAt
  <2>5. CASE Clear(t, v)
    BY <2>1, <2>5, EditStep DEF Clear
  <2>6. CASE ReplaceAt(t, v)
    BY <2>1, <2>6, EditStep DEF ReplaceAt
  <2>7. CASE Sort(t, v)
    BY <2>1, <2>7, EditStep DEF Sort
  <2>8. CASE SetCapacity(t, v)
    BY <2>1, <2>8, EditStep DEF SetCapacity
  <2> QED
    BY <2>2, <2>3, <2>4, <2>5, <2>6, <2>7, <2>8
<1>2. CASE \E v \in Sorted : SortedAdd(t, v) \/ SortedRemove(t, v) \/ Clear(t, v)
  <2> PICK v \in Sorted : SortedAdd(t, v) \/ SortedRemove(t, v) \/ Clear(t, v)
    BY <1>2
  <2>1. v \in Vecs
    BY DEF Vecs
  <2>2. CASE SortedAdd(t, v)
    <3>1. PICK item \in Items : \E o \in {IndexOrder(Contents(v), item.key)} :
            \/ Edit(t, v, v, Same(v), o.at, 1, <<item>>)
            \/ Edit(t, v, v, Grow(v, o.at, 1), o.at, 0, <<item>>)
      BY <2>2 DEF SortedAdd
    <3> QED
      BY <2>1, <3>1, EditStep
  <2>3. CASE SortedRemove(t, v)
    BY <2>1, <2>3, EditStep DEF SortedRemove
  <2>4. CASE Clear(t, v)
    BY <2>1, <2>4, EditStep DEF Clear
  <2> QED
    BY <2>2, <2>3, <2>4
<1>3. CASE \E v \in Vecs : Assign(t, v) \/ Copy(t, v) \/ Finish(t, v)
  BY <1>3, ReplaceStep DEF Assign, Copy, Finish, Vecs
<1> QED
  BY <1>1, <1>2, <1>3 DEF Call, Vecs

(* The steps that change no count.                                         *)
LEMMA OwnStep ==
  ASSUME IInv, NEW t \in Threads, Own(t)
  PROVE  IInv'
<1> USE DEF IInv
<1> DEFINE b == hold[op[t].v]
<1>1. op[t].pc = "own" /\ op[t].v \in Vecs /\ hold[t] = None /\ b \in SharedBuffers
  BY DEF Own, TypeOK, Phases, Phase
<1>2. UNCHANGED <<hold, mRefs, live>>
  BY DEF Own
<1>3. Goto(t, IF mRefs[b] = 1 THEN "fill" ELSE "alloc")
  BY DEF Own, OnlyOwner
<1>4. /\ op'[t].pc = (IF mRefs[b] = 1 THEN "fill" ELSE "alloc")
      /\ op'[t].kind = op[t].kind /\ op'[t].v = op[t].v
      /\ op'[t].w = op[t].w /\ op'[t].sole = op[t].sole /\ op'[t].old = op[t].old
      /\ DOMAIN op'[t] = Fields
      /\ \A u \in Threads : u # t => op'[u] = op[u]
      /\ op' = [u \in Threads |-> op'[u]]
  BY <1>1, <1>3, OpGoes
<1>5. mRefs[b] = 1 => Alone(b)
  BY <1>1, HoldersFinite, FS_Singleton DEF CountsAgree, Alone
<1>6. TypeOK'
  BY <1>1, <1>2, <1>4 DEF TypeOK
<1>7. CountsAgree'
  BY <1>2 DEF CountsAgree, Holders
<1>8. LocksHeld'
  BY <1>1, <1>4 DEF LocksHeld
<1>9. Phases'
  BY <1>1, <1>2, <1>4, <1>5 DEF Phases, Phase, Alone, Holders
<1> QED
  BY <1>6, <1>7, <1>8, <1>9

LEMMA SoleStep ==
  ASSUME IInv, NEW t \in Threads, Sole(t)
  PROVE  IInv'
<1> USE DEF IInv
<1> DEFINE b == hold[op[t].v]
<1>1. op[t].pc = "sole" /\ op[t].v \in Vecs /\ b \in SharedBuffers
  BY DEF Sole, TypeOK, Phases, Phase
<1>2. UNCHANGED <<hold, mRefs, live>>
  BY DEF Sole, buffers
<1>4. /\ op'[t].pc = "release" /\ op'[t].kind = op[t].kind /\ op'[t].v = op[t].v
      /\ op'[t].w = op[t].w /\ op'[t].sole \in BOOLEAN /\ op'[t].old = op[t].old
      /\ DOMAIN op'[t] = Fields
      /\ \A u \in Threads : u # t => op'[u] = op[u]
      /\ op' = [u \in Threads |-> op'[u]]
  BY <1>1 DEF Sole, OnlyOwner, TypeOK, Fields
<1>5. op'[t].sole => Alone(b)
  <2>1. op'[t].sole => mRefs[b] = 1
    BY <1>1 DEF Sole, OnlyOwner, TypeOK, Fields
  <2> QED
    BY <1>1, <2>1, HoldersFinite, FS_Singleton DEF CountsAgree, Alone
<1>6. TypeOK'
  BY <1>1, <1>2, <1>4 DEF TypeOK
<1>7. CountsAgree'
  BY <1>2 DEF CountsAgree, Holders
<1>8. LocksHeld'
  BY <1>1, <1>4 DEF LocksHeld
<1>9. Phases'
  <2>1. ASSUME NEW u \in Threads, u # t PROVE Phase(u)'
    BY <1>2, <1>4, <2>1 DEF Phases, Phase, Alone, Holders
  <2>2. Phase(t)'
    BY <1>1, <1>2, <1>4, <1>5 DEF Phases, Phase, Alone, Holders
  <2> QED
    BY <2>1, <2>2 DEF Phases
<1> QED
  BY <1>6, <1>7, <1>8, <1>9

(* The steps that move a buffer from hand to hand.                         *)
LEMMA AllocStep ==
  ASSUME IInv, NEW t \in Threads, Alloc(t)
  PROVE  IInv'
<1> USE DEF IInv
<1>1. PICK b \in SharedBuffers :
        /\ b \notin live /\ live' = live \cup {b}
        /\ hold' = [hold EXCEPT ![t] = b] /\ mRefs' = [mRefs EXCEPT ![b] = 1]
  BY DEF Alloc, TypeOK
<1> DEFINE label == IF hold[op[t].v] = None THEN "fill" ELSE "sole"
<1>2. op[t].pc = "alloc" /\ op[t].v \in Vecs /\ op[t].v # t /\ hold[t] = None
      /\ op[t].kind = "edit"
  BY VectorAssumption DEF Alloc, TypeOK, Phases, Phase, VectorAssumption
<1>3. Goto(t, label)
  BY DEF Alloc
<1>4. /\ op'[t].pc = label /\ op'[t].kind = "edit" /\ op'[t].v = op[t].v
      /\ op'[t].w = op[t].w /\ op'[t].sole = op[t].sole /\ op'[t].old = op[t].old
      /\ DOMAIN op'[t] = Fields
      /\ \A u \in Threads : u # t => op'[u] = op[u]
      /\ op' = [u \in Threads |-> op'[u]]
  BY <1>2, <1>3, OpGoes
<1>5. Holders(b) = {} /\ Holders(b)' = {t}
  BY <1>1 DEF CountsAgree, Holders, TypeOK
<1>6. \A c \in SharedBuffers : c # b => Holders(c)' = Holders(c)
  BY <1>1, <1>2, VectorAssumption DEF Holders, TypeOK, VectorAssumption
<1>7. TypeOK'
  BY <1>1, <1>2, <1>4 DEF TypeOK
<1>8. CountsAgree'
  BY <1>1, <1>5, <1>6, FS_Singleton DEF CountsAgree, TypeOK
<1>9. LocksHeld'
  BY <1>2, <1>4 DEF LocksHeld
<1>10. Phases'
  <2>1. \A h \in All : hold[h] # None => hold[h] \in live /\ hold[h] # b
    BY <1>1 DEF CountsAgree, Holders, TypeOK, All
  <2>2. ASSUME NEW u \in Threads, u # t PROVE Phase(u)'
    <3>1. op[u].pc # "idle" => op[u].v \in Vecs /\ op[u].v # t
      BY VectorAssumption DEF TypeOK, VectorAssumption
    <3>2. op'[u] = op[u] /\ Phase(u)
      BY <1>4, <2>2 DEF Phases
    <3>3. CASE op[u].pc = "idle"
      BY <1>1, <2>2, <3>2, <3>3 DEF Phase, TypeOK
    <3>4. CASE op[u].pc # "idle"
      <4>1. /\ hold'[u] = hold[u] /\ hold'[op[u].v] = hold[op[u].v]
            /\ u \in All /\ op[u].v \in All
        BY <1>1, <2>2, <3>1, <3>4 DEF TypeOK, All
      <4>2. op[u].pc = "free" => Holders(op[u].old)' = Holders(op[u].old) /\ op[u].old \in live'
        BY <1>1, <1>6, <3>2 DEF Phase, TypeOK
      <4>3. \A h \in All : hold[h] # None /\ Alone(hold[h]) =>
              \A c : c = hold[h] => \A k, l \in Holders(c)' : k = l
        BY <1>6, <2>1 DEF Alone, TypeOK, All
      <4> QED
        BY <3>2, <4>1, <4>2, <4>3 DEF Phase, Alone
    <3> QED
      BY <3>3, <3>4
  <2>3. Phase(t)'
    BY <1>1, <1>2, <1>4, <1>5, VectorAssumption DEF Phase, Alone, TypeOK, VectorAssumption
  <2> QED
    BY <2>2, <2>3 DEF Phases
<1> QED
  BY <1>7, <1>8, <1>9, <1>10

LEMMA FreeStep ==
  ASSUME IInv, NEW t \in Threads, Free(t)
  PROVE  IInv'
<1> USE DEF IInv
<1> DEFINE b == op[t].old
<1>1. /\ op[t].pc = "free" /\ op[t].v \in Vecs /\ hold[op[t].v] = None
      /\ b \in live /\ b \in SharedBuffers /\ Holders(b) = {}
      /\ hold[t] # None => op[t].kind = "edit"
  BY DEF Free, TypeOK, Phases, Phase
<1>2. UNCHANGED <<hold, mRefs>> /\ live \ {b} \subseteq live' /\ live' \subseteq live
  BY DEF Free
<1>3. \A c : Holders(c)' = Holders(c)
  BY <1>2 DEF Holders
<1>4. /\ op'[t].pc = After(op[t]) /\ op'[t].kind = op[t].kind /\ op'[t].v = op[t].v
      /\ op'[t].w = op[t].w /\ op'[t].sole = op[t].sole /\ op'[t].old = None
      /\ DOMAIN op'[t] = Fields
      /\ \A u \in Threads : u # t => op'[u] = op[u]
      /\ op' = [u \in Threads |-> op'[u]]
  BY <1>1 DEF Free, TypeOK, Fields
<1>5. TypeOK'
  BY <1>1, <1>2, <1>4 DEF TypeOK, After
<1>6. CountsAgree'
  BY <1>1, <1>2, <1>3 DEF CountsAgree
<1>7. LocksHeld'
  BY <1>1, <1>4 DEF LocksHeld, After
<1>8. Phases'
  <2>1. ASSUME NEW u \in Threads, u # t, op[u].pc = "free" PROVE op[u].old \in live'
    BY <1>1, <1>2, <2>1 DEF Phases, Phase, LocksHeld
  <2>2. ASSUME NEW u \in Threads, u # t PROVE Phase(u)'
    <3>1. Phase(u) /\ op'[u] = op[u] /\ hold' = hold
      BY <1>2, <1>4, <2>2 DEF Phases
    <3>2. \A c : Alone(c)' <=> Alone(c)
      BY <1>3 DEF Alone
    <3> QED
      BY <1>3, <2>1, <2>2, <3>1, <3>2 DEF Phase
  <2>3. Phase(t)'
    <3>1. After(op[t]) \in {"fill", "share"} /\ (op[t].kind = "edit" => After(op[t]) = "fill")
      BY DEF After
    <3> QED
      BY <1>1, <1>2, <1>3, <1>4, <3>1 DEF Phases, Phase, Alone
  <2> QED
    BY <2>2, <2>3 DEF Phases
<1> QED
  BY <1>5, <1>6, <1>7, <1>8

LEMMA ReleaseStep ==
  ASSUME IInv, NEW t \in Threads, Release(t)
  PROVE  IInv'
<1> USE DEF IInv
<1> DEFINE v == op[t].v
           b == hold[v]
           n == IF op[t].sole THEN 0 ELSE mRefs[b] - 1
           label == IF n = 0 THEN "free" ELSE After(op[t])
<1>1. /\ op[t].pc = "release" /\ v \in Vecs /\ v \in All /\ b \in SharedBuffers /\ v # t
      /\ (hold[t] # None => op[t].kind = "edit") /\ (op[t].sole => Alone(b))
  BY VectorAssumption DEF Release, TypeOK, Phases, Phase, VectorAssumption, All
<1>2. /\ hold' = [hold EXCEPT ![v] = None] /\ mRefs' = [mRefs EXCEPT ![b] = n]
      /\ live' = live
  BY DEF Release
<1>3. /\ op'[t].pc = label /\ op'[t].kind = op[t].kind /\ op'[t].v = v
      /\ op'[t].w = op[t].w /\ op'[t].sole = op[t].sole /\ op'[t].old = b
      /\ DOMAIN op'[t] = Fields
      /\ \A u \in Threads : u # t => op'[u] = op[u]
      /\ op' = [u \in Threads |-> op'[u]]
  BY <1>1 DEF Release, Frees, TypeOK, Fields
<1>4. /\ v \in Holders(b) /\ b \in live
      /\ \A c \in SharedBuffers : Holders(c)' = Holders(c) \ {v}
      /\ \A c \in SharedBuffers : c # b => Holders(c)' = Holders(c)
  BY <1>1, <1>2, VectorAssumption DEF Holders, TypeOK, CountsAgree, VectorAssumption, All
<1>5. mRefs[b] \in Nat /\ mRefs[b] = Cardinality(Holders(b))
  BY <1>1 DEF TypeOK, CountsAgree
<1>6. n = Cardinality(Holders(b) \ {v}) /\ n \in Nat
  <2>1. Cardinality(Holders(b) \ {v}) = mRefs[b] - 1 /\ IsFiniteSet(Holders(b) \ {v})
    <3>1. IsFiniteSet(Holders(b))
      BY HoldersFinite
    <3>2. /\ IsFiniteSet(Holders(b) \ {v})
          /\ Cardinality(Holders(b) \ {v}) =
               IF v \in Holders(b) THEN Cardinality(Holders(b)) - 1
               ELSE Cardinality(Holders(b))
      BY <3>1, FS_RemoveElement
    <3> QED
      BY <1>4, <1>5, <3>2
  <2>2. CASE op[t].sole
    <3>1. Holders(b) \ {v} = {}
      BY <1>1, <1>4, <2>2 DEF Alone
    <3> QED
      BY <2>2, <3>1, FS_EmptySet
  <2>3. CASE ~op[t].sole
    BY <2>1, <2>3, FS_CardinalityType
  <2> QED
    BY <2>2, <2>3
<1>7. n = 0 => \A c : c = b => Holders(c)' = {}
  <2>1. IsFiniteSet(Holders(b) \ {v})
    BY HoldersFinite, FS_RemoveElement
  <2>2. n = 0 => Holders(b) \ {v} = {}
    BY <1>6, <2>1, FS_EmptySet
  <2> QED
    BY <1>1, <1>4, <2>2
<1>8. label \in {"free", "fill", "share"} /\ (op[t].kind = "edit" => label \in {"free", "fill"})
      /\ (label = "free" => n = 0)
  BY DEF After
<1> HIDE DEF n, label
<1>9. TypeOK'
  BY <1>1, <1>2, <1>3, <1>6, <1>8 DEF TypeOK
<1>10. CountsAgree'
  BY <1>1, <1>2, <1>4, <1>6 DEF CountsAgree, TypeOK
<1>11. LocksHeld'
  <2>1. \A u \in Threads : op[u].pc = "free" => op[u].old # b
    BY <1>4 DEF Phases, Phase
  <2> QED
    BY <1>1, <1>3, <2>1 DEF LocksHeld
<1>12. \A c : Alone(c) => \A h, k \in All : hold'[h] = c /\ hold'[k] = c /\ c # None => h = k
  BY <1>1, <1>2 DEF Alone, Holders, TypeOK, All
<1>13. Phases'
  <2>1. ASSUME NEW u \in Threads, u # t PROVE Phase(u)'
    <3>1. hold'[u] = hold[u] /\ op'[u] = op[u] /\ Phase(u)
      BY <1>1, <1>2, <1>3, <2>1, VectorAssumption DEF TypeOK, Phases, VectorAssumption
    <3>2. op[u].pc # "idle" => op[u].v \in Vecs /\ hold'[op[u].v] = hold[op[u].v]
      BY <1>1, <1>2, <2>1 DEF LocksHeld, TypeOK
    <3>3. op[u].pc = "free" => Holders(op[u].old)' = {}
      BY <1>2, <1>4, <3>1 DEF Phase, TypeOK
    <3>4. op[u].pc = "idle" => Phase(u)'
      BY <1>12, <3>1 DEF Phase, Alone, Holders, All
    <3>5. op[u].pc # "idle" => Phase(u)'
      BY <1>2, <1>12, <3>1, <3>2, <3>3 DEF Phase, Alone, Holders, All
    <3> QED
      BY <3>4, <3>5
  <2>2. Phase(t)'
    <3>1. hold'[t] = hold[t] /\ hold'[v] = None /\ Phase(t)
      BY <1>1, <1>2 DEF TypeOK, Phases
    <3>2. op'[t].pc = "free" => op'[t].old \in live' /\ \A h \in All : hold'[h] # op'[t].old
      BY <1>2, <1>3, <1>4, <1>7, <1>8 DEF Holders, All
    <3>3. op'[t].pc \in {"free", "fill", "share"} /\ hold'[op'[t].v] = None
      BY <1>3, <1>8, <3>1
    <3>4. hold'[t] # None =>
            /\ Alone(hold[t])' /\ op'[t].kind = "edit" /\ op'[t].pc \in {"free", "fill"}
      BY <1>1, <1>3, <1>8, <1>12, <3>1 DEF Phase, Alone, Holders, All
    <3> QED
      BY <3>2, <3>3, <3>4 DEF Phase, Holders, All
  <2> QED
    BY <2>1, <2>2 DEF Phases
<1> QED
  BY <1>9, <1>10, <1>11, <1>13

LEMMA FillStep ==
  ASSUME IInv, NEW t \in Threads, Fill(t)
  PROVE  IInv'
<1> USE DEF IInv
<1> DEFINE v == op[t].v
           b == Target(t)
<1>1. /\ op[t].pc = "fill" /\ v \in Vecs /\ v \in All /\ v # t /\ t \in All
      /\ b \in SharedBuffers \cup {None} /\ op[t].pc # "idle"
  BY VectorAssumption DEF Fill, TypeOK, VectorAssumption, All, Target
<1>2. /\ hold' = (IF b = None THEN hold ELSE [hold EXCEPT ![v] = b, ![t] = None])
      /\ mRefs' = mRefs /\ live' = live
  BY DEF Fill
<1>3. /\ op'[t].pc = "idle" /\ \A u \in Threads : u # t => op'[u] = op[u]
      /\ op' = [u \in Threads |-> op'[u]]
  BY DEF Fill, Idle, TypeOK
<1>4. /\ \A h \in All : hold[h] = b /\ b # None => h \in {v, t}
      /\ b # None => (hold[t] = b /\ hold[v] = None) \/ (hold[t] = None /\ hold[v] = b)
      /\ b = None => hold[t] = None
  BY <1>1 DEF Phases, Phase, Alone, Holders, Target, All
<1>5. /\ \A h \in All \ {v, t} : hold'[h] = hold[h]
      /\ hold'[t] = None /\ hold'[v] = b
  BY <1>1, <1>2, <1>4 DEF TypeOK, All, Target
<1>6. TypeOK'
  BY <1>1, <1>2, <1>3 DEF TypeOK
<1>7. CountsAgree'
  <2> SUFFICES ASSUME NEW c \in SharedBuffers
               PROVE  /\ mRefs[c] = Cardinality(Holders(c)')
                      /\ Holders(c)' # {} => c \in live
    BY <1>2 DEF CountsAgree
  <2>1. CASE c = b
    <3>1. \E h \in All : Holders(c) = {h}
      BY <1>1, <1>4, <2>1, VectorAssumption DEF Holders, All, VectorAssumption
    <3>2. Holders(c)' = {v}
      BY <1>1, <1>4, <1>5, <2>1, VectorAssumption DEF Holders, All, VectorAssumption
    <3> QED
      BY <3>1, <3>2, FS_Singleton DEF CountsAgree
  <2>2. CASE c # b
    <3>1. c # None
      BY VectorAssumption DEF VectorAssumption
    <3>2. ASSUME NEW h \in All PROVE hold'[h] = c <=> hold[h] = c
      <4>1. CASE b = None
        BY <1>2, <4>1
      <4>2. CASE b # None
        BY <1>1, <1>4, <1>5, <2>2, <3>1, <4>2
      <4> QED
        BY <4>1, <4>2
    <3>3. Holders(c)' = Holders(c)
      BY <3>2 DEF Holders, All
    <3> QED
      BY <3>3 DEF CountsAgree
  <2> QED
    BY <2>1, <2>2
<1>8. LocksHeld'
  BY <1>3 DEF LocksHeld
<1>9. Phases'
  <2>1. ASSUME NEW u \in Threads, u # t PROVE Phase(u)'
    <3>1. u \in All \ {v, t} /\ hold'[u] = hold[u] /\ op'[u] = op[u] /\ Phase(u)
      BY <1>1, <1>3, <1>5, <2>1, VectorAssumption DEF All, Phases, VectorAssumption
    <3>2. op[u].pc # "idle" =>
            /\ op[u].v \in All \ {v, t} /\ hold'[op[u].v] = hold[op[u].v]
            /\ op[u].v \in All
      <4>1. op[u].pc # "idle" => op[u].v \in Vecs /\ op[u].v # v /\ op[u].v # t
        BY <1>1, <2>1, VectorAssumption DEF LocksHeld, TypeOK, VectorAssumption
      <4> QED
        BY <1>5, <4>1 DEF All
    <3>3. \A c : Alone(c) /\ c # b => \A h, k \in All : hold'[h] = c /\ hold'[k] = c /\ c # None => h = k
      BY <1>5 DEF Alone, Holders, All
    <3>4. \A h \in All \ {v, t} : hold[h] # None => hold[h] # b
      BY <1>4
    <3>5. op[u].pc = "free" => Holders(op[u].old)' = {}
      <4>1. SUFFICES ASSUME op[u].pc = "free" PROVE Holders(op[u].old)' = {}
        OBVIOUS
      <4>2. Holders(op[u].old) = {} /\ op[u].old # None
        BY <3>1, <4>1, VectorAssumption DEF Phase, TypeOK, VectorAssumption
      <4>3. \A h \in All : hold'[h] = op[u].old => \E k \in All : hold[k] = op[u].old
        BY <1>1, <1>4, <1>5, <4>2
      <4> QED
        BY <3>1, <4>2, <4>3 DEF Holders, All
    <3>6. op[u].pc = "idle" => Phase(u)'
      BY <3>1, <3>3, <3>4 DEF Phase, Alone, Holders, All
    <3>7. ASSUME op[u].pc # "idle" PROVE Phase(u)'
      <4>1. hold[u] # None => Alone(hold[u])'
        BY <3>1, <3>3, <3>4 DEF Phase, Alone, Holders, All
      <4>2. hold[op[u].v] # None /\ Alone(hold[op[u].v]) => Alone(hold[op[u].v])'
        BY <3>1, <3>2, <3>3, <3>4, <3>7 DEF Alone, Holders, All
      <4>3. live' = live /\ hold'[op'[u].v] = hold[op[u].v]
        BY <1>2, <3>1, <3>2, <3>7
      <4> QED
        BY <3>1, <3>5, <4>1, <4>2, <4>3 DEF Phase
    <3> QED
      BY <3>6, <3>7
  <2>2. Phase(t)'
    BY <1>3, <1>5 DEF Phase
  <2> QED
    BY <2>1, <2>2 DEF Phases
<1> QED
  BY <1>6, <1>7, <1>8, <1>9

LEMMA ShareStep ==
  ASSUME IInv, NEW t \in Threads, Share(t)
  PROVE  IInv'
<1> USE DEF IInv
<1> DEFINE v == op[t].v
           w == op[t].w
           b == IF Shares(op[t]) THEN hold[w] ELSE None
<1>1. /\ op[t].pc = "share" /\ v \in Vecs /\ w \in Vecs /\ v \in All /\ w \in All
      /\ t \in All /\ v # t /\ w # t /\ hold[v] = None /\ hold[t] = None
      /\ b \in SharedBuffers \cup {None} /\ (b # None => hold[w] = b /\ w # v)
  BY VectorAssumption DEF Share, Shares, TypeOK, Phases, Phase, VectorAssumption, All
<1>2. /\ hold' = [hold EXCEPT ![v] = b] /\ live' = live
      /\ mRefs' = (IF b = None THEN mRefs ELSE [mRefs EXCEPT ![b] = @ + 1])
  BY DEF Share
<1>3. /\ op'[t].pc = "idle" /\ \A u \in Threads : u # t => op'[u] = op[u]
      /\ op' = [u \in Threads |-> op'[u]]
  BY DEF Share, Idle, TypeOK
<1> HIDE DEF b
<1>4. \A h \in All : h # v => hold'[h] = hold[h]
  BY <1>2 DEF TypeOK, All
<1>5. hold'[v] = b
  BY <1>1, <1>2 DEF TypeOK, All
<1>6. TypeOK'
  BY <1>1, <1>2, <1>3 DEF TypeOK
<1>7. CountsAgree'
  <2> SUFFICES ASSUME NEW c \in SharedBuffers
               PROVE  /\ mRefs'[c] = Cardinality(Holders(c)')
                      /\ Holders(c)' # {} => c \in live
    BY <1>2 DEF CountsAgree
  <2>1. c # None
    BY VectorAssumption DEF VectorAssumption
  <2>2. CASE c = b
    <3>1. Holders(c)' = Holders(c) \cup {v} /\ v \notin Holders(c)
      BY <1>1, <1>4, <1>5, <2>1, <2>2 DEF Holders, All
    <3>2. w \in Holders(c)
      BY <1>1, <2>1, <2>2 DEF Holders, All
    <3>3. Cardinality(Holders(c)') = Cardinality(Holders(c)) + 1
      BY <3>1, HoldersFinite, FS_AddElement
    <3>4. mRefs'[c] = mRefs[c] + 1
      BY <1>2, <2>1, <2>2 DEF TypeOK
    <3> QED
      BY <3>2, <3>3, <3>4 DEF CountsAgree
  <2>3. CASE c # b
    <3>1. Holders(c)' = Holders(c)
      BY <1>1, <1>4, <1>5, <2>1, <2>3 DEF Holders, All
    <3>2. mRefs'[c] = mRefs[c]
      BY <1>2, <2>3 DEF TypeOK
    <3> QED
      BY <3>1, <3>2 DEF CountsAgree
  <2> QED
    BY <2>2, <2>3
<1>8. LocksHeld'
  BY <1>3 DEF LocksHeld
<1>9. \A c : Alone(c) /\ c # b =>
         \A h, k \in All : hold'[h] = c /\ hold'[k] = c /\ c # None => h = k
  BY <1>1, <1>4, <1>5 DEF Alone, Holders, All
<1>10. Phases'
  <2>1. ASSUME NEW u \in Threads, u # t PROVE Phase(u)'
    <3>1. u \in All /\ hold'[u] = hold[u] /\ op'[u] = op[u] /\ Phase(u)
      BY <1>1, <1>3, <1>4, <2>1, VectorAssumption DEF All, Phases, VectorAssumption
    <3>2. hold[u] # None => hold[u] # b
      <4>1. ASSUME hold[u] # None, hold[u] = b PROVE FALSE
        <5>1. w \in Holders(hold[u]) /\ u \in Holders(hold[u])
          BY <1>1, <3>1, <4>1 DEF Holders, All
        <5>2. w # u
          BY <1>1, VectorAssumption DEF VectorAssumption
        <5> QED
          BY <3>1, <4>1, <5>1, <5>2 DEF Phase, Alone
      <4> QED
        BY <4>1
    <3>3. hold[u] # None => Alone(hold[u])'
      BY <1>9, <3>1, <3>2 DEF Phase, Alone, Holders, All
    <3>4. op[u].pc = "idle" => Phase(u)'
      BY <3>1, <3>3 DEF Phase
    <3>5. ASSUME op[u].pc # "idle" PROVE Phase(u)'
      <4>1. op[u].v \in All /\ op[u].v # v /\ op[u].v # w
        BY <1>1, <2>1, <3>5 DEF LocksHeld, TypeOK, All
      <4>2. hold'[op[u].v] = hold[op[u].v]
        BY <1>4, <4>1
      <4>3. hold[op[u].v] # None /\ Alone(hold[op[u].v]) => hold[op[u].v] # b
        BY <1>1, <4>1 DEF Alone, Holders, All
      <4>4. hold[op[u].v] # None /\ Alone(hold[op[u].v]) => Alone(hold[op[u].v])'
        BY <1>9, <3>1, <4>2, <4>3 DEF Alone, Holders, All
      <4>5. op[u].pc = "free" => \A h \in All : hold'[h] # op[u].old
        <5>1. SUFFICES ASSUME op[u].pc = "free" PROVE \A h \in All : hold'[h] # op[u].old
          OBVIOUS
        <5>2. op[u].old # None /\ \A h \in All : hold[h] # op[u].old
          BY <3>1, <5>1, VectorAssumption DEF Phase, TypeOK, VectorAssumption, Holders, All
        <5>3. op[u].old # b
          BY <1>1, <5>2
        <5> QED
          BY <1>4, <1>5, <5>2, <5>3
      <4>6. op[u].pc = "free" => Holders(op[u].old)' = {}
        BY <3>1, <4>5 DEF Holders, All
      <4> QED
        BY <1>2, <3>1, <3>3, <4>2, <4>4, <4>6 DEF Phase
    <3> QED
      BY <3>4, <3>5
  <2>2. Phase(t)'
    BY <1>1, <1>3, <1>4 DEF Phase
  <2> QED
    BY <2>1, <2>2 DEF Phases
<1> QED
  BY <1>6, <1>7, <1>8, <1>10

LEMMA InvStep == IInv /\ [Next]_vars => IInv'
<1> SUFFICES ASSUME IInv, [Next]_vars PROVE IInv'
  OBVIOUS
<1>1. CASE UNCHANGED vars
  <2>1. UNCHANGED <<hold, mRefs, live, op>>
    BY <1>1 DEF vars, buffers
  <2>2. TypeOK'
    BY <2>1 DEF IInv, TypeOK
  <2>3. CountsAgree'
    BY <2>1 DEF IInv, CountsAgree, Holders
  <2>4. LocksHeld'
    BY <2>1 DEF IInv, LocksHeld
  <2>5. Phases'
    BY <2>1 DEF IInv, Phases, Phase, Alone, Holders
  <2> QED
    BY <2>2, <2>3, <2>4, <2>5 DEF IInv
<1>2. CASE \E t \in Threads : Call(t)
  BY <1>2, CallStep
<1>3. CASE \E t \in Threads : Step(t)
  BY <1>3, OwnStep, AllocStep, SoleStep, ReleaseStep, FreeStep, FillStep, ShareStep DEF Step
<1> QED
  BY <1>1, <1>2, <1>3 DEF Next

(* BufferCounts: SharedBuffer's count is at every moment the number of     *)
(* vectors and threads that hold the buffer, which is allocated as long as *)
(* there are any.                                                          *)
THEOREM BufferCounts == Spec => []CountsAgree
<1>1. IInv => CountsAgree
  BY DEF IInv
<1> QED
  BY <1>1, InvInit, InvStep, PTL DEF Spec

(* CopyOnWrite: a thread that changes the items of a buffer, in place or   *)
(* in its new copy, is the only one that holds it.                         *)
THEOREM CopyOnWrite == Spec => []ChangesAlone
<1>1. IInv => ChangesAlone
  BY DEF IInv, Phases, Phase, ChangesAlone, Alone, Target
<1> QED
  BY <1>1, InvInit, InvStep, PTL DEF Spec
----------------------------------------------------------------------------
(* Sequences, sorted and searched *)

(* A set of numbers with 0 and the successor of each of its members is all *)
(* of Nat: among the sets 1..n of the numbers n left out there would be a  *)
(* smallest.                                                               *)
LEMMA Induction ==
  ASSUME NEW S, 0 \in S, \A n \in Nat : n \in S => n + 1 \in S
  PROVE  Nat \subseteq S
<1> SUFFICES ASSUME Nat \ S # {} PROVE FALSE
  OBVIOUS
<1> DEFINE T == {1 .. n : n \in Nat \ S}
           R == StrictSubsetOrdering(Nat)
<1>1. T \subseteq FiniteSubsetsOf(Nat) /\ T # {}
  <2>1. \A n \in Nat : 1 .. n \in SUBSET Nat /\ IsFiniteSet(1 .. n)
    BY FS_Interval
  <2> QED
    BY <2>1 DEF FiniteSubsetsOf
<1>2. IsWellFoundedOn(R, FiniteSubsetsOf(Nat))
  BY FS_StrictSubsetOrderingWellFounded
<1>3. PICK x \in T : \A y \in T : ~(<<y, x>> \in R)
  <2> HIDE DEF T, R
  <2> QED
    BY <1>1, <1>2, WFMin
<1>4. PICK n \in Nat \ S : x = 1 .. n
  OBVIOUS
<1>5. n # 0 /\ n - 1 \in Nat \ S
  <2>1. n # 0
    OBVIOUS
  <2>2. n - 1 \in Nat /\ (n - 1) + 1 = n
    BY <2>1
  <2> QED
    BY <2>1, <2>2
<1>6. 1 .. n - 1 \in SUBSET Nat /\ 1 .. n \in SUBSET Nat /\ 1 .. n - 1 \subseteq 1 .. n
      /\ n \in 1 .. n /\ n \notin 1 .. n - 1
  BY <1>5
<1>7. <<1 .. n - 1, 1 .. n>> \in R
  BY <1>6 DEF StrictSubsetOrdering
<1> QED
  BY <1>3, <1>4, <1>5, <1>7


(* Cutting items out of a sequence and putting others in their place.      *)
Cuts(S, s, at, n, new) ==
  s \in Seq(S) /\ new \in Seq(S) /\ at \in Nat /\ n \in Nat /\ at + n <= Len(s)

LEMMA SplicedLength ==
  ASSUME NEW S, NEW s, NEW at, NEW n, NEW new, Cuts(S, s, at, n, new)
  PROVE  Spliced(s, at, n, new) \in Seq(S) /\ Len(Spliced(s, at, n, new)) = Len(s) - n + Len(new)
<1> DEFINE a == SubSeq(s, 1, at)
           c == SubSeq(s, at + n + 1, Len(s))
           d == a \o new
<1>0. s \in Seq(S) /\ new \in Seq(S) /\ at \in Nat /\ n \in Nat /\ at + n <= Len(s)
  BY DEF Cuts
<1>1. Len(s) \in Nat /\ Len(new) \in Nat /\ \A i \in 1 .. Len(s) : s[i] \in S
  BY <1>0, ElementOfSeq, LenProperties
<1>2. a \in Seq(S) /\ Len(a) = at
  BY <1>0, <1>1, SubSeqProperties
<1>3. c \in Seq(S) /\ Len(c) = Len(s) - at - n
  <2>1. CASE at + n + 1 <= Len(s)
    BY <1>0, <1>1, <2>1, SubSeqProperties
  <2>2. CASE at + n = Len(s)
    <3>1. at + n + 1 > Len(s)
      BY <1>0, <1>1, <2>2
    <3>2. c = <<>>
      BY <1>0, <1>1, <3>1, SubSeqEmpty
    <3> QED
      BY <1>0, <1>1, <2>2, <3>2, EmptySeq
  <2> QED
    BY <1>0, <1>1, <2>1, <2>2
<1>4. Spliced(s, at, n, new) = d \o c
  BY DEF Spliced
<1> HIDE DEF a, c
<1>5. d \in Seq(S) /\ Len(d) = at + Len(new)
  BY <1>0, <1>2, ConcatProperties
<1> HIDE DEF d
<1>6. d \o c \in Seq(S) /\ Len(d \o c) = Len(d) + Len(c)
  BY <1>3, <1>5, ConcatProperties
<1> QED
  BY <1>0, <1>1, <1>3, <1>4, <1>5, <1>6

(* Of some places one is the first.                                        *)
LEMMA FirstOfSome ==
  ASSUME NEW n \in Nat, NEW P \in SUBSET (1 .. n), P # {}
  PROVE  \E i \in P : \A j \in P : i <= j
<1> DEFINE Has(Q) == \E i \in Q : \A j \in Q : i <= j
           S == {m \in Nat : \A Q \in SUBSET (1 .. m) : Q # {} => Has(Q)}
<1>1. 0 \in S
  <2>1. \A Q \in SUBSET (1 .. 0) : Q = {}
    OBVIOUS
  <2> QED
    BY <2>1
<1>2. ASSUME NEW m \in Nat, m \in S PROVE m + 1 \in S
  <2> SUFFICES ASSUME NEW Q \in SUBSET (1 .. m + 1), Q # {} PROVE Has(Q)
    OBVIOUS
  <2>1. Q \cap 1 .. m \in SUBSET (1 .. m) /\ \A i \in Q : i \in Int /\ i <= m + 1
    OBVIOUS
  <2>2. \A i \in Q : i \notin 1 .. m => i = m + 1
    OBVIOUS
  <2>3. CASE Q \cap 1 .. m = {}
    <3>1. \A i \in Q : i = m + 1
      BY <2>2, <2>3
    <3>2. PICK i \in Q : TRUE
      OBVIOUS
    <3>3. \A j \in Q : i <= j
      BY <2>1, <3>1, <3>2
    <3> QED
      BY <3>2, <3>3
  <2>4. CASE Q \cap 1 .. m # {}
    <3>1. PICK i \in Q \cap 1 .. m : \A j \in Q \cap 1 .. m : i <= j
      BY <1>2, <2>1, <2>4
    <3>2. \A j \in Q : i <= j
      BY <2>2, <3>1
    <3> QED
      BY <3>1, <3>2
  <2> QED
    BY <2>3, <2>4
<1>3. n \in S
  <2> HIDE DEF S
  <2> QED
    BY <1>1, <1>2, Induction
<1> QED
  BY <1>3

(* Where an item goes: behind all those before the first that is greater.  *)
Place(s, item) ==
  LET after == {i \in DOMAIN s : s[i].key > item.key}
  IN  IF after = {} THEN Len(s) ELSE (CHOOSE i \in after : \A j \in after : i <= j) - 1

LEMMA PlaceIsRight ==
  ASSUME NEW S, NEW s \in Seq(S), NEW item
  PROVE  /\ Place(s, item) \in 0 .. Len(s)
         /\ \A i \in 1 .. Place(s, item) : ~(s[i].key > item.key)
         /\ Place(s, item) < Len(s) => s[Place(s, item) + 1].key > item.key
<1> DEFINE after == {i \in DOMAIN s : s[i].key > item.key}
<1>1. Len(s) \in Nat /\ DOMAIN s = 1 .. Len(s) /\ after \in SUBSET (1 .. Len(s))
  BY LenProperties
<1>2. CASE after = {}
  <2>1. Place(s, item) = Len(s)
    BY <1>2 DEF Place
  <2> QED
    BY <1>1, <1>2, <2>1
<1>3. CASE after # {}
  <2> DEFINE First(i) == i \in after /\ \A j \in after : i <= j
  <2>1. \E i : First(i)
    <3> HIDE DEF after
    <3> QED
      BY <1>1, <1>3, FirstOfSome
  <2>2. PICK i : i = CHOOSE k \in after : \A j \in after : k <= j
    OBVIOUS
  <2>3. First(i)
    <3> HIDE DEF after
    <3> QED
      BY <2>1, <2>2
  <2>4. Place(s, item) = i - 1
    BY <1>3, <2>2 DEF Place
  <2>5. i \in 1 .. Len(s) /\ i \in after /\ \A j \in 1 .. Len(s) : j < i => j \notin after
    BY <1>1, <2>3
  <2> QED
    BY <1>1, <2>4, <2>5
<1> QED
  BY <1>2, <1>3

LEMMA InsertedLength ==
  ASSUME NEW S, NEW s \in Seq(S), NEW item \in S
  PROVE  Inserted(s, item) \in Seq(S) /\ Len(Inserted(s, item)) = Len(s) + 1
<1> DEFINE p == Place(s, item)
           new == <<item>>
<1>1. Inserted(s, item) = Spliced(s, p, 0, new)
  BY DEF Inserted, Place
<1>2. new \in Seq(S) /\ Len(new) = 1
  OBVIOUS
<1>3. Len(s) \in Nat /\ p \in 0 .. Len(s)
  BY PlaceIsRight, LenProperties
<1> HIDE DEF p, new
<1>4. Cuts(S, s, p, 0, new)
  BY <1>2, <1>3 DEF Cuts
<1>5. Spliced(s, p, 0, new) \in Seq(S) /\ Len(Spliced(s, p, 0, new)) = Len(s) - 0 + Len(new)
  BY <1>4, SplicedLength
<1> QED
  BY <1>1, <1>2, <1>3, <1>5

(* The insertion sort goes through the items one by one.                   *)
SortsPrefixes(s, f) ==
  /\ DOMAIN f = 0 .. Len(s)
  /\ \A n \in 0 .. Len(s) : f[n] = IF n = 0 THEN <<>> ELSE Inserted(f[n - 1], s[n])

LEMMA InsertionSortExists ==
  ASSUME NEW S, NEW s \in Seq(S)
  PROVE  \E f : SortsPrefixes(s, f) /\ InsertionSort(s) = f[Len(s)]
<1> DEFINE Body(f, n) == IF n = 0 THEN <<>> ELSE Inserted(f[n - 1], s[n])
           Is(f) == f = [n \in 0 .. Len(s) |-> Body(f, n)]
           Upto(f, k) == /\ f = [n \in 0 .. Len(s) |-> f[n]]
                         /\ \A n \in 0 .. Len(s) : n < k => f[n] = Body(f, n)
           T == {k \in Nat : \E f : Upto(f, k)}
<1>1. Len(s) \in Nat
  BY LenProperties
<1>2. 0 \in T
  <2>1. Upto([n \in 0 .. Len(s) |-> <<>>], 0)
    OBVIOUS
  <2> QED
    BY <2>1
<1>3. ASSUME NEW k \in Nat, k \in T PROVE k + 1 \in T
  <2>1. PICK f : Upto(f, k)
    BY <1>3
  <2> DEFINE g == [n \in 0 .. Len(s) |-> Body(f, n)]
  <2>2. \A n \in 0 .. Len(s) : n < k => g[n] = f[n]
    BY <2>1
  <2>3. \A n \in 0 .. Len(s) : n < k + 1 => g[n] = Body(g, n)
    <3> SUFFICES ASSUME NEW n \in 0 .. Len(s), n < k + 1 PROVE g[n] = Body(g, n)
      OBVIOUS
    <3>1. g[n] = Body(f, n)
      OBVIOUS
    <3>2. n # 0 => n - 1 \in 0 .. Len(s) /\ n - 1 < k
      BY <1>1
    <3>3. n # 0 => g[n - 1] = f[n - 1]
      BY <2>2, <3>2
    <3> HIDE DEF g
    <3> QED
      BY <3>1, <3>3
  <2>4. Upto(g, k + 1)
    BY <2>3
  <2> HIDE DEF g, Upto
  <2> QED
    BY <2>4
<1>4. \E f : Is(f)
  <2>1. Nat \subseteq T
    <3> HIDE DEF T
    <3> QED
      BY <1>2, <1>3, Induction
  <2>2. PICK f : Upto(f, Len(s) + 1)
    <3> HIDE DEF Upto
    <3> QED
      BY <1>1, <2>1
  <2>3. \A n \in 0 .. Len(s) : n < Len(s) + 1
    BY <1>1
  <2>4. \A n \in 0 .. Len(s) : f[n] = Body(f, n)
    BY <2>2, <2>3
  <2>5. Is(f)
    BY <2>2, <2>4
  <2> QED
    BY <2>5
<1>5. PICK f : f = CHOOSE g : Is(g)
  OBVIOUS
<1>6. Is(f) /\ InsertionSort(s) = f[Len(s)]
  BY <1>4, <1>5 DEF InsertionSort
<1>7. SortsPrefixes(s, f)
  BY <1>6 DEF SortsPrefixes
<1> QED
  BY <1>6, <1>7

LEMMA InsertionSortLength ==
  ASSUME NEW S, NEW s \in Seq(S)
  PROVE  InsertionSort(s) \in Seq(S) /\ Len(InsertionSort(s)) = Len(s)
<1>1. PICK f : SortsPrefixes(s, f) /\ InsertionSort(s) = f[Len(s)]
  BY InsertionSortExists
<1> DEFINE T == {k \in Nat : k <= Len(s) => f[k] \in Seq(S) /\ Len(f[k]) = k}
<1>2. Len(s) \in Nat /\ \A i \in 1 .. Len(s) : s[i] \in S
  BY ElementOfSeq, LenProperties
<1>3. 0 \in T
  <2>1. f[0] = <<>>
    BY <1>1, <1>2 DEF SortsPrefixes
  <2> QED
    BY <2>1, EmptySeq
<1>4. ASSUME NEW k \in Nat, k \in T PROVE k + 1 \in T
  <2> SUFFICES ASSUME k + 1 <= Len(s) PROVE f[k + 1] \in Seq(S) /\ Len(f[k + 1]) = k + 1
    OBVIOUS
  <2>1. f[k] \in Seq(S) /\ Len(f[k]) = k /\ s[k + 1] \in S
    BY <1>2, <1>4
  <2>2. f[k + 1] = Inserted(f[k], s[k + 1])
    <3>1. k + 1 \in 0 .. Len(s) /\ k + 1 # 0 /\ (k + 1) - 1 = k
      BY <1>2
    <3> QED
      BY <1>1, <3>1 DEF SortsPrefixes
  <2>3. Inserted(f[k], s[k + 1]) \in Seq(S) /\ Len(Inserted(f[k], s[k + 1])) = Len(f[k]) + 1
    BY <2>1, InsertedLength, Zenon
  <2> QED
    BY <2>1, <2>2, <2>3
<1>5. Len(s) \in T
  <2> HIDE DEF T
  <2> QED
    BY <1>2, <1>3, <1>4, Induction
<1> QED
  BY <1>1, <1>2, <1>5

(* The binary search: what it answers on the span from l to h.             *)
Parts(s) == (0 .. Len(s)) \X (-1 .. Len(s) - 1)
Middle(span) == span[1] + (span[2] - span[1]) \div 2

Searched(s, key, f, span) ==
  IF span[1] > span[2] THEN [found |-> FALSE, at |-> span[1]]
  ELSE IF s[Middle(span) + 1].key = key THEN [found |-> TRUE, at |-> Middle(span)]
  ELSE IF s[Middle(span) + 1].key < key THEN f[<<Middle(span) + 1, span[2]>>]
  ELSE f[<<span[1], Middle(span) - 1>>]

Searches(s, key, f) == \A span \in Parts(s) : f[span] = Searched(s, key, f, span)

LEMMA Halves ==
  ASSUME NEW s, Len(s) \in Nat, NEW span \in Parts(s), span[1] <= span[2]
  PROVE  /\ Middle(span) \in Nat /\ span[1] <= Middle(span) /\ Middle(span) <= span[2]
         /\ <<Middle(span) + 1, span[2]>> \in Parts(s) /\ <<span[1], Middle(span) - 1>> \in Parts(s)
<1>1. /\ span[1] \in Nat /\ span[1] <= Len(s)
      /\ span[2] \in Int /\ -1 <= span[2] /\ span[2] <= Len(s) - 1
  BY DEF Parts
<1>2. PICK l \in Nat, h \in Nat : l = span[1] /\ h = span[2]
  BY <1>1
<1>3. PICK d \in Nat : d = h - l
  BY <1>2
<1>4. PICK m \in Nat : m = d \div 2 /\ m <= d
  OBVIOUS
<1>5. Middle(span) = l + m
  BY <1>2, <1>3, <1>4 DEF Middle
<1>6. PICK n \in Nat : n = Len(s) /\ h < n
  BY <1>1, <1>2
<1>7. l + m \in Nat /\ l <= l + m /\ l + m <= h
  BY <1>3, <1>4
<1>8. /\ l + m + 1 \in 0 .. n /\ l + m - 1 \in -1 .. n - 1
      /\ l \in 0 .. n /\ h \in -1 .. n - 1
  BY <1>6, <1>7
<1> QED
  BY <1>2, <1>5, <1>6, <1>7, <1>8 DEF Parts

LEMMA SearchExists ==
  ASSUME NEW S, NEW s \in Seq(S), NEW key
  PROVE  \E f : Searches(s, key, f) /\ IndexOrder(s, key) = f[<<0, Len(s) - 1>>]
<1> DEFINE Is(f) == f = [span \in Parts(s) |-> Searched(s, key, f, span)]
           Within(f, k) ==
             \A span \in Parts(s) : span[2] - span[1] < k => f[span] = Searched(s, key, f, span)
           Upto(f, k) == f = [span \in Parts(s) |-> f[span]] /\ Within(f, k)
           T == {k \in Nat : \E f : Upto(f, k - 1)}
<1>1. Len(s) \in Nat
  BY LenProperties
<1>2. \A span \in Parts(s) : span[1] \in Int /\ span[2] \in Int /\ span[1] >= 0 /\ span[2] < Len(s)
  BY <1>1 DEF Parts
<1>3. ASSUME NEW k \in Nat, NEW f, Upto(f, k - 1) PROVE \E g : Upto(g, (k + 1) - 1)
  <2> DEFINE g == [span \in Parts(s) |-> Searched(s, key, f, span)]
  <2>1. \A span \in Parts(s) : g[span] = Searched(s, key, f, span)
    OBVIOUS
  <2>2. g = [span \in Parts(s) |-> g[span]]
    OBVIOUS
  <2> HIDE DEF g
  <2>3. \A span \in Parts(s) : span[2] - span[1] < k - 1 => g[span] = f[span]
    BY <1>3, <2>1
  <2>4. ASSUME NEW span \in Parts(s), span[2] - span[1] < k
        PROVE  g[span] = Searched(s, key, g, span)
    <3>1. CASE span[1] > span[2]
      BY <2>1, <3>1 DEF Searched
    <3>2. CASE span[1] <= span[2]
      <4> DEFINE up == <<Middle(span) + 1, span[2]>>
                 down == <<span[1], Middle(span) - 1>>
      <4>1. /\ Middle(span) \in Nat /\ span[1] <= Middle(span) /\ Middle(span) <= span[2]
            /\ up \in Parts(s) /\ down \in Parts(s)
        BY <1>1, <3>2, Halves
      <4>2. up[2] - up[1] < k - 1 /\ down[2] - down[1] < k - 1
        <5>1. span[2] \in Int /\ span[1] \in Int /\ Middle(span) \in Int
          BY <1>2, <4>1
        <5>2. PICK l \in Int, h \in Int, m \in Int : l = span[1] /\ h = span[2] /\ m = Middle(span)
          BY <5>1
        <5>3. h - (m + 1) < k - 1 /\ (m - 1) - l < k - 1
          BY <2>4, <4>1, <5>2
        <5> QED
          BY <5>2, <5>3
      <4>3. g[up] = f[up] /\ g[down] = f[down]
        <5> HIDE DEF up, down
        <5> QED
          BY <2>3, <4>1, <4>2
      <4> QED
        BY <1>2, <2>1, <3>2, <4>3 DEF Searched
    <3> QED
      BY <1>2, <3>1, <3>2
  <2>5. Upto(g, (k + 1) - 1)
    <3>1. \A span \in Parts(s) : span[2] - span[1] < (k + 1) - 1 => span[2] - span[1] < k
      BY <1>2
    <3> QED
      BY <2>2, <2>4, <3>1
  <2> HIDE DEF Upto
  <2> QED
    BY <2>5
<1>4. \E f : Upto(f, 0 - 1)
  <2> DEFINE f == [span \in Parts(s) |-> [found |-> FALSE, at |-> span[1]]]
  <2>1. f = [span \in Parts(s) |-> f[span]]
    OBVIOUS
  <2>2. \A span \in Parts(s) : f[span] = [found |-> FALSE, at |-> span[1]]
    OBVIOUS
  <2>3. \A span \in Parts(s) : span[2] - span[1] < 0 - 1 => span[1] > span[2]
    BY <1>2
  <2> HIDE DEF f
  <2>4. \A span \in Parts(s) : span[1] > span[2] => f[span] = Searched(s, key, f, span)
    BY <2>2 DEF Searched
  <2>5. Upto(f, 0 - 1)
    BY <2>1, <2>3, <2>4
  <2> HIDE DEF Upto
  <2> QED
    BY <2>5
<1>5. \E f : Upto(f, (Len(s) + 1) - 1)
  <2> HIDE DEF Upto
  <2>1. 0 \in T /\ \A k \in Nat : k \in T => k + 1 \in T
    BY <1>3, <1>4
  <2>2. Nat \subseteq T
    <3> HIDE DEF T
    <3> QED
      BY <2>1, Induction
  <2> QED
    BY <1>1, <2>2
<1>6. \E f : Is(f)
  <2>1. PICK f : Upto(f, (Len(s) + 1) - 1)
    <3> HIDE DEF Upto
    <3> QED
      BY <1>5
  <2>2. \A span \in Parts(s) : span[2] - span[1] < (Len(s) + 1) - 1
    BY <1>1, <1>2
  <2>3. \A span \in Parts(s) : f[span] = Searched(s, key, f, span)
    BY <2>1, <2>2
  <2>4. Is(f)
    BY <2>1, <2>3
  <2> HIDE DEF Is
  <2> QED
    BY <2>4
<1>7. PICK f : f = CHOOSE g : Is(g)
  OBVIOUS
<1>8. Is(f)
  <2> HIDE DEF Is
  <2> QED
    BY <1>6, <1>7
<1>9. IndexOrder(s, key) = f[<<0, Len(s) - 1>>]
  BY <1>7 DEF IndexOrder, Searched, Parts, Middle
<1> QED
  BY <1>8, <1>9 DEF Searches

(* The search answers the place of an item that is there, or one between   *)
(* two items or at an end.                                                 *)
Answers(s, key, o) ==
  /\ o.at \in 0 .. Len(s) /\ o.found \in BOOLEAN
  /\ o.found => o.at < Len(s) /\ s[o.at + 1].key = key

LEMMA IndexOrderBounds ==
  ASSUME NEW S, NEW s \in Seq(S), NEW key
  PROVE  Answers(s, key, IndexOrder(s, key))
<1>1. PICK f : Searches(s, key, f) /\ IndexOrder(s, key) = f[<<0, Len(s) - 1>>]
  BY SearchExists
<1> DEFINE T == {k \in Nat : \A span \in Parts(s) :
                               span[2] - span[1] < k - 1 => Answers(s, key, f[span])}
<1>2. Len(s) \in Nat
  BY LenProperties
<1>3. \A span \in Parts(s) : span[1] \in 0 .. Len(s) /\ span[2] \in Int /\ span[2] < Len(s)
  BY <1>2 DEF Parts
<1>4. ASSUME NEW span \in Parts(s), span[1] > span[2] PROVE Answers(s, key, f[span])
  <2>1. f[span] = [found |-> FALSE, at |-> span[1]]
    BY <1>1, <1>4 DEF Searches, Searched
  <2> QED
    BY <1>3, <2>1 DEF Answers
<1>5. 0 \in T
  <2>1. \A span \in Parts(s) : span[2] - span[1] < 0 - 1 => span[1] > span[2]
    BY <1>3
  <2> QED
    BY <1>4, <2>1
<1>6. ASSUME NEW k \in Nat, k \in T PROVE k + 1 \in T
  <2> SUFFICES ASSUME NEW span \in Parts(s), span[2] - span[1] < (k + 1) - 1
               PROVE  Answers(s, key, f[span])
    OBVIOUS
  <2>1. CASE span[1] > span[2]
    BY <1>4, <2>1
  <2>2. CASE span[1] <= span[2]
    <3> DEFINE up == <<Middle(span) + 1, span[2]>>
               down == <<span[1], Middle(span) - 1>>
               mid == Middle(span)
    <3>1. /\ mid \in Nat /\ span[1] <= mid /\ mid <= span[2]
          /\ up \in Parts(s) /\ down \in Parts(s)
      BY <1>2, <2>2, Halves
    <3>2. up[2] - up[1] < k - 1 /\ down[2] - down[1] < k - 1
      <4>1. span[2] \in Int /\ span[1] \in Int /\ mid \in Int
        BY <1>3, <3>1
      <4>2. PICK l \in Int, h \in Int, m \in Int : l = span[1] /\ h = span[2] /\ m = mid
        BY <4>1
      <4>3. h - (m + 1) < k - 1 /\ (m - 1) - l < k - 1
        BY <3>1, <4>2
      <4> QED
        BY <4>2, <4>3
    <3>3. \/ s[mid + 1].key = key /\ f[span] = [found |-> TRUE, at |-> mid]
          \/ f[span] = f[up] \/ f[span] = f[down]
      <4>1. f[span] = Searched(s, key, f, span)
        BY <1>1 DEF Searches
      <4>2. ~(span[1] > span[2])
        BY <1>3, <2>2
      <4> QED
        BY <4>1, <4>2 DEF Searched
    <3> HIDE DEF up, down, mid
    <3>4. Answers(s, key, f[up]) /\ Answers(s, key, f[down])
      BY <1>6, <3>1, <3>2
    <3>5. mid \in 0 .. Len(s) /\ mid < Len(s)
      BY <1>2, <1>3, <3>1
    <3>6. CASE s[mid + 1].key = key /\ f[span] = [found |-> TRUE, at |-> mid]
      BY <3>5, <3>6 DEF Answers
    <3> QED
      BY <3>3, <3>4, <3>6
  <2> QED
    BY <1>3, <2>1, <2>2
<1>7. Len(s) + 1 \in T
  <2> HIDE DEF T
  <2> QED
    BY <1>2, <1>5, <1>6, Induction
<1>8. PICK span \in Parts(s) : span = <<0, Len(s) - 1>>
  <2>1. 0 \in 0 .. Len(s) /\ Len(s) - 1 \in -1 .. Len(s) - 1
    BY <1>2
  <2> QED
    BY <2>1 DEF Parts
<1>9. span[2] - span[1] < (Len(s) + 1) - 1
  BY <1>2, <1>8
<1> QED
  BY <1>1, <1>7, <1>8, <1>9
----------------------------------------------------------------------------
(* What the storage holds *)

(* The items an operation will write, counted.                             *)
NewLength(o) == IF o.w # o.v THEN mCount[o.w] ELSE Len(o.new)

StoreTypeOK ==
  /\ mCount \in [Vecs -> Nat]
  /\ size \in [SharedBuffers -> Nat] /\ data \in [SharedBuffers -> Seq(Records)]

(* A vector counts the items of its buffer, and has none without one; they *)
(* are within its capacity unless an operation is changing that.           *)
Filled(v) ==
  /\ hold[v] # None => Len(data[hold[v]]) = mCount[v]
  /\ Worker(v) = {} =>
       /\ hold[v] # None => mCount[v] <= size[hold[v]]
       /\ hold[v] = None => mCount[v] = 0

(* What an edit leaves has room in what it makes ready.                    *)
Fits(o) ==
  /\ o.at \in Nat /\ o.n \in Nat /\ o.cap \in Nat /\ o.new \in Seq(Records)
  /\ o.at + o.n <= mCount[o.v]
  /\ mCount[o.v] - o.n + NewLength(o) <= o.cap

(* How far an operation is with the items: until the vector's buffer is    *)
(* replaced by one with the same items, its count is theirs.               *)
AtWork(t) ==
  /\ op[t].kind = "edit" => Fits(op[t])
  /\ op[t].pc = "fill" => op[t].kind = "edit"
  /\ op[t].pc \in {"sole", "release", "free"} /\ op[t].kind = "edit" => hold[t] # None
  /\ hold[t] # None => Len(data[hold[t]]) = mCount[op[t].v] /\ size[hold[t]] = op[t].cap
  /\ op[t].pc = "fill" /\ hold[t] = None =>
       /\ hold[op[t].v] # None => size[hold[op[t].v]] = op[t].cap
       /\ hold[op[t].v] = None => mCount[op[t].v] = 0
  /\ op[t].pc = "alloc" /\ hold[op[t].v] = None => mCount[op[t].v] = 0
  /\ op[t].pc = "free" => Len(data[op[t].old]) = mCount[op[t].v]

(* A buffer is held, or about to be freed by the last who held it.         *)
Kept(b) == Holders(b) # {} \/ \E t \in Threads : op[t].pc = "free" /\ op[t].old = b

StoreInv ==
  /\ StoreTypeOK
  /\ \A v \in Vecs : Filled(v)
  /\ \A t \in Threads : op[t].pc # "idle" => AtWork(t)
  /\ \A b \in live : Kept(b)

LEMMA Fields2 ==
  ASSUME IInv, StoreInv, NEW t \in Threads, op[t].pc # "idle"
  PROVE  /\ op[t].v \in Vecs /\ op[t].w \in Vecs /\ t \notin Vecs
         /\ hold[t] \in SharedBuffers \cup {None} /\ hold[op[t].v] \in SharedBuffers \cup {None}
         /\ mCount[op[t].v] \in Nat /\ mCount[op[t].w] \in Nat
         /\ AtWork(t) /\ Phase(t)
         /\ op[t].pc \in {"own", "alloc", "sole", "release", "free", "fill", "share"}
         /\ op[t].kind \in {"edit", "assign", "copy", "finish"}
  BY VectorAssumption DEF VectorAssumption, IInv, TypeOK, Phases, StoreInv, StoreTypeOK, Vecs

(* A step of t, in its operation on v, on the buffer b.                    *)
Changes(t, b) ==
  /\ \A u \in Threads : u # t => op'[u] = op[u]
  /\ op'[t].pc = "idle" \/ op'[t].v = op[t].v
  /\ \A h \in All : h \notin {t, op[t].v} => hold'[h] = hold[h] /\ (hold[h] = None \/ hold[h] # b)
  /\ \A w \in Vecs : w # op[t].v => mCount'[w] = mCount[w]
  /\ \A c \in SharedBuffers : c # b => data'[c] = data[c] /\ size'[c] = size[c]
  /\ \A u \in Threads : u # t /\ op[u].pc = "free" => op[u].old # b

LEMMA OthersKept ==
  ASSUME IInv, StoreInv, NEW t \in Threads, op[t].pc # "idle", NEW b, Changes(t, b)
  PROVE  /\ \A u \in Threads : u # t /\ op'[u].pc # "idle" => AtWork(u)'
         /\ \A w \in Vecs : w # op[t].v => Filled(w)'
<1>0. op[t].v \in Vecs /\ t \notin Vecs
  BY Fields2
<1>1. ASSUME NEW u \in Threads, u # t, op'[u].pc # "idle" PROVE AtWork(u)'
  <2>1. op'[u] = op[u] /\ op[u].pc # "idle"
    BY <1>1 DEF Changes
  <2>2. /\ op[u].v \in Vecs /\ op[u].w \in Vecs /\ u \notin Vecs
        /\ hold[u] \in SharedBuffers \cup {None} /\ hold[op[u].v] \in SharedBuffers \cup {None}
        /\ AtWork(u) /\ Phase(u)
    BY <2>1, Fields2
  <2>3. op[u].v # op[t].v /\ op[u].w # op[t].v
    BY <1>1, <2>1 DEF IInv, LocksHeld
  <2>4. /\ mCount'[op[u].v] = mCount[op[u].v] /\ mCount'[op[u].w] = mCount[op[u].w]
        /\ hold'[u] = hold[u] /\ hold'[op[u].v] = hold[op[u].v]
        /\ (hold[u] = None \/ hold[u] # b) /\ (hold[op[u].v] = None \/ hold[op[u].v] # b)
    BY <1>0, <1>1, <2>2, <2>3 DEF Changes, All
  <2>5. /\ hold[u] # None => data'[hold[u]] = data[hold[u]] /\ size'[hold[u]] = size[hold[u]]
        /\ hold[op[u].v] # None => size'[hold[op[u].v]] = size[hold[op[u].v]]
    BY <2>2, <2>4 DEF Changes
  <2>6. op[u].pc = "free" => data'[op[u].old] = data[op[u].old]
    BY <1>1, <2>2 DEF Changes, Phase, IInv, TypeOK
  <2>7. op[u].kind = "edit" => Fits(op[u])'
    BY <2>1, <2>2, <2>4 DEF AtWork, Fits, NewLength
  <2> QED
    BY <2>1, <2>2, <2>4, <2>5, <2>6, <2>7 DEF AtWork
<1>2. ASSUME NEW w \in Vecs, w # op[t].v PROVE Filled(w)'
  <2>1. Filled(w) /\ hold[w] \in SharedBuffers \cup {None}
    BY DEF StoreInv, IInv, TypeOK
  <2>2. /\ hold'[w] = hold[w] /\ (hold[w] = None \/ hold[w] # b) /\ mCount'[w] = mCount[w]
    BY <1>0, <1>2 DEF Changes, All
  <2>3. hold[w] # None => data'[hold[w]] = data[hold[w]] /\ size'[hold[w]] = size[hold[w]]
    BY <2>1, <2>2 DEF Changes
  <2>4. Worker(w)' = {} => Worker(w) = {}
    BY <1>2 DEF Worker, Changes
  <2> QED
    BY <2>1, <2>2, <2>3, <2>4 DEF Filled
<1> QED
  BY <1>1, <1>2

(* An operation begins.                                                    *)
Begins(o) ==
  /\ o.pc \in {"own", "alloc", "fill", "sole", "share"}
  /\ o.kind = "edit" => Fits(o) /\ o.pc # "sole"
  /\ o.pc = "fill" => o.kind = "edit" /\ hold[o.v] = None
  /\ o.v \in Vecs /\ o.w \in Vecs

LEMMA BeginStores ==
  ASSUME IInv, StoreInv, NEW t \in Threads, NEW o, Begin(t, o), Begins(o)
  PROVE  StoreInv'
<1>1. /\ op[t].pc = "idle" /\ hold[t] = None
      /\ op'[t] = o /\ \A u \in Threads : u # t => op'[u] = op[u]
      /\ UNCHANGED <<trivial, hold, mCount, mRefs, size, data, live>>
  BY IdleHoldsNothing DEF Begin, IInv, TypeOK, buffers
<1>2. StoreTypeOK'
  BY <1>1 DEF StoreInv, StoreTypeOK
<1>3. ASSUME NEW v \in Vecs PROVE Filled(v)'
  <2>1. Worker(v)' = {} => Worker(v) = {}
    BY <1>1 DEF Worker
  <2> QED
    BY <1>1, <2>1 DEF StoreInv, Filled
<1>4. ASSUME NEW u \in Threads, op'[u].pc # "idle" PROVE AtWork(u)'
  <2>1. CASE u # t
    <3>1. op'[u] = op[u] /\ AtWork(u)
      BY <1>1, <1>4, <2>1 DEF StoreInv
    <3>2. Fits(op[u]) => Fits(op[u])'
      BY <1>1, <3>1 DEF Fits, NewLength
    <3> QED
      BY <1>1, <3>1, <3>2 DEF AtWork
  <2>2. CASE u = t
    <3>1. Worker(o.v) = {}
      BY DEF Begin, Unused, Worker
    <3>2. hold[o.v] = None => mCount[o.v] = 0
      BY <3>1 DEF StoreInv, Filled, Begins
    <3>3. op'[u] = o /\ hold'[u] = None
      BY <1>1, <2>2
    <3>4. o.kind = "edit" => Fits(op[u])'
      BY <1>1, <3>3 DEF Begins, Fits, NewLength
    <3> QED
      BY <1>1, <3>2, <3>3, <3>4 DEF AtWork, Begins
  <2> QED
    BY <2>1, <2>2
<1>5. ASSUME NEW b \in live' PROVE Kept(b)'
  BY <1>1 DEF StoreInv, Kept, Holders
<1> QED
  BY <1>2, <1>3, <1>4, <1>5 DEF StoreInv

(* An edit makes room for what it leaves.                                  *)
Ready(v, w, ready, at, n, new) ==
  /\ at \in Nat /\ n \in Nat /\ ready.cap \in Nat /\ new \in Seq(Records)
  /\ at + n <= mCount[v]
  /\ mCount[v] - n + (IF w # v THEN mCount[w] ELSE Len(new)) <= ready.cap

LEMMA EditStores ==
  ASSUME IInv, StoreInv, NEW t \in Threads, NEW v \in Vecs, NEW w \in Vecs, NEW ready,
         NEW at, NEW n, NEW new, Edit(t, v, w, ready, at, n, new),
         Ready(v, w, ready, at, n, new)
  PROVE  StoreInv'
<1> DEFINE o == [pc |-> CASE ready.way = "alloc" -> "alloc"
                          [] ready.way # "alloc" /\ hold[v] # None -> "own"
                          [] ready.way # "alloc" /\ hold[v] = None -> "fill",
                 kind |-> "edit", v |-> v, w |-> w, way |-> ready.way, cap |-> ready.cap,
                 at |-> at, n |-> n, new |-> new, sole |-> FALSE, old |-> None]
<1>1. Begin(t, o)
  BY DEF Edit
<1>2. o.pc \in {"own", "alloc", "fill"} /\ (o.pc = "fill" => hold[v] = None)
  OBVIOUS
<1>3. /\ o.v = v /\ o.w = w /\ o.kind = "edit" /\ o.cap = ready.cap
      /\ o.at = at /\ o.n = n /\ o.new = new
  OBVIOUS
<1> HIDE DEF o
<1>4. Begins(o)
  BY <1>2, <1>3 DEF Begins, Fits, Ready, NewLength
<1> QED
  BY <1>1, <1>4, BeginStores

LEMMA ReplaceStores ==
  ASSUME IInv, StoreInv, NEW t \in Threads, NEW v \in Vecs, NEW w \in Vecs,
         NEW kind \in {"assign", "copy", "finish"}, Replace(t, kind, v, w)
  PROVE  StoreInv'
<1> DEFINE o == [pc |-> IF hold[v] = None THEN "share" ELSE "sole",
                 kind |-> kind, v |-> v, w |-> w, way |-> "edit", cap |-> 0,
                 at |-> 0, n |-> 0, new |-> <<>>, sole |-> FALSE, old |-> None]
<1>1. Begin(t, o)
  BY DEF Replace
<1>2. o.pc \in {"sole", "share"} /\ o.v = v /\ o.w = w /\ o.kind = kind
  OBVIOUS
<1> HIDE DEF o
<1>3. Begins(o)
  BY <1>2 DEF Begins
<1> QED
  BY <1>1, <1>3, BeginStores

(* What a vector that nobody works on gives an edit to start from.         *)
LEMMA AtRest ==
  ASSUME IInv, StoreInv, NEW v \in Vecs, Worker(v) = {}
  PROVE  /\ mCount[v] \in Nat /\ Capacity(v) \in Nat /\ mCount[v] <= Capacity(v)
         /\ Contents(v) \in Seq(Records) /\ Len(Contents(v)) = mCount[v]
<1>1. /\ mCount[v] \in Nat /\ hold[v] \in SharedBuffers \cup {None} /\ Filled(v)
      /\ size \in [SharedBuffers -> Nat] /\ data \in [SharedBuffers -> Seq(Records)]
  BY DEF IInv, TypeOK, StoreInv, StoreTypeOK
<1>2. CASE hold[v] = None
  BY <1>1, <1>2, EmptySeq DEF Filled, Capacity, Contents
<1>3. CASE hold[v] # None
  <2>1. PICK s \in Seq(Records) : s = data[hold[v]]
    BY <1>1, <1>3
  <2>2. mCount[v] = Len(s) /\ mCount[v] <= size[hold[v]] /\ size[hold[v]] \in Nat
    BY <1>1, <1>3, <2>1 DEF Filled
  <2>3. SubSeq(s, 1, Len(s)) = s
    BY SubSeqFull
  <2> QED
    BY <1>1, <1>3, <2>1, <2>2, <2>3 DEF Capacity, Contents
<1> QED
  BY <1>2, <1>3

(* The capacities of VectorImpl leave room for what they are asked for.    *)
LEMMA GrowFits ==
  ASSUME NEW v \in Vecs, NEW where, NEW amount \in Nat, mCount[v] \in Nat, Capacity(v) \in Nat
  PROVE  Grow(v, where, amount).cap \in Nat /\ mCount[v] + amount <= Grow(v, where, amount).cap
<1>1. PICK n \in Nat : n = mCount[v] + amount
  OBVIOUS
<1>2. PICK m \in Nat : m = (3 * n + 1) \div 2 /\ n <= m
  OBVIOUS
<1>3. kMinVectorCapacity \in Nat
  BY VectorAssumption DEF VectorAssumption
<1> QED
  BY <1>1, <1>2, <1>3 DEF Grow, Other, Same, Larger

LEMMA ShrinkFits ==
  ASSUME NEW v \in Vecs, NEW where, NEW amount \in Nat, mCount[v] \in Nat, Capacity(v) \in Nat,
         amount <= mCount[v], mCount[v] <= Capacity(v)
  PROVE  Shrink(v, where, amount).cap \in Nat /\ mCount[v] - amount <= Shrink(v, where, amount).cap
<1>1. PICK n \in Nat : n = mCount[v] - amount
  OBVIOUS
<1>2. kMinVectorCapacity \in Nat
  BY VectorAssumption DEF VectorAssumption
<1> QED
  BY <1>1, <1>2 DEF Shrink, Other, Same, Larger

LEMMA PlainStores ==
  ASSUME IInv, StoreInv, NEW t \in Threads, NEW v \in Vecs,
         \/ InsertArrayAt(t, v) \/ InsertVectorAt(t, v) \/ RemoveItemsAt(t, v) \/ Clear(t, v)
         \/ ReplaceAt(t, v) \/ Sort(t, v) \/ SetCapacity(t, v)
  PROVE  StoreInv'
<1>1. Worker(v) = {}
  BY DEF InsertArrayAt, InsertVectorAt, RemoveItemsAt, Clear, ReplaceAt, Sort, SetCapacity, Edit,
     Begin, Unused, Worker
<1>2. /\ mCount[v] \in Nat /\ Capacity(v) \in Nat /\ mCount[v] <= Capacity(v)
      /\ Contents(v) \in Seq(Records) /\ Len(Contents(v)) = mCount[v]
  BY <1>1, AtRest
<1>3. Arrays \subseteq Seq(Records) /\ <<>> \in Seq(Records) /\ MaxSize \in Nat /\ Len(<<>>) = 0
  BY VectorAssumption DEF VectorAssumption, Passed
<1>4. CASE InsertArrayAt(t, v)
  <2>1. PICK at \in Indices(v), array \in Arrays :
          Edit(t, v, v, Grow(v, at, Len(array)), at, 0, array)
    BY <1>4 DEF InsertArrayAt
  <2>2. array \in Seq(Records) /\ Len(array) \in Nat /\ at \in Nat /\ at <= mCount[v]
    BY <1>2, <1>3, LenProperties DEF Indices
  <2>3. /\ Grow(v, at, Len(array)).cap \in Nat
        /\ mCount[v] + Len(array) <= Grow(v, at, Len(array)).cap
    BY <1>2, <2>2, GrowFits
  <2>4. Ready(v, v, Grow(v, at, Len(array)), at, 0, array)
    BY <1>2, <2>2, <2>3 DEF Ready
  <2> QED
    BY <2>1, <2>4, EditStores
<1>5. CASE InsertVectorAt(t, v)
  <2>1. PICK w \in Vecs \ {v}, at \in Indices(v) : Edit(t, v, w, Grow(v, at, mCount[w]), at, 0, <<>>)
    BY <1>5 DEF InsertVectorAt
  <2>2. mCount[w] \in Nat /\ at \in Nat /\ at <= mCount[v]
    BY <1>2 DEF Indices, StoreInv, StoreTypeOK
  <2>3. /\ Grow(v, at, mCount[w]).cap \in Nat
        /\ mCount[v] + mCount[w] <= Grow(v, at, mCount[w]).cap
    BY <1>2, <2>2, GrowFits
  <2>4. Ready(v, w, Grow(v, at, mCount[w]), at, 0, <<>>)
    BY <1>2, <1>3, <2>2, <2>3 DEF Ready
  <2> QED
    BY <2>1, <2>4, EditStores
<1>6. CASE RemoveItemsAt(t, v)
  <2>0. PICK at \in Indices(v) :
          \E n \in 0 .. mCount[v] - at : Edit(t, v, v, Shrink(v, at, n), at, n, <<>>)
    BY <1>6 DEF RemoveItemsAt
  <2>1. PICK n \in 0 .. mCount[v] - at : Edit(t, v, v, Shrink(v, at, n), at, n, <<>>)
    BY <2>0
  <2>2. n \in Nat /\ at \in Nat /\ at + n <= mCount[v] /\ n <= mCount[v]
    BY <1>2 DEF Indices
  <2>3. Shrink(v, at, n).cap \in Nat /\ mCount[v] - n <= Shrink(v, at, n).cap
    BY <1>2, <2>2, ShrinkFits
  <2>4. Ready(v, v, Shrink(v, at, n), at, n, <<>>)
    BY <1>2, <1>3, <2>2, <2>3 DEF Ready
  <2> QED
    BY <2>1, <2>4, EditStores
<1>7. CASE Clear(t, v)
  <2>1. Edit(t, v, v, Shrink(v, 0, mCount[v]), 0, mCount[v], <<>>)
    BY <1>7 DEF Clear
  <2>2. Shrink(v, 0, mCount[v]).cap \in Nat /\ mCount[v] - mCount[v] <= Shrink(v, 0, mCount[v]).cap
    BY <1>2, ShrinkFits
  <2>3. Ready(v, v, Shrink(v, 0, mCount[v]), 0, mCount[v], <<>>)
    BY <1>2, <1>3, <2>2 DEF Ready
  <2> QED
    BY <2>1, <2>3, EditStores
<1>8. CASE ReplaceAt(t, v)
  <2>1. PICK at \in 0 .. mCount[v] - 1, item \in Single : Edit(t, v, v, Same(v), at, 1, <<item>>)
    BY <1>8 DEF ReplaceAt
  <2>2. <<item>> \in Seq(Records) /\ Len(<<item>>) = 1
    BY <1>3 DEF Single
  <2>3. Ready(v, v, Same(v), at, 1, <<item>>)
    BY <1>2, <2>2 DEF Ready, Same
  <2> QED
    BY <2>1, <2>3, EditStores
<1>9. CASE Sort(t, v)
  <2>1. PICK sorted : /\ sorted = InsertionSort(Contents(v))
                      /\ Edit(t, v, v, Same(v), 0, mCount[v], sorted)
    BY <1>9 DEF Sort
  <2>2. sorted \in Seq(Records) /\ Len(sorted) = mCount[v]
    BY <1>2, <2>1, InsertionSortLength
  <2>3. Ready(v, v, Same(v), 0, mCount[v], sorted)
    BY <1>2, <2>2 DEF Ready, Same
  <2> QED
    BY <2>1, <2>3, EditStores
<1>10. CASE SetCapacity(t, v)
  <2>1. /\ mCount[v] < MaxSize
        /\ Edit(t, v, v, [way |-> "alloc", cap |-> MaxSize], 0, 0, <<>>)
    BY <1>10 DEF SetCapacity
  <2>2. Ready(v, v, [way |-> "alloc", cap |-> MaxSize], 0, 0, <<>>)
    BY <1>2, <1>3, <2>1 DEF Ready
  <2> QED
    BY <2>1, <2>2, EditStores
<1> QED
  BY <1>4, <1>5, <1>6, <1>7, <1>8, <1>9, <1>10, Zenon

LEMMA SortedStores ==
  ASSUME IInv, StoreInv, NEW t \in Threads, NEW v \in Vecs, SortedAdd(t, v) \/ SortedRemove(t, v)
  PROVE  StoreInv'
<1>0. PICK item \in Items : \E o \in {IndexOrder(Contents(v), item.key)} :
        \/ o.found /\ Edit(t, v, v, Same(v), o.at, 1, <<item>>)
        \/ Edit(t, v, v, Grow(v, o.at, 1), o.at, 0, <<item>>)
        \/ o.found /\ Edit(t, v, v, Shrink(v, o.at, 1), o.at, 1, <<>>)
  BY DEF SortedAdd, SortedRemove
<1>1. PICK o :
        /\ o = IndexOrder(Contents(v), item.key)
        /\ \/ o.found /\ Edit(t, v, v, Same(v), o.at, 1, <<item>>)
           \/ Edit(t, v, v, Grow(v, o.at, 1), o.at, 0, <<item>>)
           \/ o.found /\ Edit(t, v, v, Shrink(v, o.at, 1), o.at, 1, <<>>)
  BY <1>0
<1>2. Worker(v) = {}
  BY <1>1 DEF Edit, Begin, Unused, Worker
<1>3. /\ mCount[v] \in Nat /\ Capacity(v) \in Nat /\ mCount[v] <= Capacity(v)
      /\ Contents(v) \in Seq(Records) /\ Len(Contents(v)) = mCount[v]
  BY <1>2, AtRest
<1>4. o.at \in Nat /\ o.at <= mCount[v] /\ (o.found => o.at + 1 <= mCount[v])
  <2>1. Answers(Contents(v), item.key, o)
    BY <1>1, <1>3, IndexOrderBounds
  <2> QED
    BY <1>3, <2>1 DEF Answers
<1>5. <<item>> \in Seq(Records) /\ Len(<<item>>) = 1 /\ <<>> \in Seq(Records) /\ Len(<<>>) = 0
  BY DEF Records
<1>6. CASE o.found /\ Edit(t, v, v, Same(v), o.at, 1, <<item>>)
  <2>1. Ready(v, v, Same(v), o.at, 1, <<item>>)
    BY <1>3, <1>4, <1>5, <1>6 DEF Ready, Same
  <2> QED
    BY <1>6, <2>1, EditStores
<1>7. CASE Edit(t, v, v, Grow(v, o.at, 1), o.at, 0, <<item>>)
  <2>1. Grow(v, o.at, 1).cap \in Nat /\ mCount[v] + 1 <= Grow(v, o.at, 1).cap
    BY <1>3, GrowFits
  <2>2. Ready(v, v, Grow(v, o.at, 1), o.at, 0, <<item>>)
    BY <1>3, <1>4, <1>5, <2>1 DEF Ready
  <2> QED
    BY <1>7, <2>2, EditStores
<1>8. CASE o.found /\ Edit(t, v, v, Shrink(v, o.at, 1), o.at, 1, <<>>)
  <2>1. Shrink(v, o.at, 1).cap \in Nat /\ mCount[v] - 1 <= Shrink(v, o.at, 1).cap
    BY <1>3, <1>4, <1>8, ShrinkFits
  <2>2. Ready(v, v, Shrink(v, o.at, 1), o.at, 1, <<>>)
    BY <1>3, <1>4, <1>5, <1>8, <2>1 DEF Ready
  <2> QED
    BY <1>8, <2>2, EditStores
<1> QED
  BY <1>1, <1>6, <1>7, <1>8

LEMMA CallStores ==
  ASSUME IInv, StoreInv, NEW t \in Threads, Call(t)
  PROVE  StoreInv'
<1>1. CASE \E v \in Vecs :
             \/ InsertArrayAt(t, v) \/ InsertVectorAt(t, v) \/ RemoveItemsAt(t, v) \/ Clear(t, v)
             \/ ReplaceAt(t, v) \/ Sort(t, v) \/ SetCapacity(t, v)
  BY <1>1, PlainStores
<1>2. CASE \E v \in Vecs : SortedAdd(t, v) \/ SortedRemove(t, v)
  BY <1>2, SortedStores
<1>3. CASE \E v \in Vecs : Assign(t, v) \/ Copy(t, v) \/ Finish(t, v)
  BY <1>3, ReplaceStores DEF Assign, Copy, Finish, Vecs
<1> QED
  BY <1>1, <1>2, <1>3 DEF Call, Vecs

(* The steps of an operation. In each, another thread frees only what      *)
(* nobody holds.                                                           *)
LEMMA FreedUnheld ==
  ASSUME IInv, NEW u \in Threads, op[u].pc = "free"
  PROVE  op[u].old \in live /\ op[u].old \in SharedBuffers /\ op[u].old # None
         /\ \A h \in All : hold[h] # op[u].old
<1>1. Phase(u) /\ op[u].old \in SharedBuffers \cup {None} /\ live \subseteq SharedBuffers
  BY DEF IInv, TypeOK, Phases
<1> QED
  BY <1>1, VectorAssumption DEF Phase, Holders, All, VectorAssumption

LEMMA SoleOwner ==
  ASSUME IInv, NEW v \in Vecs, hold[v] # None, OnlyOwner(hold[v])
  PROVE  \A h \in All : hold[h] = hold[v] => h = v
<1>1. hold[v] \in SharedBuffers /\ v \in All
  BY DEF IInv, TypeOK, All
<1>2. mRefs[hold[v]] = 1 /\ mRefs[hold[v]] = Cardinality(Holders(hold[v]))
  BY <1>1 DEF OnlyOwner, IInv, CountsAgree
<1>3. PICK h : Holders(hold[v]) = {h}
  BY <1>2, HoldersFinite, FS_Singleton
<1> QED
  BY <1>1, <1>3 DEF Holders, All

(* What a step leaves of an operation that goes on.                        *)
Goes(t, label) ==
  /\ op'[t].pc = label /\ op'[t].kind = op[t].kind /\ op'[t].v = op[t].v /\ op'[t].w = op[t].w
  /\ op'[t].cap = op[t].cap /\ op'[t].at = op[t].at /\ op'[t].n = op[t].n /\ op'[t].new = op[t].new
  /\ \A u \in Threads : u # t => op'[u] = op[u]

LEMMA GotoGoes ==
  ASSUME TypeOK, NEW t \in Threads, NEW label, op[t].pc # "idle", Goto(t, label)
  PROVE  Goes(t, label)
  BY DEF TypeOK, Goto, Fields, Goes

LEMMA FitsOn ==
  ASSUME NEW t \in Threads, NEW label, Goes(t, label), mCount' = mCount, Fits(op[t])
  PROVE  Fits(op[t])'
  BY DEF Goes, Fits, NewLength

(* What holds a buffer, or is to free it, goes on doing so.                *)
LEMMA KeptOn ==
  ASSUME NEW t \in Threads, NEW c, Kept(c), op[t].pc # "free" \/ op[t].old # c,
         \A u \in Threads : u # t => op'[u] = op[u],
         \A h \in All : hold[h] = c => \E k \in All : hold'[k] = c
  PROVE  Kept(c)'
  BY DEF Kept, Holders, All

LEMMA OwnStores ==
  ASSUME IInv, StoreInv, NEW t \in Threads, Own(t)
  PROVE  StoreInv' /\ \E b : Changes(t, b)
<1> DEFINE v == op[t].v
           b == hold[v]
<1>1. op[t].pc = "own" /\ op[t].pc # "idle"
  BY DEF Own
<1>2. /\ v \in Vecs /\ b \in SharedBuffers /\ b # None /\ hold[t] = None
      /\ op[t].kind = "edit" /\ Fits(op[t]) /\ op[t].cap \in Nat
  BY <1>1, Fields2, VectorAssumption DEF Phase, AtWork, Fits, VectorAssumption
<1>3. UNCHANGED <<hold, mCount, data, live>>
  BY DEF Own
<1>4. TypeOK /\ \A c \in live : Kept(c)
  BY DEF IInv, StoreInv
<1>5. CASE OnlyOwner(b)
  <2>1. Goes(t, "fill") /\ size' = [size EXCEPT ![b] = op[t].cap]
    BY <1>1, <1>4, <1>5, GotoGoes DEF Own
  <2>2. Changes(t, b)
    BY <1>2, <1>3, <1>5, <2>1, SoleOwner, FreedUnheld DEF Changes, Goes, StoreInv, StoreTypeOK, All
  <2>3. StoreTypeOK'
    BY <1>2, <1>3, <2>1 DEF StoreInv, StoreTypeOK
  <2>4. ASSUME NEW x, x = v PROVE Filled(x)'
    <3>1. Worker(x)' # {}
      BY <2>4, <2>1 DEF Worker, Goes
    <3> QED
      BY <2>4, <1>2, <1>3, <3>1 DEF StoreInv, Filled
  <2>5. AtWork(t)'
    <3>1. Fits(op[t])'
      BY <1>2, <1>3, <2>1, FitsOn
    <3>2. size'[b] = op[t].cap
      BY <1>2, <2>1 DEF StoreInv, StoreTypeOK
    <3> QED
      BY <1>2, <1>3, <2>1, <3>1, <3>2 DEF AtWork, Goes
  <2>6. \A c \in live' : Kept(c)'
    BY <1>1, <1>3, <1>4, <2>1, KeptOn DEF Goes
  <2> QED
    BY <1>1, <2>2, <2>3, <2>4, <2>5, <2>6, OthersKept DEF StoreInv
<1>6. CASE ~OnlyOwner(b)
  <2>1. Goes(t, "alloc") /\ size' = size
    BY <1>1, <1>4, <1>6, GotoGoes DEF Own
  <2>2. Changes(t, None)
    BY <1>3, <2>1, FreedUnheld DEF Changes, Goes
  <2>3. StoreTypeOK'
    BY <1>3, <2>1 DEF StoreInv, StoreTypeOK
  <2>4. ASSUME NEW x, x = v PROVE Filled(x)'
    <3>1. Worker(x)' # {}
      BY <2>4, <2>1 DEF Worker, Goes
    <3> QED
      BY <2>4, <1>2, <1>3, <3>1 DEF StoreInv, Filled
  <2>5. AtWork(t)'
    <3>1. Fits(op[t])'
      BY <1>2, <1>3, <2>1, FitsOn
    <3> QED
      BY <1>2, <1>3, <2>1, <3>1 DEF AtWork, Goes
  <2>6. \A c \in live' : Kept(c)'
    BY <1>1, <1>3, <1>4, <2>1, KeptOn DEF Goes
  <2> QED
    BY <1>1, <2>2, <2>3, <2>4, <2>5, <2>6, OthersKept DEF StoreInv
<1> QED
  BY <1>5, <1>6

LEMMA SoleStores ==
  ASSUME IInv, StoreInv, NEW t \in Threads, Sole(t)
  PROVE  StoreInv' /\ \E b : Changes(t, b)
<1> DEFINE v == op[t].v
<1>1. op[t].pc = "sole" /\ op[t].pc # "idle"
  BY DEF Sole
<1>2. /\ v \in Vecs /\ AtWork(t)
  BY <1>1, Fields2
<1>3. UNCHANGED <<hold, mCount, size, data, live>> /\ Goes(t, "release")
  BY <1>1 DEF Sole, buffers, Goes, IInv, TypeOK, Fields
<1>4. Changes(t, None)
  BY <1>3, FreedUnheld DEF Changes, Goes
<1>5. StoreTypeOK'
  BY <1>3 DEF StoreInv, StoreTypeOK
<1>6. ASSUME NEW x, x = v PROVE Filled(x)'
  <2>1. Worker(x)' # {}
    BY <1>6, <1>3 DEF Worker, Goes
  <2> QED
    BY <1>6, <1>2, <1>3, <2>1 DEF StoreInv, Filled
<1>7. AtWork(t)'
  <2>1. op[t].kind = "edit" => Fits(op[t])'
    BY <1>2, <1>3, FitsOn DEF AtWork
  <2> QED
    BY <1>1, <1>2, <1>3, <2>1 DEF AtWork, Goes
<1>8. \A c \in live' : Kept(c)'
  BY <1>1, <1>3, KeptOn DEF Goes, StoreInv
<1> QED
  BY <1>1, <1>4, <1>5, <1>6, <1>7, <1>8, OthersKept DEF StoreInv

LEMMA AllocStores ==
  ASSUME IInv, StoreInv, NEW t \in Threads, Alloc(t)
  PROVE  StoreInv' /\ \E b : Changes(t, b)
<1> DEFINE v == op[t].v
           label == IF hold[v] = None THEN "fill" ELSE "sole"
<1>1. op[t].pc = "alloc" /\ op[t].pc # "idle"
  BY DEF Alloc
<1>2. /\ v \in Vecs /\ v # t /\ hold[t] = None /\ op[t].kind = "edit" /\ Fits(op[t])
      /\ op[t].cap \in Nat /\ AtWork(t) /\ hold[v] \in SharedBuffers \cup {None}
  BY <1>1, Fields2 DEF Phase, AtWork, Fits
<1>3. PICK b \in SharedBuffers :
        /\ b \notin live /\ live' = live \cup {b} /\ hold' = [hold EXCEPT ![t] = b]
        /\ size' = [size EXCEPT ![b] = op[t].cap] /\ data' = [data EXCEPT ![b] = Contents(v)]
  BY DEF Alloc, IInv, TypeOK
<1>4. Goes(t, label) /\ mCount' = mCount
  BY <1>1, GotoGoes DEF Alloc, IInv
<1>5. Contents(v) \in Seq(Records) /\ Len(Contents(v)) = mCount[v]
  <2>1. CASE hold[v] = None
    BY <1>1, <1>2, <2>1, EmptySeq DEF Contents, AtWork
  <2>2. CASE hold[v] # None
    <3>1. PICK s \in Seq(Records) : s = data[hold[v]] /\ Len(s) = mCount[v]
      BY <1>2, <2>2 DEF StoreInv, StoreTypeOK, Filled
    <3> QED
      BY <2>2, <3>1, SubSeqFull DEF Contents
  <2> QED
    BY <2>1, <2>2
<1>6. \A h \in All : hold[h] # b
  BY <1>3 DEF IInv, CountsAgree, Holders, All
<1>7. hold'[t] = b /\ b # None /\ \A h \in All : h # t => hold'[h] = hold[h]
  BY <1>3, VectorAssumption DEF VectorAssumption, IInv, TypeOK, All
<1>8. Changes(t, b)
  BY <1>3, <1>4, <1>6, <1>7, FreedUnheld DEF Changes, Goes, StoreInv, StoreTypeOK
<1>9. StoreTypeOK'
  BY <1>2, <1>3, <1>4, <1>5 DEF StoreInv, StoreTypeOK
<1>10. ASSUME NEW x, x = v PROVE Filled(x)'
  <2>1. Worker(x)' # {}
    BY <1>10, <1>4 DEF Worker, Goes
  <2>2. hold'[v] = hold[v] /\ (hold[v] # None => hold[v] # b /\ data'[hold[v]] = data[hold[v]])
    BY <1>10, <1>2, <1>3, <1>6, <1>7 DEF All, StoreInv, StoreTypeOK
  <2> QED
    BY <1>10, <1>2, <1>4, <2>1, <2>2 DEF StoreInv, Filled
<1>11. AtWork(t)'
  <2>1. Fits(op[t])'
    BY <1>2, <1>4, FitsOn
  <2>2. data'[b] = Contents(v) /\ size'[b] = op[t].cap
    BY <1>3 DEF StoreInv, StoreTypeOK
  <2> QED
    BY <1>2, <1>4, <1>5, <1>7, <2>1, <2>2 DEF AtWork, Goes
<1>12. ASSUME NEW c \in live' PROVE Kept(c)'
  <2>1. CASE c = b
    BY <1>7, <2>1 DEF Kept, Holders
  <2>2. CASE c # b
    <3>1. Kept(c) /\ c # None
      BY <1>3, <1>12, <2>2, VectorAssumption DEF StoreInv, IInv, TypeOK, VectorAssumption
    <3>2. \A h \in All : hold[h] = c => hold'[h] = c
      BY <1>2, <1>7, <3>1
    <3> QED
      BY <1>1, <1>4, <3>1, <3>2, KeptOn DEF Goes
  <2> QED
    BY <2>1, <2>2
<1> QED
  BY <1>1, <1>8, <1>9, <1>10, <1>11, <1>12, OthersKept DEF StoreInv

LEMMA ReleaseStores ==
  ASSUME IInv, StoreInv, NEW t \in Threads, Release(t)
  PROVE  StoreInv' /\ \E b : Changes(t, b)
<1> DEFINE v == op[t].v
           b == hold[v]
           n == IF op[t].sole THEN 0 ELSE mRefs[b] - 1
           label == IF n = 0 THEN "free" ELSE After(op[t])
<1>1. op[t].pc = "release" /\ op[t].pc # "idle"
  BY DEF Release
<1>2. /\ v \in Vecs /\ v # t /\ b # None /\ b \in SharedBuffers /\ AtWork(t)
  BY <1>1, Fields2 DEF Phase
<1>3. /\ hold' = [hold EXCEPT ![v] = None] /\ mRefs' = [mRefs EXCEPT ![b] = n]
      /\ UNCHANGED <<mCount, size, data, live>>
  BY DEF Release
<1>4. Goes(t, label) /\ op'[t].old = b
  BY <1>1 DEF Release, Frees, IInv, TypeOK, Fields, Goes
<1>5. label \in {"free", "fill", "share"} /\ (label = "fill" => op[t].kind = "edit")
  BY DEF After
<1>6. hold'[v] = None /\ \A h \in All : h # v => hold'[h] = hold[h]
  BY <1>2, <1>3 DEF IInv, TypeOK, All
<1>7. mRefs'[b] = n /\ (label # "free" => n # 0)
  BY <1>2, <1>3 DEF IInv, TypeOK, After
<1> HIDE DEF n, label
<1>8. Changes(t, None)
  BY <1>3, <1>4, <1>6, FreedUnheld DEF Changes, Goes
<1>9. StoreTypeOK'
  BY <1>3 DEF StoreInv, StoreTypeOK
<1>10. ASSUME NEW x, x = v PROVE Filled(x)'
  <2>1. Worker(x)' # {}
    BY <1>4, <1>5, <1>10 DEF Worker, Goes
  <2> QED
    BY <1>6, <1>10, <2>1 DEF Filled
<1>11. AtWork(t)'
  <2>1. op[t].kind = "edit" => Fits(op[t])'
    BY <1>2, <1>3, <1>4, FitsOn DEF AtWork
  <2>2. hold'[t] = hold[t] /\ (op[t].kind = "edit" => hold[t] # None)
    BY <1>1, <1>2, <1>6 DEF AtWork, All
  <2>3. Len(data[b]) = mCount[v]
    BY <1>2 DEF StoreInv, Filled
  <2> QED
    BY <1>2, <1>3, <1>4, <1>5, <2>1, <2>2, <2>3 DEF AtWork, Goes
<1>12. ASSUME NEW c \in live' PROVE Kept(c)'
  <2>1. c \in SharedBuffers /\ c # None /\ Kept(c)
    BY <1>3, <1>12, VectorAssumption DEF StoreInv, IInv, TypeOK, VectorAssumption
  <2>2. CASE c # b
    <3>1. \A h \in All : hold[h] = c => hold'[h] = c
      BY <1>6, <2>2
    <3> QED
      BY <1>1, <1>4, <2>1, <3>1, KeptOn DEF Goes
  <2>3. CASE c = b /\ label = "free"
    BY <1>4, <2>3 DEF Kept, Goes
  <2>4. CASE c = b /\ label # "free"
    <3>1. IInv'
      BY ReleaseStep
    <3>2. mRefs'[c] = Cardinality(Holders(c)')
      BY <2>1, <3>1 DEF IInv, CountsAgree
    <3>3. mRefs'[c] # 0
      BY <1>7, <2>4
    <3>4. Holders(c)' # {}
      BY <3>2, <3>3, FS_EmptySet
    <3> QED
      BY <3>4 DEF Kept
  <2> QED
    BY <2>2, <2>3, <2>4
<1> QED
  BY <1>1, <1>8, <1>9, <1>10, <1>11, <1>12, OthersKept DEF StoreInv

LEMMA FreeStores ==
  ASSUME IInv, StoreInv, NEW t \in Threads, Free(t)
  PROVE  StoreInv' /\ \E b : Changes(t, b)
<1> DEFINE v == op[t].v
           b == op[t].old
<1>1. op[t].pc = "free" /\ op[t].pc # "idle"
  BY DEF Free
<1>2. /\ v \in Vecs /\ hold[v] = None /\ AtWork(t) /\ t \in All
      /\ b \in live /\ b \in SharedBuffers /\ b # None /\ \A h \in All : hold[h] # b
  BY <1>1, Fields2, FreedUnheld DEF Phase, All
<1>3. mRefs[b] = 0
  <2>1. Holders(b) = {}
    BY <1>2 DEF Holders, All
  <2> QED
    BY <1>2, <2>1, FS_EmptySet DEF IInv, CountsAgree
<1>4. /\ UNCHANGED <<hold, mCount>> /\ live' = live \ {b}
      /\ size' = [size EXCEPT ![b] = 0] /\ data' = [data EXCEPT ![b] = <<>>]
  BY <1>3 DEF Free
<1>5. Goes(t, After(op[t]))
  BY <1>1 DEF Free, IInv, TypeOK, Fields, Goes
<1>6. Changes(t, b)
  <2>1. \A u \in Threads : u # t /\ op[u].pc = "free" => op[u].old # b
    BY <1>1 DEF IInv, LocksHeld
  <2> QED
    BY <1>2, <1>4, <1>5, <2>1 DEF Changes, Goes, StoreInv, StoreTypeOK
<1>7. StoreTypeOK'
  <2>1. <<>> \in Seq(Records) /\ 0 \in Nat
    OBVIOUS
  <2> QED
    BY <1>4, <2>1 DEF StoreInv, StoreTypeOK
<1>8. ASSUME NEW x, x = v PROVE Filled(x)'
  <2>1. Worker(x)' # {}
    BY <1>5, <1>8 DEF Worker, Goes, After
  <2> QED
    BY <1>2, <1>4, <1>8, <2>1 DEF Filled
<1>9. AtWork(t)'
  <2>1. op[t].kind = "edit" => Fits(op[t])'
    BY <1>2, <1>4, <1>5, FitsOn DEF AtWork
  <2>2. hold[t] # None => data'[hold[t]] = data[hold[t]] /\ size'[hold[t]] = size[hold[t]]
    BY <1>2, <1>4 DEF IInv, TypeOK, StoreInv, StoreTypeOK
  <2>3. op[t].kind = "edit" => hold[t] # None
    BY <1>1, <1>2 DEF AtWork
  <2>4. After(op[t]) \in {"fill", "share"} /\ (After(op[t]) = "fill" => op[t].kind = "edit")
    BY DEF After
  <2> QED
    BY <1>2, <1>4, <1>5, <2>1, <2>2, <2>3, <2>4 DEF AtWork, Goes
<1>10. ASSUME NEW c \in live' PROVE Kept(c)'
  <2>1. Kept(c) /\ c # b
    BY <1>4, <1>10 DEF StoreInv
  <2> QED
    BY <1>4, <1>5, <2>1, KeptOn DEF Goes
<1> QED
  BY <1>1, <1>6, <1>7, <1>8, <1>9, <1>10, OthersKept DEF StoreInv

(* Nobody works on the vector that another operation reads.                *)
LEMMA SourceAtRest ==
  ASSUME IInv, StoreInv, NEW t \in Threads, op[t].pc # "idle", op[t].w # op[t].v
  PROVE  op[t].w \in Vecs /\ Worker(op[t].w) = {}
<1>1. op[t].w \in Vecs
  BY Fields2
<1>2. \A u \in Threads : op[u].pc # "idle" => op[u].v # op[t].w
  BY DEF IInv, LocksHeld
<1> QED
  BY <1>1, <1>2 DEF Worker

LEMMA FillStores ==
  ASSUME IInv, StoreInv, NEW t \in Threads, Fill(t)
  PROVE  StoreInv' /\ \E b : Changes(t, b)
<1> DEFINE v == op[t].v
           b == Target(t)
<1>1. op[t].pc = "fill" /\ op[t].pc # "idle"
  BY DEF Fill
<1>2. /\ v \in Vecs /\ v # t /\ v \in All /\ t \in All /\ AtWork(t) /\ op[t].kind = "edit"
      /\ Fits(op[t]) /\ mCount[v] \in Nat /\ Phase(t)
      /\ hold[t] \in SharedBuffers \cup {None} /\ hold[v] \in SharedBuffers \cup {None}
  BY <1>1, Fields2 DEF AtWork, All
<1>3. /\ \A u \in Threads : u # t => op'[u] = op[u]
      /\ op'[t].pc = "idle" /\ UNCHANGED <<size, live>>
  BY DEF Fill, Idle, IInv, TypeOK
<1>4. CASE b = None
  <2>1. hold[t] = None /\ hold[v] = None /\ mCount[v] = 0 /\ UNCHANGED <<data, mCount, hold>>
    BY <1>1, <1>2, <1>4 DEF Fill, Target, AtWork
  <2>2. Changes(t, None)
    BY <1>3, <2>1, FreedUnheld DEF Changes
  <2>3. StoreTypeOK'
    BY <1>3, <2>1 DEF StoreInv, StoreTypeOK
  <2>4. ASSUME NEW x, x = v PROVE Filled(x)'
    BY <2>1, <2>4 DEF Filled
  <2>5. \A c \in live' : Kept(c)'
    BY <1>1, <1>3, <2>1, KeptOn DEF StoreInv
  <2> QED
    BY <1>1, <1>3, <2>2, <2>3, <2>4, <2>5, OthersKept DEF StoreInv
<1>5. CASE b # None
  <2> DEFINE new == New(op[t])
             items == Spliced(data[b], op[t].at, op[t].n, new)
  <2>1. /\ data' = [data EXCEPT ![b] = items]
        /\ mCount' = [mCount EXCEPT ![v] = Len(items)]
        /\ hold' = [hold EXCEPT ![v] = b, ![t] = None]
    BY <1>5 DEF Fill
  <2>2. /\ b \in SharedBuffers
        /\ (hold[t] = b /\ hold[v] = None) \/ (hold[t] = None /\ hold[v] = b)
    BY <1>1, <1>2, <1>5 DEF Target, Phase
  <2>3. \A h \in All : hold[h] = b => h \in {v, t}
    BY <1>1, <1>2, <1>5, <2>2 DEF Phase, Alone, Holders, All
  <2>4. data[b] \in Seq(Records) /\ Len(data[b]) = mCount[v] /\ size[b] = op[t].cap
    BY <1>1, <1>2, <1>5, <2>2 DEF StoreInv, StoreTypeOK, Filled, AtWork
  <2>5. new \in Seq(Records) /\ Len(new) = NewLength(op[t])
    <3>1. CASE op[t].w # v
      <4>1. PICK w \in Vecs : w = op[t].w /\ Worker(w) = {}
        BY <1>1, <3>1, SourceAtRest
      <4>2. Contents(w) \in Seq(Records) /\ Len(Contents(w)) = mCount[w]
        BY <4>1, AtRest
      <4> QED
        BY <3>1, <4>1, <4>2 DEF New, NewLength
    <3>2. CASE op[t].w = v
      BY <1>2, <3>2 DEF New, NewLength, Fits
    <3> QED
      BY <3>1, <3>2
  <2>6. items \in Seq(Records) /\ Len(items) = mCount[v] - op[t].n + NewLength(op[t])
    <3>1. Cuts(Records, data[b], op[t].at, op[t].n, new)
      BY <1>2, <2>4, <2>5 DEF Cuts, Fits
    <3> QED
      BY <2>4, <2>5, <3>1, SplicedLength
  <2>7. Len(items) \in Nat /\ Len(items) <= size[b]
    <3>1. Len(items) \in Nat
      BY <2>6, LenProperties
    <3> QED
      BY <1>2, <2>4, <2>6, <3>1 DEF Fits
  <2> HIDE DEF items
  <2>8. hold'[v] = b /\ hold'[t] = None /\ \A h \in All : h \notin {v, t} => hold'[h] = hold[h]
    BY <1>2, <2>1 DEF IInv, TypeOK, All
  <2>9. data'[b] = items /\ mCount'[v] = Len(items)
    BY <1>2, <2>1, <2>2 DEF StoreInv, StoreTypeOK
  <2>10. Changes(t, b)
    <3>1. \A u \in Threads : u # t /\ op[u].pc = "free" => op[u].old # b
      BY <1>2, <2>2, FreedUnheld
    <3> QED
      BY <1>2, <1>3, <2>1, <2>3, <2>8, <3>1 DEF Changes, StoreInv, StoreTypeOK
  <2>11. StoreTypeOK'
    BY <1>3, <2>1, <2>6, <2>7 DEF StoreInv, StoreTypeOK
  <2>12. ASSUME NEW x, x = v PROVE Filled(x)'
    BY <1>3, <1>5, <2>7, <2>8, <2>9, <2>12 DEF Filled
  <2>13. ASSUME NEW c \in live' PROVE Kept(c)'
    <3>1. c # None /\ Kept(c)
      BY <1>3, <2>13, VectorAssumption DEF StoreInv, IInv, TypeOK, VectorAssumption
    <3>2. \A h \in All : hold[h] = c => \E k \in All : hold'[k] = c
      BY <1>2, <1>5, <2>2, <2>8, <3>1
    <3> QED
      BY <1>1, <1>3, <3>1, <3>2, KeptOn
  <2> QED
    BY <1>1, <1>3, <2>10, <2>11, <2>12, <2>13, OthersKept DEF StoreInv
<1> QED
  BY <1>4, <1>5

LEMMA ShareStores ==
  ASSUME IInv, StoreInv, NEW t \in Threads, Share(t)
  PROVE  StoreInv' /\ \E b : Changes(t, b)
<1> DEFINE v == op[t].v
           w == op[t].w
           b == IF Shares(op[t]) THEN hold[w] ELSE None
<1>1. op[t].pc = "share" /\ op[t].pc # "idle"
  BY DEF Share
<1>2. /\ v \in Vecs /\ w \in Vecs /\ v # t /\ v \in All /\ hold[v] = None /\ hold[t] = None
  BY <1>1, Fields2 DEF Phase, All
<1>3. /\ \A u \in Threads : u # t => op'[u] = op[u]
      /\ op'[t].pc = "idle" /\ UNCHANGED <<size, data, live>>
      /\ hold' = [hold EXCEPT ![v] = b]
      /\ mCount' = [mCount EXCEPT ![v] = IF b = None THEN 0 ELSE mCount[w]]
  BY DEF Share, Idle, IInv, TypeOK
<1>4. b # None => /\ b = hold[w] /\ b \in SharedBuffers
                  /\ Len(data[b]) = mCount[w] /\ mCount[w] <= size[b]
  <2> SUFFICES ASSUME b # None
               PROVE  b = hold[w] /\ b \in SharedBuffers
                      /\ Len(data[b]) = mCount[w] /\ mCount[w] <= size[b]
    OBVIOUS
  <2>1. b = hold[w] /\ hold[w] # None
    OBVIOUS
  <2>2. PICK x \in Vecs : x = w /\ Worker(x) = {}
    BY <1>1, <1>2, <2>1, SourceAtRest
  <2>3. Filled(x) /\ hold[x] \in SharedBuffers \cup {None}
    BY DEF StoreInv, IInv, TypeOK
  <2> QED
    BY <2>1, <2>2, <2>3 DEF Filled
<1>5. mCount[w] \in Nat
  BY <1>2 DEF StoreInv, StoreTypeOK
<1> HIDE DEF b
<1>6. hold'[v] = b /\ \A h \in All : h # v => hold'[h] = hold[h]
  BY <1>2, <1>3 DEF IInv, TypeOK, All
<1>7. mCount'[v] = (IF b = None THEN 0 ELSE mCount[w])
  BY <1>2, <1>3 DEF StoreInv, StoreTypeOK
<1>8. Changes(t, None)
  BY <1>3, <1>6, FreedUnheld DEF Changes, StoreInv, StoreTypeOK
<1>9. StoreTypeOK'
  BY <1>3, <1>5 DEF StoreInv, StoreTypeOK
<1>10. ASSUME NEW x, x = v PROVE Filled(x)'
  BY <1>3, <1>4, <1>6, <1>7, <1>10 DEF Filled
<1>11. ASSUME NEW c \in live' PROVE Kept(c)'
  <2>1. c # None /\ Kept(c)
    BY <1>3, <1>11, VectorAssumption DEF StoreInv, IInv, TypeOK, VectorAssumption
  <2>2. \A h \in All : hold[h] = c => hold'[h] = c
    BY <1>2, <1>6, <2>1
  <2> QED
    BY <1>1, <1>3, <2>1, <2>2, KeptOn
<1> QED
  BY <1>1, <1>3, <1>8, <1>9, <1>10, <1>11, OthersKept DEF StoreInv

LEMMA StoreInit == Init => StoreInv
<1> SUFFICES ASSUME Init PROVE StoreInv
  OBVIOUS
<1>1. PICK given \in Beginnings, b \in SharedBuffers :
        LET used == IF given.sharers = {} THEN {} ELSE {b}
            Start(none, some) == [c \in SharedBuffers |-> IF c \in used THEN some ELSE none]
        IN  /\ hold = [h \in All |-> IF h \in given.sharers THEN b ELSE None]
            /\ mCount = [v \in Vecs |-> IF v \in given.sharers THEN Len(given.items) ELSE 0]
            /\ live = used
            /\ size = Start(0, Appended(Len(given.items))) /\ data = Start(<<>>, given.items)
  BY DEF Init, All
<1>2. given.sharers \subseteq Vecs /\ given.items \in Seq(Records) /\ kMinVectorCapacity \in Nat
  BY VectorAssumption DEF VectorAssumption, Passed
<1>3. PICK n \in Nat : n = Len(given.items)
  BY <1>2, LenProperties
<1>4. PICK m \in Nat : m = Appended(n) /\ n <= m
  <2>1. PICK k \in Nat : k = (3 * n + 1) \div 2 /\ n <= k
    OBVIOUS
  <2> QED
    BY <1>2, <2>1 DEF Appended, Larger
<1>5. /\ \A h \in All : hold[h] = (IF h \in given.sharers THEN b ELSE None)
      /\ \A v \in Vecs : mCount[v] = (IF v \in given.sharers THEN n ELSE 0)
      /\ given.sharers # {} => data[b] = given.items /\ size[b] = m
      /\ live = (IF given.sharers = {} THEN {} ELSE {b})
  BY <1>1, <1>3, <1>4
<1>6. StoreTypeOK
  <2>1. <<>> \in Seq(Records)
    OBVIOUS
  <2> QED
    BY <1>1, <1>2, <1>3, <1>4, <2>1 DEF StoreTypeOK
<1>7. b # None
  BY VectorAssumption DEF VectorAssumption
<1>8. ASSUME NEW v \in Vecs PROVE Filled(v)
  BY <1>3, <1>4, <1>5, <1>7 DEF Filled, All
<1>9. \A t \in Threads : op[t].pc = "idle"
  BY DEF Init, Idle
<1>10. \A c \in live : Kept(c)
  BY <1>2, <1>5, <1>7 DEF Kept, Holders, All
<1> QED
  BY <1>6, <1>8, <1>9, <1>10 DEF StoreInv

LEMMA StoreStep == IInv /\ StoreInv /\ [Next]_vars => StoreInv'
<1> SUFFICES ASSUME IInv, StoreInv, [Next]_vars PROVE StoreInv'
  OBVIOUS
<1>1. CASE UNCHANGED vars
  <2>1. UNCHANGED <<hold, mCount, size, data, live, op>>
    BY <1>1 DEF vars, buffers
  <2>2. StoreTypeOK'
    BY <2>1 DEF StoreInv, StoreTypeOK
  <2>3. \A v \in Vecs : Filled(v)'
    BY <2>1 DEF StoreInv, Filled, Worker
  <2>4. \A t \in Threads : op'[t].pc # "idle" => AtWork(t)'
    BY <2>1 DEF StoreInv, AtWork, Fits, NewLength
  <2>5. \A c \in live' : Kept(c)'
    BY <2>1 DEF StoreInv, Kept, Holders
  <2> QED
    BY <2>2, <2>3, <2>4, <2>5 DEF StoreInv
<1>2. CASE \E t \in Threads : Call(t)
  BY <1>2, CallStores
<1>3. CASE \E t \in Threads : Step(t)
  BY <1>3, OwnStores, AllocStores, SoleStores, ReleaseStores, FreeStores, FillStores, ShareStores
  DEF Step
<1> QED
  BY <1>1, <1>2, <1>3 DEF Next

(* StorageIsRight: whoever frees a buffer is the last to hold it and       *)
(* destroys as many items as it has, no buffer is forgotten, and a vector  *)
(* that is not being changed counts the items of its buffer, which are     *)
(* within its capacity.                                                    *)
THEOREM StorageStaysRight == Spec => []StorageIsRight
<1>1. IInv /\ StoreInv => StorageIsRight
  <2> SUFFICES ASSUME IInv, StoreInv PROVE StorageIsRight
    OBVIOUS
  <2>1. ASSUME NEW t \in Threads, op[t].pc = "free"
        PROVE  /\ op[t].old \in live /\ Holders(op[t].old) = {}
               /\ Len(data[op[t].old]) = mCount[op[t].v]
    BY <2>1 DEF IInv, Phases, Phase, StoreInv, AtWork
  <2> QED
    BY <2>1 DEF StorageIsRight, StoreInv, Kept, Filled
<1>2. Init => IInv /\ StoreInv
  BY InvInit, StoreInit
<1>3. IInv /\ StoreInv /\ [Next]_vars => (IInv /\ StoreInv)'
  BY InvStep, StoreStep
<1> QED
  BY <1>1, <1>2, <1>3, PTL DEF Spec
----------------------------------------------------------------------------
(* What the operations make of a sequence *)

SplicedItem(s, at, n, new, i) ==
  IF i <= at THEN s[i] ELSE IF i <= at + Len(new) THEN new[i - at] ELSE s[i - Len(new) + n]

LEMMA SplicedItems ==
  ASSUME NEW S, NEW s, NEW at, NEW n, NEW new, Cuts(S, s, at, n, new)
  PROVE  \A i \in 1 .. Len(s) - n + Len(new) :
           Spliced(s, at, n, new)[i] = SplicedItem(s, at, n, new, i)
<1> DEFINE a == SubSeq(s, 1, at)
           c == SubSeq(s, at + n + 1, Len(s))
           d == a \o new
<1>1. s \in Seq(S) /\ new \in Seq(S) /\ at \in Nat /\ n \in Nat /\ at + n <= Len(s)
  BY DEF Cuts
<1>2. Len(s) \in Nat /\ Len(new) \in Nat /\ \A i \in 1 .. Len(s) : s[i] \in S
  BY <1>1, ElementOfSeq, LenProperties
<1>3. a \in Seq(S) /\ Len(a) = at /\ \A i \in 1 .. at : a[i] = s[i]
  BY <1>1, <1>2, SubSeqProperties
<1>4. PICK k \in Nat : k = Len(s) - at - n
  <2>1. at + n \in Nat /\ Len(s) \in Nat /\ at + n <= Len(s)
    BY <1>1, <1>2
  <2>2. Len(s) - at - n \in Nat
    BY <1>1, <2>1
  <2> QED
    BY <2>2
<1>5. c \in Seq(S) /\ Len(c) = k /\ \A i \in 1 .. k : c[i] = s[at + n + i]
  <2>1. CASE k = 0
    <3>1. Len(s) < at + n + 1
      BY <1>1, <1>2, <1>4, <2>1
    <3>2. c = <<>>
      BY <1>1, <1>2, <3>1, SubSeqEmpty
    <3>3. c \in Seq(S) /\ Len(c) = 0
      BY <3>2, EmptySeq
    <3> HIDE DEF c
    <3> QED
      BY <2>1, <3>3
  <2>2. CASE k # 0
    <3>1. \A i \in at + n + 1 .. Len(s) : s[i] \in S
      BY <1>1, <1>2
    <3>2. /\ c \in Seq(S)
          /\ Len(c) = IF at + n + 1 <= Len(s) THEN Len(s) - (at + n + 1) + 1 ELSE 0
          /\ \A i \in 1 .. Len(s) - (at + n + 1) + 1 : c[i] = s[at + n + 1 + i - 1]
      BY <1>1, <1>2, <3>1, SubSeqProperties
    <3>3. at + n + 1 <= Len(s) /\ Len(s) - (at + n + 1) + 1 = k
      BY <1>1, <1>2, <1>4, <2>2
    <3>4. \A i \in 1 .. k : at + n + 1 + i - 1 = at + n + i
      BY <1>1, <1>4
    <3> HIDE DEF c
    <3> QED
      BY <3>2, <3>3, <3>4
  <2> QED
    BY <2>1, <2>2
<1>6. Spliced(s, at, n, new) = d \o c
  BY DEF Spliced
<1> HIDE DEF a, c
<1>7. /\ d \in Seq(S) /\ Len(d) = at + Len(new)
      /\ \A i \in 1 .. at + Len(new) : d[i] = IF i <= at THEN a[i] ELSE new[i - at]
  BY <1>1, <1>3, ConcatProperties
<1> HIDE DEF d
<1>8. \A i \in 1 .. Len(d) + Len(c) : (d \o c)[i] = IF i <= Len(d) THEN d[i] ELSE c[i - Len(d)]
  BY <1>5, <1>7, ConcatProperties
<1> SUFFICES ASSUME NEW i \in 1 .. Len(s) - n + Len(new)
             PROVE  (d \o c)[i] = SplicedItem(s, at, n, new, i)
  BY <1>6
<1>9. i \in Nat /\ i >= 1 /\ i <= at + Len(new) + k
  BY <1>1, <1>2, <1>4
<1>10. (d \o c)[i] = IF i <= at + Len(new) THEN d[i] ELSE c[i - (at + Len(new))]
  <2>1. i \in 1 .. Len(d) + Len(c) /\ Len(d) = at + Len(new)
    BY <1>2, <1>5, <1>7, <1>9
  <2> QED
    BY <1>8, <2>1
<1>11. CASE i <= at
  <2>1. i \in 1 .. at /\ i \in 1 .. at + Len(new) /\ i <= at + Len(new)
    BY <1>1, <1>2, <1>9, <1>11
  <2> QED
    BY <1>3, <1>7, <1>10, <1>11, <2>1 DEF SplicedItem
<1>12. CASE ~(i <= at) /\ i <= at + Len(new)
  <2>1. i \in 1 .. at + Len(new)
    BY <1>1, <1>2, <1>9, <1>12
  <2> QED
    BY <1>7, <1>10, <1>12, <2>1 DEF SplicedItem
<1>13. CASE ~(i <= at) /\ ~(i <= at + Len(new))
  <2>0. PICK m \in Nat : m = Len(new)
    BY <1>2
  <2>1. PICK j \in 1 .. k : j = i - (at + Len(new)) /\ at + n + j = i - Len(new) + n
    <3>1. i - (at + m) \in 1 .. k /\ at + n + (i - (at + m)) = i - m + n
      BY <1>1, <1>9, <1>13, <2>0
    <3> QED
      BY <2>0, <3>1
  <2> QED
    BY <1>5, <1>10, <1>13, <2>1 DEF SplicedItem
<1> QED
  BY <1>11, <1>12, <1>13

(* The insertion sort is stable.                                           *)
Before(s, i, j) == s[i].key < s[j].key \/ (s[i].key = s[j].key /\ i < j)

Arranged(s, r, places, k) ==
  /\ places \in [1 .. k -> 1 .. k]
  /\ \A i \in 1 .. k : r[i] = s[places[i]]
  /\ \A i, j \in 1 .. k : i < j => Before(s, places[i], places[j])

LEMMA InsertedArranged ==
  ASSUME NEW s \in Seq(Records), NEW k \in Nat, k + 1 <= Len(s),
         NEW r \in Seq(Records), Len(r) = k, NEW places, Arranged(s, r, places, k)
  PROVE  \E more : Arranged(s, Inserted(r, s[k + 1]), more, k + 1)
<1> DEFINE item == s[k + 1]
           p == Place(r, item)
           z == Inserted(r, item)
           more == [i \in 1 .. k + 1 |-> IF i <= p THEN places[i]
                                         ELSE IF i = p + 1 THEN k + 1 ELSE places[i - 1]]
<1>1. /\ Len(s) \in Nat /\ item \in Records /\ \A i \in 1 .. k : r[i] \in Records /\ s[i] \in Records
  BY ElementOfSeq, LenProperties
<1>2. \A x \in Records : x.key \in Int
  BY VectorAssumption DEF VectorAssumption
<1>3. /\ p \in 0 .. k /\ \A i \in 1 .. p : ~(r[i].key > item.key)
      /\ p < k => r[p + 1].key > item.key
  BY <1>1, PlaceIsRight
<1>4. \A i \in 1 .. k + 1 : z[i] = IF i <= p THEN r[i] ELSE IF i = p + 1 THEN item ELSE r[i - 1]
  <2>0. <<item>> \in Seq(Records) /\ 0 \in Nat
    BY <1>1
  <2>1. PICK new \in Seq(Records), n \in Nat : new = <<item>> /\ n = 0
    BY <2>0, Zenon
  <2>2. Len(new) = 1 /\ new[1] = item
    BY <2>1
  <2>3. z = Spliced(r, p, n, new)
    BY <2>1 DEF Inserted, Place
  <2>4. Cuts(Records, r, p, n, new)
    BY <1>3, <2>1 DEF Cuts
  <2> HIDE DEF item, p, z
  <2>5. \A i \in 1 .. Len(r) - n + Len(new) :
          z[i] = SplicedItem(r, p, n, new, i)
    <3>1. \A i \in 1 .. Len(r) - n + Len(new) :
            Spliced(r, p, n, new)[i] = SplicedItem(r, p, n, new, i)
      BY <2>4, SplicedItems
    <3> QED
      BY <2>3, <3>1
  <2>6. \A i \in 1 .. k + 1 :
          z[i] = IF i <= p THEN r[i] ELSE IF i <= p + 1 THEN new[i - p] ELSE r[i - 1 + n]
    BY <2>1, <2>2, <2>5 DEF SplicedItem
  <2>7. \A i \in 1 .. k + 1 : i = p + 1 => i - p = 1
    BY <1>3
  <2>8. \A i \in 1 .. k + 1 : (i <= p + 1 /\ ~(i <= p) <=> i = p + 1 /\ ~(i <= p)) /\ i - 1 + n = i - 1
    BY <1>3, <2>1
  <2>9. \A i \in 1 .. k + 1 :
          z[i] = IF i <= p THEN r[i] ELSE IF i = p + 1 THEN new[i - p] ELSE r[i - 1]
    BY <2>6, <2>8
  <2> QED
    BY <2>2, <2>7, <2>9
<1> HIDE DEF item, p, z
<1>5. \A i \in 1 .. k : places[i] \in 1 .. k /\ r[i] = s[places[i]]
  BY DEF Arranged
<1>6. more \in [1 .. k + 1 -> 1 .. k + 1]
  <2>1. \A i \in 1 .. k + 1 : i <= p => i \in 1 .. k
    BY <1>3
  <2>2. \A i \in 1 .. k + 1 : ~(i <= p) /\ i # p + 1 => i - 1 \in 1 .. k
    BY <1>3
  <2>3. \A i \in 1 .. k : places[i] \in 1 .. k + 1
    BY <1>5
  <2>4. k + 1 \in 1 .. k + 1
    OBVIOUS
  <2> QED
    BY <2>1, <2>2, <2>3, <2>4
<1>7. \A i \in 1 .. k + 1 :
        /\ i <= p => i \in 1 .. k /\ more[i] = places[i]
        /\ i = p + 1 => more[i] = k + 1
        /\ i > p + 1 => i - 1 \in 1 .. k /\ more[i] = places[i - 1]
  BY <1>3
<1> HIDE DEF more
<1>8. \A i \in 1 .. k + 1 : z[i] = s[more[i]]
  <2> SUFFICES ASSUME NEW i \in 1 .. k + 1 PROVE z[i] = s[more[i]]
    OBVIOUS
  <2>1. CASE i <= p
    BY <1>4, <1>5, <1>7, <2>1
  <2>2. CASE i = p + 1
    BY <1>3, <1>4, <1>7, <2>2 DEF item
  <2>3. CASE i > p + 1
    <3>1. z[i] = r[i - 1]
      BY <1>3, <1>4, <2>3
    <3> QED
      BY <1>5, <1>7, <2>3, <3>1
  <2> QED
    BY <1>3, <2>1, <2>2, <2>3
<1>9. \A i \in 1 .. k : r[i].key \in Int /\ s[places[i]].key \in Int /\ item.key \in Int
  BY <1>1, <1>2, <1>5 DEF item
<1>10. \A i, j \in 1 .. k : i < j => Before(s, places[i], places[j]) /\ r[i].key <= r[j].key
  <2>1. \A i, j \in 1 .. k : i < j => Before(s, places[i], places[j])
    BY DEF Arranged
  <2> QED
    BY <1>5, <1>9, <2>1 DEF Before
<1>11. \A i \in 1 .. k : i <= p => Before(s, places[i], k + 1)
  <2> SUFFICES ASSUME NEW i \in 1 .. k, i <= p PROVE Before(s, places[i], k + 1)
    OBVIOUS
  <2>1. r[i].key <= item.key
    BY <1>3, <1>9
  <2>2. places[i] < k + 1
    BY <1>5
  <2> QED
    BY <1>5, <1>9, <2>1, <2>2 DEF Before, item
<1>12. \A i \in 1 .. k : i > p => Before(s, k + 1, places[i])
  <2> SUFFICES ASSUME NEW i \in 1 .. k, i > p PROVE Before(s, k + 1, places[i])
    OBVIOUS
  <2>1. p + 1 \in 1 .. k /\ p < k /\ (p + 1 = i \/ p + 1 < i)
    BY <1>3
  <2>2. r[p + 1].key > item.key /\ (p + 1 < i => r[p + 1].key <= r[i].key)
    BY <1>3, <1>10, <2>1
  <2>3. r[i].key > item.key
    BY <1>9, <2>1, <2>2
  <2>4. s[places[i]].key > s[k + 1].key /\ s[k + 1].key \in Int
    BY <1>5, <1>9, <2>3 DEF item
  <2>5. s[k + 1].key < s[places[i]].key
    BY <1>9, <2>4
  <2> QED
    BY <2>5, Zenon DEF Before
<1>13. ASSUME NEW i \in 1 .. k + 1, NEW j \in 1 .. k + 1, i < j PROVE Before(s, more[i], more[j])
  <2>1. i \in Int /\ j \in Int /\ p \in Int
    BY <1>3
  <2>2. CASE j <= p
    <3>1. i <= p
      BY <1>13, <2>1, <2>2
    <3> QED
      BY <1>7, <1>10, <1>13, <2>2, <3>1
  <2>3. CASE i <= p /\ j = p + 1
    BY <1>7, <1>11, <2>3
  <2>4. CASE i <= p /\ j > p + 1
    <3>1. i < j - 1
      BY <2>1, <2>4
    <3> QED
      BY <1>7, <1>10, <2>4, <3>1
  <2>5. CASE i = p + 1 /\ j > p + 1
    <3>1. j - 1 > p
      BY <2>1, <2>5
    <3> QED
      BY <1>7, <1>12, <2>5, <3>1
  <2>6. CASE i > p + 1 /\ j > p + 1
    <3>1. i - 1 < j - 1
      BY <1>13, <2>1
    <3> QED
      BY <1>7, <1>10, <2>6, <3>1
  <2> QED
    BY <1>13, <2>1, <2>2, <2>3, <2>4, <2>5, <2>6
<1>14. Arranged(s, z, more, k + 1)
  BY <1>6, <1>8, <1>13 DEF Arranged
<1> QED
  BY <1>14 DEF z, item

LEMMA InsertionSortArranged ==
  ASSUME NEW s \in Seq(Records)
  PROVE  /\ InsertionSort(s) \in Seq(Records) /\ Len(InsertionSort(s)) = Len(s)
         /\ \E places : Arranged(s, InsertionSort(s), places, Len(s))
<1>1. PICK f : SortsPrefixes(s, f) /\ InsertionSort(s) = f[Len(s)]
  BY InsertionSortExists
<1> DEFINE Good(k) == /\ f[k] \in Seq(Records) /\ Len(f[k]) = k
                      /\ \E places : Arranged(s, f[k], places, k)
           T == {k \in Nat : k <= Len(s) => Good(k)}
<1>2. Len(s) \in Nat /\ \A i \in 1 .. Len(s) : s[i] \in Records
  BY ElementOfSeq, LenProperties
<1>3. 0 \in T
  <2>1. f[0] = <<>>
    BY <1>1, <1>2 DEF SortsPrefixes
  <2>2. Arranged(s, <<>>, [i \in 1 .. 0 |-> i], 0)
    BY DEF Arranged
  <2>3. Good(0)
    BY <2>1, <2>2, EmptySeq
  <2> QED
    BY <2>3
<1>4. ASSUME NEW k \in Nat, k \in T PROVE k + 1 \in T
  <2> SUFFICES ASSUME k + 1 <= Len(s) PROVE Good(k + 1)
    OBVIOUS
  <2>1. Good(k) /\ s[k + 1] \in Records
    BY <1>2, <1>4
  <2>2. f[k + 1] = Inserted(f[k], s[k + 1])
    <3>1. k + 1 \in 0 .. Len(s) /\ k + 1 # 0 /\ (k + 1) - 1 = k
      BY <1>2
    <3> QED
      BY <1>1, <3>1 DEF SortsPrefixes
  <2>3. PICK r, places : r = f[k] /\ r \in Seq(Records) /\ Len(r) = k /\ Arranged(s, r, places, k)
    BY <2>1
  <2>4. Inserted(r, s[k + 1]) \in Seq(Records) /\ Len(Inserted(r, s[k + 1])) = Len(r) + 1
    BY <2>1, <2>3, InsertedLength, Zenon
  <2>5. \E more : Arranged(s, Inserted(r, s[k + 1]), more, k + 1)
    BY <2>3, InsertedArranged
  <2> QED
    BY <2>2, <2>3, <2>4, <2>5
<1>5. Len(s) \in T
  <2> HIDE DEF T
  <2> QED
    BY <1>2, <1>3, <1>4, Induction
<1> QED
  BY <1>1, <1>2, <1>5

(* In a sequence by key the binary search finds the only item of a key, or *)
(* that there is none between two that are neighbours.                     *)
Around(s, at, n, key) ==
  \A i \in 1 .. Len(s) :
    /\ i <= at => s[i].key < key
    /\ i > at /\ i <= at + n => s[i].key = key
    /\ i > at + n => s[i].key > key

(* The part of the sequence that is left to search.                        *)
Narrows(s, key, span) ==
  \A i \in 1 .. Len(s) :
    /\ i <= span[1] => s[i].key < key
    /\ i > span[2] + 1 => s[i].key > key

Finds(s, key, o) == Around(s, o.at, IF o.found THEN 1 ELSE 0, key)

LEMMA IndexOrderFinds ==
  ASSUME NEW s \in Seq(Records), Values!Increasing(s), NEW key \in Int
  PROVE  Finds(s, key, IndexOrder(s, key))
<1>1. PICK f : Searches(s, key, f) /\ IndexOrder(s, key) = f[<<0, Len(s) - 1>>]
  BY SearchExists
<1> DEFINE T == {k \in Nat : \A span \in Parts(s) :
                   span[2] - span[1] < k - 1 /\ Narrows(s, key, span) => Finds(s, key, f[span])}
<1>2. Len(s) \in Nat
  BY LenProperties
<1>3. \A span \in Parts(s) : span[1] \in Int /\ span[2] \in Int /\ span[1] >= 0 /\ span[2] < Len(s)
  BY <1>2 DEF Parts
<1>4. \A i \in 1 .. Len(s) : s[i].key \in Int
  BY ElementOfSeq, VectorAssumption DEF VectorAssumption
<1>5. \A i, j \in 1 .. Len(s) : i < j => s[i].key < s[j].key
  BY <1>2, LenProperties DEF Values!Increasing
<1>6. ASSUME NEW span \in Parts(s), span[1] > span[2], Narrows(s, key, span)
      PROVE  Finds(s, key, f[span])
  <2>1. f[span] = [found |-> FALSE, at |-> span[1]]
    BY <1>1, <1>6 DEF Searches, Searched
  <2>2. \A i \in 1 .. Len(s) : i > span[1] => i > span[2] + 1
    <3>1. PICK l \in Int, h \in Int : l = span[1] /\ h = span[2] /\ l > h
      BY <1>3, <1>6
    <3>2. CASE l > h + 1
      BY <3>1, <3>2
    <3>3. CASE l = h + 1
      BY <3>1, <3>3
    <3> QED
      BY <3>1, <3>2, <3>3
  <2>3. f[span].found = FALSE /\ f[span].at = span[1] /\ span[1] + 0 = span[1]
    BY <1>3, <2>1
  <2> QED
    BY <1>3, <1>6, <2>2, <2>3 DEF Finds, Around, Narrows
<1>7. 0 \in T
  <2>1. \A span \in Parts(s) : span[2] - span[1] < 0 - 1 => span[1] > span[2]
    BY <1>3
  <2> QED
    BY <1>6, <2>1
<1>8. ASSUME NEW k \in Nat, k \in T PROVE k + 1 \in T
  <2> SUFFICES ASSUME NEW span \in Parts(s), span[2] - span[1] < (k + 1) - 1,
                      Narrows(s, key, span)
               PROVE  Finds(s, key, f[span])
    OBVIOUS
  <2>1. CASE span[1] > span[2]
    BY <1>6, <2>1
  <2>2. CASE span[1] <= span[2]
    <3> DEFINE up == <<Middle(span) + 1, span[2]>>
               down == <<span[1], Middle(span) - 1>>
               mid == Middle(span)
    <3>1. /\ mid \in Nat /\ span[1] <= mid /\ mid <= span[2]
          /\ up \in Parts(s) /\ down \in Parts(s)
      BY <1>2, <2>2, Halves
    <3>2. up[1] = mid + 1 /\ up[2] = span[2] /\ down[1] = span[1] /\ down[2] = mid - 1
      OBVIOUS
    <3>3. up[2] - up[1] < k - 1 /\ down[2] - down[1] < k - 1
      <4>1. span[2] \in Int /\ span[1] \in Int /\ mid \in Int
        BY <1>3, <3>1
      <4>2. PICK l \in Int, h \in Int, m \in Int : l = span[1] /\ h = span[2] /\ m = mid
        BY <4>1
      <4>3. h - (m + 1) < k - 1 /\ (m - 1) - l < k - 1
        BY <3>1, <4>2
      <4> QED
        BY <4>2, <4>3
    <3>4. f[span] = IF s[mid + 1].key = key THEN [found |-> TRUE, at |-> mid]
                    ELSE IF s[mid + 1].key < key THEN f[up] ELSE f[down]
      <4>1. f[span] = Searched(s, key, f, span)
        BY <1>1 DEF Searches
      <4>2. ~(span[1] > span[2])
        BY <1>3, <2>2
      <4> QED
        BY <4>1, <4>2 DEF Searched
    <3> HIDE DEF up, down, mid
    <3>5. mid + 1 \in 1 .. Len(s)
      BY <1>2, <1>3, <3>1
    <3>6. /\ \A i \in 1 .. Len(s) : i < mid + 1 => s[i].key < s[mid + 1].key
          /\ \A i \in 1 .. Len(s) : i > mid + 1 => s[i].key > s[mid + 1].key
      BY <1>4, <1>5, <3>5
    <3>7. CASE s[mid + 1].key = key
      <4>1. f[span].found = TRUE /\ f[span].at = mid
        BY <3>4, <3>7
      <4>2. \A i \in 1 .. Len(s) : /\ i <= mid => i < mid + 1
                                   /\ i > mid /\ i <= mid + 1 => i = mid + 1
        BY <3>1
      <4> QED
        BY <3>6, <3>7, <4>1, <4>2 DEF Finds, Around
    <3>8. CASE s[mid + 1].key < key
      <4>1. f[span] = f[up]
        BY <3>4, <3>8, <1>4, <3>5
      <4>2. \A i \in 1 .. Len(s) : i <= mid + 1 => s[i].key < key
        <5>1. \A i \in 1 .. Len(s) : i <= mid + 1 => i < mid + 1 \/ i = mid + 1
          BY <3>1
        <5> QED
          BY <1>4, <3>5, <3>6, <3>8, <5>1
      <4>3. Narrows(s, key, up)
        BY <3>2, <4>2 DEF Narrows
      <4> QED
        BY <1>8, <3>1, <3>3, <4>1, <4>3
    <3>9. CASE s[mid + 1].key > key
      <4>1. f[span] = f[down]
        BY <3>4, <3>9, <1>4, <3>5
      <4>2. \A i \in 1 .. Len(s) : i > mid => s[i].key > key
        <5>1. \A i \in 1 .. Len(s) : i > mid => i > mid + 1 \/ i = mid + 1
          BY <3>1
        <5> QED
          BY <1>4, <3>5, <3>6, <3>9, <5>1
      <4>3. Narrows(s, key, down)
        <5>1. (mid - 1) + 1 = mid
          BY <3>1
        <5> QED
          BY <3>2, <4>2, <5>1 DEF Narrows
      <4> QED
        BY <1>8, <3>1, <3>3, <4>1, <4>3
    <3> QED
      BY <1>4, <3>5, <3>7, <3>8, <3>9
  <2> QED
    BY <1>3, <2>1, <2>2
<1>9. Len(s) + 1 \in T
  <2> HIDE DEF T
  <2> QED
    BY <1>2, <1>7, <1>8, Induction
<1>10. PICK span \in Parts(s) : span = <<0, Len(s) - 1>>
  <2>1. 0 \in 0 .. Len(s) /\ Len(s) - 1 \in -1 .. Len(s) - 1
    BY <1>2
  <2> QED
    BY <2>1 DEF Parts
<1>11. span[2] - span[1] < (Len(s) + 1) - 1
  BY <1>2, <1>10
<1>12. Narrows(s, key, span)
  BY <1>2, <1>10 DEF Narrows
<1> QED
  BY <1>1, <1>9, <1>10, <1>11, <1>12

(* Around a key the items of it give way to one of it, or to none.         *)
LEMMA SplicedIncreasing ==
  ASSUME NEW s, NEW at, NEW n, NEW new, Cuts(Records, s, at, n, new),
         Values!Increasing(s), NEW key \in Int, Around(s, at, n, key),
         Len(new) <= 1, Len(new) = 1 => new[1].key = key
  PROVE  LET z == Spliced(s, at, n, new) IN
         /\ Values!Increasing(z)
         /\ Values!ToSet(z) = {x \in Values!ToSet(s) : x.key # key} \cup Values!ToSet(new)
<1> DEFINE z == Spliced(s, at, n, new)
<1>1. s \in Seq(Records) /\ new \in Seq(Records) /\ at \in Nat /\ n \in Nat /\ at + n <= Len(s)
  BY DEF Cuts
<1>2. PICK L \in Nat, m \in Nat : L = Len(s) /\ m = Len(new) /\ m <= 1
  BY <1>1, LenProperties
<1>3. PICK k \in Nat : L = at + n + k
  <2>1. at + n \in Nat /\ L - (at + n) \in Nat /\ L = at + n + (L - (at + n))
    BY <1>1, <1>2
  <2> QED
    BY <2>1
<1>4. z \in Seq(Records) /\ Len(z) = at + m + k
  <2>1. z \in Seq(Records) /\ Len(z) = Len(s) - n + Len(new)
    BY SplicedLength
  <2>2. L - n + m = at + m + k
    BY <1>1, <1>2, <1>3
  <2> HIDE DEF z
  <2> QED
    BY <1>2, <2>1, <2>2
<1>5. \A i \in 1 .. at + m + k : z[i] = SplicedItem(s, at, n, new, i)
  <2>1. \A i \in 1 .. Len(s) - n + Len(new) : z[i] = SplicedItem(s, at, n, new, i)
    BY SplicedItems
  <2>2. Len(s) - n + Len(new) = at + m + k
    BY <1>1, <1>2, <1>3
  <2> HIDE DEF z
  <2> QED
    BY <2>1, <2>2
<1> HIDE DEF z
<1>6. /\ \A i \in 1 .. at : i \in 1 .. at + m + k /\ i \in 1 .. L /\ z[i] = s[i] /\ s[i].key < key
      /\ m = 1 => at + 1 \in 1 .. at + m + k /\ z[at + 1] = new[1] /\ new[1].key = key
      /\ \A j \in 1 .. k : /\ at + m + j \in 1 .. at + m + k /\ at + n + j \in 1 .. L
                           /\ z[at + m + j] = s[at + n + j] /\ s[at + n + j].key > key
  <2>1. ASSUME NEW i \in 1 .. at
        PROVE  i \in 1 .. at + m + k /\ i \in 1 .. L /\ z[i] = s[i] /\ s[i].key < key
    <3>1. i <= at /\ i \in 1 .. at + m + k /\ i \in 1 .. L
      BY <1>1, <1>2, <1>3
    <3> QED
      BY <1>2, <1>5, <3>1 DEF SplicedItem, Around
  <2>2. ASSUME m = 1 PROVE at + 1 \in 1 .. at + m + k /\ z[at + 1] = new[1] /\ new[1].key = key
    <3>1. /\ at + 1 \in 1 .. at + m + k /\ ~(at + 1 <= at)
          /\ at + 1 <= at + Len(new) /\ (at + 1) - at = 1
      BY <1>1, <1>2, <2>2
    <3> QED
      BY <1>2, <1>5, <2>2, <3>1 DEF SplicedItem
  <2>3. ASSUME NEW j \in 1 .. k
        PROVE  /\ at + m + j \in 1 .. at + m + k /\ at + n + j \in 1 .. L
               /\ z[at + m + j] = s[at + n + j] /\ s[at + n + j].key > key
    <3>1. /\ at + m + j \in 1 .. at + m + k /\ at + n + j \in 1 .. L
          /\ ~(at + m + j <= at) /\ ~(at + m + j <= at + m)
          /\ (at + m + j) - m + n = at + n + j /\ at + n + j > at + n
      BY <1>1, <1>2, <1>3
    <3>2. z[at + m + j] = s[at + n + j]
      BY <1>2, <1>5, <3>1 DEF SplicedItem
    <3>3. s[at + n + j].key > key
      BY <1>2, <3>1 DEF Around
    <3> QED
      BY <3>1, <3>2, <3>3
  <2> QED
    BY <2>1, <2>2, <2>3
<1>7. \A i \in 1 .. at + m + k :
        \/ i \in 1 .. at
        \/ m = 1 /\ i = at + 1
        \/ \E j \in 1 .. k : i = at + m + j
  <2> TAKE i \in 1 .. at + m + k
  <2>1. CASE i <= at
    BY <1>1, <2>1
  <2>2. CASE m = 1 /\ i = at + 1
    BY <2>2
  <2>3. CASE ~(i <= at) /\ ~(m = 1 /\ i = at + 1)
    <3>1. i - (at + m) \in 1 .. k /\ i = at + m + (i - (at + m))
      BY <1>1, <1>2, <2>3
    <3> QED
      BY <3>1
  <2> QED
    BY <2>1, <2>2, <2>3
<1>8. \A i \in 1 .. L : i \in 1 .. at \/ s[i].key = key \/ \E j \in 1 .. k : i = at + n + j
  <2> SUFFICES ASSUME NEW i \in 1 .. L, ~(i <= at), s[i].key # key
               PROVE  \E j \in 1 .. k : i = at + n + j
    BY <1>1, <1>2
  <2>1. ~(i <= at + n)
    BY <1>1, <1>2 DEF Around
  <2>2. i - (at + n) \in 1 .. k /\ i = at + n + (i - (at + n))
    BY <1>1, <1>3, <2>1
  <2> QED
    BY <2>2
<1>9. \A i \in 1 .. L : s[i].key \in Int
  BY <1>1, <1>2, ElementOfSeq, VectorAssumption DEF VectorAssumption
<1>10. \A i, j \in 1 .. L : i < j => s[i].key < s[j].key
  BY <1>1, <1>2, LenProperties DEF Values!Increasing
<1>11. DOMAIN z = 1 .. at + m + k /\ DOMAIN s = 1 .. L /\ DOMAIN new = 1 .. m
  BY <1>1, <1>2, <1>4, LenProperties
<1>12. ASSUME NEW i \in 1 .. at + m + k, NEW j \in 1 .. at + m + k, i < j
       PROVE  z[i].key < z[j].key
  <2>0. i \in Int /\ j \in Int
    OBVIOUS
  <2>1. CASE j \in 1 .. at
    <3>1. i \in 1 .. at
      BY <1>1, <1>12, <2>0, <2>1
    <3> QED
      BY <1>6, <1>10, <1>12, <2>1, <3>1
  <2>2. CASE i \in 1 .. at /\ m = 1 /\ j = at + 1
    BY <1>6, <2>2
  <2>3. CASE i \in 1 .. at /\ \E q \in 1 .. k : j = at + m + q
    <3>1. PICK q \in 1 .. k : j = at + m + q
      BY <2>3
    <3>2. z[i].key < key /\ z[j].key > key /\ z[i].key \in Int /\ z[j].key \in Int
      BY <1>6, <1>9, <2>3, <3>1
    <3> QED
      BY <3>2
  <2>4. CASE m = 1 /\ i = at + 1 /\ \E q \in 1 .. k : j = at + m + q
    <3>1. PICK q \in 1 .. k : j = at + m + q
      BY <2>4
    <3>2. z[i].key = key /\ z[j].key > key /\ z[j].key \in Int
      BY <1>6, <1>9, <2>4, <3>1
    <3> QED
      BY <3>2
  <2>5. CASE \E q \in 1 .. k : i = at + m + q
    <3>1. PICK q \in 1 .. k : i = at + m + q
      BY <2>5
    <3>2. j - (at + m) \in 1 .. k /\ j = at + m + (j - (at + m))
      BY <1>1, <1>12, <3>1
    <3>3. PICK r \in 1 .. k : j = at + m + r
      BY <3>2
    <3>4. at + n + q < at + n + r
      BY <1>1, <1>12, <3>1, <3>3
    <3> QED
      BY <1>6, <1>10, <3>1, <3>3, <3>4
  <2>6. m = 1 /\ i = at + 1 => j # at + 1 /\ ~(j \in 1 .. at)
    BY <1>1, <1>12, <2>0
  <2> QED
    BY <1>7, <2>1, <2>2, <2>3, <2>4, <2>5, <2>6
<1>13. Values!Increasing(z)
  BY <1>11, <1>12 DEF Values!Increasing
<1>14. ASSUME NEW x \in Values!ToSet(z)
       PROVE  x \in {y \in Values!ToSet(s) : y.key # key} \cup Values!ToSet(new)
  <2>1. PICK i \in 1 .. at + m + k : x = z[i]
    BY <1>11 DEF Values!ToSet
  <2>2. CASE i \in 1 .. at
    <3>1. i \in 1 .. L /\ x = s[i] /\ x.key # key
      BY <1>6, <1>9, <2>1, <2>2
    <3> QED
      BY <1>11, <3>1 DEF Values!ToSet
  <2>3. CASE m = 1 /\ i = at + 1
    <3>1. x = new[1] /\ 1 \in 1 .. m
      BY <1>6, <2>1, <2>3
    <3> QED
      BY <1>11, <3>1 DEF Values!ToSet
  <2>4. CASE \E j \in 1 .. k : i = at + m + j
    <3>1. PICK j \in 1 .. k : i = at + m + j
      BY <2>4
    <3>2. at + n + j \in 1 .. L /\ x = s[at + n + j] /\ x.key # key
      BY <1>6, <1>9, <2>1, <3>1
    <3> QED
      BY <1>11, <3>2 DEF Values!ToSet
  <2> QED
    BY <1>7, <2>2, <2>3, <2>4
<1>15. ASSUME NEW x \in Values!ToSet(s), x.key # key PROVE x \in Values!ToSet(z)
  <2>1. PICK i \in 1 .. L : x = s[i]
    BY <1>11 DEF Values!ToSet
  <2>2. CASE i \in 1 .. at
    <3>1. x = z[i] /\ i \in 1 .. at + m + k
      BY <1>6, <2>1, <2>2
    <3> QED
      BY <1>11, <3>1 DEF Values!ToSet
  <2>3. CASE \E j \in 1 .. k : i = at + n + j
    <3>1. PICK j \in 1 .. k : i = at + n + j
      BY <2>3
    <3>2. x = z[at + m + j] /\ at + m + j \in 1 .. at + m + k
      BY <1>6, <2>1, <3>1
    <3> QED
      BY <1>11, <3>2 DEF Values!ToSet
  <2> QED
    BY <1>8, <1>15, <2>1, <2>2, <2>3
<1>16. ASSUME NEW x \in Values!ToSet(new) PROVE x \in Values!ToSet(z)
  <2>1. PICK i \in 1 .. m : x = new[i]
    BY <1>11 DEF Values!ToSet
  <2>2. m = 1 /\ i = 1
    BY <1>2
  <2> QED
    BY <1>6, <1>11, <2>1, <2>2 DEF Values!ToSet
<1> QED
  BY <1>13, <1>14, <1>15, <1>16 DEF z

(* Such a sequence is one of the set of its items, each once.              *)
LEMMA IncreasingCount ==
  ASSUME NEW z \in Seq(Records), Values!Increasing(z)
  PROVE  z \in [1 .. Cardinality(Values!ToSet(z)) -> Values!ToSet(z)]
<1> DEFINE S == Values!ToSet(z)
<1>1. PICK n \in Nat : n = Len(z) /\ DOMAIN z = 1 .. n /\ z \in [1 .. n -> Records]
  BY LenProperties, SeqDef
<1>2. z \in [1 .. n -> S] /\ \A x \in S : \E i \in 1 .. n : x = z[i]
  BY <1>1 DEF Values!ToSet
<1>3. \A i \in 1 .. n : z[i].key \in Int
  BY <1>1, VectorAssumption DEF VectorAssumption
<1>4. ASSUME NEW i \in 1 .. n, NEW j \in 1 .. n, z[i] = z[j] PROVE i = j
  <2>1. i < j => z[i].key < z[j].key
    BY <1>1 DEF Values!Increasing
  <2>2. j < i => z[j].key < z[i].key
    BY <1>1 DEF Values!Increasing
  <2>3. z[i].key \in Int /\ z[i].key = z[j].key
    BY <1>3, <1>4
  <2> QED
    BY <2>1, <2>2, <2>3
<1> HIDE DEF S
<1>5. z \in Bijection(1 .. n, S)
  BY <1>1, <1>2, <1>4 DEF Bijection, Injection, Surjection, IsInjective
<1>6. IsFiniteSet(1 .. n) /\ Cardinality(1 .. n) = n
  <2>1. IsFiniteSet(1 .. n) /\ Cardinality(1 .. n) = IF 1 > n THEN 0 ELSE n - 1 + 1
    BY FS_Interval
  <2> QED
    BY <2>1
<1>7. Cardinality(S) = n
  BY <1>5, <1>6, FS_Bijection DEF ExistsBijection
<1> QED
  BY <1>2, <1>7 DEF S

(* One vector takes a new value.                                           *)
Becomes(v, z) ==
  /\ Value(v)' = z /\ z # Value(v)
  /\ \A w \in Vecs : w # v => Value(w)' = Value(w)

LEMMA OnlyBecomes ==
  ASSUME NEW v \in Vecs, NEW z, Becomes(v, z)
  PROVE  Values!Only(v) /\ Values!Put(v, z)
<1>1. Values!Only(v)
  BY DEF Values!Only, Becomes, Vecs
<1>2. Values!Put(v, z)
  <2>1. \A w \in Vecs : Value(w)' = IF w = v THEN z ELSE Value(w)
    BY DEF Becomes
  <2> QED
    BY <2>1 DEF Values!Put
<1> QED
  BY <1>1, <1>2

(* What an edit may do to the sequence s: n items at a place give way to   *)
(* new ones, all of them to the same ones sorted, or those of a key to one *)
(* of that key or none.                                                    *)
AllowedInPlain(o, s) ==
  \/ o.w # o.v
  \/ o.new \in {<<>>} \cup {<<i>> : i \in Items} \cup Arrays
  \/ o.at = 0 /\ o.n = Len(s) /\ o.new = InsertionSort(s)

AllowedInSorted(o, s) ==
  /\ o.w = o.v
  /\ \/ o.at = 0 /\ o.n = Len(s) /\ o.new = <<>>
     \/ \E item \in Items :
          /\ o.n \in 0 .. 1 /\ o.new \in {<<>>, <<item>>} /\ (o.n = 0 => o.new = <<item>>)
          /\ Around(s, o.at, o.n, item.key)

Allowed(o, s) ==
  /\ o.at \in 0 .. Len(s) /\ o.n \in 0 .. Len(s) - o.at
  /\ o.v \in Plain => AllowedInPlain(o, s)
  /\ o.v \in Sorted => AllowedInSorted(o, s)

(* All items give way.                                                     *)
LEMMA SplicedWhole ==
  ASSUME NEW S, NEW s \in Seq(S), NEW new \in Seq(S)
  PROVE  Spliced(s, 0, Len(s), new) = new
<1>1. Len(s) \in Nat
  BY LenProperties
<1>2. SubSeq(s, 1, 0) = <<>>
  BY <1>1, SubSeqEmpty
<1>3. SubSeq(s, 0 + Len(s) + 1, Len(s)) = <<>>
  BY <1>1, SubSeqEmpty
<1>4. Spliced(s, 0, Len(s), new) = (<<>> \o new) \o <<>>
  BY <1>2, <1>3 DEF Spliced
<1> QED
  BY <1>4, ConcatEmptySeq

LEMMA SplicedIsPlain ==
  ASSUME NEW v \in Plain, NEW s \in Seq(Records), Value(v) = s,
         NEW at \in 0 .. Len(s), NEW n \in 0 .. Len(s) - at, NEW new,
         \/ new \in {<<>>} \cup {<<i>> : i \in Items} \cup Arrays
         \/ \E w \in Vecs : new = Value(w),
         Becomes(v, Spliced(s, at, n, new))
  PROVE  Values!Next
<1>1. v \in Vecs
  BY DEF Vecs
<1>2. Values!Only(v) /\ Values!Put(v, Spliced(s, at, n, new))
  BY <1>1, OnlyBecomes
<1> DEFINE value == [w \in Vecs |-> Value(w)]
<1>3. value[v] = s /\ \A w \in Vecs : value[w] = Value(w)
  BY <1>1 DEF Vecs
<1> HIDE DEF value
<1>4. new \in {<<>>} \cup {<<i>> : i \in Items} \cup Arrays \cup {value[w] : w \in Plain \cup Sorted}
  BY <1>3 DEF Vecs
<1>5. \E a \in 0 .. Len(value[v]) : \E m \in 0 .. Len(value[v]) - a :
        \E x \in {<<>>} \cup {<<i>> : i \in Items} \cup Arrays \cup {value[w] : w \in Plain \cup Sorted} :
          Values!Put(v, Values!Spliced(value[v], a, m, x))
  <2>1. Values!Spliced(value[v], at, n, new) = Spliced(s, at, n, new)
    BY <1>3 DEF Values!Spliced, Spliced
  <2>2. at \in 0 .. Len(value[v]) /\ n \in 0 .. Len(value[v]) - at
    BY <1>3
  <2> QED
    BY <1>2, <1>4, <2>1, <2>2, Zenon
<1>6. Values!Splice(v)
  BY <1>5, Zenon DEF Values!Splice, value
<1> QED
  BY <1>2, <1>6 DEF Values!Next

LEMMA SortedIsPlain ==
  ASSUME NEW v \in Plain, NEW s \in Seq(Records), Value(v) = s, Becomes(v, InsertionSort(s))
  PROVE  Values!Next
<1>1. v \in Vecs
  BY DEF Vecs
<1>2. PICK r : r = InsertionSort(s)
  OBVIOUS
<1>3. Values!Only(v) /\ Values!Put(v, r)
  BY <1>1, <1>2, OnlyBecomes
<1>4. PICK k \in Nat : k = Len(s) /\ DOMAIN s = 1 .. k /\ \A i \in 1 .. k : s[i] \in Records
  BY LenProperties, ElementOfSeq
<1>5. PICK places : /\ r \in Seq(Records) /\ Len(r) = k
                    /\ Arranged(s, r, places, k)
  BY <1>2, <1>4, InsertionSortArranged
<1>6. r = [i \in 1 .. k |-> s[places[i]]]
  <2>1. r = [i \in 1 .. k |-> r[i]]
    BY <1>5, LenProperties
  <2> QED
    BY <1>5, <2>1 DEF Arranged
<1>7. \A i, j \in 1 .. k : i < j => \/ r[i].key < r[j].key
                                    \/ r[i].key = r[j].key /\ places[i] < places[j]
  <2>1. \A i \in 1 .. k : r[i] = s[places[i]]
    BY <1>5 DEF Arranged
  <2>2. \A i, j \in 1 .. k : i < j =>
          \/ s[places[i]].key < s[places[j]].key
          \/ s[places[i]].key = s[places[j]].key /\ places[i] < places[j]
    BY <1>5, Zenon DEF Arranged, Before
  <2> TAKE i, j \in 1 .. k
  <2>3. r[i].key = s[places[i]].key /\ r[j].key = s[places[j]].key
    BY <2>1
  <2> QED
    BY <2>2, <2>3, Zenon
<1>8. places \in [1 .. k -> 1 .. k] /\ DOMAIN places = 1 .. k
  BY <1>5 DEF Arranged
<1> DEFINE value == [w \in Vecs |-> Value(w)]
<1>9. value[v] = s
  BY <1>1 DEF Vecs
<1> DEFINE Made(p) == [i \in DOMAIN value[v] |-> value[v][p[i]]]
           Stable(p, z) == \A i, j \in DOMAIN p :
                             i < j => \/ z[i].key < z[j].key
                                      \/ z[i].key = z[j].key /\ p[i] < p[j]
<1> HIDE DEF value
<1>10. \E p \in [DOMAIN value[v] -> DOMAIN value[v]] :
         Stable(p, Made(p)) /\ Values!Put(v, Made(p))
  <2>1. r = Made(places)
    BY <1>4, <1>6, <1>9
  <2>2. places \in [DOMAIN value[v] -> DOMAIN value[v]]
    BY <1>4, <1>8, <1>9
  <2>3. Stable(places, r)
    <3> SUFFICES ASSUME NEW i \in DOMAIN places, NEW j \in DOMAIN places, i < j
                 PROVE  \/ r[i].key < r[j].key
                        \/ r[i].key = r[j].key /\ places[i] < places[j]
      BY Zenon
    <3>1. i \in 1 .. k /\ j \in 1 .. k
      BY <1>8
    <3> QED
      BY <1>7, <3>1, Zenon
  <2> HIDE DEF Made, Stable
  <2> QED
    BY <1>3, <2>1, <2>2, <2>3
<1>11. Values!Sort(v)
  BY <1>10, Zenon DEF Values!Sort, value
<1> QED
  BY <1>3, <1>11 DEF Values!Next

LEMMA SameCardinality == \A S : Values!Cardinality(S) = Cardinality(S)
  BY Zenon DEF Values!Cardinality, Cardinality

LEMMA SplicedIsSorted ==
  ASSUME NEW v \in Sorted, NEW s \in Seq(Records), Value(v) = s, Values!Increasing(s),
         NEW at, NEW n, NEW new, Cuts(Records, s, at, n, new),
         NEW item \in Items, new \in {<<>>, <<item>>}, Around(s, at, n, item.key)
  PROVE  /\ Values!Increasing(Spliced(s, at, n, new))
         /\ Becomes(v, Spliced(s, at, n, new)) => Values!Next
<1>1. v \in Vecs
  BY DEF Vecs
<1>2. PICK z : z = Spliced(s, at, n, new)
  OBVIOUS
<1>3. item.key \in Int /\ item \in Records
  BY VectorAssumption DEF VectorAssumption, Records
<1>4. Len(new) <= 1 /\ (Len(new) = 1 => new[1].key = item.key)
  <2>1. CASE new = <<>>
    BY <2>1, EmptySeq
  <2>2. CASE new = <<item>>
    BY <2>2
  <2> QED
    BY <2>1, <2>2
<1>5. /\ Values!Increasing(z)
      /\ Values!ToSet(z) = {x \in Values!ToSet(s) : x.key # item.key} \cup Values!ToSet(new)
  BY <1>2, <1>3, <1>4, SplicedIncreasing
<1>6. z \in Seq(Records)
  BY <1>2, SplicedLength
<1>7. z \in [1 .. Cardinality(Values!ToSet(z)) -> Values!ToSet(z)]
  BY <1>5, <1>6, IncreasingCount
<1>8. Values!ToSet(new) = IF new = <<>> THEN {} ELSE {item}
  BY DEF Values!ToSet
<1> SUFFICES ASSUME Becomes(v, z) PROVE Values!Next
  BY <1>2, <1>5
<1>9. Values!Only(v) /\ Values!Put(v, z)
  BY <1>1, OnlyBecomes
<1>10. PICK set : set = Values!Others(v, item.key)
  OBVIOUS
<1>11. set = {x \in Values!ToSet(s) : x.key # item.key}
  <2> DEFINE value == [w \in Vecs |-> Value(w)]
  <2>1. value[v] = s
    BY <1>1 DEF Vecs
  <2>2. set = {x \in Values!ToSet(value[v]) : x.key # item.key}
    BY <1>10, Zenon DEF Values!Others
  <2> HIDE DEF value
  <2> QED
    BY <2>1, <2>2
<1>12. CASE new = <<>>
  <2>1. Values!ToSet(z) = set
    BY <1>5, <1>8, <1>11, <1>12
  <2>2. Values!Hold(v, set)
    BY <1>5, <1>7, <1>9, <2>1, SameCardinality, Zenon DEF Values!Hold
  <2>3. Values!Take(v, item.key)
    BY <1>10, <2>2 DEF Values!Take
  <2> QED
    BY <1>9, <2>3 DEF Values!Next
<1>13. CASE new # <<>>
  <2>1. Values!ToSet(z) = set \cup {item}
    BY <1>5, <1>8, <1>11, <1>13
  <2>2. Values!Hold(v, set \cup {item})
    BY <1>5, <1>7, <1>9, <2>1, SameCardinality, Zenon DEF Values!Hold
  <2>3. Values!Add(v, item)
    BY <1>10, <2>2 DEF Values!Add
  <2> QED
    BY <1>9, <2>3 DEF Values!Next
<1> QED
  BY <1>12, <1>13

LEMMA EmptiedIsSorted ==
  ASSUME NEW v \in Sorted, Becomes(v, <<>>)
  PROVE  Values!Next
<1>1. Values!Only(v) /\ Values!Put(v, <<>>)
  BY OnlyBecomes DEF Vecs
<1> QED
  BY <1>1 DEF Values!Next, Values!Empty

LEMMA AssignedIsAllowed ==
  ASSUME NEW v \in Vecs, NEW w \in Vecs, v \in Sorted => w \in Sorted, Becomes(v, Value(w))
  PROVE  Values!Next
<1>1. Values!Only(v) /\ Values!Put(v, Value(w))
  BY OnlyBecomes
<1>2. Values!Assign(v, w)
  BY <1>1 DEF Values!Assign, Vecs
<1> QED
  BY <1>1, <1>2 DEF Values!Next, Vecs

(* An edit that is allowed is a step of the abstract vectors.              *)
LEMMA AllowedIsNext ==
  ASSUME NEW o, NEW s \in Seq(Records), o.v \in Vecs, Value(o.v) = s, Allowed(o, s),
         o.v \in Sorted => Values!Increasing(s), NEW new \in Seq(Records),
         IF o.w # o.v THEN \E w \in Vecs : new = Value(w) ELSE new = o.new
  PROVE  /\ o.v \in Sorted => Values!Increasing(Spliced(s, o.at, o.n, new))
         /\ Becomes(o.v, Spliced(s, o.at, o.n, new)) => Values!Next
<1>1. Len(s) \in Nat /\ o.at \in Nat /\ o.n \in Nat /\ o.at + o.n <= Len(s)
  BY LenProperties DEF Allowed
<1>2. CASE o.v \in Plain
  <2>1. AllowedInPlain(o, s) /\ o.v \notin Sorted
    BY <1>2, VectorAssumption DEF Allowed, VectorAssumption
  <2> SUFFICES ASSUME Becomes(o.v, Spliced(s, o.at, o.n, new)) PROVE Values!Next
    BY <2>1
  <2>2. CASE o.at = 0 /\ o.n = Len(s) /\ new = InsertionSort(s)
    <3>1. Spliced(s, o.at, o.n, new) = InsertionSort(s)
      BY <2>2, SplicedWhole
    <3> QED
      BY <1>2, <3>1, SortedIsPlain
  <2>3. CASE \/ new \in {<<>>} \cup {<<i>> : i \in Items} \cup Arrays
             \/ \E w \in Vecs : new = Value(w)
    <3>1. PICK at \in 0 .. Len(s) : at = o.at
      BY DEF Allowed
    <3>2. PICK n \in 0 .. Len(s) - at : n = o.n
      BY <3>1 DEF Allowed
    <3> QED
      BY <1>2, <2>3, <3>1, <3>2, SplicedIsPlain
  <2> QED
    BY <2>1, <2>2, <2>3 DEF AllowedInPlain
<1>3. CASE o.v \in Sorted
  <2>1. AllowedInSorted(o, s) /\ new = o.new
    BY <1>3 DEF Allowed, AllowedInSorted
  <2>2. CASE o.at = 0 /\ o.n = Len(s) /\ o.new = <<>>
    <3>1. Spliced(s, o.at, o.n, new) = <<>>
      BY <2>1, <2>2, SplicedWhole
    <3>2. Values!Increasing(<<>>)
      BY DEF Values!Increasing
    <3> QED
      BY <1>3, <3>1, <3>2, EmptiedIsSorted
  <2>3. CASE \E item \in Items :
               o.n \in 0 .. 1 /\ o.new \in {<<>>, <<item>>} /\ Around(s, o.at, o.n, item.key)
    <3>1. PICK item \in Items : o.new \in {<<>>, <<item>>} /\ Around(s, o.at, o.n, item.key)
      BY <2>3
    <3>2. Cuts(Records, s, o.at, o.n, new)
      BY <1>1 DEF Cuts
    <3> QED
      BY <1>3, <2>1, <3>1, <3>2, SplicedIsSorted
  <2> QED
    BY <2>1, <2>2, <2>3 DEF AllowedInSorted
<1> QED
  BY <1>2, <1>3 DEF Vecs

----------------------------------------------------------------------------
(* The vectors and their values *)

(* What is in the buffer of a vector or thread.                            *)
Cell(h) == IF hold[h] = None THEN <<>> ELSE data[hold[h]]

(* What the vector is to be that t works on.                               *)
Doing(t) ==
  IF op[t].kind = "edit" THEN IF hold[t] # None THEN Cell(t) ELSE Cell(op[t].v)
  ELSE IF op[t].kind = "finish" THEN <<>> ELSE Cell(op[t].w)

LEMMA ContentsAreCells == IInv /\ StoreInv => \A v \in Vecs : Contents(v) = Cell(v)
<1> SUFFICES ASSUME IInv, StoreInv, NEW v \in Vecs, hold[v] # None PROVE Contents(v) = Cell(v)
  BY DEF Contents, Cell
<1>1. PICK s \in Seq(Records) : s = data[hold[v]] /\ Len(s) = mCount[v]
  BY DEF IInv, TypeOK, StoreInv, StoreTypeOK, Filled
<1>2. SubSeq(s, 1, Len(s)) = s
  BY SubSeqFull
<1> QED
  BY <1>1, <1>2 DEF Contents, Cell

Known ==
  /\ \A v \in Vecs : Worker(v) = {} => Value(v) = Cell(v)
  /\ \A v \in Vecs, t \in Threads : op[t].pc # "idle" /\ op[t].v = v => Value(v) = Doing(t)

LEMMA ValuesAreKnown == IInv /\ StoreInv => Known
<1> SUFFICES ASSUME IInv, StoreInv PROVE Known
  OBVIOUS
<1>1. \A v \in Vecs : Contents(v) = Cell(v)
  BY ContentsAreCells
<1>2. ASSUME NEW v \in Vecs, NEW t \in Threads, op[t].pc # "idle", op[t].v = v
      PROVE  Value(v) = Doing(t)
  <2>1. Worker(v) = {t}
    BY <1>2 DEF IInv, LocksHeld, Worker
  <2>2. Value(v) = Meant(t, v)
    BY <2>1 DEF Value
  <2>3. op[t].kind \in {"edit", "assign", "copy", "finish"} /\ op[t].w \in Vecs
    BY <1>2 DEF IInv, TypeOK
  <2> QED
    BY <1>1, <1>2, <2>2, <2>3 DEF Meant, Doing, Cell
<1> QED
  BY <1>1, <1>2 DEF Value, Known

(* A thread's step changes no vector but its own.                          *)
LEMMA OthersValue ==
  ASSUME IInv, StoreInv, IInv', StoreInv', NEW t \in Threads, op[t].pc # "idle",
         NEW v, v = op[t].v, NEW b, Changes(t, b)
  PROVE  /\ \A h \in All : h \notin {t, v} => Cell(h)' = Cell(h)
         /\ \A w \in Vecs : w # v => Value(w)' = Value(w)
<1>1. ASSUME NEW h \in All, h \notin {t, v} PROVE Cell(h)' = Cell(h)
  <2>1. hold'[h] = hold[h] /\ (hold[h] = None \/ hold[h] # b)
    BY <1>1 DEF Changes
  <2>2. hold[h] # None => data'[hold[h]] = data[hold[h]]
    BY <2>1 DEF Changes, IInv, TypeOK, All
  <2> QED
    BY <2>1, <2>2 DEF Cell
<1>2. ASSUME NEW w \in Vecs, w # v PROVE Value(w)' = Value(w)
  <2>1. v \in Vecs /\ t \notin Vecs /\ w \in All
    BY Fields2 DEF All
  <2>2. Cell(w)' = Cell(w)
    BY <1>1, <1>2, <2>1
  <2>3. CASE Worker(w) = {}
    <3>1. Worker(w)' = {}
      BY <1>2, <2>3 DEF Worker, Changes
    <3>2. Value(w) = Cell(w)
      BY <2>3, ValuesAreKnown DEF Known
    <3>3. Value(w)' = Cell(w)'
      <4>1. Known'
        BY ValuesAreKnown, PTL
      <4> QED
        BY <3>1, <4>1 DEF Known
    <3> QED
      BY <2>2, <3>2, <3>3
  <2>4. CASE Worker(w) # {}
    <3>1. PICK u \in Threads : op[u].pc # "idle" /\ op[u].v = w
      BY <2>4 DEF Worker
    <3>2. u # t /\ op'[u] = op[u]
      BY <1>2, <3>1 DEF Changes
    <3>3. op[u].w # v /\ op[u].w \in Vecs /\ u \notin Vecs /\ u \in All
      BY <3>1, <3>2, Fields2 DEF IInv, LocksHeld, All
    <3>4. PICK x \in Vecs : x = op[u].w
      BY <3>3
    <3>5. Cell(x)' = Cell(x) /\ Cell(u)' = Cell(u) /\ hold'[u] = hold[u]
      BY <1>1, <2>1, <3>2, <3>3, <3>4 DEF All, Changes
    <3>6. Doing(u)' = Doing(u)
      BY <2>2, <3>1, <3>2, <3>4, <3>5 DEF Doing
    <3>7. Value(w) = Doing(u)
      BY <3>1, ValuesAreKnown DEF Known
    <3>8. op'[u].pc # "idle" /\ op'[u].v = w
      BY <3>1, <3>2
    <3>9. Known'
      BY ValuesAreKnown, PTL
    <3> QED
      BY <3>6, <3>7, <3>8, <3>9 DEF Known
  <2> QED
    BY <2>3, <2>4
<1> QED
  BY <1>1, <1>2

(* What each operation goes on to do is allowed, and what is sorted stays  *)
(* so.                                                                     *)
Plans(o, s) ==
  /\ o.kind = "edit" => Allowed(o, s)
  /\ o.kind \in {"assign", "copy"} => o.w # o.v

ValueInv ==
  /\ \A t \in Threads, v \in Vecs : op[t].pc # "idle" /\ op[t].v = v => Plans(op[t], Value(v))
  /\ \A v \in Sorted : Values!Increasing(Value(v))

LEMMA PlansOn ==
  ASSUME NEW o, NEW p, NEW s, Plans(o, s), p.kind = o.kind, p.v = o.v, p.w = o.w,
         p.at = o.at, p.n = o.n, p.new = o.new
  PROVE  Plans(p, s)
  BY DEF Plans, Allowed, AllowedInPlain, AllowedInSorted

(* An operation goes on, and its vector is what it was.                    *)
LEMMA GoesOn ==
  ASSUME IInv, StoreInv, ValueInv, IInv', StoreInv', NEW t \in Threads, op[t].pc # "idle",
         NEW v, v = op[t].v, NEW b, Changes(t, b), NEW label, label # "idle", Goes(t, label),
         Doing(t)' = Doing(t)
  PROVE  /\ ValueInv'
         /\ \A w \in Vecs : Value(w)' = Value(w)
<1>1. v \in Vecs
  BY Fields2
<1>2. Value(v)' = Value(v)
  <2>1. Value(v) = Doing(t)
    BY <1>1, ValuesAreKnown DEF Known
  <2>2. op'[t].pc # "idle" /\ op'[t].v = v
    BY DEF Goes
  <2>3. Known'
    BY ValuesAreKnown, PTL
  <2> QED
    BY <1>1, <2>1, <2>2, <2>3 DEF Known
<1>3. \A w \in Vecs : Value(w)' = Value(w)
  BY <1>2, OthersValue
<1>4. ASSUME NEW u \in Threads, NEW w \in Vecs, op'[u].pc # "idle" /\ op'[u].v = w
      PROVE  Plans(op'[u], Value(w)')
  <2>1. op[u].pc # "idle" /\ op[u].v = w
    BY <1>4 DEF Goes
  <2>2. PICK o, p, s : o = op[u] /\ p = op'[u] /\ s = Value(w)
    OBVIOUS
  <2>3. Plans(o, s)
    BY <2>1, <2>2 DEF ValueInv
  <2>4. p.kind = o.kind /\ p.v = o.v /\ p.w = o.w /\ p.at = o.at /\ p.n = o.n /\ p.new = o.new
    BY <2>2 DEF Goes
  <2>5. Plans(p, s)
    BY <2>3, <2>4, PlansOn
  <2> QED
    BY <1>3, <2>2, <2>5
<1>5. \A w \in Sorted : Values!Increasing(Value(w))'
  <2>1. \A w \in Sorted : Values!Increasing(Value(w)) /\ Value(w)' = Value(w)
    BY <1>3 DEF ValueInv, Vecs
  <2> QED
    BY <2>1 DEF Values!Increasing
<1> QED
  BY <1>3, <1>4, <1>5 DEF ValueInv

Unchanged == \A w \in Vecs : Value(w)' = Value(w)

LEMMA WorkGoes ==
  ASSUME TypeOK, NEW t \in Threads, op[t].pc # "idle",
         Own(t) \/ Alloc(t) \/ Sole(t) \/ Release(t) \/ Free(t)
  PROVE  \E label : label # "idle" /\ Goes(t, label)
<1>1. CASE Own(t)
  BY <1>1, GotoGoes DEF Own
<1>2. CASE Alloc(t)
  BY <1>2, GotoGoes DEF Alloc
<1>3. CASE Sole(t)
  <2>1. Goes(t, "release")
    BY <1>3 DEF Sole, Goes, TypeOK, Fields
  <2> QED
    BY <2>1
<1>4. CASE Release(t) \/ Free(t)
  <2>1. Goes(t, op'[t].pc) /\ op'[t].pc # "idle"
    BY <1>4 DEF Release, Free, After, Goes, TypeOK, Fields
  <2> QED
    BY <2>1
<1> QED
  BY <1>1, <1>2, <1>3, <1>4

(* Up to the last step of an operation no vector has a new value.          *)
LEMMA WorkGoesOn ==
  ASSUME IInv, StoreInv, ValueInv, IInv', StoreInv', NEW t \in Threads,
         Own(t) \/ Alloc(t) \/ Sole(t) \/ Release(t) \/ Free(t)
  PROVE  ValueInv' /\ Unchanged
<1>1. op[t].pc # "idle"
  BY DEF Own, Alloc, Sole, Release, Free
<1>2. PICK b : Changes(t, b)
  BY OwnStores, AllocStores, SoleStores, ReleaseStores, FreeStores
<1>3. PICK v \in Vecs, w \in Vecs : v = op[t].v /\ w = op[t].w
  BY <1>1, Fields2
<1>4. /\ t \notin Vecs /\ v \in All /\ t \in All /\ w \in All /\ AtWork(t) /\ Phase(t)
      /\ hold[t] \in SharedBuffers \cup {None} /\ hold[v] \in SharedBuffers \cup {None}
      /\ hold[w] \in SharedBuffers \cup {None}
      /\ op[t].kind \in {"edit", "assign", "copy", "finish"}
  BY <1>1, <1>3, Fields2 DEF All, IInv, TypeOK
<1>5. op[t].kind \in {"assign", "copy"} => w # v
  BY <1>1, <1>3 DEF ValueInv, Plans
<1>6. PICK label : label # "idle" /\ Goes(t, label)
  BY <1>1, WorkGoes DEF IInv
<1>7. Doing(t)' = Doing(t)
  <2>0. op'[t].kind = op[t].kind /\ op'[t].v = v /\ op'[t].w = w
    BY <1>3, <1>6 DEF Goes
  <2>1. CASE Own(t) \/ Sole(t)
    <3>1. UNCHANGED <<hold, data>>
      BY <2>1 DEF Own, Sole, buffers
    <3> QED
      BY <1>3, <2>0, <3>1 DEF Doing, Cell
  <2>2. CASE Alloc(t)
    <3>1. PICK c \in SharedBuffers : c \notin live /\ hold' = [hold EXCEPT ![t] = c]
                                     /\ data' = [data EXCEPT ![c] = Contents(v)]
      BY <1>3, <2>2 DEF Alloc, IInv, TypeOK
    <3>2. Contents(v) = Cell(v)
      BY ContentsAreCells
    <3>3. hold[t] = None /\ op[t].kind = "edit"
      BY <1>4, <2>2 DEF Alloc, Phase
    <3>4. hold'[t] = c /\ c # None /\ data'[c] = Cell(v)
      BY <1>4, <3>1, <3>2, VectorAssumption DEF IInv, TypeOK, StoreInv, StoreTypeOK, All, VectorAssumption
    <3> QED
      BY <1>3, <2>0, <3>3, <3>4 DEF Doing, Cell
  <2>3. CASE Release(t)
    <3>1. hold' = [hold EXCEPT ![v] = None] /\ data' = data
      BY <1>3, <2>3 DEF Release
    <3>2. hold'[t] = hold[t] /\ (w # v => hold'[w] = hold[w])
      BY <1>3, <1>4, <3>1 DEF IInv, TypeOK, All
    <3>3. op[t].kind = "edit" => hold[t] # None
      BY <1>4, <2>3 DEF Release, AtWork
    <3> QED
      BY <1>3, <1>4, <1>5, <2>0, <3>1, <3>2, <3>3 DEF Doing, Cell
  <2>4. CASE Free(t)
    <3>1. hold' = hold /\ \A h \in All : hold[h] # op[t].old
      BY <2>4, FreedUnheld DEF Free
    <3>2. data' = data \/ data' = [data EXCEPT ![op[t].old] = <<>>]
      BY <2>4 DEF Free
    <3>3. \A h \in All : hold[h] \in SharedBuffers => data'[hold[h]] = data[hold[h]]
      BY <3>1, <3>2 DEF StoreInv, StoreTypeOK
    <3> QED
      BY <1>3, <1>4, <2>0, <3>1, <3>3 DEF Doing, Cell
  <2> QED
    BY <2>1, <2>2, <2>3, <2>4
<1> QED
  BY <1>1, <1>2, <1>3, <1>6, <1>7, GoesOn DEF Unchanged

(* A thread is done with a vector.                                         *)
LEMMA EndsWith ==
  ASSUME IInv, StoreInv, ValueInv, IInv', StoreInv', NEW t \in Threads, op[t].pc # "idle",
         NEW v \in Vecs, v = op[t].v, NEW b, Changes(t, b), op'[t].pc = "idle",
         v \in Sorted => Values!Increasing(Cell(v)')
  PROVE  /\ ValueInv' /\ Value(v)' = Cell(v)'
         /\ \A w \in Vecs : w # v => Value(w)' = Value(w)
<1>1. \A w \in Vecs : w # v => Value(w)' = Value(w)
  BY OthersValue
<1>2. Value(v)' = Cell(v)'
  <2>1. Worker(v)' = {}
    <3>1. \A u \in Threads : u # t => op'[u] = op[u]
      BY DEF Changes
    <3> QED
      BY <3>1 DEF Worker, IInv, LocksHeld
  <2>2. Known'
    BY ValuesAreKnown, PTL
  <2> QED
    BY <2>1, <2>2 DEF Known
<1>3. ASSUME NEW u \in Threads, NEW w \in Vecs, op'[u].pc # "idle" /\ op'[u].v = w
      PROVE  Plans(op'[u], Value(w)')
  <2>1. u # t /\ op'[u] = op[u]
    BY <1>3 DEF Changes
  <2>2. op[u].pc # "idle" /\ op[u].v = w /\ w # v
    BY <1>3, <2>1 DEF IInv, LocksHeld
  <2>3. Plans(op[u], Value(w))
    BY <2>2 DEF ValueInv
  <2> QED
    BY <1>1, <2>1, <2>2, <2>3
<1>4. \A w \in Sorted : Values!Increasing(Value(w))'
  <2> SUFFICES ASSUME NEW w \in Sorted PROVE Values!Increasing(Value(w)')
    BY DEF Values!Increasing
  <2>1. CASE w = v
    BY <1>2, <2>1
  <2>2. CASE w # v
    BY <1>1, <2>2 DEF ValueInv, Vecs
  <2> QED
    BY <2>1, <2>2
<1> QED
  BY <1>1, <1>2, <1>3, <1>4 DEF ValueInv

LEMMA StoreDomains ==
  ASSUME IInv, StoreInv
  PROVE  DOMAIN hold = All /\ DOMAIN data = SharedBuffers
  BY DEF IInv, TypeOK, StoreInv, StoreTypeOK, All

LEMMA FillIsAllowed ==
  ASSUME IInv, StoreInv, ValueInv, IInv', StoreInv', NEW t \in Threads, Fill(t)
  PROVE  ValueInv' /\ (Unchanged \/ Values!Next)
<1>1. op[t].pc = "fill" /\ op[t].pc # "idle"
  BY DEF Fill
<1>2. PICK v, o : v \in Vecs /\ v = op[t].v /\ o = op[t]
  BY <1>1, Fields2
<1>3. /\ v \in All /\ t \in All /\ t \notin Vecs /\ AtWork(t) /\ Phase(t) /\ o.kind = "edit" /\ Fits(o)
      /\ hold[t] \in SharedBuffers \cup {None} /\ hold[v] \in SharedBuffers \cup {None}
  BY <1>1, <1>2, Fields2 DEF AtWork, All
<1>4. PICK c : Changes(t, c)
  BY FillStores
<1>5. op'[t].pc = "idle"
  BY DEF Fill, Idle, IInv, TypeOK
<1>6. PICK s : s = Doing(t)
  OBVIOUS
<1>7. Value(v) = s /\ s = IF hold[t] # None THEN Cell(t) ELSE Cell(v)
  BY <1>1, <1>2, <1>3, <1>6, ValuesAreKnown DEF Known, Doing
<1>8. Plans(o, s) /\ (v \in Sorted => Values!Increasing(s))
  BY <1>1, <1>2, <1>7 DEF ValueInv
<1>9. CASE Target(t) = None
  <2>1. UNCHANGED <<data, hold>> /\ hold[v] = None /\ hold[t] = None
    BY <1>2, <1>9 DEF Fill, Target
  <2>2. Cell(v)' = s
    BY <1>7, <2>1 DEF Cell
  <2>3. ValueInv' /\ Value(v)' = s /\ \A w \in Vecs : w # v => Value(w)' = Value(w)
    BY <1>1, <1>2, <1>4, <1>5, <1>8, <2>2, EndsWith
  <2> QED
    BY <1>7, <2>3 DEF Unchanged
<1>10. CASE Target(t) # None
  <2>1. PICK b, new :
          /\ b \in SharedBuffers /\ b = Target(t) /\ b # None /\ new = New(o) /\ s = data[b]
          /\ data' = [data EXCEPT ![b] = Spliced(s, o.at, o.n, new)]
          /\ hold' = [hold EXCEPT ![v] = b, ![t] = None]
    <3>1. Target(t) \in SharedBuffers /\ s = data[Target(t)]
      BY <1>2, <1>3, <1>7, <1>10 DEF Target, Cell
    <3> QED
      BY <1>2, <1>10, <3>1 DEF Fill
  <2>2. hold'[v] = b /\ data'[b] = Spliced(s, o.at, o.n, new)
    BY <1>3, <2>1, StoreDomains
  <2>3. s \in Seq(Records)
    BY <2>1 DEF StoreInv, StoreTypeOK
  <2>4. /\ new \in Seq(Records)
        /\ IF o.w # o.v THEN \E w \in Vecs : new = Value(w) ELSE new = o.new
    <3>1. CASE o.w # v
      <4>1. PICK w \in Vecs : w = o.w /\ Worker(w) = {}
        BY <1>1, <1>2, <3>1, SourceAtRest
      <4>2. Contents(w) \in Seq(Records) /\ Contents(w) = Cell(w) /\ Value(w) = Cell(w)
        BY <4>1, AtRest, ContentsAreCells, ValuesAreKnown DEF Known
      <4> QED
        BY <1>2, <2>1, <3>1, <4>1, <4>2 DEF New
    <3>2. CASE o.w = v
      BY <1>2, <1>3, <2>1, <3>2 DEF New, Fits
    <3> QED
      BY <3>1, <3>2
  <2>5. PICK z : z = Spliced(s, o.at, o.n, new)
    OBVIOUS
  <2>6. (v \in Sorted => Values!Increasing(z)) /\ (Becomes(v, z) => Values!Next)
    <3>1. o.v = v /\ Allowed(o, s)
      BY <1>2, <1>3, <1>8 DEF Plans
    <3>2. o.v \in Vecs /\ Value(o.v) = s /\ (o.v \in Sorted => Values!Increasing(s))
      BY <1>2, <1>7, <1>8, <3>1
    <3>3. /\ o.v \in Sorted => Values!Increasing(Spliced(s, o.at, o.n, new))
          /\ Becomes(o.v, Spliced(s, o.at, o.n, new)) => Values!Next
      BY <2>3, <2>4, <3>1, <3>2, AllowedIsNext
    <3> QED
      BY <2>5, <3>1, <3>3
  <2>7. Cell(v)' = z
    BY <2>1, <2>2, <2>5 DEF Cell
  <2>8. ValueInv' /\ Value(v)' = z /\ \A w \in Vecs : w # v => Value(w)' = Value(w)
    BY <1>1, <1>2, <1>4, <1>5, <2>6, <2>7, EndsWith
  <2> QED
    BY <2>6, <2>8 DEF Unchanged, Becomes
<1> QED
  BY <1>9, <1>10

LEMMA ShareIsKnown ==
  ASSUME IInv, StoreInv, ValueInv, IInv', StoreInv', NEW t \in Threads, Share(t)
  PROVE  ValueInv' /\ Unchanged
<1>1. op[t].pc = "share" /\ op[t].pc # "idle"
  BY DEF Share
<1>2. PICK v, w, o : v \in Vecs /\ w \in Vecs /\ v = op[t].v /\ w = op[t].w /\ o = op[t]
  BY <1>1, Fields2
<1>3. /\ v \in All /\ w \in All /\ t \notin Vecs /\ hold[v] = None /\ hold[t] = None
      /\ hold[w] \in SharedBuffers \cup {None}
      /\ o.kind \in {"edit", "assign", "copy", "finish"}
  BY <1>1, <1>2, Fields2 DEF Phase, All, IInv, TypeOK
<1>4. PICK c : Changes(t, c)
  BY ShareStores
<1>5. op'[t].pc = "idle"
  BY DEF Share, Idle, IInv, TypeOK
<1>6. /\ Value(v) = Doing(t)
      /\ Doing(t) = IF o.kind \in {"edit", "finish"} THEN <<>> ELSE Cell(w)
  BY <1>1, <1>2, <1>3, ValuesAreKnown DEF Known, Doing, Cell
<1>7. /\ hold'[v] = (IF Shares(o) THEN hold[w] ELSE None) /\ data' = data
  BY <1>2, <1>3 DEF Share, IInv, TypeOK, All
<1>8. o.kind \in {"assign", "copy"} /\ ~Shares(o) => Cell(w) = <<>>
  <2> SUFFICES ASSUME o.kind \in {"assign", "copy"}, ~Shares(o), hold[w] # None
               PROVE  Cell(w) = <<>>
    BY DEF Cell
  <2>1. mCount[w] = 0
    BY <1>2 DEF Shares
  <2>2. hold[w] \in SharedBuffers /\ data \in [SharedBuffers -> Seq(Records)]
    BY <1>3 DEF StoreInv, StoreTypeOK
  <2>3. Len(data[hold[w]]) = 0
    <3>1. Filled(w)
      BY <1>2 DEF StoreInv
    <3> QED
      BY <2>1, <3>1 DEF Filled
  <2> QED
    BY <2>2, <2>3, EmptySeq DEF Cell
<1>9. Cell(v)' = Value(v)
  BY <1>2, <1>3, <1>6, <1>7, <1>8 DEF Cell, Shares
<1>10. v \in Sorted => Values!Increasing(Cell(v)')
  BY <1>9 DEF ValueInv
<1>11. ValueInv' /\ Value(v)' = Cell(v)' /\ \A x \in Vecs : x # v => Value(x)' = Value(x)
  BY <1>1, <1>2, <1>4, <1>5, <1>10, EndsWith
<1> QED
  BY <1>9, <1>11 DEF Unchanged

(* An operation begins: its vector has the value it is to have.            *)
LEMMA BeginKnown ==
  ASSUME IInv, StoreInv, ValueInv, IInv', StoreInv', NEW t \in Threads, NEW o, Begin(t, o),
         NEW v \in Vecs, NEW w \in Vecs, o.v = v, o.w = w, o.pc # "idle",
         o.kind \in {"edit", "assign", "copy", "finish"},
         NEW s, s = (IF o.kind = "edit" THEN Value(v) ELSE IF o.kind = "finish" THEN <<>> ELSE Value(w)),
         Plans(o, s), v \in Sorted => Values!Increasing(s)
  PROVE  /\ ValueInv' /\ Value(v)' = s
         /\ \A x \in Vecs : x # v => Value(x)' = Value(x)
<1>1. /\ op[t].pc = "idle" /\ hold[t] = None
      /\ op'[t] = o /\ (\A u \in Threads : u # t => op'[u] = op[u])
      /\ UNCHANGED <<hold, data>>
  BY IdleHoldsNothing DEF Begin, IInv, TypeOK, buffers
<1>2. \A h : Cell(h)' = Cell(h)
  BY <1>1 DEF Cell
<1>3. Known /\ Known'
  BY ValuesAreKnown, PTL
<1>4. Worker(v) = {} /\ Worker(w) = {}
  BY DEF Begin, Unused, Steady, Worker
<1>5. Value(v) = Cell(v) /\ Value(w) = Cell(w)
  BY <1>3, <1>4 DEF Known
<1>6. Value(v)' = s
  <2>1. Value(v)' = Doing(t)'
    BY <1>1, <1>3 DEF Known
  <2>2. Doing(t)' = IF o.kind = "edit" THEN Cell(v)'
                    ELSE IF o.kind = "finish" THEN <<>> ELSE Cell(w)'
    BY <1>1 DEF Doing
  <2> QED
    BY <1>2, <1>5, <2>1, <2>2
<1>7. ASSUME NEW x \in Vecs, x # v PROVE Value(x)' = Value(x)
  <2>1. CASE Worker(x) = {}
    <3>1. Worker(x)' = {}
      BY <1>1, <1>7, <2>1 DEF Worker
    <3> QED
      BY <1>2, <1>3, <2>1, <3>1 DEF Known
  <2>2. CASE Worker(x) # {}
    <3>1. PICK u \in Threads : op[u].pc # "idle" /\ op[u].v = x
      BY <2>2 DEF Worker
    <3>2. u # t /\ op'[u] = op[u]
      BY <1>1, <3>1
    <3>3. Value(x) = Doing(u) /\ Value(x)' = Doing(u)'
      BY <1>3, <3>1, <3>2 DEF Known
    <3>4. PICK y : y = op[u].w
      OBVIOUS
    <3>5. Doing(u)' = Doing(u)
      BY <1>1, <1>2, <3>1, <3>2, <3>4 DEF Doing
    <3> QED
      BY <3>3, <3>5
  <2> QED
    BY <2>1, <2>2
<1>8. ASSUME NEW u \in Threads, NEW x \in Vecs, op'[u].pc # "idle" /\ op'[u].v = x
      PROVE  Plans(op'[u], Value(x)')
  <2>1. CASE u = t
    BY <1>1, <1>6, <1>8, <2>1
  <2>2. CASE u # t
    <3>1. op'[u] = op[u] /\ op[u].pc # "idle" /\ op[u].v = x
      BY <1>1, <1>8, <2>2
    <3>2. x # v
      BY <3>1 DEF Begin, Unused
    <3>3. Plans(op[u], Value(x))
      BY <3>1 DEF ValueInv
    <3> QED
      BY <1>7, <3>1, <3>2, <3>3
  <2> QED
    BY <2>1, <2>2
<1>9. \A x \in Sorted : Values!Increasing(Value(x))'
  <2> SUFFICES ASSUME NEW x \in Sorted PROVE Values!Increasing(Value(x)')
    BY DEF Values!Increasing
  <2>1. CASE x = v
    BY <1>6, <2>1
  <2>2. CASE x # v
    BY <1>7, <2>2 DEF ValueInv, Vecs
  <2> QED
    BY <2>1, <2>2
<1> QED
  BY <1>6, <1>7, <1>8, <1>9 DEF ValueInv

LEMMA EditKnown ==
  ASSUME IInv, StoreInv, ValueInv, IInv', StoreInv', NEW t \in Threads,
         NEW v \in Vecs, NEW w \in Vecs, NEW ready, NEW at, NEW n, NEW new,
         Edit(t, v, w, ready, at, n, new),
         NEW o, o.v = v, o.w = w, o.at = at, o.n = n, o.new = new, Allowed(o, Value(v))
  PROVE  ValueInv' /\ Unchanged
<1> DEFINE p == [pc |-> CASE ready.way = "alloc" -> "alloc"
                          [] ready.way # "alloc" /\ hold[v] # None -> "own"
                          [] ready.way # "alloc" /\ hold[v] = None -> "fill",
                 kind |-> "edit", v |-> v, w |-> w, way |-> ready.way, cap |-> ready.cap,
                 at |-> at, n |-> n, new |-> new, sole |-> FALSE, old |-> None]
<1>1. Begin(t, p)
  BY DEF Edit
<1>2. p.pc # "idle"
  OBVIOUS
<1>3. /\ p.v = v /\ p.w = w /\ p.kind = "edit" /\ p.at = at /\ p.n = n /\ p.new = new
  OBVIOUS
<1> HIDE DEF p
<1>4. PICK q, s : q = p /\ s = Value(v)
  OBVIOUS
<1>5. Plans(q, s)
  <2>1. Allowed(q, s)
    BY <1>3, <1>4 DEF Allowed, AllowedInPlain, AllowedInSorted
  <2> QED
    BY <1>3, <1>4, <2>1 DEF Plans
<1>6. v \in Sorted => Values!Increasing(s)
  BY <1>4 DEF ValueInv
<1>7. ValueInv' /\ Value(v)' = s /\ \A x \in Vecs : x # v => Value(x)' = Value(x)
  BY <1>1, <1>2, <1>3, <1>4, <1>5, <1>6, BeginKnown
<1> QED
  BY <1>4, <1>7 DEF Unchanged

LEMMA ReplaceKnown ==
  ASSUME IInv, StoreInv, ValueInv, IInv', StoreInv', NEW t \in Threads,
         NEW v \in Vecs, NEW w \in Vecs, NEW kind, Replace(t, kind, v, w),
         \/ kind = "finish"
         \/ kind \in {"assign", "copy"} /\ w # v /\ (v \in Sorted => w \in Sorted)
  PROVE  ValueInv' /\ (Unchanged \/ Values!Next)
<1> DEFINE p == [pc |-> IF hold[v] = None THEN "share" ELSE "sole",
                 kind |-> kind, v |-> v, w |-> w, way |-> "edit", cap |-> 0,
                 at |-> 0, n |-> 0, new |-> <<>>, sole |-> FALSE, old |-> None]
<1>1. Begin(t, p)
  BY DEF Replace
<1>2. p.pc # "idle" /\ p.v = v /\ p.w = w /\ p.kind = kind
  OBVIOUS
<1> HIDE DEF p
<1>3. PICK q : q = p
  OBVIOUS
<1>4. kind # "edit" /\ Plans(q, <<>>) /\ Plans(q, Value(w))
  BY <1>2, <1>3 DEF Plans
<1>5. CASE kind = "finish"
  <2>1. Values!Increasing(<<>>)
    BY DEF Values!Increasing
  <2>2. ValueInv' /\ Value(v)' = <<>> /\ \A x \in Vecs : x # v => Value(x)' = Value(x)
    BY <1>1, <1>2, <1>3, <1>4, <1>5, <2>1, BeginKnown
  <2>3. CASE Value(v) = <<>>
    BY <2>2, <2>3 DEF Unchanged
  <2>4. CASE Value(v) # <<>> /\ v \in Sorted
    <3>1. Becomes(v, <<>>)
      BY <2>2, <2>4 DEF Becomes
    <3> QED
      BY <2>2, <2>4, <3>1, EmptiedIsSorted
  <2>5. CASE Value(v) # <<>> /\ v \in Plain
    <3>1. Becomes(v, <<>>)
      BY <2>2, <2>5 DEF Becomes
    <3>2. PICK s \in Seq(Records) : s = Value(v)
      <4>1. Worker(v) = {}
        BY <1>1, <1>2 DEF Begin, Unused, Worker
      <4>2. Value(v) = Contents(v)
        BY <4>1 DEF Value
      <4> QED
        BY <4>1, <4>2, AtRest
    <3>3. PICK n : n = Len(s) /\ n \in 0 .. Len(s) - 0
      BY LenProperties
    <3>4. <<>> \in Seq(Records) /\ 0 \in 0 .. Len(s)
      BY LenProperties
    <3>5. Spliced(s, 0, n, <<>>) = <<>>
      BY <3>3, <3>4, SplicedWhole
    <3> QED
      BY <2>2, <2>5, <3>1, <3>2, <3>3, <3>4, <3>5, SplicedIsPlain
  <2> QED
    BY <2>3, <2>4, <2>5 DEF Vecs
<1>6. CASE kind \in {"assign", "copy"} /\ w # v /\ (v \in Sorted => w \in Sorted)
  <2>1. PICK s : s = Value(w)
    OBVIOUS
  <2>2. v \in Sorted => Values!Increasing(s)
    BY <1>6, <2>1 DEF ValueInv
  <2>3. ValueInv' /\ Value(v)' = s /\ \A x \in Vecs : x # v => Value(x)' = Value(x)
    BY <1>1, <1>2, <1>3, <1>4, <1>6, <2>1, <2>2, BeginKnown
  <2>4. CASE Value(v) = s
    BY <2>3, <2>4 DEF Unchanged
  <2>5. CASE Value(v) # s
    <3>1. Becomes(v, Value(w))
      BY <2>1, <2>3, <2>5 DEF Becomes
    <3> QED
      BY <1>6, <2>3, <3>1, AssignedIsAllowed
  <2> QED
    BY <2>4, <2>5
<1> QED
  BY <1>5, <1>6

Proposed(v, w, at, n, new) == [v |-> v, w |-> w, at |-> at, n |-> n, new |-> new]

LEMMA ClearKnown ==
  ASSUME IInv, StoreInv, ValueInv, IInv', StoreInv', NEW t \in Threads, NEW v \in Vecs, Clear(t, v)
  PROVE  ValueInv' /\ Unchanged
<1>1. Edit(t, v, v, Shrink(v, 0, mCount[v]), 0, mCount[v], <<>>)
  BY DEF Clear
<1>2. Worker(v) = {}
  BY <1>1 DEF Edit, Begin, Unused, Worker
<1>3. PICK s \in Seq(Records) : s = Value(v) /\ Len(s) = mCount[v]
  BY <1>2, AtRest DEF Value
<1>4. PICK o : o = Proposed(v, v, 0, mCount[v], <<>>)
  OBVIOUS
<1>5. o.v = v /\ o.w = v /\ o.at = 0 /\ o.n = mCount[v] /\ o.new = <<>>
  BY <1>4 DEF Proposed
<1>6. Allowed(o, s)
  <2>1. Len(s) \in Nat /\ o.n = Len(s) /\ o.at \in 0 .. Len(s) /\ o.n \in 0 .. Len(s) - o.at
    BY <1>3, <1>5, LenProperties
  <2> QED
    BY <1>5, <2>1 DEF Allowed, AllowedInPlain, AllowedInSorted
<1> QED
  BY <1>1, <1>3, <1>5, <1>6, EditKnown

LEMMA PlainKnown ==
  ASSUME IInv, StoreInv, ValueInv, IInv', StoreInv', NEW t \in Threads, NEW v \in Plain,
         \/ InsertArrayAt(t, v) \/ InsertVectorAt(t, v) \/ RemoveItemsAt(t, v)
         \/ ReplaceAt(t, v) \/ Sort(t, v) \/ SetCapacity(t, v)
  PROVE  ValueInv' /\ Unchanged
<1>1. Worker(v) = {}
  BY DEF InsertArrayAt, InsertVectorAt, RemoveItemsAt, ReplaceAt, Sort, SetCapacity, Edit,
     Begin, Unused, Worker
<1>2. v \in Vecs /\ v \notin Sorted
  BY VectorAssumption DEF VectorAssumption, Vecs
<1>3. PICK s \in Seq(Records) : s = Value(v) /\ s = Contents(v) /\ Len(s) = mCount[v] /\ mCount[v] \in Nat
  BY <1>1, <1>2, AtRest DEF Value
<1>4. ASSUME NEW w \in Vecs, NEW ready, NEW at \in Nat, NEW n \in Nat, NEW new,
             at + n <= mCount[v], Edit(t, v, w, ready, at, n, new),
             \/ w # v
             \/ new \in {<<>>} \cup {<<i>> : i \in Items} \cup Arrays
             \/ at = 0 /\ n = Len(s) /\ new = InsertionSort(s)
      PROVE  ValueInv' /\ Unchanged
  <2>1. PICK o : o = Proposed(v, w, at, n, new)
    OBVIOUS
  <2>2. o.v = v /\ o.w = w /\ o.at = at /\ o.n = n /\ o.new = new
    BY <2>1 DEF Proposed
  <2>3. o.at \in 0 .. Len(s) /\ o.n \in 0 .. Len(s) - o.at
    BY <1>3, <1>4, <2>2
  <2>4. Allowed(o, s)
    BY <1>2, <1>4, <2>2, <2>3 DEF Allowed, AllowedInPlain
  <2> QED
    BY <1>2, <1>3, <1>4, <2>2, <2>4, EditKnown
<1>5. CASE InsertArrayAt(t, v)
  <2>1. PICK at \in Indices(v), array \in Arrays : Edit(t, v, v, Grow(v, at, Len(array)), at, 0, array)
    BY <1>5 DEF InsertArrayAt
  <2>2. at \in Nat /\ at + 0 <= mCount[v]
    BY <1>3 DEF Indices
  <2> QED
    BY <1>2, <1>4, <2>1, <2>2
<1>6. CASE InsertVectorAt(t, v)
  <2>1. PICK w \in Vecs \ {v}, at \in Indices(v) : Edit(t, v, w, Grow(v, at, mCount[w]), at, 0, <<>>)
    BY <1>6 DEF InsertVectorAt
  <2>2. at \in Nat /\ at + 0 <= mCount[v]
    BY <1>3 DEF Indices
  <2> QED
    BY <1>4, <2>1, <2>2
<1>7. CASE RemoveItemsAt(t, v)
  <2>0. PICK at \in Indices(v) :
          \E n \in 0 .. mCount[v] - at : Edit(t, v, v, Shrink(v, at, n), at, n, <<>>)
    BY <1>7 DEF RemoveItemsAt
  <2>1. PICK n \in 0 .. mCount[v] - at : Edit(t, v, v, Shrink(v, at, n), at, n, <<>>)
    BY <2>0
  <2>2. at \in Nat /\ n \in Nat /\ at + n <= mCount[v]
    BY <1>3 DEF Indices
  <2> QED
    BY <1>2, <1>4, <2>1, <2>2
<1>8. CASE ReplaceAt(t, v)
  <2>1. PICK at \in 0 .. mCount[v] - 1, item \in Single : Edit(t, v, v, Same(v), at, 1, <<item>>)
    BY <1>8 DEF ReplaceAt
  <2>2. at \in Nat /\ at + 1 <= mCount[v] /\ item \in Items
    BY <1>3 DEF Single
  <2> QED
    BY <1>2, <1>4, <2>1, <2>2
<1>9. CASE Sort(t, v)
  <2>1. Edit(t, v, v, Same(v), 0, mCount[v], InsertionSort(s))
    BY <1>3, <1>9 DEF Sort
  <2>2. 0 + mCount[v] <= mCount[v] /\ mCount[v] \in Nat
    BY <1>3
  <2> QED
    BY <1>2, <1>3, <1>4, <2>1, <2>2
<1>10. CASE SetCapacity(t, v)
  <2>1. Edit(t, v, v, [way |-> "alloc", cap |-> MaxSize], 0, 0, <<>>)
    BY <1>10 DEF SetCapacity
  <2>2. 0 + 0 <= mCount[v]
    BY <1>3
  <2> QED
    BY <1>2, <1>4, <2>1, <2>2
<1> QED
  BY <1>5, <1>6, <1>7, <1>8, <1>9, <1>10

LEMMA SortedKnown ==
  ASSUME IInv, StoreInv, ValueInv, IInv', StoreInv', NEW t \in Threads, NEW v \in Sorted,
         SortedAdd(t, v) \/ SortedRemove(t, v)
  PROVE  ValueInv' /\ Unchanged
<1>0. PICK item \in Items : \E o \in {IndexOrder(Contents(v), item.key)} :
        \/ o.found /\ Edit(t, v, v, Same(v), o.at, 1, <<item>>)
        \/ ~o.found /\ Edit(t, v, v, Grow(v, o.at, 1), o.at, 0, <<item>>)
        \/ o.found /\ Edit(t, v, v, Shrink(v, o.at, 1), o.at, 1, <<>>)
  BY DEF SortedAdd, SortedRemove
<1>1. PICK o :
        /\ o = IndexOrder(Contents(v), item.key)
        /\ \/ o.found /\ Edit(t, v, v, Same(v), o.at, 1, <<item>>)
           \/ ~o.found /\ Edit(t, v, v, Grow(v, o.at, 1), o.at, 0, <<item>>)
           \/ o.found /\ Edit(t, v, v, Shrink(v, o.at, 1), o.at, 1, <<>>)
  BY <1>0
<1>2. v \in Vecs /\ v \notin Plain /\ item \in Records /\ item.key \in Int
  BY VectorAssumption DEF VectorAssumption, Vecs, Records
<1>3. Worker(v) = {}
  BY <1>1 DEF Edit, Begin, Unused, Worker
<1>4. PICK s \in Seq(Records) : s = Value(v) /\ s = Contents(v)
  BY <1>2, <1>3, AtRest DEF Value
<1>5. Values!Increasing(s)
  BY <1>4 DEF ValueInv
<1>6. Answers(s, item.key, o)
  BY <1>1, <1>4, IndexOrderBounds
<1>7. Finds(s, item.key, o)
  BY <1>1, <1>2, <1>4, <1>5, IndexOrderFinds
<1>8. ASSUME NEW ready, NEW n \in 0 .. 1, NEW new \in {<<>>, <<item>>},
             n = (IF o.found THEN 1 ELSE 0), n = 0 => new = <<item>>,
             Edit(t, v, v, ready, o.at, n, new)
      PROVE  ValueInv' /\ Unchanged
  <2>1. PICK p, at : p = Proposed(v, v, at, n, new) /\ at = o.at
    OBVIOUS
  <2>2. p.v = v /\ p.w = v /\ p.at = at /\ p.n = n /\ p.new = new
    BY <2>1 DEF Proposed
  <2>3. p.at \in 0 .. Len(s) /\ p.n \in 0 .. Len(s) - p.at
    <3>1. Len(s) \in Nat /\ at \in 0 .. Len(s) /\ (n = 1 => at < Len(s))
      BY <1>6, <1>8, <2>1, LenProperties DEF Answers
    <3> QED
      BY <2>2, <3>1
  <2>4. Around(s, p.at, p.n, item.key)
    BY <1>7, <1>8, <2>1, <2>2 DEF Finds
  <2>5. Allowed(p, s)
    BY <1>2, <1>8, <2>2, <2>3, <2>4 DEF Allowed, AllowedInSorted
  <2>6. Edit(t, v, v, ready, at, n, new) /\ Allowed(p, Value(v))
    BY <1>4, <1>8, <2>1, <2>5
  <2> QED
    BY <1>2, <2>2, <2>6, EditKnown
<1> QED
  BY <1>1, <1>8

LEMMA CallIsAllowed ==
  ASSUME IInv, StoreInv, ValueInv, IInv', StoreInv', NEW t \in Threads, Call(t)
  PROVE  ValueInv' /\ (Unchanged \/ Values!Next)
<1>1. CASE \E v \in Plain :
             \/ InsertArrayAt(t, v) \/ InsertVectorAt(t, v) \/ RemoveItemsAt(t, v)
             \/ ReplaceAt(t, v) \/ Sort(t, v) \/ SetCapacity(t, v)
  BY <1>1, PlainKnown
<1>2. CASE \E v \in Sorted : SortedAdd(t, v) \/ SortedRemove(t, v)
  BY <1>2, SortedKnown
<1>3. CASE \E v \in Vecs : Clear(t, v)
  BY <1>3, ClearKnown
<1>4. CASE \E v \in Vecs : Assign(t, v) \/ Copy(t, v)
  <2>1. PICK v \in Vecs, kind \in {"assign", "copy"} :
          \E w \in (IF v \in Plain THEN Vecs ELSE Sorted) \ {v} : Replace(t, kind, v, w)
    BY <1>4 DEF Assign, Copy
  <2>2. PICK w \in (IF v \in Plain THEN Vecs ELSE Sorted) \ {v} : Replace(t, kind, v, w)
    BY <2>1
  <2>3. w \in Vecs /\ w # v /\ (v \in Sorted => w \in Sorted)
    BY VectorAssumption DEF VectorAssumption, Vecs
  <2> QED
    BY <2>2, <2>3, ReplaceKnown
<1>5. CASE \E v \in Vecs : Finish(t, v)
  BY <1>5, ReplaceKnown DEF Finish
<1> QED
  BY <1>1, <1>2, <1>3, <1>4, <1>5 DEF Call, Vecs

LEMMA ValueInit == Init => ValueInv /\ Values!Init
<1> SUFFICES ASSUME Init PROVE ValueInv /\ Values!Init
  OBVIOUS
<1>1. IInv /\ StoreInv
  BY InvInit, StoreInit
<1>2. \A t \in Threads : op[t].pc = "idle"
  BY DEF Init, Idle
<1>3. PICK given \in Beginnings, b \in SharedBuffers :
        LET used == IF given.sharers = {} THEN {} ELSE {b}
        IN  /\ hold = [h \in All |-> IF h \in given.sharers THEN b ELSE None]
            /\ data = [c \in SharedBuffers |-> IF c \in used THEN given.items ELSE <<>>]
  BY DEF Init, All
<1>4. \A v \in Vecs : Value(v) = IF v \in given.sharers THEN given.items ELSE <<>>
  <2> TAKE v \in Vecs
  <2>1. Value(v) = Cell(v)
    BY <1>1, <1>2, ValuesAreKnown DEF Known, Worker
  <2>2. b # None /\ v \in All
    BY VectorAssumption DEF VectorAssumption, All
  <2> QED
    BY <1>3, <2>1, <2>2 DEF Cell
<1>5. ASSUME NEW v \in Sorted PROVE Values!Increasing(Value(v))
  <2>1. CASE v \in given.sharers
    <3>1. Values!Increasing(given.items)
      BY <2>1, VectorAssumption DEF VectorAssumption, Values!Increasing
    <3> QED
      BY <1>4, <2>1, <3>1 DEF Vecs
  <2>2. CASE v \notin given.sharers
    <3>1. Values!Increasing(<<>>)
      BY DEF Values!Increasing
    <3> QED
      BY <1>4, <2>2, <3>1 DEF Vecs
  <2> QED
    BY <2>1, <2>2
<1>6. Values!Init
  <2>1. [v \in Vecs |-> Value(v)] = [v \in Vecs |-> IF v \in given.sharers THEN given.items ELSE <<>>]
    BY <1>4
  <2> QED
    BY <2>1 DEF Values!Init, Vecs
<1> QED
  BY <1>2, <1>5, <1>6 DEF ValueInv

(* The inductive invariant of the refinement: the operations in progress   *)
(* are allowed.                                                            *)
LEMMA ValueStep ==
  ASSUME IInv, StoreInv, ValueInv, IInv', StoreInv', [Next]_vars
  PROVE  ValueInv' /\ (Unchanged \/ Values!Next)
<1>1. CASE UNCHANGED vars
  <2>1. UNCHANGED <<hold, mCount, data, op>>
    BY <1>1 DEF vars, buffers
  <2>2. Unchanged
    BY <2>1 DEF Unchanged, Value, Worker, Contents, Meant
  <2>3. \A v \in Sorted : Values!Increasing(Value(v))'
    <3>1. \A v \in Sorted : Values!Increasing(Value(v)) /\ Value(v)' = Value(v)
      BY <2>2 DEF ValueInv, Unchanged, Vecs
    <3> QED
      BY <3>1 DEF Values!Increasing
  <2>4. ASSUME NEW u \in Threads, NEW w \in Vecs, op'[u].pc # "idle" /\ op'[u].v = w
        PROVE  Plans(op'[u], Value(w)')
    <3>1. op'[u] = op[u] /\ Value(w)' = Value(w)
      BY <2>1, <2>2 DEF Unchanged
    <3>2. Plans(op[u], Value(w))
      BY <2>4, <3>1 DEF ValueInv
    <3> QED
      BY <3>1, <3>2
  <2> QED
    BY <2>2, <2>3, <2>4 DEF ValueInv
<1>2. CASE Next
  <2>1. PICK t \in Threads : Step(t) \/ Call(t)
    BY <1>2 DEF Next
  <2>2. CASE Own(t) \/ Alloc(t) \/ Sole(t) \/ Release(t) \/ Free(t)
    BY <2>2, WorkGoesOn
  <2>3. CASE Fill(t)
    BY <2>3, FillIsAllowed
  <2>4. CASE Share(t)
    BY <2>4, ShareIsKnown
  <2>5. CASE Call(t)
    BY <2>5, CallIsAllowed
  <2> QED
    BY <2>1, <2>2, <2>3, <2>4, <2>5 DEF Step
<1> QED
  BY <1>1, <1>2

(* VectorsKeepTheirPromise: whatever buffers the vectors share and however *)
(* the steps of the threads on the counts interleave, each vector is a     *)
(* sequence of its own: an operation does to it what the abstract one      *)
(* does, at once, and to no other anything.                                *)
THEOREM VectorsKeepTheirPromise == Spec => Implements
<1>1. IInv /\ StoreInv /\ ValueInv /\ [Next]_vars /\ IInv' /\ StoreInv'
        => ValueInv' /\ [Values!Next]_([v \in Vecs |-> Value(v)])
  <2> SUFFICES ASSUME IInv, StoreInv, ValueInv, [Next]_vars, IInv', StoreInv'
               PROVE  ValueInv' /\ [Values!Next]_([v \in Vecs |-> Value(v)])
    OBVIOUS
  <2>1. ValueInv' /\ (Unchanged \/ Values!Next)
    BY ValueStep
  <2>2. Unchanged => UNCHANGED [v \in Vecs |-> Value(v)]
    BY DEF Unchanged
  <2> QED
    BY <2>1, <2>2
<1>2. IInv /\ [Next]_vars => IInv'
  BY InvStep
<1>3. Init => IInv /\ StoreInv /\ ValueInv /\ Values!Init
  BY InvInit, StoreInit, ValueInit
<1> QED
  BY <1>1, <1>2, <1>3, StoreStep, PTL DEF Spec, Implements, Values!Spec
----------------------------------------------------------------------------
(* The object and the pool of MCLibrary *)

Play == PlayVectors \/ PlayObject \/ PlayPool

ObjectInvariant == part = "object" => Object!IInv
PoolInvariant == part = "pool" => Pool!IInv

LEMMA ObjectStep == ObjectInvariant /\ [Play]_all => ObjectInvariant'
<1> SUFFICES ASSUME ObjectInvariant, [Play]_all, part' = "object" PROVE Object!IInv'
  BY DEF ObjectInvariant
<1>1. part = "object" /\ [Object!Next]_(Object!vars)
  BY DEF Play, PlayVectors, PlayObject, PlayPool, all, refVars, Object!vars, Object!kind
<1> QED
  BY <1>1, LibraryAssumption, Object!InvStep DEF ObjectInvariant

(* Whatever the threads, the object they share lives as long as it is      *)
(* referred to, its counts are right, and nothing is freed twice or leaks. *)
THEOREM ObjectIsKept == MCSpec => []ReferencesAreRight
<1>1. MCInit => ObjectInvariant
  BY LibraryAssumption, Object!InvInit DEF MCInit, ObjectInvariant
<1>2. ObjectInvariant => ReferencesAreRight
  BY LibraryAssumption, Object!InvariantIsRight DEF ObjectInvariant, ReferencesAreRight
<1> QED
  BY <1>1, <1>2, ObjectStep, PTL DEF MCSpec, Play

LEMMA PoolStep == PoolInvariant /\ [Play]_all => PoolInvariant'
<1> SUFFICES ASSUME PoolInvariant, [Play]_all, part' = "pool" PROVE Pool!IInv'
  BY DEF PoolInvariant
<1>1. part = "pool" /\ [Pool!Next]_(Pool!vars)
  BY DEF Play, PlayVectors, PlayObject, PlayPool, all, groupVars, Pool!vars
<1> QED
  BY <1>1, LibraryAssumption, Pool!InvStep DEF PoolInvariant

LEMMA PoolInvariantHolds == MCSpec => []PoolInvariant
<1>1. MCInit => PoolInvariant
  BY LibraryAssumption, Pool!InvInit DEF MCInit, PoolInvariant, Pool!Discipline
<1> QED
  BY <1>1, PoolStep, PTL DEF MCSpec, Play

(* Whatever the threads and the buffers of the pool, a count is its        *)
(* references, no wakeup is lost, and nothing is used once it is deleted.  *)
THEOREM PoolIsKept == MCSpec => []GroupIsRight
<1>1. PoolInvariant => GroupIsRight
  BY DEF PoolInvariant, GroupIsRight, Pool!IInv, Pool!GroupIsRight
<1> QED
  BY <1>1, PoolInvariantHolds, PTL

(* acquire_buffer() hands out buffers of the pool that nobody else has.    *)
THEOREM AcquiredBufferIsAlone == MCSpec => AcquiredIsAlone
<1>1. PoolInvariant /\ [Play]_all => [part = "pool" => Pool!AcquiresAlone]_groupVars
  <2> SUFFICES ASSUME PoolInvariant, [Play]_all, part = "pool", groupVars' # groupVars
               PROVE  Pool!AcquiresAlone
    OBVIOUS
  <2>1. Pool!Next /\ Pool!IInv
    BY DEF Play, PlayVectors, PlayObject, PlayPool, all, PoolInvariant
  <2>2. Pool!vars' # Pool!vars
    BY DEF groupVars, Pool!vars
  <2> QED
    BY <2>1, <2>2, LibraryAssumption, Pool!TakesAlone
<1> QED
  BY <1>1, PoolInvariantHolds, PTL DEF MCSpec, AcquiredIsAlone, Play
=============================================================================
