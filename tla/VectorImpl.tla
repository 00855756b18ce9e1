----------------------------- MODULE VectorImpl -----------------------------
(***************************************************************************)
(* Vectors that share reference-counted storage and copy it on write:      *)
(* SharedBuffer.cpp, VectorImpl.cpp, and Vector.h, SortedVector.h and      *)
(* KeyedVector.h on them.  A vector is used under its owner's lock: no     *)
(* operation overlaps one that changes what it reads or writes.  But two   *)
(* threads may at once use two vectors that share a buffer, so every look  *)
(* at its count, and every change of it, is a step of its own.  malloc()   *)
(* does not fail.                                                          *)
(***************************************************************************)
EXTENDS Integers, Sequences, FiniteSets

CONSTANTS
  Threads,
  Plain, Sorted,        \* the Vectors, and the SortedVectors and KeyedVectors
  SharedBuffers,        \* bound: more than vectors and threads can hold
  None,                 \* the null pointer
  Items,                \* records of a key and a value
  Arrays,               \* sequences of them: what callers insert or write
  Beginnings,           \* the items of one buffer, the vectors that share it, and
                        \* the operations that took
  kMinVectorCapacity,
  MaxSize,              \* bound: items in a vector
  MaxOps                \* bound: operations

Vecs == Plain \cup Sorted

(* Whatever a vector may hold.                                             *)
Passed == Arrays \cup {given.items : given \in Beginnings}
Records == Items \cup UNION {{s[i] : i \in DOMAIN s} : s \in Passed}

ASSUME VectorAssumption ==
  /\ IsFiniteSet(Threads) /\ IsFiniteSet(Vecs) /\ Threads \cap Vecs = {}
  /\ None \notin SharedBuffers /\ SharedBuffers \subseteq Nat
  /\ kMinVectorCapacity \in Nat /\ MaxSize \in Nat
  /\ Plain \cap Sorted = {}
  /\ \A given \in Beginnings :
       /\ given.sharers \subseteq Vecs
       /\ given.sharers \cap Sorted # {} =>   \* made by add()
            \A i, j \in DOMAIN given.items : i < j => given.items[i].key < given.items[j].key
  /\ Passed \subseteq Seq(Records) /\ \A r \in Records : r.key \in Int

VARIABLES
  trivial,   \* the items can be copied and destroyed by memory operations
  hold,      \* the buffer each vector's mStorage is in, and each thread's new one
  mCount,
  mRefs, size, data,   \* of each buffer: its count, capacity and items
  live,      \* the buffers allocated and not freed
  op,        \* the operation each thread is in
  ops        \* operations begun

buffers == <<mRefs, size, data, live>>
vars == <<trivial, hold, mCount, buffers, op, ops>>

Idle == [pc |-> "idle"]

Larger(m, n) == IF m > n THEN m ELSE n
Appended(n) == Larger(kMinVectorCapacity, (3 * n + 1) \div 2)

Init ==
  /\ trivial \in BOOLEAN
  /\ \E given \in Beginnings : \E b \in SharedBuffers :
       LET used == IF given.sharers = {} THEN {} ELSE {b}
           Start(none, some) == [c \in SharedBuffers |-> IF c \in used THEN some ELSE none]
       IN  /\ \A c \in SharedBuffers : c >= b
           /\ hold = [h \in Vecs \cup Threads |-> IF h \in given.sharers THEN b ELSE None]
           /\ mCount = [v \in Vecs |-> IF v \in given.sharers THEN Len(given.items) ELSE 0]
           /\ mRefs = Start(0, Cardinality(given.sharers)) /\ live = used
           /\ size = Start(0, Appended(Len(given.items)))
           /\ data = Start(<<>>, given.items)
           /\ ops = given.ops
  /\ op = [t \in Threads |-> Idle]

Goto(t, label) == op' = [op EXCEPT ![t].pc = label]

Capacity(v) == IF hold[v] = None THEN 0 ELSE size[hold[v]]
Contents(v) == IF hold[v] = None THEN <<>> ELSE SubSeq(data[hold[v]], 1, mCount[v])
Spliced(s, at, n, new) == SubSeq(s, 1, at) \o new \o SubSeq(s, at + n + 1, Len(s))
----------------------------------------------------------------------------
(* How the storage is made ready to be changed: "edit", in place or in a   *)
(* copy of the same capacity (editArrayImpl()); "resize", in place or in a *)
(* copy (editResize()); "alloc", always in a copy.                         *)
Same(v) == [way |-> "edit", cap |-> Capacity(v)]
Other(v, atEnd, cap) ==
  [way |-> IF hold[v] # None /\ atEnd /\ trivial THEN "resize" ELSE "alloc",
   cap |-> Larger(kMinVectorCapacity, cap)]

Grow(v, where, amount) ==
  LET n == mCount[v] + amount IN
  IF Capacity(v) < n THEN Other(v, mCount[v] = where, (3 * n + 1) \div 2) ELSE Same(v)

Shrink(v, where, amount) ==
  LET n == mCount[v] - amount IN
  IF 3 * n < Capacity(v) THEN Other(v, where = n, 2 * n) ELSE Same(v)

(* Nobody is in an operation on v; nobody changes w.                       *)
Unused(v) == \A t \in Threads : op[t].pc # "idle" => (op[t].v # v /\ op[t].w # v)
Steady(w) == \A t \in Threads : op[t].pc # "idle" => op[t].v # w

Begin(t, o) ==
  /\ op[t].pc = "idle" /\ ops < MaxOps /\ Unused(o.v) /\ Steady(o.w)
  /\ op' = [op EXCEPT ![t] = o] /\ ops' = ops + 1
  /\ UNCHANGED <<trivial, hold, mCount, buffers>>

(* n items at `at' give way to new ones, or to those of the vector w.      *)
Edit(t, v, w, ready, at, n, new) ==
  Begin(t, [pc |-> CASE ready.way = "alloc" -> "alloc"
                     [] ready.way # "alloc" /\ hold[v] # None -> "own"
                     [] ready.way # "alloc" /\ hold[v] = None -> "fill",
            kind |-> "edit", v |-> v, w |-> w, way |-> ready.way, cap |-> ready.cap,
            at |-> at, n |-> n, new |-> new, sole |-> FALSE, old |-> None])

(* operator=, the copy constructor of a vector that has nothing yet, and   *)
(* the destructor: they begin by giving up the storage.                    *)
Replace(t, kind, v, w) ==
  Begin(t, [pc |-> IF hold[v] = None THEN "share" ELSE "sole",
            kind |-> kind, v |-> v, w |-> w, way |-> "edit", cap |-> 0,
            at |-> 0, n |-> 0, new |-> <<>>, sole |-> FALSE, old |-> None])
----------------------------------------------------------------------------
(* Vector *)

Indices(v) == 0 .. mCount[v]
Single == {i \in Items : <<i>> \in Arrays}

InsertArrayAt(t, v) ==
  \E at \in Indices(v), array \in Arrays :
    /\ mCount[v] + Len(array) <= MaxSize
    /\ Edit(t, v, v, Grow(v, at, Len(array)), at, 0, array)

InsertVectorAt(t, v) ==
  \E w \in Vecs \ {v} : \E at \in Indices(v) :
    /\ Steady(w) /\ mCount[v] + mCount[w] <= MaxSize
    /\ Edit(t, v, w, Grow(v, at, mCount[w]), at, 0, <<>>)

RemoveItemsAt(t, v) ==
  \E at \in Indices(v) : \E n \in 0 .. mCount[v] - at :
    hold[v] # None /\ Edit(t, v, v, Shrink(v, at, n), at, n, <<>>)

Clear(t, v) == hold[v] # None /\ Edit(t, v, v, Shrink(v, 0, mCount[v]), 0, mCount[v], <<>>)

ReplaceAt(t, v) ==
  \E at \in 0 .. mCount[v] - 1, item \in Single : Edit(t, v, v, Same(v), at, 1, <<item>>)

(* The insertion sort, which edits only what is out of order.              *)
(* mutant of Inserted: equal items change places                           *)
InsertedBefore(s, item) ==
  LET after == {i \in DOMAIN s : s[i].key >= item.key}
      at    == IF after = {} THEN Len(s) ELSE (CHOOSE i \in after : \A j \in after : i <= j) - 1
  IN  Spliced(s, at, 0, <<item>>)
Inserted(s, item) ==
  LET after == {i \in DOMAIN s : s[i].key > item.key}
      at    == IF after = {} THEN Len(s) ELSE (CHOOSE i \in after : \A j \in after : i <= j) - 1
  IN  Spliced(s, at, 0, <<item>>)
InsertionSort(s) ==
  LET f[n \in 0 .. Len(s)] == IF n = 0 THEN <<>> ELSE Inserted(f[n - 1], s[n]) IN f[Len(s)]

Sort(t, v) ==
  LET sorted == InsertionSort(Contents(v)) IN
  sorted # Contents(v) /\ Edit(t, v, v, Same(v), 0, mCount[v], sorted)

SetCapacity(t, v) ==
  /\ mCount[v] < MaxSize
  /\ Edit(t, v, v, [way |-> "alloc", cap |-> MaxSize], 0, 0, <<>>)

Assign(t, v) ==
  \E w \in (IF v \in Plain THEN Vecs ELSE Sorted) \ {v} : Replace(t, "assign", v, w)
Copy(t, v) ==
  \E w \in (IF v \in Plain THEN Vecs ELSE Sorted) \ {v} :
    hold[v] = None /\ mCount[v] = 0 /\ Replace(t, "copy", v, w)
Finish(t, v) == Replace(t, "finish", v, v)

(* SortedVector: the binary search of _indexOrderOf(), which answers the   *)
(* index of an item of this key, or where one would go.                    *)
IndexOrder(s, key) ==
  LET f[part \in (0 .. Len(s)) \X (-1 .. Len(s) - 1)] ==
        LET l   == part[1]
            h   == part[2]
            mid == l + (h - l) \div 2
        IN  IF l > h THEN [found |-> FALSE, at |-> l]
            ELSE IF s[mid + 1].key = key THEN [found |-> TRUE, at |-> mid]
            ELSE IF s[mid + 1].key < key THEN f[<<mid + 1, h>>] ELSE f[<<l, mid - 1>>]
  IN  f[<<0, Len(s) - 1>>]

SortedAdd(t, v) ==
  \E item \in Items : \E o \in {IndexOrder(Contents(v), item.key)} :
    IF o.found THEN Edit(t, v, v, Same(v), o.at, 1, <<item>>)
    ELSE mCount[v] < MaxSize /\ Edit(t, v, v, Grow(v, o.at, 1), o.at, 0, <<item>>)

SortedRemove(t, v) ==
  \E item \in Items : \E o \in {IndexOrder(Contents(v), item.key)} :
    o.found /\ Edit(t, v, v, Shrink(v, o.at, 1), o.at, 1, <<>>)
----------------------------------------------------------------------------
(* The steps of an operation *)

(* attemptEdit() and editResize() ask onlyOwner(): the only owner changes  *)
(* the buffer where it is.                                                 *)
OneOfTwo(b) == mRefs[b] <= 2         \* mutant of OnlyOwner: an off-by-one
OnlyOwner(b) == mRefs[b] = 1

Own(t) ==
  /\ op[t].pc = "own"
  /\ LET b == hold[op[t].v] IN
     IF OnlyOwner(b)
       THEN /\ Goto(t, "fill")
            /\ size' = [size EXCEPT ![b] = op[t].cap]
       ELSE Goto(t, "alloc") /\ UNCHANGED size
  /\ UNCHANGED <<trivial, hold, mCount, mRefs, data, live, ops>>

Alloc(t) ==
  /\ op[t].pc = "alloc" /\ SharedBuffers # live
  /\ LET b == CHOOSE b \in SharedBuffers : b \notin live IN
     /\ live' = live \cup {b} /\ hold' = [hold EXCEPT ![t] = b]
     /\ mRefs' = [mRefs EXCEPT ![b] = 1] /\ size' = [size EXCEPT ![b] = op[t].cap]
     /\ data' = [data EXCEPT ![b] = Contents(op[t].v)]
  /\ Goto(t, IF hold[op[t].v] = None THEN "fill" ELSE "sole")
  /\ UNCHANGED <<trivial, mCount, ops>>

(* release(): onlyOwner(), or else an atomic decrement.  mStorage still    *)
(* points into the buffer afterwards, for this thread to free.             *)
Sole(t) ==
  /\ op[t].pc = "sole"
  /\ op' = [op EXCEPT ![t].pc = "release", ![t].sole = OnlyOwner(hold[op[t].v])]
  /\ UNCHANGED <<trivial, hold, mCount, buffers, ops>>

FreesShared(n) == n <= 1             \* mutant of Frees: the new count is compared
Frees(n) == n = 0

After(o) == IF o.kind = "edit" THEN "fill" ELSE "share"

Release(t) ==
  /\ op[t].pc = "release"
  /\ LET b == hold[op[t].v]
         n == IF op[t].sole THEN 0 ELSE mRefs[b] - 1
     IN  /\ mRefs' = [mRefs EXCEPT ![b] = n]
         /\ op' = [op EXCEPT ![t].old = b,
                             ![t].pc = IF Frees(n) THEN "free" ELSE After(op[t])]
  /\ hold' = [hold EXCEPT ![op[t].v] = None]
  /\ UNCHANGED <<trivial, mCount, size, data, live, ops>>

(* The items are destroyed, mCount of them, and the buffer is freed, by    *)
(* dealloc() unless editResize() released it.                              *)
Free(t) ==
  /\ op[t].pc = "free"
  /\ LET b == op[t].old IN
     IF mRefs[b] = 0 \/ op[t].way = "resize"
       THEN /\ live' = live \ {b} /\ size' = [size EXCEPT ![b] = 0]
            /\ data' = [data EXCEPT ![b] = <<>>]
       ELSE UNCHANGED <<live, size, data>>
  /\ op' = [op EXCEPT ![t].pc = After(op[t]), ![t].old = None]
  /\ UNCHANGED <<trivial, hold, mCount, mRefs, ops>>

(* The items are moved and written, in the buffer or in the new one.       *)
Target(t) == IF hold[t] # None THEN hold[t] ELSE hold[op[t].v]
New(o) == IF o.w # o.v THEN Contents(o.w) ELSE o.new

Fill(t) ==
  /\ op[t].pc = "fill"
  /\ LET b == Target(t) IN
     IF b = None THEN UNCHANGED <<data, mCount, hold>>
     ELSE LET items == Spliced(data[b], op[t].at, op[t].n, New(op[t])) IN
          /\ data' = [data EXCEPT ![b] = items]
          /\ mCount' = [mCount EXCEPT ![op[t].v] = Len(items)]
          /\ hold' = [hold EXCEPT ![op[t].v] = b, ![t] = None]
  /\ op' = [op EXCEPT ![t] = Idle]
  /\ UNCHANGED <<trivial, mRefs, size, live, ops>>

(* An empty vector is assigned without its storage, but copied with it.    *)
Shares(o) ==
  hold[o.w] # None /\ (o.kind = "copy" \/ (o.kind = "assign" /\ mCount[o.w] # 0))

(* mutant of Share: nothing is acquired                                    *)
ShareUncounted(t) ==
  /\ op[t].pc = "share"
  /\ LET v == op[t].v
         b == IF Shares(op[t]) THEN hold[op[t].w] ELSE None
     IN  /\ hold' = [hold EXCEPT ![v] = b]
         /\ mCount' = [mCount EXCEPT ![v] = IF b = None THEN 0 ELSE mCount[op[t].w]]
  /\ op' = [op EXCEPT ![t] = Idle]
  /\ UNCHANGED <<trivial, mRefs, size, data, live, ops>>
Share(t) ==
  /\ op[t].pc = "share"
  /\ LET v == op[t].v
         b == IF Shares(op[t]) THEN hold[op[t].w] ELSE None
     IN  /\ hold' = [hold EXCEPT ![v] = b]
         /\ mCount' = [mCount EXCEPT ![v] = IF b = None THEN 0 ELSE mCount[op[t].w]]
         /\ mRefs' = IF b = None THEN mRefs ELSE [mRefs EXCEPT ![b] = @ + 1]
  /\ op' = [op EXCEPT ![t] = Idle]
  /\ UNCHANGED <<trivial, size, data, live, ops>>
----------------------------------------------------------------------------
Step(t) == Own(t) \/ Alloc(t) \/ Sole(t) \/ Release(t) \/ Free(t) \/ Fill(t) \/ Share(t)

Call(t) ==
  \/ \E v \in Plain :
       \/ InsertArrayAt(t, v) \/ InsertVectorAt(t, v) \/ RemoveItemsAt(t, v) \/ Clear(t, v)
       \/ ReplaceAt(t, v) \/ Sort(t, v) \/ SetCapacity(t, v)
       \/ Assign(t, v) \/ Copy(t, v) \/ Finish(t, v)
  \/ \E v \in Sorted :
       \/ SortedAdd(t, v) \/ SortedRemove(t, v) \/ Clear(t, v)
       \/ Assign(t, v) \/ Copy(t, v) \/ Finish(t, v)

Next == \E t \in Threads : Step(t) \/ Call(t)

Spec == Init /\ [][Next]_vars
----------------------------------------------------------------------------
(* Properties *)

Holders(b) == {h \in Vecs \cup Threads : hold[h] = b}

Fields == {"pc", "kind", "v", "w", "way", "cap", "at", "n", "new", "sole", "old"}

(* What the counts rest on stays in its domain.                            *)
TypeOK ==
  /\ hold \in [Vecs \cup Threads -> SharedBuffers \cup {None}]
  /\ mRefs \in [SharedBuffers -> Nat] /\ live \subseteq SharedBuffers
  /\ op = [t \in Threads |-> op[t]]
  /\ \A t \in Threads :
       op[t].pc # "idle" =>
         /\ DOMAIN op[t] = Fields
         /\ op[t].pc \in {"own", "alloc", "sole", "release", "free", "fill", "share"}
         /\ op[t].kind \in {"edit", "assign", "copy", "finish"}
         /\ op[t].v \in Vecs /\ op[t].w \in Vecs
         /\ op[t].sole \in BOOLEAN /\ op[t].old \in SharedBuffers \cup {None}

(* A count is the number of vectors and threads that hold the buffer,      *)
(* which is allocated if there are any.                                    *)
CountsAgree ==
  \A b \in SharedBuffers :
    /\ mRefs[b] = Cardinality(Holders(b))
    /\ Holders(b) # {} => b \in live

(* A thread that is about to change a buffer is alone with it.             *)
Alone(b) == \A h, k \in Holders(b) : h = k

ChangesAlone ==
  \A t \in Threads : op[t].pc = "fill" /\ Target(t) # None => Alone(Target(t))

(* Operations that overlap leave each other's vectors alone, and no two    *)
(* free one buffer.                                                        *)
LocksHeld ==
  \A t, u \in Threads :
    t # u /\ op[t].pc # "idle" /\ op[u].pc # "idle" =>
      /\ op[t].v # op[u].v /\ op[t].v # op[u].w
      /\ op[t].pc = "free" /\ op[u].pc = "free" => op[t].old # op[u].old

(* What a thread has at hand in each phase of an operation.                *)
Phase(t) ==
  /\ op[t].pc \in {"own", "alloc"} => op[t].kind = "edit"
  /\ hold[t] # None =>
       /\ Alone(hold[t])
       /\ op[t].pc \in {"sole", "release", "free", "fill"} /\ op[t].kind = "edit"
  /\ op[t].pc \in {"own", "sole", "release"} => hold[op[t].v] # None
  /\ op[t].pc \in {"free", "share"} => hold[op[t].v] = None
  /\ op[t].pc = "fill" /\ hold[t] # None => hold[op[t].v] = None
  /\ op[t].pc = "fill" /\ hold[op[t].v] # None => Alone(hold[op[t].v])
  /\ op[t].pc = "release" /\ op[t].sole => Alone(hold[op[t].v])
  /\ op[t].pc = "free" => op[t].old \in live /\ Holders(op[t].old) = {}

Phases == \A t \in Threads : Phase(t)

(* The inductive invariant that CountsAgree and ChangesAlone rest on.      *)
IInv == TypeOK /\ CountsAgree /\ LocksHeld /\ Phases

Worker(v) == {t \in Threads : op[t].pc # "idle" /\ op[t].v = v}

(* Whoever frees a buffer is the last, and destroys all the items that     *)
(* were constructed in it; no buffer is forgotten; and between operations  *)
(* the items of a vector are within its capacity.                          *)
StorageIsRight ==
  /\ \A t \in Threads :
       op[t].pc = "free" =>
         /\ op[t].old \in live /\ Holders(op[t].old) = {}
         /\ Len(data[op[t].old]) = mCount[op[t].v]
  /\ \A b \in live : Holders(b) # {} \/ \E t \in Threads : op[t].pc = "free" /\ op[t].old = b
  /\ \A v \in Vecs :
       Worker(v) = {} /\ hold[v] # None =>
         Len(data[hold[v]]) = mCount[v] /\ mCount[v] <= size[hold[v]]

(* What a vector is to its owner, while an operation on it goes on: what   *)
(* it was before until an edit is done, what it will be once it is         *)
(* assigned or destroyed.                                                  *)
Meant(t, v) ==
  CASE op[t].kind = "edit" -> IF hold[t] # None THEN data[hold[t]] ELSE Contents(v)
    [] op[t].kind \in {"assign", "copy"} -> Contents(op[t].w)
    [] op[t].kind = "finish" -> <<>>
Value(v) == IF Worker(v) = {} THEN Contents(v) ELSE Meant(CHOOSE t \in Worker(v) : TRUE, v)

Values == INSTANCE Vectors WITH value <- [v \in Vecs |-> Value(v)]

(* Implements: no operation on a vector changes another one, whatever they *)
(* share, and each leaves a sequence the operation allows.                 *)
Implements == Values!Spec
=============================================================================
