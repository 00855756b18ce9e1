------------------------------ MODULE AMessage ------------------------------
(***************************************************************************)
(* Messages and the buffers they carry: named items of a type, objects and *)
(* messages among them, held by reference counts; buffers with meta data   *)
(* and a message to be posted when they are gone.  A client that holds     *)
(* what it made or found sets, finds, copies, posts and drops.  Each       *)
(* operation is one step: a message is not locked, and its users hand it   *)
(* on rather than share it.                                                *)
(*                                                                         *)
(* What an AString item owns is copied with it and is taken as a value.    *)
(***************************************************************************)
EXTENDS Integers, FiniteSets, SequencesExt

CONSTANTS
  Messages, ABuffers, Objects,   \* numbers of what can be allocated
  ItemNames, Values,             \* of items, and the values of basic types
  kMaxNumItems,
  Capacity,                      \* of a buffer
  Beginnings,                    \* heaps, and what of them the client holds
  MaxOps                         \* bound: operations

Ids == Messages \cup ABuffers \cup Objects
NULL == 0

VARIABLES
  heap,     \* what is allocated under each number
  held,     \* what the client holds
  posted,   \* messages that were posted, each held by the looper
  ended,    \* a CHECK has failed, or NULL was used: the program is over
  meant,    \* the items each message should have, by what was done with it
  dups,     \* a message and its copy, just made
  ops

vars == <<heap, held, posted, ended, meant, dups, ops>>

Free == [kind |-> "free"]
NewMessage(what) == [kind |-> "message", refs |-> 1, what |-> what, mItems |-> <<>>]
NewABuffer ==
  [kind |-> "buffer", refs |-> 1, mRangeOffset |-> 0, mRangeLength |-> Capacity,
   mMeta |-> NULL, mFarewell |-> NULL]
NewObject == [kind |-> "object", refs |-> 1]

RefTypes == {"Object", "Buffer", "Message"}
BasicTypes == {"Int32", "Int64"}
Item(name, type, value) == [mName |-> name, mType |-> type, value |-> value]
HasRef(item) == item.mType \in RefTypes /\ item.value # NULL
----------------------------------------------------------------------------
(* References.  s has the heap, the messages posted, and what has still to *)
(* be decremented.                                                         *)

incStrong(h, id) == [h EXCEPT ![id].refs = @ + 1]

(* What a destructor lets go of, in its order.                             *)
clear(m) == LET refs == SelectSeq(m.mItems, HasRef) IN [k \in DOMAIN refs |-> refs[k].value]
Lets(r) ==
  CASE r.kind = "message" -> clear(r)
    [] r.kind = "buffer"  -> SelectSeq(<<r.mMeta, r.mFarewell>>, LAMBDA id : id # NULL)
    [] r.kind = "object"  -> <<>>

Farewell(r) == IF r.kind = "buffer" /\ r.mFarewell # NULL THEN <<r.mFarewell>> ELSE <<>>

Post(h, ids) == FoldLeft(incStrong, h, ids)

decStrong(s) ==
  LET id == Head(s.todo)
      r  == s.heap[id]
  IN  IF r.refs > 1 THEN [s EXCEPT !.heap[id].refs = @ - 1, !.todo = Tail(@)]
      ELSE [heap   |-> [Post(s.heap, Farewell(r)) EXCEPT ![id] = Free],
            posted |-> s.posted \o Farewell(r),
            todo   |-> Lets(r) \o Tail(s.todo)]

\* more references than there can be
MaxRefs == Cardinality(Ids) + Cardinality(Messages) * kMaxNumItems + 2 * Cardinality(ABuffers)

Released(h, ids) ==
  FoldLeft(LAMBDA s, n : IF s.todo = <<>> THEN s ELSE decStrong(s),
           [heap |-> h, posted |-> posted, todo |-> ids], [n \in 1 .. MaxRefs |-> n])

Becomes(s) == heap' = s.heap /\ posted' = s.posted
----------------------------------------------------------------------------
(* Items *)

Find(m, name) == SelectInSeq(heap[m].mItems, LAMBDA item : item.mName = name)

(* findItem(): 0 when there is no item of this name and type.              *)
findItem(m, name, type) ==
  LET i == Find(m, name) IN IF i # 0 /\ heap[m].mItems[i].mType = type THEN i ELSE 0

freeItem(item) == IF HasRef(item) THEN <<item.value>> ELSE <<>>

(* allocateItem(): the old item lets go before the new one takes hold.     *)
Allocated(m, name) ==
  LET i == Find(m, name) IN Released(heap, IF i = 0 THEN <<>> ELSE freeItem(heap[m].mItems[i]))

Put(items, item) ==
  LET i == SelectInSeq(items, LAMBDA old : old.mName = item.mName) IN
  IF i = 0 THEN Append(items, item) ELSE [items EXCEPT ![i] = item]

NoItems == [name \in ItemNames |-> <<>>]
ItemsOf(items) ==
  [name \in ItemNames |-> SelectSeq(items, LAMBDA item : item.mName = name)]

Init ==
  \E given \in Beginnings :
    /\ heap = given.heap /\ held = given.held
    /\ meant = [m \in Messages |->
                  IF given.heap[m] = Free THEN NoItems ELSE ItemsOf(given.heap[m].mItems)]
    /\ posted = <<>> /\ ended = FALSE /\ dups = <<>> /\ ops = 0

Op == ~ended /\ ops < MaxOps /\ ops' = ops + 1
Mine(set) == {id \in set : id \in held}
Unused(set) == {id \in set : heap[id] = Free}
Smallest(set) == CHOOSE id \in set : \A other \in set : id <= other
----------------------------------------------------------------------------
(* The client's operations *)

New(set, record) ==
  /\ Op /\ Unused(set) # {}
  /\ LET id == Smallest(Unused(set)) IN
     /\ heap' = [heap EXCEPT ![id] = record] /\ held' = held \cup {id}
     /\ meant' = IF set = Messages THEN [meant EXCEPT ![id] = NoItems] ELSE meant
  /\ dups' = <<>>
  /\ UNCHANGED <<posted, ended>>

Drop(id) ==
  /\ Op /\ Becomes(Released(heap, <<id>>)) /\ held' = held \ {id} /\ dups' = <<>>
  /\ UNCHANGED <<ended, meant>>

(* setInt32() and its kind, setString(), setRect(), setObject(),           *)
(* setBuffer(), setMessage().                                              *)
Set(m, item) ==
  /\ Op /\ dups' = <<>>
  /\ IF Find(m, item.mName) = 0 /\ Len(heap[m].mItems) = kMaxNumItems
     THEN ended' = TRUE /\ UNCHANGED <<heap, held, posted, meant>>
     ELSE LET s == Allocated(m, item.mName) IN
          /\ Becomes([s EXCEPT !.heap =
               [(IF HasRef(item) THEN incStrong(@, item.value) ELSE @) EXCEPT ![m].mItems = Put(@, item)]])
          /\ meant' = [meant EXCEPT ![m][item.mName] = <<item>>]
          /\ UNCHANGED <<held, ended>>

Settable(name) ==
  {Item(name, type, value) : type \in BasicTypes, value \in Values}
    \cup {Item(name, "Object", id) : id \in Mine(Objects) \cup {NULL}}
    \cup {Item(name, "Buffer", id) : id \in Mine(ABuffers)}
    \cup {Item(name, "Message", id) : id \in Mine(Messages)}

(* findObject(), findBuffer(), findMessage(): the client holds what it     *)
(* found.  The other finds change nothing.                                 *)
FindRef(m, name, type) ==
  LET i  == findItem(m, name, type)
      id == heap[m].mItems[i].value
  IN  /\ Op /\ i # 0 /\ id # NULL /\ id \notin held
      /\ heap' = incStrong(heap, id) /\ held' = held \cup {id} /\ dups' = <<>>
      /\ UNCHANGED <<posted, ended, meant>>

Clear(m) ==
  LET s == Released(heap, clear(heap[m])) IN
  /\ Op /\ Becomes([s EXCEPT !.heap[m].mItems = <<>>]) /\ dups' = <<>>
  /\ meant' = [meant EXCEPT ![m] = NoItems]
  /\ UNCHANGED <<held, ended>>

SetWhat(m, what) ==
  /\ Op /\ heap' = [heap EXCEPT ![m].what = what] /\ dups' = <<>>
  /\ UNCHANGED <<held, posted, ended, meant>>

PostMessage(m) ==
  /\ Op /\ heap' = Post(heap, <<m>>) /\ posted' = Append(posted, m) /\ dups' = <<>>
  /\ UNCHANGED <<held, ended, meant>>

(* The looper delivers a message and lets go of it.                        *)
Deliver ==
  /\ ~ended /\ posted # <<>> /\ dups' = <<>>
  /\ LET s == Released(heap, <<Head(posted)>>) IN Becomes([s EXCEPT !.posted = Tail(@)])
  /\ UNCHANGED <<held, ended, meant, ops>>
----------------------------------------------------------------------------
(* dup().  A copy is made item by item; a message inside gets a number and *)
(* is copied next.                                                         *)

Inside(h, m) == {item.value : item \in {i \in ToSet(h[m].mItems) : i.mType = "Message"}}
Below(h, m) ==
  FoldLeft(LAMBDA set, n : set \cup UNION {Inside(h, k) : k \in set \ {NULL}}, {m},
           [n \in 1 .. Cardinality(Messages) |-> n])
Circular(m) == \E k \in Below(heap, m) \ {NULL} : \E j \in Inside(heap, k) \ {NULL} : k \in Below(heap, j)
UsesNULL(m) == \E k \in Below(heap, m) \ {NULL} : \E item \in ToSet(heap[k].mItems) :
                 item.mType \in RefTypes /\ item.value = NULL

\* mutant of CopyItem: a message inside is shared as an object is
CopyItemShared(s, item) ==
  IF item.mType \in RefTypes
  THEN [s EXCEPT !.heap = incStrong(@, item.value), !.items = Append(@, item)]
  ELSE [s EXCEPT !.items = Append(@, item)]
CopyItem(s, item) ==
  CASE item.mType \in {"Object", "Buffer"} ->
         [s EXCEPT !.heap = incStrong(@, item.value), !.items = Append(@, item)]
    [] item.mType = "Message" ->
         LET id == Smallest({m \in Messages : s.heap[m] = Free}) IN
         [s EXCEPT !.heap[id] = NewMessage(s.heap[item.value].what),
                   !.items = Append(@, [item EXCEPT !.value = id]),
                   !.todo = Append(@, <<item.value, id>>)]
    [] OTHER -> [s EXCEPT !.items = Append(@, item)]

CopyMessage(s) ==
  LET from == s.todo[1][1]
      to   == s.todo[1][2]
      all  == FoldLeft(CopyItem, [s EXCEPT !.items = <<>>, !.todo = Tail(@)], s.heap[from].mItems)
  IN  [all EXCEPT !.heap[to].mItems = all.items]

Copied(m, id) ==
  FoldLeft(LAMBDA s, n : IF s.todo = <<>> THEN s ELSE CopyMessage(s),
           [heap |-> [heap EXCEPT ![id] = NewMessage(heap[m].what)], items |-> <<>>, todo |-> <<<<m, id>>>>],
           [n \in 1 .. Cardinality(Messages) |-> n])

(* How many messages a copy takes.                                         *)
Copies(m) ==
  LET size[n \in 0 .. Cardinality(Messages)] ==
        IF n = 0 THEN [k \in Messages |-> 0]
        ELSE LET less == size[n - 1] IN
             [k \in Messages |->
                IF heap[k] = Free THEN 0
                ELSE 1 + FoldLeft(LAMBDA sum, item : IF item.mType = "Message" /\ item.value # NULL
                                                     THEN sum + less[item.value] ELSE sum,
                                  0, heap[k].mItems)]
  IN  size[Cardinality(Messages)][m]

(* A message that contains itself is not copied: dup() would never return. *)
(* A NULL object, which setObject() takes, is used as if it were one.      *)
Dup(m) ==
  /\ Op /\ ~Circular(m)
  /\ IF UsesNULL(m) THEN ended' = TRUE /\ dups' = <<>> /\ UNCHANGED <<heap, held, meant>>
     ELSE /\ Copies(m) <= Cardinality(Unused(Messages))
          /\ LET id == Smallest(Unused(Messages))
                 s  == Copied(m, id)
             IN  /\ heap' = s.heap /\ held' = held \cup {id} /\ dups' = <<m, id>>
                 /\ meant' = [k \in Messages |->
                                IF heap[k] = Free /\ s.heap[k] # Free THEN ItemsOf(s.heap[k].mItems) ELSE meant[k]]
          /\ UNCHANGED ended
  /\ UNCHANGED posted
----------------------------------------------------------------------------
(* ABuffer *)

SetRange(b, offset, size) ==
  /\ Op /\ dups' = <<>>
  /\ IF offset + size > Capacity THEN ended' = TRUE /\ UNCHANGED heap
     ELSE heap' = [heap EXCEPT ![b].mRangeOffset = offset, ![b].mRangeLength = size] /\ UNCHANGED ended
  /\ UNCHANGED <<held, posted, meant>>

SetFarewellMessage(b, m) ==
  /\ Op /\ dups' = <<>>
  /\ LET old == heap[b].mFarewell
         h   == [incStrong(heap, m) EXCEPT ![b].mFarewell = m]
     IN  Becomes(Released(h, IF old = NULL THEN <<>> ELSE <<old>>))
  /\ UNCHANGED <<held, ended, meant>>

(* meta() makes the message the first time.                                *)
Meta(b) ==
  LET id == IF heap[b].mMeta # NULL THEN heap[b].mMeta ELSE Smallest(Unused(Messages)) IN
  /\ Op /\ dups' = <<>>
  /\ heap[b].mMeta = NULL => Unused(Messages) # {}
  /\ id \notin held /\ held' = held \cup {id}
  /\ heap' = IF heap[b].mMeta # NULL THEN incStrong(heap, id)
             ELSE [heap EXCEPT ![id] = [NewMessage(0) EXCEPT !.refs = 2], ![b].mMeta = id]
  /\ meant' = IF heap[b].mMeta # NULL THEN meant ELSE [meant EXCEPT ![id] = NoItems]
  /\ UNCHANGED <<posted, ended>>
----------------------------------------------------------------------------
Next ==
  \/ \E what \in Values : New(Messages, NewMessage(what))
  \/ New(ABuffers, NewABuffer)
  \/ New(Objects, NewObject)
  \/ \E id \in held : Drop(id)
  \/ \E m \in Mine(Messages) :
       \/ \E name \in ItemNames :
            \/ \E item \in Settable(name) : Set(m, item)
            \/ \E type \in RefTypes : FindRef(m, name, type)
       \/ Clear(m)
       \/ \E what \in Values : SetWhat(m, what)
       \/ PostMessage(m)
       \/ Dup(m)
  \/ Deliver
  \/ \E b \in Mine(ABuffers) :
       \/ \E offset \in 0 .. Capacity, size \in 0 .. Capacity : SetRange(b, offset, size)
       \/ \E m \in Mine(Messages) : SetFarewellMessage(b, m)
       \/ Meta(b)

Spec == Init /\ [][Next]_vars
----------------------------------------------------------------------------
(* A count is the number of references there are: of the client, the       *)
(* looper, items, meta data and farewells.  What is in use is allocated,   *)
(* and what nobody refers to is not (freeItem(), decStrong(), ~ABuffer()). *)
Count(s, id) == Cardinality({k \in DOMAIN s : s[k] = id})
RefersTo(r, id) == IF r = Free THEN 0 ELSE Count(Lets(r), id)
Referring(id) ==
  (IF id \in held THEN 1 ELSE 0) + Count(posted, id)
    + FoldFunction(LAMBDA r, sum : sum + RefersTo(r, id), 0, heap)
MessagesCounted ==
  \A id \in Ids : Referring(id) = IF heap[id] = Free THEN 0 ELSE heap[id].refs

(* find answers what was set last under the name, by that type only, also  *)
(* in a copy; entries of other names are not disturbed.                    *)
FoundIsSet ==
  \A m \in Messages : heap[m] # Free =>
    \A name \in ItemNames, type \in RefTypes \cup BasicTypes :
      LET i == findItem(m, name, type) IN
      IF meant[m][name] # <<>> /\ meant[m][name][1].mType = type
      THEN i # 0 /\ heap[m].mItems[i] = meant[m][name][1] ELSE i = 0

(* "Performs a deep-copy of this, contained messages are in turn dup'ed"   *)
(* (AMessage.h:104): a copy has the same items, its objects are those of   *)
(* the original, and no message is inside both.                            *)
Tree(m) ==
  LET tree[n \in 0 .. Cardinality(Messages)] ==
        IF n = 0 THEN [k \in Messages |-> <<>>]
        ELSE LET less == tree[n - 1] IN
             [k \in Messages |->
                IF heap[k] = Free THEN <<>>
                ELSE <<heap[k].what,
                       {IF item.mType = "Message" THEN <<item.mName, less[item.value]>>
                        ELSE <<item.mName, item.mType, item.value>> : item \in ToSet(heap[k].mItems)}>>]
  IN  tree[Cardinality(Messages)][m]
CopyIsDeep ==
  dups # <<>> => /\ Tree(dups[1]) = Tree(dups[2])
                 /\ Below(heap, dups[1]) \cap Below(heap, dups[2]) = {}

MessagesAreRight == MessagesCounted /\ FoundIsSet /\ CopyIsDeep
=============================================================================
