------------------------------ MODULE MetaData ------------------------------
(***************************************************************************)
(* Meta data: values of a type under keys.  The items are a KeyedVector,   *)
(* whose storage copies of a MetaData share until one of them is changed;  *)
(* a value of more than four bytes is in memory of its own, which belongs  *)
(* to one item, so that items are copied with their memory.  An operation  *)
(* is one step: copies are made and changed by one thread.                 *)
(***************************************************************************)
EXTENDS Integers, FiniteSets, SequencesExt

CONSTANTS
  Dicts,        \* the MetaData objects
  Keys,         \* numbers, by which the items are sorted
  DataValues,   \* records of a type, a size in bytes, and the bytes
  Storages,     \* bound: more than MetaData objects, with the empty storage
  Blocks,       \* bound: what malloc() can give
  MaxSets       \* bound: operations

VARIABLES
  mItems,    \* the storage of each MetaData
  storages,  \* of each storage, the references and the items
  memory,    \* the bytes in each block, or that it is free
  says,      \* the value under each key of a MetaData, by what was done with it
  sets

vars == <<mItems, storages, memory, says, sets>>

NoStorage == 0           \* of a vector that was never filled
Unallocated == <<>>
Garbage == <<-1>>
NoValue == [mType |-> 0, mSize |-> 0, data |-> <<>>]

Reservoir == 4           \* sizeof(u.reservoir)
usesReservoir(size) == size <= Reservoir

Unused == [refs |-> 0, items |-> <<>>]
now == [storages |-> storages, memory |-> memory]

Init ==
  /\ mItems = [d \in Dicts |-> NoStorage]
  /\ storages = [s \in Storages |-> Unused] /\ memory = [b \in Blocks |-> Unallocated]
  /\ says = [d \in Dicts |-> [k \in Keys |-> NoValue]]
  /\ sets = 0
----------------------------------------------------------------------------
(* typed_data *)

Smallest(set) == CHOOSE n \in set : \A k \in set : n <= k
Malloc(m) == Smallest({b \in Blocks : m[b] = Unallocated})

(* allocateStorage() and memcpy(): u is the bytes themselves, or a block.  *)
Stored(m, key, value) ==
  IF usesReservoir(value.mSize)
  THEN [memory |-> m, item |-> [key |-> key, mType |-> value.mType, mSize |-> value.mSize, u |-> value.data]]
  ELSE [memory |-> [m EXCEPT ![Malloc(m)] = value.data],
        item |-> [key |-> key, mType |-> value.mType, mSize |-> value.mSize, u |-> Malloc(m)]]

storage(m, item) == IF usesReservoir(item.mSize) THEN item.u ELSE m[item.u]

(* freeStorage(), and the destructor.  Memory that is not its own any more *)
(* is garbage.                                                             *)
FreeStorage(m, item) ==
  IF usesReservoir(item.mSize) THEN m
  ELSE [m EXCEPT ![item.u] = IF @ = Unallocated THEN Garbage ELSE Unallocated]

(* The copy constructor.                                                   *)
Value(m, item) == [mType |-> item.mType, mSize |-> item.mSize, data |-> storage(m, item)]
\* mutant of CopyOf: the item is copied and its memory is not
CopyOfShared(m, item) == [memory |-> m, item |-> item]
CopyOf(m, item) == Stored(m, item.key, Value(m, item))

CopyItems(m, items) ==
  FoldLeft(LAMBDA s, item : LET c == CopyOf(s.memory, item) IN
                            [memory |-> c.memory, items |-> Append(s.items, c.item)],
           [memory |-> m, items |-> <<>>], items)
----------------------------------------------------------------------------
(* The vector.  s has the storages and the memory as they become.          *)

Items(s, at) == IF at = NoStorage THEN <<>> ELSE s.storages[at].items

(* release_storage(): the last reference destroys the items.               *)
Released(s, at) ==
  IF at = NoStorage THEN s
  ELSE IF s.storages[at].refs > 1 THEN [s EXCEPT !.storages[at].refs = @ - 1]
  ELSE [storages |-> [s.storages EXCEPT ![at] = Unused],
        memory |-> FoldLeft(FreeStorage, s.memory, s.storages[at].items)]

(* editArrayImpl(): a vector that shares its storage gets one of its own.  *)
Own(s, at) ==
  IF at # NoStorage /\ s.storages[at].refs = 1 THEN [s |-> s, at |-> at]
  ELSE LET fresh == Smallest({n \in Storages : s.storages[n] = Unused})
           copy  == CopyItems(s.memory, Items(s, at))
       IN  [s |-> Released([storages |-> [s.storages EXCEPT ![fresh] = [refs |-> 1, items |-> copy.items]],
                            memory |-> copy.memory], at),
            at |-> fresh]

indexOfKey(items, key) == SelectInSeq(items, LAMBDA item : item.key = key)

(* add(): in the place of its key, an item that is empty yet.              *)
Place(items, key) == Cardinality({i \in DOMAIN items : items[i].key < key}) + 1
Added(m, items, key) ==
  IF indexOfKey(items, key) # 0 THEN items
  ELSE InsertAt(items, Place(items, key), Stored(m, key, NoValue).item)
----------------------------------------------------------------------------
Op(d, meant) == sets < MaxSets /\ sets' = sets + 1 /\ says' = [says EXCEPT ![d] = meant]
Becomes(d, s, at) ==
  /\ mItems' = [mItems EXCEPT ![d] = at]
  /\ storages' = s.storages /\ memory' = s.memory

(* setData(), by setInt32() and its kind too.                              *)
SetData(d, key, value) ==
  LET own   == Own(now, mItems[d])
      items == Added(own.s.memory, Items(own.s, own.at), key)
      i     == indexOfKey(items, key)
      new   == Stored(FreeStorage(own.s.memory, items[i]), key, value)
  IN  /\ Op(d, [says[d] EXCEPT ![key] = value])
      /\ Becomes(d, [storages |-> [own.s.storages EXCEPT ![own.at].items = [items EXCEPT ![i] = new.item]],
                     memory |-> new.memory], own.at)

RemoveKey(d, key) ==
  LET own == Own(now, mItems[d])
      i   == indexOfKey(Items(own.s, own.at), key)
  IN  /\ indexOfKey(Items(now, mItems[d]), key) # 0
      /\ Op(d, [says[d] EXCEPT ![key] = NoValue])
      /\ Becomes(d, [storages |-> [own.s.storages EXCEPT ![own.at].items = RemoveAt(@, i)],
                     memory |-> FreeStorage(own.s.memory, Items(own.s, own.at)[i])], own.at)

(* clear() of the vector lets go of the storage.                           *)
Clear(d) ==
  /\ mItems[d] # NoStorage /\ Op(d, [k \in Keys |-> NoValue])
  /\ Becomes(d, Released(now, mItems[d]), NoStorage)

(* A copy of another MetaData takes this one's place.                      *)
Copy(d, from) ==
  LET at == mItems[from]
      s  == IF at = NoStorage THEN now ELSE [now EXCEPT !.storages[at].refs = @ + 1]
  IN  /\ d # from /\ Op(d, says[from])
      /\ Becomes(d, Released(s, mItems[d]), at)

(* findData(), and findInt32() and its kind, which want a type.            *)
findData(d, key) ==
  LET items == Items(now, mItems[d])
      i     == indexOfKey(items, key)
  IN  IF i = 0 THEN NoValue ELSE Value(memory, items[i])

Next ==
  \E d \in Dicts :
    \/ \E key \in Keys : RemoveKey(d, key) \/ \E value \in DataValues : SetData(d, key, value)
    \/ Clear(d)
    \/ \E from \in Dicts : Copy(d, from)

Spec == Init /\ [][Next]_vars
----------------------------------------------------------------------------
(* A MetaData has under each key what was set there last, whatever was     *)
(* done with its copies (setData(), findData(), Vector's copy on write).   *)
SaysWhatWasSet == \A d \in Dicts, key \in Keys : findData(d, key) = says[d][key]

(* Memory belongs to one item of one storage, or it is free; a storage in  *)
(* use is counted (allocateStorage(), freeStorage(), ~typed_data()).       *)
Owners(b) ==
  {at \in Storages \X (1 .. Cardinality(Keys)) :
     /\ at[2] \in DOMAIN storages[at[1]].items
     /\ LET item == storages[at[1]].items[at[2]] IN ~usesReservoir(item.mSize) /\ item.u = b}
MemoryIsOwned ==
  /\ \A b \in Blocks : Cardinality(Owners(b)) = IF memory[b] = Unallocated THEN 0 ELSE 1
  /\ \A s \in Storages : storages[s].refs = Cardinality({d \in Dicts : mItems[d] = s})

MetaDataIsRight == SaysWhatWasSet /\ MemoryIsOwned
=============================================================================
