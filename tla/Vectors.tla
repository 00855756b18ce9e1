------------------------------ MODULE Vectors ------------------------------
(***************************************************************************)
(* What the containers of src/libutils promise, whatever storage they      *)
(* share and however many threads use them: each vector is a sequence of   *)
(* its own, which an operation on another vector never changes.  A         *)
(* SortedVector, and the KeyedVector made of one, is the sequence of its   *)
(* items by key, one item of a key.                                        *)
(***************************************************************************)
EXTENDS Integers, SequencesExt

CONSTANTS Plain, Sorted, Items, Arrays, Beginnings

VARIABLE value

Init ==
  \E given \in Beginnings :
    value = [v \in Plain \cup Sorted |-> IF v \in given.sharers THEN given.items ELSE <<>>]

Spliced(s, at, n, new) == SubSeq(s, 1, at) \o new \o SubSeq(s, at + n + 1, Len(s))

Put(v, s) == value' = [value EXCEPT ![v] = s]

(* n items at an index give way to others: insertion, removal, clear(),    *)
(* replaceAt().                                                            *)
Splice(v) ==
  \E at \in 0 .. Len(value[v]) : \E n \in 0 .. Len(value[v]) - at :
    \E new \in {<<>>} \cup {<<i>> : i \in Items} \cup Arrays \cup {value[w] : w \in Plain \cup Sorted} :
      Put(v, Spliced(value[v], at, n, new))

(* The stable sort by key.                                                 *)
Sort(v) ==
  \E places \in [DOMAIN value[v] -> DOMAIN value[v]] :
    LET sorted == [i \in DOMAIN value[v] |-> value[v][places[i]]] IN
    /\ \A i, j \in DOMAIN places :
         i < j => \/ sorted[i].key < sorted[j].key
                  \/ sorted[i].key = sorted[j].key /\ places[i] < places[j]
    /\ Put(v, sorted)

Assign(v, w) == Put(v, value[w])

Increasing(s) == \A i, j \in DOMAIN s : i < j => s[i].key < s[j].key
Hold(v, set) == \E s \in [1 .. Cardinality(set) -> set] : Increasing(s) /\ Put(v, s)
Others(v, k) == {i \in ToSet(value[v]) : i.key # k}

Add(v, item) == Hold(v, Others(v, item.key) \cup {item})
Take(v, k) == Hold(v, Others(v, k))
Empty(v) == Put(v, <<>>)

(* One vector changes, and no other.                                       *)
Only(v) == \A w \in Plain \cup Sorted : value'[w] # value[w] <=> w = v

Next ==
  \/ \E v \in Plain :
       Only(v) /\ (Splice(v) \/ Sort(v) \/ \E w \in Plain \cup Sorted : Assign(v, w))
  \/ \E v \in Sorted :
       Only(v) /\ (Empty(v) \/ (\E i \in Items : Add(v, i) \/ Take(v, i.key))
                            \/ \E w \in Sorted : Assign(v, w))

Spec == Init /\ [][Next]_value
=============================================================================
