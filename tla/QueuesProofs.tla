---------------------------- MODULE QueuesProofs ----------------------------
(***************************************************************************)
(* Proofs about the parts of MCQueues: about CallbackDispatcher for every  *)
(* queue limit and any number of messages, and about MPEG2TSWriter, as the *)
(* part "writer", for any number of sources and access units.              *)
(***************************************************************************)
EXTENDS MCQueues, FiniteSetTheorems, SequenceTheorems, TLAPS

(* What the proof needs of the types.                                      *)
Places ==
  /\ comp \in {NoThread, Asleep, Starting} \cup Calls
  /\ owner \in {"idle", "joinComp", "joinLoop", "freed"}
  /\ fault \in BOOLEAN

(* Who may touch the dispatcher is gone when it is deleted: its own thread *)
(* has exited, and the component's was joined before mDone was set.        *)
Retired ==
  /\ freed <=> owner = "freed"
  /\ freed => loop = "exited"
  /\ owner \in {"joinLoop", "freed"} => comp = NoThread /\ mDone
  /\ mDone => owner \in {"joinLoop", "freed"}
  /\ ~fault

LifeInv == Places /\ Retired

LEMMA LifeInvInit == Init => LifeInv
  BY DEF Init, LifeInv, Places, Retired

LEMMA LifeInvStep == LifeInv /\ [Next]_vars => LifeInv'
<1> SUFFICES ASSUME LifeInv, [Next]_vars PROVE LifeInv'
  OBVIOUS
<1> USE DEF LifeInv, Places, Retired, NoThread, Asleep, Starting, Calls
<1>1. CASE LoopWaits
  BY <1>1 DEF LoopWaits, Use
<1>2. CASE LoopTakes
  BY <1>2 DEF LoopTakes, Use
<1>3. CASE LoopExits
  BY <1>3 DEF LoopExits, Use
<1>4. CASE Handle
  BY <1>4 DEF Handle
<1>5. CASE BatchHandled
  BY <1>5 DEF BatchHandled
<1>6. CASE WakesSpuriously
  BY <1>6 DEF WakesSpuriously
<1>7. CASE CallsBack
  <2>1. comp \in 1 .. 3 /\ comp' = comp + 1 /\ UNCHANGED <<mDone, owner, freed>>
    BY <1>7 DEF CallsBack
  <2>2. owner \notin {"joinLoop", "freed"} /\ ~freed /\ ~mDone
    BY <2>1
  <2>3. fault' = FALSE
    BY <1>7, <2>2 DEF CallsBack, Post, Use
  <2>4. comp' \in {0, 4, 5} \cup 1 .. 3
    BY <2>1
  <2>5. Places'
    BY <2>1, <2>3, <2>4
  <2>6. Retired'
    BY <2>1, <2>2, <2>3
  <2> QED
    BY <2>5, <2>6
<1>8. CASE NextRound
  BY <1>8 DEF NextRound
<1>9. CASE CompExits
  BY <1>9 DEF CompExits
<1>10. CASE StartComp
  BY <1>10 DEF StartComp
<1>11. CASE StopComp
  BY <1>11 DEF StopComp
<1>12. CASE CompJoined
  BY <1>12 DEF CompJoined
<1>13. CASE FreeNode
  BY <1>13 DEF FreeNode
<1>14. CASE Freed
  BY <1>14 DEF Freed, LoopJoined
<1>15. CASE PostBatched
  BY <1>15 DEF PostBatched, Post, Use, Woken
<1>16. CASE UNCHANGED vars
  BY <1>16 DEF vars
<1> QED
  BY <1>1, <1>2, <1>3, <1>4, <1>5, <1>6, <1>7, <1>8, <1>9, <1>10, <1>11, <1>12,
     <1>13, <1>14, <1>15, <1>16 DEF Next, Loop, Component, Joins, Owner

(* No thread uses the dispatcher of TaskInstance once its destructor has   *)
(* joined the dispatcher's thread and the object is freed.                 *)
THEOREM DispatcherOutlivesItsUsers == Spec => []NoUseAfterFree
<1>1. LifeInv => NoUseAfterFree
  BY DEF LifeInv, Retired, NoUseAfterFree
<1> QED
  BY LifeInvInit, LifeInvStep, <1>1, PTL DEF Spec
----------------------------------------------------------------------------
(* Once and in order *)

Msg == [id : Nat, realTime : BOOLEAN]
Upto(n) == [i \in 1 .. n |-> i]

(* Ids() of a queue is a sequence of numbers as long as the queue.         *)
LEMMA IdsOfQueue ==
  ASSUME NEW q \in Seq(Msg)
  PROVE  Ids(q) \in Seq(Nat) /\ Len(Ids(q)) = Len(q) /\ \A i \in 1 .. Len(q) : Ids(q)[i] = q[i].id
<1>1. \A i \in 1 .. Len(q) : q[i] \in Msg
  BY ElementOfSeq
<1>2. Ids(q) = [i \in 1 .. Len(q) |-> q[i].id]
  BY LenProperties DEF Ids
<1>3. \A i \in 1 .. Len(q) : q[i].id \in Nat
  BY <1>1 DEF Msg
<1>4. Len(q) \in Nat
  OBVIOUS
<1> QED
  BY <1>2, <1>3, <1>4, IsASeq

(* Sequences of numbers are equal when they agree everywhere, ...          *)
LEMMA SameNats ==
  ASSUME NEW s \in Seq(Nat), NEW t \in Seq(Nat), Len(s) = Len(t),
         \A i \in 1 .. Len(s) : s[i] = t[i]
  PROVE  s = t
  BY SeqEqual

(* ... and r is s followed by t when it agrees with each in its place.     *)
LEMMA JoinedNats ==
  ASSUME NEW s \in Seq(Nat), NEW t \in Seq(Nat), NEW r \in Seq(Nat),
         Len(r) = Len(s) + Len(t),
         \A i \in 1 .. Len(s) : r[i] = s[i],
         \A i \in 1 .. Len(t) : r[Len(s) + i] = t[i]
  PROVE  r = s \o t
<1> DEFINE m == Len(s)
           n == Len(t)
<1> m \in Nat /\ n \in Nat
  OBVIOUS
<1>1. /\ s \o t \in Seq(Nat) /\ Len(s \o t) = m + n
      /\ \A i \in 1 .. m + n : (s \o t)[i] = IF i <= m THEN s[i] ELSE t[i - m]
  BY ConcatProperties
<1>2. ASSUME NEW i \in 1 .. m + n PROVE r[i] = (s \o t)[i]
  <2>1. CASE i <= m
    BY <2>1, <1>1
  <2>2. CASE i > m
    <3>1. i - m \in 1 .. n /\ m + (i - m) = i
      BY <2>2
    <3>2. r[i] = t[i - m]
      BY <3>1
    <3>3. (s \o t)[i] = t[i - m]
      BY <2>2, <1>1
    <3> QED
      BY <3>2, <3>3
  <2> QED
    BY <2>1, <2>2
<1> QED
  BY <1>1, <1>2, SameNats

(* The ids of a queue p that has one more message m at the end than q, and *)
(* of one that has one more, m, in front                                   *)
LEMMA IdsOneMore ==
  ASSUME NEW q \in Seq(Msg), NEW p \in Seq(Msg), NEW one \in Seq(Nat),
         Len(p) = Len(q) + 1, Len(one) = 1
  PROVE  /\ /\ \A i \in 1 .. Len(q) : p[i] = q[i]
            /\ p[Len(q) + 1].id = one[1]
            => Ids(p) = Ids(q) \o one
         /\ /\ \A i \in 1 .. Len(q) : p[i + 1] = q[i]
            /\ p[1].id = one[1]
            => Ids(p) = one \o Ids(q)
<1>1. PICK s : s = Ids(q)
  OBVIOUS
<1>2. PICK r : r = Ids(p)
  OBVIOUS
<1>3. s \in Seq(Nat) /\ Len(s) = Len(q) /\ \A i \in 1 .. Len(q) : s[i] = q[i].id
  BY <1>1, IdsOfQueue
<1>4. r \in Seq(Nat) /\ Len(r) = Len(p) /\ \A i \in 1 .. Len(p) : r[i] = p[i].id
  BY <1>2, IdsOfQueue
<1>5. Len(q) \in Nat
  OBVIOUS
<1>6. ASSUME \A i \in 1 .. Len(q) : p[i] = q[i], p[Len(q) + 1].id = one[1]
      PROVE  r = s \o one
  <2>1. Len(r) = Len(s) + Len(one)
    BY <1>3, <1>4
  <2>2. \A i \in 1 .. Len(s) : r[i] = s[i]
    <3>1. ASSUME NEW i \in 1 .. Len(q) PROVE r[i] = s[i]
      <4>1. i \in 1 .. Len(p) /\ p[i] = q[i]
        BY <1>5, <1>6
      <4> QED
        BY <4>1, <1>3, <1>4
    <3> QED
      BY <3>1, <1>3
  <2>3. \A i \in 1 .. Len(one) : r[Len(s) + i] = one[i]
    BY <1>3, <1>4, <1>5, <1>6
  <2> QED
    BY <1>3, <1>4, <2>1, <2>2, <2>3, JoinedNats
<1>7. ASSUME \A i \in 1 .. Len(q) : p[i + 1] = q[i], p[1].id = one[1]
      PROVE  r = one \o s
  <2>1. Len(r) = Len(one) + Len(s)
    BY <1>3, <1>4, <1>5
  <2>2. \A i \in 1 .. Len(one) : r[i] = one[i]
    BY <1>4, <1>5, <1>7
  <2>3. \A i \in 1 .. Len(s) : r[Len(one) + i] = s[i]
    <3>1. ASSUME NEW i \in 1 .. Len(q) PROVE r[1 + i] = s[i]
      <4>1. 1 + i \in 1 .. Len(p) /\ p[1 + i] = q[i] /\ i + 1 = 1 + i
        BY <1>5, <1>7
      <4> QED
        BY <4>1, <1>3, <1>4
    <3> QED
      BY <3>1, <1>3
  <2> QED
    BY <1>3, <1>4, <2>1, <2>2, <2>3, JoinedNats
<1> QED
  BY <1>1, <1>2, <1>6, <1>7

(* What post() does to the ids of the queue, and Handle to the batch's     *)
LEMMA IdsOfAppend ==
  ASSUME NEW q \in Seq(Msg), NEW m \in Msg
  PROVE  Append(q, m) \in Seq(Msg) /\ Ids(Append(q, m)) = Ids(q) \o <<m.id>>
<1>1. PICK p : p = Append(q, m)
  OBVIOUS
<1>2. PICK one : one = <<m.id>>
  OBVIOUS
<1>3. /\ p \in Seq(Msg) /\ Len(p) = Len(q) + 1 /\ p[Len(q) + 1] = m
      /\ \A i \in 1 .. Len(q) : p[i] = q[i]
  BY <1>1, AppendProperties
<1>4. one \in Seq(Nat) /\ Len(one) = 1 /\ one[1] = m.id
  BY <1>2 DEF Msg
<1>5. p[Len(q) + 1].id = one[1]
  BY <1>3, <1>4
<1>6. Ids(p) = Ids(q) \o one
  BY <1>3, <1>4, <1>5, IdsOneMore
<1> QED
  BY <1>1, <1>2, <1>3, <1>6

LEMMA IdsOfHead ==
  ASSUME NEW q \in Seq(Msg), q # << >>
  PROVE  /\ Head(q).id \in Nat /\ Tail(q) \in Seq(Msg)
         /\ Ids(q) = <<Head(q).id>> \o Ids(Tail(q))
<1>1. PICK p : p = Tail(q)
  OBVIOUS
<1>2. PICK one : one = <<Head(q).id>>
  OBVIOUS
<1>3. /\ Head(q) \in Msg /\ Head(q) = q[1] /\ p \in Seq(Msg) /\ Len(p) = Len(q) - 1
      /\ \A i \in 1 .. Len(p) : q[i + 1] = p[i]
  BY <1>1, HeadTailProperties
<1>4. Head(q).id \in Nat /\ one \in Seq(Nat) /\ Len(one) = 1 /\ q[1].id = one[1]
  BY <1>2, <1>3 DEF Msg
<1>5. Len(q) = Len(p) + 1
  BY <1>3
<1>6. Ids(q) = one \o Ids(p)
  BY <1>3, <1>4, <1>5, IdsOneMore
<1> QED
  BY <1>1, <1>2, <1>3, <1>4, <1>6

(* Messages that have been taken are all handled before more are taken.    *)
OrderInv ==
  /\ mQueue \in Seq(Msg) /\ messages \in Seq(Msg) /\ handled \in Seq(Nat) /\ posted \in Nat
  /\ loop # "dispatch" => messages = << >>
  /\ OnceInOrder

LEMMA OrderInvInit == Init => OrderInv
<1> SUFFICES ASSUME Init PROVE OrderInv
  OBVIOUS
<1>1. mQueue = << >> /\ messages = << >> /\ handled = << >> /\ posted = 0
  BY DEF Init
<1>2. Ids(<< >>) = << >>
  BY DEF Ids
<1>3. << >> \o << >> = << >> /\ Upto(0) = << >>
  BY DEF Upto
<1> QED
  BY <1>1, <1>2, <1>3 DEF OrderInv, OnceInOrder, Upto

LEMMA NatsJoin == \A p, q, r \in Seq(Nat) : (p \o q) \o r = p \o (q \o r)
<1> SUFFICES ASSUME NEW p \in Seq(Nat), NEW q \in Seq(Nat), NEW r \in Seq(Nat)
             PROVE  (p \o q) \o r = p \o (q \o r)
  OBVIOUS
<1> DEFINE lhs == (p \o q) \o r
           rhs == p \o (q \o r)
<1>1. lhs \in Seq(Nat) /\ rhs \in Seq(Nat)
  OBVIOUS
<1>2. Len(lhs) = Len(rhs) /\ \A i \in 1 .. Len(lhs) : lhs[i] = rhs[i]
  OBVIOUS
<1> HIDE DEF lhs, rhs
<1>3. lhs = rhs
  BY <1>1, <1>2, SeqEqual
<1> QED
  BY <1>3 DEF lhs, rhs

(* post() adds the next number at the end.                                 *)
LEMMA PostInOrder ==
  ASSUME OrderInv, NEW realTime \in BOOLEAN, Post(realTime), UNCHANGED <<messages, handled>>
  PROVE  OrderInv'
<1> DEFINE m == [id |-> posted + 1, realTime |-> realTime]
           before == handled \o Ids(messages)
<1>1. m \in Msg /\ m.id = posted + 1 /\ mQueue' = Append(mQueue, m) /\ posted' = posted + 1
  BY DEF OrderInv, Msg, Post
<1>2. loop' # "dispatch" => messages' = << >>
  BY DEF OrderInv, Post, Woken
<1>3. mQueue' \in Seq(Msg) /\ Ids(mQueue') = Ids(mQueue) \o <<posted + 1>>
  BY <1>1, IdsOfAppend DEF OrderInv
<1>4. before \in Seq(Nat) /\ Ids(mQueue) \in Seq(Nat) /\ <<posted + 1>> \in Seq(Nat)
  BY IdsOfQueue, ConcatProperties DEF OrderInv
<1>5. before \o Ids(mQueue') = (before \o Ids(mQueue)) \o <<posted + 1>>
  <2>1. before \o (Ids(mQueue) \o <<posted + 1>>) = (before \o Ids(mQueue)) \o <<posted + 1>>
    BY <1>4, NatsJoin
  <2> QED
    BY <1>3, <2>1, Zenon
<1>6. before \o Ids(mQueue) = Upto(posted)
  BY DEF OrderInv, OnceInOrder, Upto
<1>7. Upto(posted) \o <<posted + 1>> = Upto(posted + 1)
  <2>1. PICK so : so = Upto(posted)
    OBVIOUS
  <2>2. PICK now : now = Upto(posted + 1)
    OBVIOUS
  <2>3. PICK one : one = <<posted + 1>>
    OBVIOUS
  <2>4. posted \in Nat
    BY DEF OrderInv
  <2>5. so \in Seq(Nat) /\ Len(so) = posted /\ \A i \in 1 .. posted : so[i] = i
    BY <2>1, <2>4 DEF Upto
  <2>6. now \in Seq(Nat) /\ Len(now) = posted + 1 /\ \A i \in 1 .. posted + 1 : now[i] = i
    BY <2>2, <2>4 DEF Upto
  <2>7. one \in Seq(Nat) /\ Len(one) = 1 /\ one[1] = posted + 1
    BY <2>3, <2>4
  <2>8. Len(now) = Len(so) + Len(one)
    BY <2>5, <2>6, <2>7
  <2>9. \A i \in 1 .. Len(so) : now[i] = so[i]
    BY <2>4, <2>5, <2>6
  <2>10. \A i \in 1 .. Len(one) : now[Len(so) + i] = one[i]
    BY <2>4, <2>5, <2>6, <2>7
  <2>11. now = so \o one
    BY <2>5, <2>6, <2>7, <2>8, <2>9, <2>10, JoinedNats
  <2> QED
    BY <2>1, <2>2, <2>3, <2>11
<1>8. OnceInOrder'
  BY <1>1, <1>5, <1>6, <1>7 DEF OnceInOrder, Upto
<1> QED
  BY <1>1, <1>2, <1>3, <1>8 DEF OrderInv

LEMMA OrderInvStep == OrderInv /\ [Next]_vars => OrderInv'
<1> SUFFICES ASSUME OrderInv, [Next]_vars PROVE OrderInv'
  OBVIOUS
<1>1. CASE PostBatched
  BY <1>1, PostInOrder DEF PostBatched
<1>2. CASE CallsBack
  BY <1>2, PostInOrder DEF CallsBack
<1>3. CASE LoopTakes
  <2>1. messages = << >> /\ messages' = mQueue /\ mQueue' = << >> /\ loop' = "dispatch"
        /\ UNCHANGED <<handled, posted>>
    BY <1>3 DEF LoopTakes, OrderInv
  <2>2. handled \o Ids(messages) = handled /\ Ids(<< >>) = << >>
    BY <2>1, ConcatEmptySeq DEF OrderInv, Ids
  <2>3. (handled \o Ids(mQueue)) \o << >> = handled \o Ids(mQueue)
    BY IdsOfQueue, ConcatProperties, ConcatEmptySeq DEF OrderInv
  <2> QED
    BY <2>1, <2>2, <2>3 DEF OrderInv, OnceInOrder
<1>4. CASE Handle
  <2> DEFINE n == Head(messages).id
  <2>1. /\ messages # << >> /\ handled' = Append(handled, n) /\ messages' = Tail(messages)
        /\ UNCHANGED <<mQueue, loop, posted>> /\ loop = "dispatch"
    BY <1>4 DEF Handle
  <2>2. n \in Nat /\ Tail(messages) \in Seq(Msg) /\ Ids(messages) = <<n>> \o Ids(Tail(messages))
    BY <2>1, IdsOfHead DEF OrderInv
  <2>3. handled' = handled \o <<n>> /\ handled' \in Seq(Nat) /\ <<n>> \in Seq(Nat)
    BY <2>1, <2>2, AppendIsConcat, AppendProperties DEF OrderInv
  <2>4. (handled \o <<n>>) \o Ids(Tail(messages)) = handled \o Ids(messages)
    <3>1. Ids(Tail(messages)) \in Seq(Nat) /\ handled \in Seq(Nat)
      BY <2>2, IdsOfQueue DEF OrderInv
    <3>2. (handled \o <<n>>) \o Ids(Tail(messages)) = handled \o (<<n>> \o Ids(Tail(messages)))
      BY <2>3, <3>1, NatsJoin
    <3> QED
      BY <2>2, <3>2
  <2> QED
    BY <2>1, <2>2, <2>3, <2>4 DEF OrderInv, OnceInOrder
<1>5. CASE BatchHandled
  BY <1>5 DEF BatchHandled, OrderInv, OnceInOrder
<1>6. CASE LoopWaits \/ LoopExits \/ WakesSpuriously
  BY <1>6 DEF LoopWaits, LoopExits, WakesSpuriously, OrderInv, OnceInOrder
<1>7. CASE NextRound \/ CompExits \/ StartComp \/ StopComp \/ Joins
  BY <1>7
  DEF NextRound, CompExits, StartComp, StopComp, Joins, CompJoined, Freed, OrderInv,
      OnceInOrder
<1>8. CASE FreeNode
  BY <1>8 DEF FreeNode, Woken, OrderInv, OnceInOrder
<1>9. CASE UNCHANGED vars
  BY <1>9 DEF vars, OrderInv, OnceInOrder
<1> QED
  BY <1>1, <1>2, <1>3, <1>4, <1>5, <1>6, <1>7, <1>8, <1>9 DEF Next, Loop, Component, Owner

(* However posts and batches interleave, the messages are handled once     *)
(* each in the order they were posted, and none is lost on the way.        *)
THEOREM MessagesOnceInOrder == Spec => []OnceInOrder
<1>1. OrderInv => OnceInOrder
  BY DEF OrderInv
<1> QED
  BY OrderInvInit, OrderInvStep, <1>1, PTL DEF Spec
----------------------------------------------------------------------------
(* The transport stream writer: a source is asked for one thing at a time, *)
(* and until it is asked again its last unit stays in its buffer.          *)

(* MPEG2TSWriter's cardinality is that of the lemmas.                      *)
LEMMA SameCardinality == \A S : TS!Cardinality(S) = Cardinality(S)
  BY DEF TS!Cardinality, Cardinality

(* What a step leaves as it was of a source.                               *)
Same(s) ==
  /\ inbox'[s] = inbox[s] /\ handles'[s] = handles[s] /\ media'[s] = media[s]
  /\ frames'[s] = frames[s] /\ written'[s] = written[s] /\ mBuffer'[s] = mBuffer[s]
  /\ (s \in running') = (s \in running) /\ (s \in mEOSReceived') = (s \in mEOSReceived)

LEMMA ToldStays == \A n \in TS!Note : TS!Told(n) /\ Same(n.source) => TS!Told(n)'
  BY DEF TS!Told, Same, TS!Asked, TS!Reading

LEMMA AskingStays ==
  \A s \in TS!Sources : TS!AskingAt(s) /\ Same(s) /\ mID'[s] = mID[s] => TS!AskingAt(s)'
  BY DEF TS!AskingAt, Same, TS!Asked, TS!Reading

(* No notification on its way is of a source that is asked.                *)
LEMMA AskedIsNotTold ==
  ASSUME TS!IInv, NEW s \in TS!Sources, TS!Asked(s)
  PROVE  /\ \A i \in 1 .. Len(notes) : notes[i].source # s
         /\ handling # NULL => handling.source # s
         /\ ~TS!Fresh(s)
  BY DEF TS!IInv, TS!Telling, TS!Told, TS!FreshIsUntouched, TS!Untouched

(* A step of a source's looper, which may tell the writer something.       *)
LEMMA SourceStep ==
  ASSUME TS!IInv, NEW s \in TS!Sources, TS!Asked(s), UNCHANGED <<TS!writerVars, TS!ownerVars>>,
         \A u \in TS!Sources : u # s => Same(u),
         TS!Domains', TS!AskingAt(s)', misused' = {},
         \/ notes' = notes
         \/ \E n \in TS!Note : n.source = s /\ notes' = Append(notes, n) /\ TS!Told(n)'
  PROVE  TS!IInv'
<1> DEFINE NN == Len(notes)
<1>0. /\ notes \in Seq(TS!Note) /\ NN \in Nat /\ \A i \in 1 .. NN : notes[i] \in TS!Note
      /\ handling \in TS!Note \cup {NULL} /\ \A n \in TS!Note : n.source \in TS!Sources
  <2>1. \A n \in TS!Note : n.source \in TS!Sources
    BY DEF TS!Note
  <2> QED
    BY <2>1 DEF TS!IInv, TS!Domains
<1>1. TS!Asking'
  BY AskingStays DEF TS!IInv, TS!Asking, TS!ownerVars
<1>2. \A n \in TS!Note : TS!Told(n) /\ n.source # s => TS!Told(n)'
  BY ToldStays, <1>0
<1>3. handling' = handling /\ (handling # NULL => handling.source # s /\ TS!Told(handling)')
  <2>1. CASE handling = NULL
    BY <2>1 DEF TS!writerVars
  <2>2. CASE handling # NULL
    <3>1. PICK n \in TS!Note : n = handling
      BY <1>0, <2>2
    <3>2. TS!Told(n) /\ n.source # s /\ handling' = n
      BY <2>2, <3>1, AskedIsNotTold DEF TS!IInv, TS!Telling, TS!writerVars
    <3>3. TS!Told(n)'
      BY <1>2, <3>2
    <3> QED
      BY <3>1, <3>2, <3>3 DEF TS!Told
  <2> QED
    BY <2>1, <2>2
<1>4. PICK n \in TS!Note : notes' = notes \/ (n.source = s /\ notes' = Append(notes, n) /\ TS!Told(n)')
  <2>1. [what |-> "end", source |-> s, buffer |-> 0] \in TS!Note
    BY DEF TS!Note
  <2> QED
    BY <2>1
<1>5. \A i \in 1 .. NN : notes[i].source # s /\ TS!Told(notes[i])
  BY AskedIsNotTold DEF TS!IInv, TS!Telling
<1>6. \A i \in 1 .. Len(notes') : TS!Told(notes[i])'
  <2> SUFFICES ASSUME NEW i \in 1 .. Len(notes') PROVE TS!Told(notes[i])'
    OBVIOUS
  <2>1. PICK m \in TS!Note : m = notes'[i] /\ ((m = n /\ TS!Told(n)') \/ (i \in 1 .. NN /\ m = notes[i]))
    BY <1>0, <1>4
  <2>2. TS!Told(m)'
    BY <1>2, <1>5, <2>1
  <2> QED
    BY <2>1, <2>2 DEF TS!Told
<1>7. TS!Telling'
  <2>1. \A i, j \in 1 .. Len(notes') : notes'[i].source = notes'[j].source => i = j
    <3>1. \A i, j \in 1 .. NN : notes[i].source = notes[j].source => i = j
      BY DEF TS!IInv, TS!Telling
    <3>2. CASE notes' = notes
      BY <3>1, <3>2
    <3>3. CASE n.source = s /\ notes' = Append(notes, n)
      <4>1. /\ Len(notes') = NN + 1 /\ notes'[NN + 1] = n
            /\ \A i \in 1 .. NN : notes'[i] = notes[i]
        BY <1>0, <3>3
      <4> QED
        BY <1>0, <1>5, <3>1, <3>3, <4>1
    <3> QED
      BY <1>4, <3>2, <3>3
  <2>2. handling # NULL => \A i \in 1 .. Len(notes') : notes'[i].source # handling.source
    BY <1>0, <1>3, <1>4 DEF TS!IInv, TS!Telling
  <2> QED
    BY <1>3, <1>6, <2>1, <2>2 DEF TS!Telling
<1>8. TS!FreshIsUntouched'
  <2> SUFFICES ASSUME NEW u \in TS!Sources, TS!Fresh(u) PROVE TS!Untouched(u)'
    BY DEF TS!FreshIsUntouched, TS!Fresh, TS!ownerVars
  <2>1. u # s /\ Same(u) /\ TS!Untouched(u)
    BY AskedIsNotTold DEF TS!IInv, TS!FreshIsUntouched
  <2>2. \A i \in 1 .. Len(notes') : notes'[i].source # u
    BY <1>0, <1>4, <2>1 DEF TS!Untouched
  <2> QED
    BY <1>3, <2>1, <2>2 DEF TS!Untouched, Same, TS!Asked, TS!ownerVars
<1>9. TS!Begun' /\ TS!EndsAreCounted' /\ TS!FramesIntact' /\ TS!ReadsWhenStarted' /\ TS!EndsOnce'
  BY DEF TS!IInv, TS!Begun, TS!EndsAreCounted, TS!FramesIntact, TS!ReadsWhenStarted,
         TS!EndsOnce, TS!writerVars, TS!ownerVars
<1> QED
  BY <1>1, <1>7, <1>8, <1>9 DEF TS!IInv


LEMMA PostStep ==
  ASSUME TS!IInv, NEW s \in TS!Sources, NEW what \in {"start", "read"}, inbox[s] = <<>>, TS!Post(s, what)
  PROVE  /\ inbox' \in [TS!Sources -> Seq(TS!Message)]
         /\ \A u \in TS!Sources : u # s => inbox'[u] = inbox[u]
         /\ Len(inbox'[s]) <= 1
         /\ inbox'[s] # <<>> => mID[s] # 0 /\ Head(inbox'[s]).what = what
<1>1. inbox \in [TS!Sources -> Seq(TS!Message)] /\ mID[s] \in {0, 1}
  BY DEF TS!IInv, TS!Domains, TS!Message
<1> DEFINE m == [what |-> what, target |-> mID[s]]
<1>2. mID[s] # 0 => m \in TS!Message
  BY <1>1 DEF TS!Message
<1>3. m.what = what
  OBVIOUS
<1> HIDE DEF m
<1>4. CASE mID[s] = 0
  BY <1>1, <1>4 DEF TS!Post
<1>5. CASE mID[s] # 0
  <2>1. inbox' = [inbox EXCEPT ![s] = Append(<<>>, m)]
    BY <1>5 DEF TS!Post, m
  <2>2. Append(<<>>, m) \in Seq(TS!Message) /\ Len(Append(<<>>, m)) = 1 /\ Head(Append(<<>>, m)) = m
    BY <1>2, <1>5
  <2> HIDE DEF TS!Message
  <2> QED
    BY <1>1, <1>3, <1>5, <2>1, <2>2
<1> QED
  BY <1>4, <1>5

LEMMA NotifyStep ==
  ASSUME TS!IInv, NEW s \in TS!Sources, NEW what \in {"buffer", "end"}, NEW buffer \in Nat,
         TS!Notify(s, what, buffer)
  PROVE  /\ notes' \in Seq(TS!Note)
         /\ \E n \in TS!Note : /\ n.source = s /\ n.what = what /\ n.buffer = buffer
                            /\ notes' = Append(notes, n)
<1> DEFINE n == [what |-> what, source |-> s, buffer |-> buffer]
<1>1. n \in TS!Note /\ n.source = s /\ n.what = what /\ n.buffer = buffer
  BY DEF TS!Note
<1>2. notes' = Append(notes, n)
  BY DEF TS!Notify
<1> HIDE DEF n
<1>3. notes \in Seq(TS!Note)
  BY DEF TS!IInv, TS!Domains
<1> QED
  BY <1>1, <1>2, <1>3

LEMMA SourceTakesStep ==
  ASSUME TS!StartedOnce, TS!IInv, NEW s \in TS!Sources, TS!SourceTakes(s)
  PROVE  TS!IInv'
<1>1. /\ inbox \in [TS!Sources -> Seq(TS!Message)] /\ Len(inbox[s]) = 1 /\ handles[s] = NULL
      /\ s \in running /\ TS!Asked(s) /\ TS!AskingAt(s) /\ Head(inbox[s]) \in TS!Message
      /\ handles \in [TS!Sources -> {NULL, "start", "read"}]
  <2>1. inbox \in [TS!Sources -> Seq(TS!Message)] /\ handles \in [TS!Sources -> {NULL, "start", "read"}]
    BY DEF TS!IInv, TS!Domains
  <2>2. TS!AskingAt(s) /\ inbox[s] # <<>> /\ handles[s] = NULL /\ s \in running
    BY DEF TS!SourceTakes, TS!IInv, TS!Asking
  <2>3. Len(inbox[s]) <= 1 /\ inbox[s] \in Seq(TS!Message)
    BY <2>1, <2>2 DEF TS!AskingAt
  <2>4. Len(inbox[s]) = 1 /\ Head(inbox[s]) \in TS!Message
    <3>1. Len(inbox[s]) \in Nat \ {0}
      BY <2>2, <2>3, EmptySeq
    <3>2. Head(inbox[s]) \in TS!Message
      BY <2>2, <2>3, HeadTailProperties
    <3>3. \A n \in Nat \ {0} : n <= 1 => n = 1
      OBVIOUS
    <3>4. Len(inbox[s]) <= 1
      BY <2>3
    <3>5. Len(inbox[s]) = 1
      BY <3>1, <3>3, <3>4
    <3> QED
      BY <3>2, <3>5
  <2> QED
    BY <2>1, <2>2, <2>4 DEF TS!Asked
<1>2. /\ inbox'[s] = <<>> /\ inbox' \in [TS!Sources -> Seq(TS!Message)]
      /\ \A u \in TS!Sources : u # s => inbox'[u] = inbox[u]
  BY <1>1 DEF TS!SourceTakes
<1>3. /\ handles'[s] \in {NULL, Head(inbox[s]).what}
      /\ handles' \in [TS!Sources -> {NULL, "start", "read"}]
      /\ \A u \in TS!Sources : u # s => handles'[u] = handles[u]
  BY <1>1 DEF TS!SourceTakes, TS!Message
<1>4. \A u \in TS!Sources : u # s => Same(u)
  BY <1>2, <1>3 DEF TS!SourceTakes, Same, TS!writerVars, TS!ownerVars
<1>5. TS!Domains'
  BY <1>2, <1>3
  DEF TS!IInv, TS!Domains, TS!SourceTakes, TS!writerVars, TS!ownerVars, TS!Message
<1>6. TS!AskingAt(s)'
  BY <1>1, <1>2, <1>3
  DEF TS!StartedOnce, TS!AskingAt, TS!Asked, TS!Reading, TS!SourceTakes, TS!writerVars,
      TS!ownerVars
<1> QED
  BY <1>1, <1>4, <1>5, <1>6, SourceStep DEF TS!SourceTakes, TS!IInv, TS!ReadsWhenStarted

(* A handler of the source's looper begins: what it knows.                 *)
LEMMA HandlerKnows ==
  ASSUME TS!StartedOnce, TS!IInv, NEW s \in TS!Sources, NEW what \in {"start", "read"}, TS!Handling(s, what)
  PROVE  /\ TS!Asked(s) /\ inbox[s] = <<>> /\ s \in running /\ s \notin mEOSReceived
         /\ Len(written[s]) = frames[s]
         /\ what = "read" => media[s] = "started"
         /\ handles' \in [TS!Sources -> {NULL, "start", "read"}] /\ handles'[s] = NULL
         /\ \A u \in TS!Sources : u # s => handles'[u] = handles[u]
<1>1. handles \in [TS!Sources -> {NULL, "start", "read"}] /\ handles[s] = what /\ what # NULL
  BY DEF TS!Handling, TS!StartedOnce, TS!IInv, TS!Domains
<1>2. TS!AskingAt(s)
  BY DEF TS!IInv, TS!Asking
<1> QED
  BY <1>1, <1>2 DEF TS!Handling, TS!AskingAt, TS!Asked, TS!Reading

LEMMA StartSourceStep ==
  ASSUME TS!StartedOnce, TS!IInv, NEW s \in TS!Sources, TS!StartSource(s)
  PROVE  TS!IInv'
<1>1. TS!Handling(s, "start")
  BY DEF TS!StartSource
<1>2. media' \in [TS!Sources -> {"new", "started", "stopped"}] /\ media'[s] = "started"
      /\ \A u \in TS!Sources : u # s => media'[u] = media[u]
  BY DEF TS!StartSource, TS!IInv, TS!Domains
<1>3. CASE TS!Post(s, "read") /\ UNCHANGED notes
  <2>1. /\ inbox' \in [TS!Sources -> Seq(TS!Message)]
        /\ \A u \in TS!Sources : u # s => inbox'[u] = inbox[u]
        /\ Len(inbox'[s]) <= 1
        /\ inbox'[s] # <<>> => mID[s] # 0 /\ Head(inbox'[s]).what = "read"
    BY <1>1, <1>3, HandlerKnows, PostStep
  <2>2. \A u \in TS!Sources : u # s => Same(u)
    BY <1>1, <1>2, <2>1, HandlerKnows DEF TS!StartSource, Same, TS!writerVars, TS!ownerVars
  <2>3. TS!Domains'
    BY <1>1, <1>2, <1>3, <2>1, HandlerKnows
    DEF TS!StartSource, TS!IInv, TS!Domains, TS!writerVars, TS!ownerVars, TS!Message
  <2>4. TS!AskingAt(s)'
    BY <1>1, <1>2, <2>1, HandlerKnows
    DEF TS!StartSource, TS!IInv, TS!AskingAt, TS!Asking, TS!Asked, TS!Reading,
        TS!writerVars, TS!ownerVars
  <2> QED
    BY <1>1, <1>3, <2>2, <2>3, <2>4, HandlerKnows, SourceStep
    DEF TS!StartSource, TS!IInv, TS!ReadsWhenStarted
<1>4. CASE TS!Notify(s, "end", 0) /\ UNCHANGED inbox
  <2>1. PICK n \in TS!Note : n.source = s /\ n.what = "end" /\ notes' = Append(notes, n)
    BY <1>4, NotifyStep
  <2>2. \A u \in TS!Sources : u # s => Same(u)
    BY <1>1, <1>2, <1>4, HandlerKnows DEF TS!StartSource, Same, TS!writerVars, TS!ownerVars
  <2>3. TS!Domains'
    BY <1>1, <1>2, <1>4, <2>1, HandlerKnows
    DEF TS!StartSource, TS!IInv, TS!Domains, TS!writerVars, TS!ownerVars
  <2>4. TS!AskingAt(s)'
    BY <1>1, <1>2, <1>4, HandlerKnows
    DEF TS!StartSource, TS!IInv, TS!AskingAt, TS!Asking, TS!Asked, TS!Reading,
        TS!writerVars, TS!ownerVars
  <2>5. TS!Told(n)'
    BY <1>1, <1>4, <2>1, HandlerKnows
    DEF TS!StartSource, TS!Told, TS!Asked, TS!writerVars, TS!ownerVars
  <2> QED
    BY <1>1, <2>1, <2>2, <2>3, <2>4, <2>5, HandlerKnows, SourceStep
    DEF TS!StartSource, TS!IInv, TS!ReadsWhenStarted
<1> QED
  BY <1>3, <1>4 DEF TS!StartSource

(* What every read leaves alone, and that it is not out of turn.           *)
LEMMA ReadsKnow ==
  ASSUME TS!StartedOnce, TS!IInv, NEW s \in TS!Sources, TS!Reads(s)
  PROVE  /\ TS!Handling(s, "read") /\ misused' = {} /\ media' = media /\ media[s] = "started"
         /\ UNCHANGED <<TS!writerVars, TS!ownerVars>>
  BY HandlerKnows DEF TS!Reads, TS!IInv, TS!ReadsWhenStarted

LEMMA ReadEndsStep ==
  ASSUME TS!StartedOnce, TS!IInv, NEW s \in TS!Sources, TS!ReadEnds(s)
  PROVE  TS!IInv'
<1>1. TS!Reads(s) /\ TS!Handling(s, "read")
  BY ReadsKnow DEF TS!ReadEnds
<1>2. PICK n \in TS!Note : n.source = s /\ n.what = "end" /\ notes' = Append(notes, n)
  BY NotifyStep DEF TS!ReadEnds
<1>3. notes' \in Seq(TS!Note)
  BY NotifyStep DEF TS!ReadEnds
<1>4. \A u \in TS!Sources : u # s => Same(u)
  BY <1>1, HandlerKnows, ReadsKnow DEF TS!ReadEnds, Same, TS!writerVars, TS!ownerVars
<1>5. TS!Domains'
  BY <1>1, <1>3, HandlerKnows, ReadsKnow
  DEF TS!ReadEnds, TS!IInv, TS!Domains, TS!writerVars, TS!ownerVars
<1>6. TS!AskingAt(s)'
  BY <1>1, HandlerKnows, ReadsKnow
  DEF TS!ReadEnds, TS!IInv, TS!AskingAt, TS!Asking, TS!Asked, TS!Reading, TS!writerVars,
      TS!ownerVars
<1>7. TS!Told(n)'
  BY <1>1, <1>2, HandlerKnows, ReadsKnow
  DEF TS!ReadEnds, TS!Told, TS!Asked, TS!writerVars, TS!ownerVars
<1> QED
  BY <1>1, <1>2, <1>4, <1>5, <1>6, <1>7, HandlerKnows, ReadsKnow, SourceStep

LEMMA ReadChangesFormatStep ==
  ASSUME TS!StartedOnce, TS!IInv, NEW s \in TS!Sources, TS!ReadChangesFormat(s)
  PROVE  TS!IInv'
<1>1. TS!Reads(s) /\ TS!Handling(s, "read")
  BY ReadsKnow DEF TS!ReadChangesFormat
<1>4. \A u \in TS!Sources : u # s => Same(u)
  BY <1>1, HandlerKnows, ReadsKnow
  DEF TS!ReadChangesFormat, Same, TS!writerVars, TS!ownerVars
<1>5. TS!Domains'
  BY <1>1, HandlerKnows, ReadsKnow
  DEF TS!ReadChangesFormat, TS!IInv, TS!Domains, TS!writerVars, TS!ownerVars
<1>6. TS!AskingAt(s)'
  BY <1>1, HandlerKnows, ReadsKnow
  DEF TS!ReadChangesFormat, TS!IInv, TS!AskingAt, TS!Asking, TS!Asked, TS!Reading,
      TS!writerVars, TS!ownerVars
<1> QED
  BY <1>1, <1>4, <1>5, <1>6, HandlerKnows, ReadsKnow, SourceStep DEF TS!ReadChangesFormat

LEMMA ReadNothingStep ==
  ASSUME TS!StartedOnce, TS!IInv, NEW s \in TS!Sources, TS!ReadNothing(s)
  PROVE  TS!IInv'
<1>1. TS!Reads(s) /\ TS!Handling(s, "read") /\ TS!Post(s, "read")
  BY ReadsKnow DEF TS!ReadNothing
<1>2. /\ inbox' \in [TS!Sources -> Seq(TS!Message)]
      /\ \A u \in TS!Sources : u # s => inbox'[u] = inbox[u]
      /\ Len(inbox'[s]) <= 1
      /\ inbox'[s] # <<>> => mID[s] # 0 /\ Head(inbox'[s]).what = "read"
  BY <1>1, HandlerKnows, PostStep
<1>4. \A u \in TS!Sources : u # s => Same(u)
  BY <1>1, <1>2, HandlerKnows, ReadsKnow
  DEF TS!ReadNothing, Same, TS!writerVars, TS!ownerVars
<1>5. TS!Domains'
  <2>1. handles' \in [TS!Sources -> {NULL, "start", "read"}]
    BY <1>1, HandlerKnows
  <2>2. media' = media /\ UNCHANGED <<TS!writerVars, TS!ownerVars>>
    BY <1>1, ReadsKnow
  <2> QED
    BY <1>2, <2>1, <2>2 DEF TS!ReadNothing, TS!IInv, TS!Domains, TS!writerVars, TS!ownerVars
<1>6. TS!AskingAt(s)'
  BY <1>1, <1>2, HandlerKnows, ReadsKnow
  DEF TS!ReadNothing, TS!IInv, TS!AskingAt, TS!Asking, TS!Asked, TS!Reading, TS!writerVars,
      TS!ownerVars
<1> QED
  BY <1>1, <1>4, <1>5, <1>6, HandlerKnows, ReadsKnow, SourceStep DEF TS!ReadNothing

(* The unit read is in the last buffer, whether it is new or not.          *)
LEMMA ReadFrameStep ==
  ASSUME TS!StartedOnce, TS!IInv, NEW s \in TS!Sources, TS!ReadFrame(s)
  PROVE  TS!IInv'
<1>1. TS!Reads(s) /\ TS!Handling(s, "read") /\ inbox' = inbox
  BY ReadsKnow DEF TS!ReadFrame, TS!AwaitsWriter
<1>2. /\ frames' \in [TS!Sources -> Nat] /\ frames'[s] = frames[s] + 1
      /\ \A u \in TS!Sources : u # s => frames'[u] = frames[u]
  BY DEF TS!ReadFrame, TS!IInv, TS!Domains
<1>3. /\ mBuffer' \in [TS!Sources -> Seq(Nat)] /\ Len(mBuffer'[s]) \in Nat \ {0}
      /\ mBuffer'[s][Len(mBuffer'[s])] = frames'[s]
      /\ \A u \in TS!Sources : u # s => mBuffer'[u] = mBuffer[u]
  <2>1. mBuffer \in [TS!Sources -> Seq(Nat)] /\ mBuffer[s] \in Seq(Nat) /\ frames'[s] \in Nat
    BY <1>2 DEF TS!IInv, TS!Domains
  <2>2. CASE mBuffer' = [mBuffer EXCEPT ![s] = Append(@, frames'[s])]
    <3>1. mBuffer' \in [TS!Sources -> Seq(Nat)] /\ mBuffer'[s] = Append(mBuffer[s], frames'[s])
          /\ \A u \in TS!Sources : u # s => mBuffer'[u] = mBuffer[u]
      BY <2>1, <2>2
    <3>2. Len(mBuffer'[s]) = Len(mBuffer[s]) + 1 /\ mBuffer'[s][Len(mBuffer[s]) + 1] = frames'[s]
          /\ Len(mBuffer[s]) \in Nat
      BY <2>1, <3>1
    <3> QED
      BY <3>1, <3>2
  <2>3. CASE mBuffer[s] # <<>> /\ mBuffer' = [mBuffer EXCEPT ![s][Len(mBuffer[s])] = frames'[s]]
    <3> DEFINE n == Len(mBuffer[s])
               q == [mBuffer[s] EXCEPT ![n] = frames'[s]]
    <3>1. n \in Nat \ {0}
      BY <2>1, <2>3, EmptySeq
    <3>2. q \in Seq(Nat) /\ Len(q) = n /\ q[n] = frames'[s]
      BY <2>1, <3>1
    <3> HIDE DEF q
    <3>3. mBuffer' = [mBuffer EXCEPT ![s] = q]
      BY <2>3 DEF q
    <3> QED
      BY <2>1, <3>1, <3>2, <3>3
  <2> QED
    BY <2>2, <2>3 DEF TS!ReadFrame
<1>4. TS!Notify(s, "buffer", Len(mBuffer'[s]))
  BY DEF TS!ReadFrame
<1>5. PICK b \in Nat : b = Len(mBuffer'[s])
  BY <1>3
<1>6. PICK n \in TS!Note : n.source = s /\ n.what = "buffer" /\ n.buffer = b /\ notes' = Append(notes, n)
  BY <1>4, <1>5, NotifyStep
<1>7. notes' \in Seq(TS!Note)
  BY <1>4, <1>5, NotifyStep
<1>8. \A u \in TS!Sources : u # s => Same(u)
  <2>1. \A u \in TS!Sources : u # s => handles'[u] = handles[u]
    BY <1>1, HandlerKnows
  <2>2. media' = media /\ UNCHANGED <<TS!writerVars, TS!ownerVars>>
    BY <1>1, ReadsKnow
  <2> QED
    BY <1>1, <1>2, <1>3, <2>1, <2>2 DEF Same, TS!writerVars, TS!ownerVars
<1>9. TS!Domains'
  <2>1. handles' \in [TS!Sources -> {NULL, "start", "read"}]
    BY <1>1, HandlerKnows
  <2>2. media' = media /\ UNCHANGED <<TS!writerVars, TS!ownerVars>>
    BY <1>1, ReadsKnow
  <2> QED
    BY <1>1, <1>2, <1>3, <1>7, <2>1, <2>2 DEF TS!IInv, TS!Domains, TS!writerVars, TS!ownerVars
<1>10. TS!AskingAt(s)'
  BY <1>1, <1>2, HandlerKnows, ReadsKnow
  DEF TS!IInv, TS!AskingAt, TS!Asking, TS!Asked, TS!Reading, TS!writerVars, TS!ownerVars
<1>11. TS!Told(n)'
  <2>1. ~TS!Asked(s)' /\ s \notin mEOSReceived' /\ TS!Reading(s)'
    BY <1>1, HandlerKnows, ReadsKnow DEF TS!Asked, TS!Reading, TS!writerVars, TS!ownerVars
  <2>2. Len(written'[s]) + 1 = frames'[s]
    BY <1>1, <1>2, HandlerKnows, ReadsKnow DEF TS!writerVars
  <2>3. n.buffer \in 1 .. Len(mBuffer'[s]) /\ mBuffer'[s][n.buffer] = frames'[s]
    BY <1>3, <1>5, <1>6
  <2> QED
    BY <1>6, <2>1, <2>2, <2>3 DEF TS!Told, TS!Asked, TS!Reading
<1> QED
  BY <1>1, <1>6, <1>8, <1>9, <1>10, <1>11, HandlerKnows, ReadsKnow, SourceStep

----------------------------------------------------------------------------
(* The writer's looper *)

LEMMA WriterTakesStep ==
  ASSUME TS!StartedOnce, TS!IInv, TS!WriterTakes
  PROVE  TS!IInv'
<1>1. notes \in Seq(TS!Note) /\ notes # <<>> /\ NULL \notin TS!Note
  BY DEF TS!WriterTakes, TS!StartedOnce, TS!IInv, TS!Domains
<1>2. /\ Head(notes) \in TS!Note /\ Tail(notes) \in Seq(TS!Note) /\ Len(notes) \in Nat \ {0}
      /\ Len(Tail(notes)) = Len(notes) - 1 /\ Head(notes) = notes[1]
      /\ \A i \in 1 .. Len(Tail(notes)) : Tail(notes)[i] = notes[i + 1]
  BY <1>1, EmptySeq, HeadTailProperties
<1>3. notes' = Tail(notes) /\ handling = NULL /\ handling' \in {NULL, Head(notes)}
  BY DEF TS!WriterTakes
<1>4. TS!Domains'
  BY <1>2, <1>3 DEF TS!WriterTakes, TS!IInv, TS!Domains, TS!sourceVars, TS!ownerVars
<1>5. TS!Asking'
  BY DEF TS!WriterTakes, TS!IInv, TS!Asking, TS!AskingAt, TS!Asked, TS!Reading,
         TS!sourceVars, TS!ownerVars
<1>6. \A n \in TS!Note : TS!Told(n) => TS!Told(n)'
  BY DEF TS!WriterTakes, TS!Told, TS!Asked, TS!Reading, TS!sourceVars, TS!ownerVars
<1>7. \A i \in 1 .. Len(notes) : TS!Told(notes[i])
  BY DEF TS!IInv, TS!Telling
<1>8. \A i \in 1 .. Len(notes') : TS!Told(notes[i])'
  <2> SUFFICES ASSUME NEW i \in 1 .. Len(notes') PROVE TS!Told(notes[i])'
    OBVIOUS
  <2>1. PICK n \in TS!Note : n = notes'[i] /\ n = notes[i + 1] /\ i + 1 \in 1 .. Len(notes)
    BY <1>1, <1>2, <1>3
  <2>2. TS!Told(n)'
    BY <1>6, <1>7, <2>1
  <2> QED
    BY <2>1, <2>2 DEF TS!Told
<1>9. \A i, j \in 1 .. Len(notes') : notes'[i].source = notes'[j].source => i = j
  <2>1. \A i, j \in 1 .. Len(notes) : notes[i].source = notes[j].source => i = j
    BY DEF TS!IInv, TS!Telling
  <2> QED
    BY <1>2, <1>3, <2>1
<1>10. handling' # NULL =>
         TS!Told(handling)' /\ \A i \in 1 .. Len(notes') : notes'[i].source # handling'.source
  <2> SUFFICES ASSUME handling' # NULL
               PROVE  /\ TS!Told(handling)'
                      /\ \A i \in 1 .. Len(notes') : notes'[i].source # handling'.source
    OBVIOUS
  <2>1. PICK n \in TS!Note : n = notes[1] /\ handling' = n
    BY <1>2, <1>3
  <2>2. TS!Told(n)'
    BY <1>2, <1>6, <1>7, <2>1
  <2>3. \A i, j \in 1 .. Len(notes) : notes[i].source = notes[j].source => i = j
    BY DEF TS!IInv, TS!Telling
  <2>4. \A i \in 1 .. Len(notes') : notes'[i].source # n.source
    BY <1>2, <1>3, <2>1, <2>3
  <2> QED
    BY <2>1, <2>2, <2>4 DEF TS!Told
<1>11. TS!Telling'
  BY <1>8, <1>9, <1>10 DEF TS!Telling
<1>12. TS!FreshIsUntouched'
  <2> SUFFICES ASSUME NEW u \in TS!Sources, TS!Fresh(u) PROVE TS!Untouched(u)'
    BY DEF TS!FreshIsUntouched, TS!Fresh, TS!WriterTakes, TS!ownerVars
  <2>1. TS!Untouched(u)
    BY DEF TS!IInv, TS!FreshIsUntouched
  <2>2. \A i \in 1 .. Len(notes) : notes[i].source # u
    BY <2>1 DEF TS!Untouched
  <2>3. (\A i \in 1 .. Len(notes') : notes'[i].source # u) /\ (handling' # NULL => handling'.source # u)
    BY <1>2, <1>3, <2>2
  <2> QED
    BY <2>1, <2>3 DEF TS!Untouched, TS!Asked, TS!WriterTakes, TS!sourceVars, TS!ownerVars
<1>13. TS!Begun' /\ TS!EndsAreCounted' /\ TS!FramesIntact' /\ TS!ReadsWhenStarted' /\ TS!EndsOnce'
  BY DEF TS!WriterTakes, TS!IInv, TS!Begun, TS!EndsAreCounted, TS!FramesIntact,
         TS!ReadsWhenStarted, TS!EndsOnce,
         TS!sourceVars, TS!ownerVars
<1> QED
  BY <1>4, <1>5, <1>11, <1>12, <1>13 DEF TS!IInv

(* A step of the writer that handles what a source tells it.               *)
LEMMA HandledStep ==
  ASSUME TS!IInv, NEW s \in TS!Sources, handling # NULL, handling.source = s, handling' = NULL,
         UNCHANGED <<notes, TS!ownerVars>>, \A u \in TS!Sources : u # s => Same(u),
         TS!Domains', TS!AskingAt(s)'
  PROVE  TS!Asking' /\ TS!Telling' /\ TS!FreshIsUntouched'
<1>0. notes \in Seq(TS!Note) /\ \A n \in TS!Note : n.source \in TS!Sources
  <2>1. \A n \in TS!Note : n.source \in TS!Sources
    BY DEF TS!Note
  <2> QED
    BY <2>1 DEF TS!IInv, TS!Domains
<1>1. TS!Asking'
  BY AskingStays DEF TS!IInv, TS!Asking, TS!ownerVars
<1>2. \A i \in 1 .. Len(notes) : TS!Told(notes[i]) /\ notes[i].source # s
  BY DEF TS!IInv, TS!Telling
<1>3. \A i \in 1 .. Len(notes') : TS!Told(notes[i])'
  <2> SUFFICES ASSUME NEW i \in 1 .. Len(notes') PROVE TS!Told(notes[i])'
    OBVIOUS
  <2>1. PICK n \in TS!Note : n = notes[i]
    BY <1>0
  <2>2. TS!Told(n)'
    BY <1>0, <1>2, <2>1, ToldStays
  <2> QED
    BY <2>1, <2>2 DEF TS!Told
<1>4. TS!Telling'
  BY <1>3 DEF TS!IInv, TS!Telling
<1>5. ASSUME NEW u \in TS!Sources, TS!Fresh(u) PROVE TS!Untouched(u)'
  <2>1. TS!Untouched(u) /\ u # s /\ Same(u)
    BY <1>5 DEF TS!IInv, TS!FreshIsUntouched, TS!Untouched
  <2> QED
    BY <2>1 DEF TS!Untouched, Same, TS!Asked, TS!ownerVars
<1> QED
  BY <1>1, <1>4, <1>5 DEF TS!FreshIsUntouched, TS!Fresh, TS!ownerVars

LEMMA SourcesFinite ==
  ASSUME TS!StartedOnce
  PROVE  IsFiniteSet(TS!Sources) /\ Cardinality(TS!Sources) = NumSources
  BY FS_Interval DEF TS!StartedOnce, TS!Sources

LEMMA SourceEndedStep ==
  ASSUME TS!StartedOnce, TS!IInv, TS!SourceEnded
  PROVE  TS!IInv'
<1>1. PICK n \in TS!Note : n = handling
  BY DEF TS!SourceEnded, TS!IInv, TS!Domains
<1>2. PICK s \in TS!Sources : s = n.source
  BY DEF TS!Note
<1>3. TS!Told(n) /\ n.what = "end"
  BY <1>1 DEF TS!SourceEnded, TS!IInv, TS!Telling
<1>4. /\ s \notin mEOSReceived /\ ~TS!Asked(s) /\ Len(written[s]) = frames[s]
      /\ \A i \in 1 .. Len(notes) : notes[i].source # s
  BY <1>1, <1>2, <1>3 DEF TS!SourceEnded, TS!IInv, TS!Telling, TS!Told
<1>5. /\ mEOSReceived' = mEOSReceived \cup {s} /\ mNumSourcesDone' = mNumSourcesDone + 1
      /\ aborted' = aborted
  BY <1>1, <1>2, <1>4 DEF TS!SourceEnded, TS!OneMore
<1>6. \A u \in TS!Sources : u # s => Same(u)
  BY <1>5 DEF TS!SourceEnded, Same, TS!sourceVars, TS!ownerVars
<1>7. TS!Domains'
  BY <1>5 DEF TS!SourceEnded, TS!IInv, TS!Domains, TS!sourceVars, TS!ownerVars
<1>8. TS!AskingAt(s)'
  BY <1>4, <1>5
  DEF TS!SourceEnded, TS!IInv, TS!Asking, TS!AskingAt, TS!Asked, TS!Reading, TS!sourceVars,
      TS!ownerVars
<1>9. TS!Asking' /\ TS!Telling' /\ TS!FreshIsUntouched'
  BY <1>1, <1>2, <1>6, <1>7, <1>8, HandledStep DEF TS!SourceEnded
<1>10. TS!EndsAreCounted'
  <2>1. IsFiniteSet(mEOSReceived)
    BY SourcesFinite, FS_Subset DEF TS!IInv, TS!Domains
  <2>2. Cardinality(mEOSReceived') = Cardinality(mEOSReceived) + 1
    BY <1>4, <1>5, <2>1, FS_AddElement
  <2> QED
    BY <1>5, <2>2, SameCardinality
    DEF TS!SourceEnded, TS!IInv, TS!Begun, TS!EndsAreCounted, TS!ownerVars
<1>11. TS!Begun' /\ TS!FramesIntact' /\ TS!ReadsWhenStarted' /\ TS!EndsOnce'
  BY <1>5
  DEF TS!SourceEnded, TS!IInv, TS!Begun, TS!FramesIntact, TS!ReadsWhenStarted, TS!EndsOnce,
      TS!sourceVars, TS!ownerVars
<1> QED
  BY <1>7, <1>9, <1>10, <1>11 DEF TS!IInv

LEMMA WriteAccessUnitStep ==
  ASSUME TS!StartedOnce, TS!IInv, TS!WriteAccessUnit
  PROVE  TS!IInv'
<1>1. PICK n \in TS!Note : n = handling
  BY DEF TS!WriteAccessUnit, TS!IInv, TS!Domains
<1>2. PICK s \in TS!Sources : s = n.source
  BY DEF TS!Note
<1>3. TS!Told(n) /\ n.what = "buffer"
  BY <1>1 DEF TS!WriteAccessUnit, TS!IInv, TS!Telling
<1>4. /\ s \notin mEOSReceived /\ inbox[s] = <<>> /\ handles[s] = NULL /\ TS!Reading(s)
      /\ Len(written[s]) + 1 = frames[s] /\ mBuffer[s][n.buffer] = frames[s]
  BY <1>2, <1>3 DEF TS!Told, TS!Asked
<1>5. /\ written' = [written EXCEPT ![s] = Append(@, mBuffer[s][n.buffer])] /\ TS!Post(s, "read")
      /\ UNCHANGED <<mNumSourcesDone, mEOSReceived, aborted, TS!sourceVars, TS!ownerVars, notes>>
      /\ handling' = NULL /\ handling # NULL
  BY <1>1, <1>2 DEF TS!WriteAccessUnit, TS!ReadMore
<1>6. /\ written \in [TS!Sources -> Seq(Nat)] /\ frames[s] \in Nat /\ written[s] \in Seq(Nat)
      /\ Len(written[s]) \in Nat
  BY DEF TS!IInv, TS!Domains
<1>7. /\ written' \in [TS!Sources -> Seq(Nat)] /\ written'[s] = Append(written[s], frames[s])
      /\ \A u \in TS!Sources : u # s => written'[u] = written[u]
  BY <1>4, <1>5, <1>6
<1>8. Len(written'[s]) = frames[s]
  BY <1>4, <1>6, <1>7
<1>9. /\ inbox' \in [TS!Sources -> Seq(TS!Message)]
      /\ \A u \in TS!Sources : u # s => inbox'[u] = inbox[u]
      /\ Len(inbox'[s]) <= 1
      /\ inbox'[s] # <<>> => mID[s] # 0 /\ Head(inbox'[s]).what = "read"
  BY <1>4, <1>5, PostStep
<1>10. \A u \in TS!Sources : u # s => Same(u)
  BY <1>5, <1>7, <1>9 DEF Same, TS!sourceVars, TS!ownerVars
<1>11. TS!Domains'
  BY <1>5, <1>7, <1>9 DEF TS!IInv, TS!Domains, TS!sourceVars, TS!ownerVars
<1>12. TS!AskingAt(s)'
  BY <1>4, <1>5, <1>8, <1>9
  DEF TS!IInv, TS!Asking, TS!AskingAt, TS!Asked, TS!Reading, TS!sourceVars, TS!ownerVars
<1>13. TS!Asking' /\ TS!Telling' /\ TS!FreshIsUntouched'
  BY <1>1, <1>2, <1>5, <1>10, <1>11, <1>12, HandledStep
<1>14. TS!FramesIntact'
  <2> SUFFICES ASSUME NEW u \in TS!Sources
               PROVE  written'[u] = [i \in 1 .. Len(written'[u]) |-> i]
    BY DEF TS!FramesIntact
  <2>1. written[u] = [i \in 1 .. Len(written[u]) |-> i]
    BY DEF TS!IInv, TS!FramesIntact
  <2>2. CASE u # s
    BY <1>7, <2>1, <2>2
  <2>3. CASE u = s
    <3>1. \A i \in 1 .. Len(written'[s]) : written'[s][i] = i
      BY <1>4, <1>6, <1>7, <1>8, <2>1, <2>3
    <3>2. written'[s] \in Seq(Nat)
      BY <1>7
    <3>3. DOMAIN written'[s] = 1 .. Len(written'[s])
      BY <3>2, LenProperties
    <3>4. written'[s] = [i \in DOMAIN written'[s] |-> written'[s][i]]
      BY <3>2, LenProperties
    <3> QED
      BY <2>3, <3>1, <3>3, <3>4
  <2> QED
    BY <2>2, <2>3
<1>15. TS!Begun' /\ TS!EndsAreCounted' /\ TS!ReadsWhenStarted' /\ TS!EndsOnce'
  BY <1>5
  DEF TS!IInv, TS!Begun, TS!EndsAreCounted, TS!ReadsWhenStarted, TS!EndsOnce, TS!sourceVars,
      TS!ownerVars
<1> QED
  BY <1>11, <1>13, <1>14, <1>15 DEF TS!IInv

----------------------------------------------------------------------------
(* The owner *)

(* A call, or a step of one, that leaves the sources and the writer alone. *)
LEMMA OwnerStep ==
  ASSUME TS!IInv, UNCHANGED <<mID, running, starts, TS!writerVars, TS!sourceVars, inbox, notes>>,
         owning' \in [call : {"none", "start", "reset", "free", "freed"}, at : Nat],
         owning'.call # "start",
         mStarted' \/ owning'.call = "reset" => mStarted \/ owning.call \in {"start", "reset"}
  PROVE  TS!IInv'
<1>1. TS!Domains'
  BY DEF TS!IInv, TS!Domains, TS!writerVars, TS!sourceVars
<1>2. TS!Asking' /\ TS!Telling'
  BY DEF TS!IInv, TS!Asking, TS!AskingAt, TS!Telling, TS!Told, TS!Asked, TS!Reading,
         TS!writerVars, TS!sourceVars
<1>3. TS!FreshIsUntouched'
  BY DEF TS!IInv, TS!FreshIsUntouched, TS!Fresh, TS!Untouched, TS!Asked, TS!writerVars,
         TS!sourceVars
<1>4. TS!Begun' /\ TS!EndsAreCounted' /\ TS!FramesIntact' /\ TS!ReadsWhenStarted' /\ TS!EndsOnce'
  BY DEF TS!IInv, TS!Begun, TS!EndsAreCounted, TS!FramesIntact, TS!ReadsWhenStarted,
         TS!EndsOnce, TS!writerVars, TS!sourceVars
<1> QED
  BY <1>1, <1>2, <1>3, <1>4 DEF TS!IInv

LEMMA StartStep ==
  ASSUME TS!StartedOnce, TS!IInv, TS!Start
  PROVE  TS!IInv'
<1>1. starts = 0 /\ starts' = 1 /\ owning' = [call |-> "start", at |-> 1]
  BY DEF TS!Start, TS!Calls, TS!StartedOnce, TS!IInv, TS!Domains
<1>2. \A s \in TS!Sources : TS!Untouched(s)
  BY <1>1 DEF TS!IInv, TS!FreshIsUntouched, TS!Fresh
<1>3. mEOSReceived = {} /\ mNumSourcesDone' = Cardinality(mEOSReceived')
  <2>1. mEOSReceived = {}
    BY <1>2 DEF TS!IInv, TS!Domains, TS!Untouched
  <2> QED
    BY <2>1, FS_EmptySet DEF TS!Start
<1>4. TS!Domains'
  BY <1>1 DEF TS!Start, TS!IInv, TS!Domains, TS!sourceVars
<1>5. TS!Asking' /\ TS!Telling'
  BY DEF TS!Start, TS!IInv, TS!Asking, TS!AskingAt, TS!Telling, TS!Told, TS!Asked,
         TS!Reading, TS!sourceVars
<1>6. TS!FreshIsUntouched'
  BY <1>2 DEF TS!Start, TS!FreshIsUntouched, TS!Untouched, TS!Asked, TS!sourceVars
<1>7. TS!Begun' /\ TS!EndsAreCounted' /\ TS!FramesIntact' /\ TS!ReadsWhenStarted' /\ TS!EndsOnce'
  BY <1>1, <1>3, SameCardinality
  DEF TS!Start, TS!IInv, TS!Begun, TS!EndsAreCounted, TS!FramesIntact, TS!ReadsWhenStarted,
      TS!EndsOnce, TS!sourceVars
<1> QED
  BY <1>4, <1>5, <1>6, <1>7 DEF TS!IInv

LEMMA StartNextStep ==
  ASSUME TS!StartedOnce, TS!IInv, NEW s \in TS!Sources, TS!StartNext(s)
  PROVE  TS!IInv'
<1>0. NumSources \in Nat /\ s \in Nat /\ s > 0
  BY DEF TS!StartedOnce, TS!Sources
<1>1. starts = 1 /\ owning = [call |-> "start", at |-> s] /\ owning' = [call |-> "start", at |-> s + 1]
  BY DEF TS!StartNext, TS!At, TS!NextSource, TS!IInv, TS!Begun
<1>2. TS!Untouched(s)
  BY <1>0, <1>1 DEF TS!IInv, TS!FreshIsUntouched, TS!Fresh
<1>3. /\ mID' = [mID EXCEPT ![s] = 1] /\ running' = running \cup {s}
      /\ inbox' = [inbox EXCEPT ![s] = Append(@, [what |-> "start", target |-> 1])]
      /\ UNCHANGED <<mStarted, starts, TS!writerVars, TS!sourceVars, notes>>
  BY <1>1 DEF TS!StartNext
<1>4. /\ inbox \in [TS!Sources -> Seq(TS!Message)] /\ inbox[s] = <<>> /\ handles[s] = NULL
      /\ mID \in [TS!Sources -> {0, 1}]
  BY <1>2 DEF TS!IInv, TS!Domains, TS!Untouched, TS!Asked
<1>5. /\ inbox' \in [TS!Sources -> Seq(TS!Message)] /\ Len(inbox'[s]) = 1
      /\ Head(inbox'[s]).what = "start" /\ inbox'[s] # <<>>
      /\ \A u \in TS!Sources : u # s => inbox'[u] = inbox[u]
  <2> DEFINE m == [what |-> "start", target |-> 1]
  <2>1. m \in TS!Message /\ m.what = "start"
    BY DEF TS!Message
  <2> HIDE DEF m
  <2>2. Append(<<>>, m) \in Seq(TS!Message) /\ Len(Append(<<>>, m)) = 1 /\ Head(Append(<<>>, m)) = m
        /\ Append(<<>>, m) # <<>>
    BY <2>1
  <2>3. inbox' = [inbox EXCEPT ![s] = Append(<<>>, m)]
    BY <1>3, <1>4 DEF m
  <2> QED
    BY <1>4, <2>1, <2>2, <2>3
<1>6. \A u \in TS!Sources : u # s => Same(u) /\ mID'[u] = mID[u]
  BY <1>3, <1>4, <1>5 DEF Same, TS!writerVars, TS!sourceVars
<1>7. TS!Domains'
  <2>1. TS!Domains
    BY DEF TS!IInv
  <2>2. mID' \in [TS!Sources -> {0, 1}] /\ running' \subseteq TS!Sources
    BY <1>3, <1>4, <2>1 DEF TS!Domains
  <2> QED
    BY <1>0, <1>1, <1>3, <1>5, <2>1, <2>2 DEF TS!Domains, TS!writerVars, TS!sourceVars
<1>8. TS!AskingAt(s)'
  <2>1. s \in running' /\ handles'[s] = NULL /\ s \notin mEOSReceived'
        /\ Len(written'[s]) = frames'[s]
    BY <1>2, <1>3, <1>4 DEF TS!Untouched, TS!writerVars, TS!sourceVars
  <2> QED
    BY <1>5, <2>1 DEF TS!AskingAt, TS!Asked, TS!StartedOnce
<1>9. TS!Asking'
  BY <1>6, <1>8, AskingStays DEF TS!IInv, TS!Asking
<1>10. notes \in Seq(TS!Note) /\ handling \in TS!Note \cup {NULL} /\ \A n \in TS!Note : n.source \in TS!Sources
  <2>1. \A n \in TS!Note : n.source \in TS!Sources
    BY DEF TS!Note
  <2> QED
    BY <2>1 DEF TS!IInv, TS!Domains
<1>11. \A n \in TS!Note : TS!Told(n) /\ n.source # s => TS!Told(n)'
  BY <1>6, <1>10, ToldStays
<1>12. \A i \in 1 .. Len(notes') : TS!Told(notes[i])'
  <2> SUFFICES ASSUME NEW i \in 1 .. Len(notes') PROVE TS!Told(notes[i])'
    OBVIOUS
  <2>1. PICK n \in TS!Note : n = notes[i] /\ n = notes'[i] /\ i \in 1 .. Len(notes)
    BY <1>3, <1>10
  <2>2. TS!Told(n)'
    BY <1>2, <1>11, <2>1 DEF TS!IInv, TS!Telling, TS!Untouched
  <2> QED
    BY <2>1, <2>2 DEF TS!Told
<1>13. handling # NULL => TS!Told(handling)'
  <2> SUFFICES ASSUME handling # NULL PROVE TS!Told(handling)'
    OBVIOUS
  <2>1. PICK n \in TS!Note : n = handling /\ n = handling'
    BY <1>3, <1>10 DEF TS!writerVars
  <2>2. TS!Told(n)'
    BY <1>2, <1>11, <2>1 DEF TS!IInv, TS!Telling, TS!Untouched
  <2> QED
    BY <2>1, <2>2 DEF TS!Told
<1>14. TS!Telling'
  BY <1>3, <1>12, <1>13 DEF TS!IInv, TS!Telling, TS!writerVars
<1>15. TS!FreshIsUntouched'
  <2> SUFFICES ASSUME NEW u \in TS!Sources, TS!Fresh(u)' PROVE TS!Untouched(u)'
    BY DEF TS!FreshIsUntouched
  <2>1. u # s /\ TS!Fresh(u)
    BY <1>0, <1>1, <1>3 DEF TS!Fresh, TS!Sources, TS!StartedOnce
  <2> QED
    BY <1>3, <1>6, <2>1
    DEF TS!IInv, TS!FreshIsUntouched, TS!Untouched, Same, TS!Asked, TS!writerVars
<1>16. TS!Begun' /\ TS!EndsAreCounted' /\ TS!FramesIntact' /\ TS!ReadsWhenStarted' /\ TS!EndsOnce'
  BY <1>0, <1>1, <1>3
  DEF TS!IInv, TS!Begun, TS!EndsAreCounted, TS!FramesIntact, TS!ReadsWhenStarted,
      TS!EndsOnce, TS!writerVars, TS!sourceVars
<1> QED
  BY <1>7, <1>9, <1>14, <1>15, <1>16 DEF TS!IInv

LEMMA UnregisterStep ==
  ASSUME TS!StartedOnce, TS!IInv, NEW s \in TS!Sources, TS!Unregister(s)
  PROVE  TS!IInv'
<1>1. /\ mID' \in [TS!Sources -> {0, 1}] /\ owning.call # "start" /\ starts # 0
      /\ \A u \in TS!Sources : mID'[u] # 0 => mID[u] # 0
  BY DEF TS!Unregister, TS!At, TS!IInv, TS!Domains, TS!FreshIsUntouched, TS!Fresh,
         TS!Untouched
<1>2. TS!Domains'
  BY <1>1 DEF TS!Unregister, TS!IInv, TS!Domains, TS!writerVars, TS!sourceVars
<1>3. TS!Asking' /\ TS!Telling'
  BY <1>1
  DEF TS!Unregister, TS!IInv, TS!Asking, TS!AskingAt, TS!Telling, TS!Told, TS!Asked,
      TS!Reading, TS!writerVars, TS!sourceVars
<1>4. TS!FreshIsUntouched'
  BY <1>1 DEF TS!Unregister, TS!FreshIsUntouched, TS!Fresh
<1>5. TS!Begun' /\ TS!EndsAreCounted' /\ TS!FramesIntact' /\ TS!ReadsWhenStarted' /\ TS!EndsOnce'
  BY DEF TS!Unregister, TS!IInv, TS!Begun, TS!EndsAreCounted, TS!FramesIntact,
         TS!ReadsWhenStarted, TS!EndsOnce, TS!writerVars, TS!sourceVars
<1> QED
  BY <1>2, <1>3, <1>4, <1>5 DEF TS!IInv

(* The looper has stopped: nothing it was asked is read any more.          *)
LEMMA StopNextStep ==
  ASSUME TS!StartedOnce, TS!IInv, NEW s \in TS!Sources, TS!StopNext(s)
  PROVE  TS!IInv'
<1>0. s \in Nat
  BY DEF TS!StartedOnce, TS!Sources
<1>1. /\ owning.call \in {"reset", "free"} /\ owning' = [call |-> owning.call, at |-> s + 1]
      /\ mID[s] = 0 /\ handles[s] = NULL
  BY DEF TS!StopNext, TS!At, TS!NextSource, TS!ThreadLeft
<1>2. running' = running \ {s} /\ media' = [media EXCEPT ![s] = "stopped"]
      /\ UNCHANGED <<mStarted, mID, starts, TS!writerVars, inbox, notes, mBuffer, primed, handles,
                     frames, changed, misused>>
  BY DEF TS!StopNext
<1>3. media' \in [TS!Sources -> {"new", "started", "stopped"}]
      /\ \A u \in TS!Sources : u # s => media'[u] = media[u]
  BY <1>2 DEF TS!IInv, TS!Domains
<1>4. TS!Domains'
  <2>1. TS!Domains
    BY DEF TS!IInv
  <2>2. running' \subseteq TS!Sources /\ owning'.call \in {"reset", "free"} /\ owning'.at \in Nat
    BY <1>0, <1>1, <1>2, <2>1 DEF TS!Domains
  <2> QED
    BY <1>0, <1>1, <1>2, <1>3, <2>1, <2>2 DEF TS!Domains, TS!writerVars
<1>5. \A u \in TS!Sources : TS!Reading(u) => TS!Reading(u)'
  BY <1>2, <1>3 DEF TS!Reading
<1>6. TS!Asking'
  <2> SUFFICES ASSUME NEW u \in TS!Sources PROVE TS!AskingAt(u)'
    BY DEF TS!Asking
  <2> QED
    BY <1>1, <1>2, <1>5 DEF TS!IInv, TS!Asking, TS!AskingAt, TS!Asked, TS!writerVars
<1>7. notes \in Seq(TS!Note) /\ handling \in TS!Note \cup {NULL} /\ \A n \in TS!Note : n.source \in TS!Sources
  <2>1. \A n \in TS!Note : n.source \in TS!Sources
    BY DEF TS!Note
  <2> QED
    BY <2>1 DEF TS!IInv, TS!Domains
<1>8. \A n \in TS!Note : TS!Told(n) => TS!Told(n)'
  BY <1>2, <1>5, <1>7 DEF TS!Told, TS!Asked, TS!writerVars
<1>9. \A i \in 1 .. Len(notes') : TS!Told(notes[i])'
  <2> SUFFICES ASSUME NEW i \in 1 .. Len(notes') PROVE TS!Told(notes[i])'
    OBVIOUS
  <2>1. PICK n \in TS!Note : n = notes[i] /\ n = notes'[i] /\ i \in 1 .. Len(notes)
    BY <1>2, <1>7
  <2>2. TS!Told(n)'
    BY <1>8, <2>1 DEF TS!IInv, TS!Telling
  <2> QED
    BY <2>1, <2>2 DEF TS!Told
<1>10. handling # NULL => TS!Told(handling)'
  <2> SUFFICES ASSUME handling # NULL PROVE TS!Told(handling)'
    OBVIOUS
  <2>1. PICK n \in TS!Note : n = handling /\ n = handling'
    BY <1>2, <1>7 DEF TS!writerVars
  <2>2. TS!Told(n)'
    BY <1>8, <2>1 DEF TS!IInv, TS!Telling
  <2> QED
    BY <2>1, <2>2 DEF TS!Told
<1>11. TS!Telling'
  BY <1>2, <1>9, <1>10 DEF TS!IInv, TS!Telling, TS!writerVars
<1>12. TS!FreshIsUntouched'
  <2>1. starts = 1
    BY DEF TS!StopNext, TS!At, TS!IInv, TS!Begun
  <2> QED
    BY <1>1, <1>2, <2>1 DEF TS!FreshIsUntouched, TS!Fresh
<1>13. TS!Begun' /\ TS!EndsAreCounted' /\ TS!FramesIntact' /\ TS!ReadsWhenStarted' /\ TS!EndsOnce'
  BY <1>1, <1>2
  DEF TS!IInv, TS!Begun, TS!EndsAreCounted, TS!FramesIntact, TS!ReadsWhenStarted,
      TS!EndsOnce, TS!writerVars
<1> QED
  BY <1>4, <1>6, <1>11, <1>12, <1>13 DEF TS!IInv

LEMMA OtherCallsStep ==
  ASSUME TS!StartedOnce, TS!IInv, TS!Reset \/ TS!Free \/ TS!Returns \/ TS!Freed
  PROVE  TS!IInv'
<1>1. owning \in [call : {"none", "start", "reset", "free", "freed"}, at : Nat]
  BY DEF TS!IInv, TS!Domains
<1>2. CASE TS!Reset
  <2>1. owning' = [call |-> "reset", at |-> 1] /\ mStarted
    BY <1>2 DEF TS!Reset, TS!Calls
  <2> QED
    BY <1>2, <2>1, OwnerStep DEF TS!Reset
<1>3. CASE TS!Free
  <2>1. owning' = [call |-> "free", at |-> 1] /\ mStarted' = mStarted
    BY <1>3 DEF TS!Free, TS!Calls
  <2> QED
    BY <1>3, <2>1, OwnerStep DEF TS!Free
<1>4. CASE TS!Returns
  BY <1>4, OwnerStep DEF TS!Returns, TS!Idle
<1>5. CASE TS!Freed
  BY <1>5, OwnerStep DEF TS!Freed
<1> QED
  BY <1>2, <1>3, <1>4, <1>5

LEMMA WriterInit == TS!StartedOnce /\ TS!Init => TS!IInv
<1> SUFFICES ASSUME TS!StartedOnce, TS!Init PROVE TS!IInv
  OBVIOUS
<1>1. TS!Domains
  BY DEF TS!Init, TS!Domains, TS!Idle
<1>2. TS!Asking /\ TS!Telling
  BY DEF TS!Init, TS!Asking, TS!AskingAt, TS!Telling, TS!Asked, TS!Reading
<1>3. TS!FreshIsUntouched
  BY DEF TS!Init, TS!FreshIsUntouched, TS!Untouched, TS!Asked
<1>4. TS!EndsAreCounted /\ TS!Begun
  BY FS_EmptySet, SameCardinality DEF TS!Init, TS!EndsAreCounted, TS!Begun, TS!Idle
<1>5. TS!FramesIntact
  BY DEF TS!Init, TS!FramesIntact
<1>6. TS!ReadsWhenStarted /\ TS!EndsOnce
  BY DEF TS!Init, TS!ReadsWhenStarted, TS!EndsOnce
<1> QED
  BY <1>1, <1>2, <1>3, <1>4, <1>5, <1>6 DEF TS!IInv

LEMMA WriterStep == TS!StartedOnce /\ TS!IInv /\ [TS!Next]_(TS!vars) => TS!IInv'
<1> SUFFICES ASSUME TS!StartedOnce, TS!IInv, [TS!Next]_(TS!vars) PROVE TS!IInv'
  OBVIOUS
<1>1. CASE UNCHANGED TS!vars
  <2>1. TS!Domains' /\ TS!Begun' /\ TS!EndsAreCounted' /\ TS!FramesIntact' /\ TS!ReadsWhenStarted' /\ TS!EndsOnce'
    BY <1>1
    DEF TS!IInv, TS!Domains, TS!Begun, TS!EndsAreCounted, TS!FramesIntact,
        TS!ReadsWhenStarted, TS!EndsOnce,
                TS!vars, TS!sourceVars, TS!writerVars, TS!ownerVars
  <2>2. TS!Asking' /\ TS!Telling'
    BY <1>1 DEF TS!IInv, TS!Asking, TS!AskingAt, TS!Telling, TS!Told, TS!Asked, TS!Reading,
                TS!vars, TS!sourceVars, TS!writerVars, TS!ownerVars
  <2>3. TS!FreshIsUntouched'
    BY <1>1 DEF TS!IInv, TS!FreshIsUntouched, TS!Fresh, TS!Untouched, TS!Asked,
                TS!vars, TS!sourceVars, TS!writerVars, TS!ownerVars
  <2> QED
    BY <2>1, <2>2, <2>3 DEF TS!IInv
<1>2. ASSUME NEW s \in TS!Sources, TS!Source(s) PROVE TS!IInv'
  BY <1>2, SourceTakesStep, StartSourceStep, ReadEndsStep, ReadChangesFormatStep, ReadNothingStep,
     ReadFrameStep DEF TS!Source
<1>3. CASE TS!Writer
  BY <1>3, WriterTakesStep, SourceEndedStep, WriteAccessUnitStep DEF TS!Writer
<1>4. CASE TS!Proceed
  BY <1>4, StartNextStep, UnregisterStep, StopNextStep, OtherCallsStep DEF TS!Proceed
<1>5. CASE TS!Owner
  BY <1>5, StartStep, OtherCallsStep DEF TS!Owner
<1> QED
  BY <1>1, <1>2, <1>3, <1>4, <1>5 DEF TS!Next

(* As many ends as sources are the ends of all of them.                    *)
LEMMA EOSMeansAll == TS!StartedOnce /\ TS!IInv => TS!EOSMeansWritten
<1> SUFFICES ASSUME TS!StartedOnce, TS!IInv, TS!ReachedEOS PROVE mEOSReceived = TS!Sources
  BY DEF TS!IInv, TS!Asking, TS!AskingAt, TS!EOSMeansWritten
<1>1. mEOSReceived \subseteq TS!Sources /\ Cardinality(mEOSReceived) = Cardinality(TS!Sources)
  BY SourcesFinite, SameCardinality
  DEF TS!IInv, TS!Domains, TS!EndsAreCounted, TS!ReachedEOS
<1> QED
  BY <1>1, SourcesFinite, FS_Subset
----------------------------------------------------------------------------
(* The part of MCQueues *)

WriterInvariant == part = "writer" => TS!IInv

LEMMA WriterPart ==
  ASSUME WriterInvariant, [MCNext]_all
  PROVE  WriterInvariant'
<1> SUFFICES ASSUME part' = "writer" PROVE TS!IInv'
  BY DEF WriterInvariant
<1>1. part = "writer" /\ [TS!Next]_(TS!vars)
  BY DEF MCNext, InDispatcher, InPackets, InWriter, all, writerVars, TS!vars, TS!sourceVars,
         TS!writerVars, TS!ownerVars
<1> QED
  BY <1>1, QueuesAssumption, WriterStep DEF WriterInvariant

(* Whatever the sources and the order of reads, writes and notifications,  *)
(* and whenever the writer is reset or freed, every access unit is written *)
(* once, whole and in order, and the end is reported when all are.         *)
THEOREM AccessUnitsAreWritten == MCSpec => []UnitsAreWritten
<1>1. MCInit => WriterInvariant
  BY QueuesAssumption, WriterInit DEF MCInit, WriterInvariant
<1>2. WriterInvariant /\ [MCNext]_all => WriterInvariant'
  BY WriterPart
<1>3. WriterInvariant => UnitsAreWritten
  BY QueuesAssumption, EOSMeansAll DEF WriterInvariant, UnitsAreWritten, TS!IInv
<1> QED
  BY <1>1, <1>2, <1>3, PTL DEF MCSpec
=============================================================================
