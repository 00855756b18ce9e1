------------------------ MODULE AnotherPacketSource ------------------------
(***************************************************************************)
(* One packet source shared by a parser that queues access units and       *)
(* discontinuities and the readers that block for them                     *)
(* (src/libstagefright/mpeg2ts/AnotherPacketSource.cpp).  mLock makes each *)
(* call one step on the state of PacketQueue, except for the wait on       *)
(* mCondition.                                                             *)
(***************************************************************************)
EXTENDS PacketQueue, FiniteSets

CONSTANTS
  Readers,
  MaxTime,          \* bound: timestamps are in 0 .. MaxTime
  MaxQueue,         \* bound: entries in mBuffers
  MaxCount          \* bound: mQueuedDiscontinuityCount, where it only grows

VARIABLES
  source,      \* the state of PacketQueue
  blocked,     \* readers in a call, before its return
  waiting,     \* those inside mCondition.wait(), not yet woken
  byRead       \* the readers call read(), not dequeueAccessUnit()

vars == <<source, blocked, waiting, byRead>>

Times == 0 .. MaxTime
Video == [kind |-> "video"]
Types == {{}, {"TIME"}, {"VIDEO_FORMAT"}}

Init ==
  /\ source = NewSource(Video)
  /\ blocked = {} /\ waiting = {} /\ byRead \in BOOLEAN

(* mCondition.signal()                                                     *)
Signal ==
  \/ waiting = {} /\ UNCHANGED waiting
  \/ \E r \in waiting : waiting' = waiting \ {r}

Room(n) == Len(source.mBuffers) + n <= MaxQueue
Countable == source.mQueuedDiscontinuityCount < MaxCount
----------------------------------------------------------------------------
(* The parser's side *)

(* A unit, for which the parser sets the format that a reader cleared.     *)
Queue(t) ==
  /\ Room(1)
  /\ source' = QueueAccessUnit(SetFormat(source, Video), [timeUs |-> t])
  /\ Signal
  /\ UNCHANGED <<blocked, byRead>>

QueueAMarker ==
  /\ Room(1) /\ Countable
  /\ source' = QueueAccessUnit(source, Discontinuity({"TIME"}))
  /\ Signal
  /\ UNCHANGED <<blocked, byRead>>

(* DISCONTINUITY_NONE only discards, and wakes nobody.                     *)
Discontinue(types, discard) ==
  /\ source' = QueueDiscontinuity(source, types, discard)
  /\ Len(source'.mBuffers) <= MaxQueue /\ Countable
  /\ IF types = {} THEN UNCHANGED waiting ELSE Signal
  /\ UNCHANGED <<blocked, byRead>>

NoWakeup == UNCHANGED waiting          \* mutant of WakesAtEOS: a forgotten signal
WakesAtEOS == Signal

End ==
  /\ source' = SignalEOS(source, "EOS") /\ WakesAtEOS
  /\ UNCHANGED <<blocked, byRead>>

Clear == source' = Cleared(source) /\ UNCHANGED <<blocked, waiting, byRead>>
----------------------------------------------------------------------------
(* The readers' side *)

Call(r) ==
  /\ r \notin blocked /\ blocked' = blocked \cup {r}
  /\ UNCHANGED <<source, waiting, byRead>>

WaitMore(r) ==
  /\ r \in blocked \ waiting /\ MustWait(source) /\ waiting' = waiting \cup {r}
  /\ UNCHANGED <<source, blocked, byRead>>

WakeSpuriously(r) ==
  /\ r \in waiting /\ waiting' = waiting \ {r}
  /\ UNCHANGED <<source, blocked, byRead>>

Take(r) ==
  /\ r \in blocked \ waiting /\ source.mBuffers # <<>>
  /\ source' = IF byRead THEN Read(source) ELSE DequeueAccessUnit(source)
  /\ blocked' = blocked \ {r}
  /\ UNCHANGED <<waiting, byRead>>

(* Nothing is queued: the call returns mEOSResult.                         *)
ReturnEOS(r) ==
  /\ r \in blocked \ waiting /\ source.mBuffers = <<>> /\ source.mEOSResult # "OK"
  /\ blocked' = blocked \ {r}
  /\ UNCHANGED <<source, waiting, byRead>>
----------------------------------------------------------------------------
Parser ==
  \/ \E t \in Times : Queue(t)
  \/ QueueAMarker \/ End \/ Clear
  \/ \E types \in Types, discard \in BOOLEAN : Discontinue(types, discard)

Reads(r) == WaitMore(r) \/ Take(r) \/ ReturnEOS(r)

Next == Parser \/ \E r \in Readers : Call(r) \/ WakeSpuriously(r) \/ Reads(r)

Spec == Init /\ [][Next]_vars
FairSpec == Spec /\ \A r \in Readers : WF_vars(Reads(r))
----------------------------------------------------------------------------
(* Properties *)

Discontinuities(q) == {i \in DOMAIN q : IsDiscontinuity(q[i])}
Queued == Cardinality(Discontinuities(source.mBuffers))

(* One segment for each run of access units: the queue's discontinuities   *)
(* and the segments stay in step through discards, clears and reads, so    *)
(* that neither end of the list of segments is used when it is empty.      *)
SegmentsMatchQueue == Len(source.mDiscontinuitySegments) = 1 + Queued

(* mQueuedDiscontinuityCount is the number of queued discontinuities, on   *)
(* which getEstimatedDurationUs() relies to read timestamps at both ends;  *)
(* with readers that call read() it errs on the safe side.                 *)
CountMatchesQueue ==
  IF byRead THEN source.mQueuedDiscontinuityCount >= Queued
            ELSE source.mQueuedDiscontinuityCount = Queued

(* The segment of each queued access unit covers its time, whatever was    *)
(* discarded before it; an empty queue has no duration left; and "dequeued *)
(* access units should be a subset of enqueued access units", so that no   *)
(* segment counts a negative duration and the durations of all segments    *)
(* are at least what the queued entries span.                              *)
SegmentOf(i) == 1 + Cardinality(Discontinuities(SubSeq(source.mBuffers, 1, i)))

DurationCoversQueue ==
  LET segments == source.mDiscontinuitySegments IN
  /\ \A i \in DOMAIN source.mBuffers :
       ~IsDiscontinuity(source.mBuffers[i]) =>
         segments[SegmentOf(i)].enque >= source.mBuffers[i].timeUs
  /\ source.mBuffers = <<>> => BufferedDurationUs(source) = 0
  /\ \A i \in DOMAIN segments : segments[i].enque >= segments[i].deque

(* The bookkeeping beside the queue agrees with it, the estimates are of   *)
(* times that are queued, and a format is there for the units queued last. *)
BookkeepingMatches ==
  /\ SegmentsMatchQueue /\ CountMatchesQueue /\ DurationCoversQueue
  /\ EstimatedDurationUs(source) \in 0 .. MaxTime * (1 + Queued)
  /\ MetaAfterLastDequeued(source, 0) = 0 <=> Queued = Len(source.mBuffers)
  /\ source.mLatestEnqueuedMeta.timeUs >= source.mLastQueuedTimeUs
       \/ source.mLatestEnqueuedMeta = NoMeta

(* A blocked reader whose queue has ended, or got an entry, returns if it  *)
(* stays so.                                                               *)
ReaderReturns ==
  \A r \in Readers : []<>(r \notin blocked \/ MustWait(source))
=============================================================================
