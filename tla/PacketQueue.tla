---------------------------- MODULE PacketQueue ----------------------------
(***************************************************************************)
(* The state an AnotherPacketSource                                        *)
(* (src/libstagefright/mpeg2ts/AnotherPacketSource.cpp) keeps under mLock, *)
(* and each of its methods as a function of it.  An access unit in         *)
(* mBuffers is any record with a timeUs; a discontinuity is a record of    *)
(* its types, a set that is empty for DISCONTINUITY_NONE.  No buffer of    *)
(* the repository carries "format" or "damaged" metadata, so neither is    *)
(* looked for; enable() and isFinished() have no caller and are left out.  *)
(***************************************************************************)
EXTENDS Integers, Sequences, SequencesExt

CONSTANT
  CountModulus      \* 2^w, for the w bits of mQueuedDiscontinuityCount

ASSUME PacketQueueAssumption == CountModulus \in Nat \ {0}

NoFormat == [kind |-> "none"]
NoMeta == [timeUs |-> -1, durationUs |-> -1]
NewSegment == [deque |-> -1, enque |-> -1]

Discontinuity(types) == [discontinuity |-> types]
IsDiscontinuity(b) == "discontinuity" \in DOMAIN b
Larger(a, b) == IF b > a THEN b ELSE a

(* setFormat(): once set, a format is only replaced after it was cleared.  *)
SetFormat(s, format) ==
  IF s.mFormat # NoFormat THEN s
  ELSE [s EXCEPT !.mFormat = format, !.kind = format.kind]

NewSource(format) ==
  SetFormat([mBuffers |-> <<>>, mDiscontinuitySegments |-> <<NewSegment>>,
             mQueuedDiscontinuityCount |-> 0, mEOSResult |-> "OK", mFormat |-> NoFormat,
             kind |-> "none", mLastQueuedTimeUs |-> 0,
             mLatestEnqueuedMeta |-> NoMeta, mLatestDequeuedMeta |-> NoMeta], format)

Plus(n, k) == (n + k) % CountModulus
----------------------------------------------------------------------------
(* Queueing *)

Enqueued(seg, t) ==
  [enque |-> Larger(seg.enque, t), deque |-> IF seg.deque = -1 THEN t ELSE seg.deque]

(* The metadata of the unit with the largest time, with the time between   *)
(* it and its neighbour.                                                   *)
LatestEnqueued(meta, t) ==
  CASE meta = NoMeta -> [timeUs |-> t, durationUs |-> -1]
    [] meta # NoMeta /\ t > meta.timeUs -> [timeUs |-> t, durationUs |-> t - meta.timeUs]
    [] meta # NoMeta /\ t <= meta.timeUs /\ meta.durationUs = -1 ->
         [meta EXCEPT !.durationUs = meta.timeUs - t]
    [] OTHER -> meta

QueueUnit(s, unit) ==
  [s EXCEPT !.mBuffers = Append(@, unit),
            !.mLastQueuedTimeUs = unit.timeUs,
            !.mDiscontinuitySegments[Len(s.mDiscontinuitySegments)] = Enqueued(@, unit.timeUs),
            !.mLatestEnqueuedMeta = LatestEnqueued(@, unit.timeUs)]

(* queueAccessUnit() of a buffer that carries a discontinuity, and the end *)
(* of queueDiscontinuity().                                                *)
QueueMarker(s, marker) ==
  [s EXCEPT !.mBuffers = Append(@, marker), !.mEOSResult = "OK",
            !.mQueuedDiscontinuityCount = Plus(@, 1),
            !.mDiscontinuitySegments = Append(@, NewSegment),
            !.mLastQueuedTimeUs = 0, !.mLatestEnqueuedMeta = NoMeta]

QueueAccessUnit(s, b) == IF IsDiscontinuity(b) THEN QueueMarker(s, b) ELSE QueueUnit(s, b)

(* "Leave only discontinuities in the queue."                              *)
Discarded(s) ==
  [s EXCEPT !.mBuffers = SelectSeq(@, IsDiscontinuity),
            !.mDiscontinuitySegments = [i \in DOMAIN @ |-> NewSegment]]

QueueDiscontinuity(s, types, discard) ==
  LET kept == [(IF discard THEN Discarded(s) ELSE s) EXCEPT
                 !.mEOSResult = "OK", !.mLastQueuedTimeUs = 0, !.mLatestEnqueuedMeta = NoMeta]
  IN  IF types = {} THEN kept ELSE QueueMarker(kept, Discontinuity(types))

SignalEOS(s, result) == [s EXCEPT !.mEOSResult = result]

ClearQueueOnly(s) ==      \* mutant of Cleared: the segments of the cleared queue remain
  [s EXCEPT !.mBuffers = <<>>, !.mEOSResult = "OK", !.mQueuedDiscontinuityCount = 0,
            !.mFormat = NoFormat, !.mLatestEnqueuedMeta = NoMeta]
Cleared(s) ==
  [s EXCEPT !.mBuffers = <<>>, !.mEOSResult = "OK", !.mQueuedDiscontinuityCount = 0,
            !.mDiscontinuitySegments = <<NewSegment>>,
            !.mFormat = NoFormat, !.mLatestEnqueuedMeta = NoMeta]
----------------------------------------------------------------------------
(* Reading.  An entry is taken when there is one; the caller waits while   *)
(* MustWait, and gets mEOSResult otherwise.                                *)

MustWait(s) == s.mEOSResult = "OK" /\ s.mBuffers = <<>>

WasFormatChange(s, types) ==
  \/ s.kind = "audio" /\ "AUDIO_FORMAT" \in types
  \/ s.kind = "video" /\ "VIDEO_FORMAT" \in types

TookDiscontinuity(s) ==
  [s EXCEPT !.mBuffers = Tail(@), !.mDiscontinuitySegments = Tail(@),
            !.mFormat = IF WasFormatChange(s, Head(s.mBuffers).discontinuity) THEN NoFormat ELSE @]

TookUnit(s) ==
  LET t == Head(s.mBuffers).timeUs
  IN  [s EXCEPT !.mBuffers = Tail(@),
                !.mDiscontinuitySegments[1].deque = Larger(@, t),
                !.mLatestDequeuedMeta = [timeUs |-> t, durationUs |-> -1]]

DequeueAccessUnit(s) ==
  IF IsDiscontinuity(Head(s.mBuffers))
    THEN [TookDiscontinuity(s) EXCEPT !.mQueuedDiscontinuityCount = Plus(@, -1)]
    ELSE TookUnit(s)

(* read() does not subtract a discontinuity from the count.                *)
Read(s) == IF IsDiscontinuity(Head(s.mBuffers)) THEN TookDiscontinuity(s) ELSE TookUnit(s)
----------------------------------------------------------------------------
(* What the callers of a source are told *)

(* hasBufferAvailable(), and the finalResult it also returns               *)
HasBufferAvailable(s) == s.mBuffers # <<>>
FinalResult(s) == IF s.mBuffers # <<>> THEN "OK" ELSE s.mEOSResult

BufferedDurationUs(s) ==
  FoldSeq(LAMBDA seg, sum : sum + seg.enque - seg.deque, 0, s.mDiscontinuitySegments)

(* getBufferedDurationUs_l(): from the entries, run by run.                *)
QueuedDurationUs(s) ==
  LET Add(run, b) ==
        IF IsDiscontinuity(b)
          THEN [sum |-> run.sum + run.hi - run.lo, lo |-> -1, hi |-> -1]
          ELSE [run EXCEPT !.lo = IF @ < 0 \/ b.timeUs < @ THEN b.timeUs ELSE @,
                           !.hi = IF @ < 0 \/ b.timeUs > @ THEN b.timeUs ELSE @]
      all == FoldLeft(Add, [sum |-> 0, lo |-> -1, hi |-> -1], s.mBuffers)
  IN  all.sum + all.hi - all.lo

(* getEstimatedDurationUs(): from the two ends, which are access units     *)
(* when no discontinuity is queued.                                        *)
EstimatedDurationUs(s) ==
  CASE s.mBuffers = <<>> -> 0
    [] s.mBuffers # <<>> /\ s.mQueuedDiscontinuityCount > 0 -> QueuedDurationUs(s)
    [] OTHER -> LET diff == Last(s.mBuffers).timeUs - Head(s.mBuffers).timeUs
                IN  IF diff > 0 THEN diff ELSE -diff

(* nextBufferTime(): the caller's CHECK needs an access unit at the head.  *)
NextBufferTime(s) ==
  IF s.mBuffers = <<>>
    THEN [result |-> IF s.mEOSResult # "OK" THEN s.mEOSResult ELSE "WOULD_BLOCK", timeUs |-> 0]
    ELSE [result |-> "OK", timeUs |-> Head(s.mBuffers).timeUs]

(* getMetaAfterLastDequeued(): the first entry that lies delayUs after the *)
(* head, 0 when there is none.                                             *)
MetaAfterLastDequeued(s, delayUs) ==
  LET Add(run, i) ==
        LET b == s.mBuffers[i] IN
        CASE run.at # 0 -> run
          [] run.at = 0 /\ IsDiscontinuity(b) ->
               [run EXCEPT !.sum = @ + run.last - run.first, !.first = -1, !.last = -1]
          [] OTHER ->
               LET first == IF run.first < 0 THEN b.timeUs ELSE run.first
                   last  == Larger(run.last, b.timeUs)
               IN  [run EXCEPT !.first = first, !.last = last,
                               !.at = IF run.sum + last - first >= delayUs THEN i ELSE 0]
  IN  FoldLeft(Add, [at |-> 0, sum |-> 0, first |-> -1, last |-> -1],
               [i \in DOMAIN s.mBuffers |-> i]).at
=============================================================================
