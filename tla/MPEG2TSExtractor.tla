-------------------------- MODULE MPEG2TSExtractor --------------------------
(***************************************************************************)
(* MPEG2TSExtractor (src/libstagefright/mpeg2ts/MPEG2TSExtractor.cpp): a   *)
(* file fed packet by packet into an ATSParser, by the constructor until   *)
(* it knows the tracks and their duration, and then by whichever track's   *)
(* read() finds its source empty.  feedMore() runs under mLock, and so     *)
(* does each call on a source; the readers of two tracks interleave        *)
(* between those.  A seek takes many such calls without a lock around      *)
(* them: it is one step here, while no other track is being read.          *)
(***************************************************************************)
EXTENDS ATSParser

CONSTANTS
  Files,              \* [packets, frames, whole]: the transport stream packets, what they
                      \* carry by number, and whether no packet is missing or malformed
  MaxSyncPoints, TrimmedSyncPoints,      \* 327680 and 4096 in the code
  MaxDurations, DurationToleranceUs,     \* 5 and 500000
  SeekTimes, SeekModes,
  MaxSeeks            \* bound: seeks in a behaviour

ASSUME ExtractorAssumption ==
  /\ {MaxSyncPoints, TrimmedSyncPoints, MaxDurations, DurationToleranceUs, MaxSeeks} \subseteq Nat
  /\ TrimmedSyncPoints < MaxSyncPoints /\ SeekTimes \subseteq Nat
  /\ SeekModes \subseteq {"PREVIOUS_SYNC", "NEXT_SYNC", "CLOSEST_SYNC", "CLOSEST"}

Tracks == {1, 2}

VARIABLES
  file,
  x,         \* the extractor: [p, mOffset, mSourceImpls, mSyncPoints, seekTrack]
  phase,     \* of the constructor: "scan", "durations", then "built"
  estimate,  \* its local variables of the second phase, and the duration it sets
  pc,        \* of the read() of each track
  got,       \* what each track's read() returned since the last seek
  sought     \* the last seek: [count, moved], whether it left the place it was at

vars == <<file, x, phase, estimate, pc, got, sought>>

(* What read() may return instead of a unit or a discontinuity             *)
Result(err) == [end |-> err]
AtEnd(t) == got[t] # <<>> /\ "end" \in DOMAIN Last(got[t])

Source(e, t) == e.p.sources[e.mSourceImpls[t]]
WithSource(e, t, s) == [e EXCEPT !.p.sources[e.mSourceImpls[t]] = s]
----------------------------------------------------------------------------
(* feedMore() *)

Keys(points) == SetToSortSeq(DOMAIN points, <)

(* A KeyedVector from times to offsets; when full, it loses the end that   *)
(* is farther from the new time.                                           *)
AddSyncPoint(points, timeUs, offset) ==
  LET all  == (timeUs :> offset) @@ points
      keys == Keys(all)
      size == Len(keys)
      old  == IF timeUs - keys[1] > keys[size] - timeUs
                THEN SubSeq(keys, 1, TrimmedSyncPoints)
                ELSE SubSeq(keys, size - TrimmedSyncPoints + 1, size)
  IN  IF size < MaxSyncPoints THEN all ELSE Restrict(all, DOMAIN all \ ToSet(old))

Fed(e, out) ==
  LET fed   == [e EXCEPT !.p = out.p, !.mOffset = @ + 1]
      track == SelectInSeq(e.mSourceImpls, LAMBDA k : k = out.event.source)
  IN  IF out.event = NoEvent \/ track = 0 THEN [e |-> fed, err |-> out.err]
      ELSE [e |-> [fed EXCEPT !.mSyncPoints[track] =
                     AddSyncPoint(@, out.event.timeUs, out.event.offset)], err |-> out.err]

FeedMore(e) ==
  IF e.mOffset >= Len(file.packets)
    THEN [e |-> [e EXCEPT !.p = SignalParserEOS(@, "EOS")], err |-> "EOS"]
    ELSE Fed(e, FeedTSPacket(e.p, file.packets[e.mOffset + 1], e.mOffset))

EndedBy(out, t) ==
  IF out.err = "OK" THEN out.e ELSE WithSource(out.e, t, SignalEOS(Source(out.e, t), out.err))

(* One round of feedUntilBufferAvailable() for the source of a track       *)
FedFor(e, t) == EndedBy(FeedMore(e), t)

\* mutant of Ready: a source that ended is fed again
HasUnit(e, t) == HasBufferAvailable(Source(e, t))
Ready(e, t) == HasBufferAvailable(Source(e, t)) \/ FinalResult(Source(e, t)) # "OK"

(* n rounds are enough: each consumes a packet, or ends the source.        *)
Rounds(e) == [i \in 1 .. Len(file.packets) - e.mOffset + 1 |-> i]

FeedUntilBufferAvailable(e, t) ==
  FoldLeft(LAMBDA f, i : IF Ready(f, t) THEN f ELSE FedFor(f, t), e, Rounds(e))
----------------------------------------------------------------------------
(* The constructor *)

Init ==
  /\ file \in Files
  /\ x = [p |-> NewParser, mOffset |-> 0, mSourceImpls |-> <<>>, mSyncPoints |-> <<>>, seekTrack |-> 0]
  /\ phase = "scan" /\ estimate = [prev |-> 1, durations |-> <<>>, us |-> -1]
  /\ pc = [t \in Tracks |-> "idle"] /\ got = [t \in Tracks |-> <<>>]
  /\ sought = [count |-> 0, moved |-> FALSE]

Have(e, kind) == \E i \in DOMAIN e.mSourceImpls : e.p.sources[e.mSourceImpls[i]].kind = kind

AddTrack(e, kind) ==
  LET k == GetSource(e.p, kind)
  IN  IF Have(e, kind) \/ k = 0 THEN e
      ELSE [e EXCEPT !.mSourceImpls = Append(@, k), !.mSyncPoints = Append(@, <<>>),
                     !.seekTrack = IF kind = "video" \/ ~Have(e, "video")
                                   THEN Len(e.mSourceImpls) + 1 ELSE @]

(* The loop ends at an error, once both kinds are there, and after a       *)
(* second, which may be over after any packet.                             *)
Scan ==
  /\ phase = "scan"
  /\ \E out \in {FeedMore(x)} :
       LET both == Have(out.e, "audio") /\ Have(out.e, "video")
       IN IF out.err # "OK" \/ both
           THEN x' = out.e /\ phase' = "durations"
           ELSE /\ x' = AddTrack(AddTrack(out.e, "video"), "audio")
                /\ phase' \in {"scan", "durations"}
  /\ UNCHANGED <<file, estimate, pc, got, sought>>

(* A duration from the first and the last sync point so far; the last five *)
(* have to agree to be trusted.                                            *)
Estimated(est, points) ==
  LET keys == Keys(points)
      size == Len(keys)
      us   == (Len(file.packets) * (keys[size] - keys[1])) \div (points[keys[size]] - points[keys[1]])
      all  == Append(est.durations, us)
  IN  IF size <= est.prev THEN est
      ELSE [prev |-> size, us |-> us,
            durations |-> IF Len(all) > MaxDurations THEN Tail(all) ELSE all]

Stable(est, new) ==
  /\ new.prev > est.prev /\ Len(est.durations) = MaxDurations
  /\ Max(ToSet(new.durations)) - Min(ToSet(new.durations)) < DurationToleranceUs

Main(e) == IF Have(e, "video") THEN GetSource(e.p, "video") ELSE GetSource(e.p, "audio")

WithDuration(e, us) ==
  IF us <= 0 THEN e ELSE [e EXCEPT !.p.sources[Main(e)].mFormat = [durationUs |-> us] @@ @]

(* What ends the second loop decides what is known of the duration.        *)
Built(e, est) ==
  LET source == e.p.sources[Main(e)]
      us     == IF source.mEOSResult = "EOS" THEN BufferedDurationUs(source) ELSE est.us
  IN  x' = WithDuration(e, us) /\ phase' = "built" /\ estimate' = [est EXCEPT !.us = us]

Durations ==
  /\ phase = "durations" /\ x.mSourceImpls # <<>>
  /\ \E out \in {FeedMore(x)} :
       LET new == Estimated(estimate, out.e.mSyncPoints[x.seekTrack])
       IN IF out.err # "OK" THEN Built(out.e, estimate)
         ELSE \/ Built(out.e, estimate)               \* the second is over
              \/ /\ ~Stable(estimate, new)
                 /\ x' = out.e /\ estimate' = new /\ UNCHANGED phase
              \/ Stable(estimate, new) /\ Built(out.e, new)
  /\ UNCHANGED <<file, pc, got, sought>>

NoTracks ==
  /\ phase = "durations" /\ x.mSourceImpls = <<>> /\ phase' = "built"
  /\ UNCHANGED <<file, x, estimate, pc, got, sought>>
----------------------------------------------------------------------------
(* seek(): each part is a record [e, err].                                 *)

Go(e) == [e |-> e, err |-> "OK"]
IfOk(out, Then(_)) == IF out.err = "OK" THEN Then(out.e) ELSE out

OverTracks(e, Step(_, _)) ==
  FoldLeft(LAMBDA out, t : IfOk(out, LAMBDA f : Step(f, t)), Go(e),
           [t \in DOMAIN e.mSourceImpls |-> t])

(* queueDiscontinuityForSeek(): the sources drop what they hold, the       *)
(* discontinuity included, and are fed from the new offset.                *)
DropMarkers(e, t) ==
  LET s == Source(e, t)
  IN  IF \E i \in DOMAIN s.mBuffers : ~IsDiscontinuity(s.mBuffers[i])
        THEN [e |-> e, err |-> "CHECK"]
        ELSE Go(WithSource(e, t, FoldLeft(LAMBDA r, b : DequeueAccessUnit(r), s, s.mBuffers)))

Final(f, t) == [e |-> f, err |-> FinalResult(Source(f, t))]
FeedTrack(e, t) == Final(FeedUntilBufferAvailable(e, t), t)

QueueDiscontinuityForSeek(e, anchor) ==
  IfOk(OverTracks([e EXCEPT !.p = SignalDiscontinuity(@, {"TIME"}, anchor)], DropMarkers),
       LAMBDA f : OverTracks(f, FeedTrack))

(* seekBeyond(): forward to a sync point after the last one known; what    *)
(* the sources hold from before it is dropped on the way.                  *)
DropBefore(e, t, timeUs) ==
  LET Drop(s, b) == IF s.mBuffers # <<>> /\ NextBufferTime(s).timeUs < timeUs
                      THEN DequeueAccessUnit(s) ELSE s
      f    == WithSource(e, t, FoldLeft(Drop, Source(e, t), Source(e, t).mBuffers))
      next == NextBufferTime(Source(f, t)).result
  IN  [e |-> f, err |-> IF next = "WOULD_BLOCK" THEN "OK" ELSE next]

LastKey(e) == Max(DOMAIN e.mSyncPoints[e.seekTrack])
Size(e) == Cardinality(DOMAIN e.mSyncPoints[e.seekTrack])

BeyondRound(out, timeUs) ==
  IF out.err # "OK" \/ timeUs <= LastKey(out.e) THEN out
  ELSE [size |-> Size(out.e)] @@
       IfOk(IF Size(out.e) > out.size
              THEN OverTracks(out.e, LAMBDA f, t : DropBefore(f, t, LastKey(out.e)))
              ELSE Go(out.e), FeedMore)

SeekBeyond(e, timeUs) ==
  FoldLeft(LAMBDA out, i : BeyondRound(out, timeUs),
           [e |-> e, err |-> "OK", size |-> Size(e)], Rounds(e))

\* mutant of SyncNow: any unit will do
AnyUnit(s) == TRUE
SyncNow(s) == s.mBuffers[MetaAfterLastDequeued(s, 0)].isSync

(* "Fast-forward to sync frame."                                           *)
ForwardRound(e, t) ==
  IF ~HasBufferAvailable(Source(e, t)) \/ SyncNow(Source(e, t)) THEN e
  ELSE FeedUntilBufferAvailable(WithSource(e, t, DequeueAccessUnit(Source(e, t))), t)

ForwardToSync(e, t) ==
  Go(FoldLeft(LAMBDA f, i : ForwardRound(f, t), FeedUntilBufferAvailable(e, t),
              [i \in 1 .. Len(Source(e, t).mBuffers) + 2 * Len(file.packets) |-> i]))

SeekIndex(keys, timeUs, mode) ==
  LET index == Len(SelectSeq(keys, LAMBDA k : k <= timeUs))      \* keys at or before the time
  IN  IF mode = "NEXT_SYNC" THEN IF index = Len(keys) THEN index ELSE index + 1
      ELSE IF index = 0 THEN 1 ELSE index

MovesTo(e, timeUs, mode) ==
  LET points == e.mSyncPoints[e.seekTrack]
      keys   == Keys(points)
  IN  points[keys[SeekIndex(keys, timeUs, mode)]]

Moves(e, timeUs, mode) == timeUs <= LastKey(e) \/ e.mOffset <= MovesTo(e, timeUs, mode)

SeekTo(e, timeUs, mode, anchor) ==
  IfOk(IfOk(IF Moves(e, timeUs, mode)
              THEN QueueDiscontinuityForSeek([e EXCEPT !.mOffset = MovesTo(e, timeUs, mode)], anchor)
              ELSE Go(e),
            LAMBDA f : IF timeUs > LastKey(e) THEN SeekBeyond(f, timeUs) ELSE Go(f)),
       LAMBDA f : OverTracks(f, ForwardToSync))
----------------------------------------------------------------------------
(* MPEG2TSSource::read(), one track each *)

Open(t) == phase = "built" /\ t \in DOMAIN x.mSourceImpls

Call(t) ==
  /\ Open(t) /\ pc[t] = "idle"
  /\ ~AtEnd(t)                                  \* the caller stops at the end
  /\ pc' = [pc EXCEPT ![t] = "check"]
  /\ UNCHANGED <<file, x, phase, estimate, got, sought>>

(* With a seek in its options, on the track that does seek; a seek that    *)
(* fails is what read() returns.                                           *)
CallSeek(t, timeUs, mode, anchor) ==
  /\ Open(t) /\ t = x.seekTrack /\ \A u \in Tracks : pc[u] = "idle"
  /\ sought.count < MaxSeeks
  /\ LET none == x.mSyncPoints[t] = <<>> IN
     \E out \in {IF none THEN Go(x) ELSE SeekTo(x, timeUs, mode, anchor)} :
         /\ x' = out.e
         /\ pc' = [pc EXCEPT ![t] = IF out.err = "OK" THEN "check" ELSE "idle"]
         /\ got' = IF none THEN got
                   ELSE [u \in Tracks |-> IF out.err = "OK" \/ u # t THEN <<>> ELSE <<Result(out.err)>>]
         /\ sought' = [count |-> sought.count + 1, moved |-> ~none]
  /\ UNCHANGED <<file, phase, estimate>>

(* feedUntilBufferAvailable(), round by round                              *)
Check(t) ==
  /\ pc[t] = "check"
  /\ IF Ready(x, t)
       THEN IF FinalResult(Source(x, t)) = "OK"
              THEN pc' = [pc EXCEPT ![t] = "read"] /\ UNCHANGED got
              ELSE pc' = [pc EXCEPT ![t] = "idle"] /\ got' = [got EXCEPT ![t] = Append(@, Result("EOS"))]
       ELSE pc' = [pc EXCEPT ![t] = "feed"] /\ UNCHANGED got
  /\ UNCHANGED <<file, x, phase, estimate, sought>>

Feed(t) ==
  /\ pc[t] = "feed"
  /\ x' = FedFor(x, t) /\ pc' = [pc EXCEPT ![t] = "check"]
  /\ UNCHANGED <<file, phase, estimate, got, sought>>

Return(t) ==
  /\ pc[t] = "read" /\ Source(x, t).mBuffers # <<>>
  /\ x' = WithSource(x, t, Read(Source(x, t)))
  /\ got' = [got EXCEPT ![t] = Append(@, Head(Source(x, t).mBuffers))]
  /\ pc' = [pc EXCEPT ![t] = "idle"]
  /\ UNCHANGED <<file, phase, estimate, sought>>

(* The extractor is done with when every track was read to its end.        *)
Done ==
  /\ phase = "built" /\ \A t \in Tracks : pc[t] = "idle" /\ (Open(t) => AtEnd(t))
  /\ UNCHANGED vars

Constructor == Scan \/ Durations \/ NoTracks

(* A CHECK that fails ends the process.  In a loop without an end mLock    *)
(* stays held: what the other reader still finds queued is left out here.  *)
Queues(p) ==
  UNION {{Stream(p, i, pid).mQueue : pid \in DOMAIN p.mPrograms[i].mStreams} : i \in DOMAIN p.mPrograms}
    \ {NoQueue}
Stopped == \E q \in Queues(x.p) : q.failed # "no"

Next ==
  \/ /\ ~Stopped
     /\ \/ Constructor
        \/ \E t \in Tracks : Call(t) \/ Check(t) \/ Feed(t) \/ Return(t)
        \/ \E t \in Tracks, timeUs \in SeekTimes, mode \in SeekModes, anchor \in Anchors :
             CallSeek(t, timeUs, mode, anchor)
  \/ Done
  \/ Stopped /\ UNCHANGED vars

Spec == Init /\ [][Next]_vars
----------------------------------------------------------------------------
(* Properties.  Each piece of the file carries the number n of the frame   *)
(* it is part of, 0 for headers that are part of none; frames[n] is        *)
(* [pieces, pts, next, split, alone]: the frame, the PTS of the PES packet *)
(* it starts in, the frame after it in its stream, whether it lies in more *)
(* than one PES packet, and whether it can be decoded by itself.           *)

Units(t) == SelectSeq(got[t], LAMBDA r : "data" \in DOMAIN r)
Media(pieces) == SelectSeq(pieces, LAMBDA piece : piece.n # 0)
FrameOf(unit) == Head(Media(unit.data)).n
TimesOf(n) ==
  LET first == Min({file.frames[m].pts : m \in DOMAIN file.frames})
      us    == ((file.frames[n].pts - first) * 100) \div 9
  IN  {us} \cup {us + a : a \in {b \in Anchors : b >= 0}}

(* Each access unit a reader gets is one frame of the file, all of it and  *)
(* nothing of another, with the time of the PES packet in which it starts, *)
(* and the frames come in order with none left out: however the stream was *)
(* cut into PES packets and packets, whoever fed them, through seeks.      *)
(* Where packets are missing, what is left of the frames is in order, and  *)
(* whole if neither it nor the frame after it was cut between two PES      *)
(* packets: of such a frame the part that came is joined with what is on   *)
(* the other side of the gap.                                              *)
Uncut(n) == n \in DOMAIN file.frames => ~file.frames[n].split

UnitsAreFrames ==
  \A t \in Tracks :
    LET units == Units(t) IN
    /\ \A i \in DOMAIN units :
         LET n == FrameOf(units[i]) IN
         file.whole \/ (Uncut(n) /\ Uncut(file.frames[n].next)) =>
           /\ Media(units[i].data) = file.frames[n].pieces
           /\ units[i].timeUs \in TimesOf(n)
    /\ \A i \in 1 .. Len(units) - 1 :
         LET n == FrameOf(units[i])
             m == FrameOf(units[i + 1])
         IN  IF file.whole THEN m = file.frames[n].next ELSE n < m

(* Until a seek, a track begins with the first frame its queue could tell  *)
(* apart, which for H264 is an IDR picture, and it ends only after the     *)
(* last frame that another one follows.                                    *)
NothingIsSkipped ==
  \A t \in Tracks :
    file.whole /\ ~sought.moved /\ Units(t) # <<>> =>
      /\ FrameOf(Head(Units(t))) \in file.first
      /\ AtEnd(t) => file.frames[FrameOf(Last(Units(t)))].last

(* "Fast-forward to sync frame." (MPEG2TSExtractor.cpp:394): after a seek  *)
(* that found its way, the first unit of every track is one that can be    *)
(* decoded by itself, or the one before such a frame.  Only two kinds of   *)
(* frames are found by the one before them: an MPEG video picture, whose   *)
(* GOP header ends the unit before it, and an IDR picture with neither     *)
(* delimiter nor parameter sets before it, whose first slice is what ends  *)
(* the unit before it.                                                     *)
Foretold(n) ==
  /\ n \in DOMAIN file.frames /\ file.frames[n].alone
  /\ Head(file.frames[n].pieces).code \in {"picture", "idr"}

SeeksLandOnSync ==
  \A t \in Tracks :
    sought.moved /\ Units(t) # <<>> =>
      LET frame == file.frames[FrameOf(Head(Units(t)))]
      IN  frame.alone \/ Foretold(frame.next)

(* The ranges an elementary stream queue remembers are those of the bytes  *)
(* it holds, so that the CHECK in fetchTimestamp() never fails; the        *)
(* continuity of what a stream gathers is judged before it is flushed, so  *)
(* a PES packet starts its buffer.  The CHECK of an MPEG audio header      *)
(* fails only where packets are missing and a frame was cut between two    *)
(* PES packets, and no other fails at all.                                 *)
CutFrame(code) ==
  \E n \in DOMAIN file.frames : file.frames[n].split /\ Head(file.frames[n].pieces).code = code

AccountsBalance ==
  /\ \A i \in DOMAIN x.p.mPrograms : \A pid \in DOMAIN x.p.mPrograms[i].mStreams :
       LET s == Stream(x.p, i, pid) IN
       s.mQueue # NoQueue =>
         /\ Sum(s.mQueue.mRangeInfos, Len(s.mQueue.mRangeInfos)) = Len(s.mQueue.mBuffer)
         /\ s.mQueue.failed = "check" =>
              s.mQueue.mode = "MPEG_AUDIO" /\ ~file.whole /\ CutFrame("mpa")
         /\ file.wellFormed /\ s.mBuffer # <<>> => Head(s.mBuffer).code = "pes"
  /\ \A t \in Tracks : AtEnd(t) => Last(got[t]).end # "CHECK"

(* Each feed on behalf of a track consumes a packet, or leaves the track   *)
(* with something to read or ended, at the end of the file and after an    *)
(* error, so that every read() returns, but for two kinds of streams that  *)
(* make the loop over access units, in whatever call, go on for ever: AAC  *)
(* with a frame whose header gives the length 0, and MPEG-4 video whose    *)
(* beginning is missing.                                                   *)
EmptyFrame(frames) ==
  \E n \in DOMAIN frames : Head(frames[n].pieces).code = "adts" /\ Head(frames[n].pieces).info = 0

FeedsAdvance ==
  [][/\ \A t \in Tracks :
          pc[t] = "feed" /\ pc'[t] = "check" => x'.mOffset > x.mOffset \/ Ready(x', t)
     /\ \A q \in Queues(x'.p) :
          q.failed = "loops" =>
            \/ q.mode = "AAC" /\ EmptyFrame(file.frames)
            \/ q.mode = "MPEG4_VIDEO" /\ ~file.whole]_vars
=============================================================================
