------------------------------ MODULE ESQueue ------------------------------
(***************************************************************************)
(* ElementaryStreamQueue (src/libstagefright/mpeg2ts/ESQueue.cpp): the     *)
(* bytes of an elementary stream go in as the payloads of PES packets, and *)
(* come out as access units, framed by what the bytes themselves say.      *)
(*                                                                         *)
(* A run of bytes that the framing never splits is one piece: a record of  *)
(* its code ("data" when it starts nothing), the frame n it belongs to,    *)
(* and the info its header carries.  Bit fields that only describe the     *)
(* format are left out, and so are the modes nothing creates a queue with  *)
(* (METADATA, aligned H264).                                               *)
(***************************************************************************)
EXTENDS PacketQueue

NoUnit == [timeUs |-> -1, isSync |-> FALSE, data |-> <<>>]

(* failed: a CHECK that did not hold ("check"), which ends the process, or *)
(* a loop without an end ("loops").                                        *)
NewQueue(mode) ==
  [mode |-> mode, mBuffer |-> <<>>, mRangeInfos |-> <<>>, mFormat |-> NoFormat,
   mEOSReached |-> FALSE, failed |-> "no"]

ClearQueue(q, clearFormat) ==
  [q EXCEPT !.mBuffer = <<>>, !.mRangeInfos = <<>>, !.mEOSReached = FALSE,
            !.mFormat = IF clearFormat THEN NoFormat ELSE @]

Format(q) ==
  [kind |-> IF q.mode \in {"AAC", "MPEG_AUDIO", "PCM_AUDIO"} THEN "audio" ELSE "video",
   mode |-> q.mode]
WithFormat(q) == [q EXCEPT !.mFormat = IF @ = NoFormat THEN Format(q) ELSE @]

(* What appendData() takes for the start of a frame or of a unit: an ADTS  *)
(* or MPEG audio header that is "seemingly valid", or 00 00 01.            *)
IsStart(mode, piece) ==
  CASE mode = "AAC"        -> piece.code = "adts"
    [] mode = "MPEG_AUDIO" -> piece.code = "mpa"
    [] mode = "PCM_AUDIO"  -> TRUE
    [] OTHER               -> piece.code # "data"

Starts(q) ==
  SelectSeq([i \in DOMAIN q.mBuffer |-> i], LAMBDA i : IsStart(q.mode, q.mBuffer[i]))
----------------------------------------------------------------------------
(* appendData(): the first data of an empty buffer is taken from its first *)
(* start on, the rest as it is.                                            *)

StartOffset(q, data) ==
  IF q.mBuffer # <<>> \/ q.mode = "PCM_AUDIO" THEN 1
  ELSE SelectInSeq(data, LAMBDA piece : IsStart(q.mode, piece))

AppendFails(q, data) == q.mEOSReached \/ StartOffset(q, data) = 0

AppendData(q, data, timeUs) ==
  LET taken == SubSeq(data, StartOffset(q, data), Len(data))
  IN  [q EXCEPT !.mBuffer = @ \o taken,
                !.mRangeInfos = Append(@, [mLength |-> Len(taken), mTimestampUs |-> timeUs])]

(* signalEOS(): an MPEG video picture ends where the next one starts.      *)
TheEnd == [code |-> "picture", n |-> 0, info |-> "end"]

EndQueue(q) ==
  IF q.mEOSReached THEN q
  ELSE [(IF q.mode = "MPEG_VIDEO" THEN AppendData(q, <<TheEnd>>, 0) ELSE q)
          EXCEPT !.mEOSReached = TRUE]
----------------------------------------------------------------------------
(* fetchTimestamp(): the time of the range the bytes start in, with every  *)
(* range they fill removed.                                                *)

Sum(ranges, k) == FoldLeft(LAMBDA sum, r : sum + r.mLength, 0, SubSeq(ranges, 1, k))

RangesAfter(ranges, size) ==
  IF size = 0 THEN ranges
  ELSE LET k == CHOOSE k \in DOMAIN ranges :
                  Sum(ranges, k) >= size /\ \A j \in 1 .. k - 1 : Sum(ranges, j) < size
           left == SubSeq(ranges, k, Len(ranges))
       IN  IF Sum(ranges, k) = size THEN Tail(left)
           ELSE [left EXCEPT ![1].mLength = Sum(ranges, k) - size]

FetchTimestamp(q, size) == IF size = 0 THEN -1 ELSE Head(q.mRangeInfos).mTimestampUs

\* mutant of Consumed: the range of a discarded header is kept
KeepsRanges(q, size) == [q EXCEPT !.mBuffer = SubSeq(@, size + 1, Len(@))]

Consumed(q, size) ==
  [q EXCEPT !.mBuffer = SubSeq(@, size + 1, Len(@)), !.mRangeInfos = RangesAfter(@, size)]

Nothing(q) == [q |-> q, unit |-> NoUnit]
Fails(q, how) == Nothing([q EXCEPT !.failed = how])

(* The unit of the first size pieces; but for AAC, one without a time is   *)
(* dropped.                                                                *)
Taken(q, size, sync) ==
  [q    |-> Consumed(q, size),
   unit |-> [timeUs |-> FetchTimestamp(q, size), isSync |-> sync,
             data |-> SubSeq(q.mBuffer, 1, size)]]

Timed(out) == IF out.unit.timeUs < 0 THEN [out EXCEPT !.unit = NoUnit] ELSE out
Unit(q, size, sync) == Timed(Taken(q, size, sync))
----------------------------------------------------------------------------
(* Audio: the header of a frame says how long it is.                       *)

Whole(q) == Head(q.mBuffer).info <= Len(q.mBuffer)

(* AAC: the time of the range is tested before the frame is looked at.  A  *)
(* head that is no header the code takes stays, and with it all that       *)
(* follows.  From an empty range, or a frame whose length says 0, comes an *)
(* empty unit that consumes nothing, and the caller asks again for ever.   *)
TakesNothing(q) ==
  Head(q.mRangeInfos).mLength = 0 \/ (Head(q.mBuffer).code = "adts" /\ Head(q.mBuffer).info = 0)

DequeueAAC(q) ==
  IF q.mBuffer = <<>> \/ q.mRangeInfos = <<>> THEN Nothing(q)
  ELSE IF Head(q.mRangeInfos).mTimestampUs < 0 THEN Nothing(q)
  ELSE IF TakesNothing(q) THEN Fails(q, "loops")
  ELSE IF Head(q.mBuffer).code # "adts" THEN Nothing(q)
  ELSE IF ~Whole(q) THEN Nothing(WithFormat(q))
  ELSE Taken(WithFormat(q), Head(q.mBuffer).info, TRUE)

(* MPEG audio: CHECK(GetMPEGAudioFrameSize(...)) on whatever is in front.  *)
DequeueMPEGAudio(q) ==
  IF q.mBuffer = <<>> THEN Nothing(q)
  ELSE IF Head(q.mBuffer).code # "mpa" THEN Fails(q, "check")
  ELSE IF ~Whole(q) THEN Nothing(q)
  ELSE Unit(WithFormat(q), Head(q.mBuffer).info, TRUE)

DequeuePCMAudio(q) ==
  IF q.mBuffer = <<>> THEN Nothing(q)
  ELSE IF Head(q.mBuffer).code # "pcm" THEN Nothing(q)
  ELSE IF ~Whole(q) THEN Nothing(WithFormat(q))
  ELSE Unit(WithFormat(q), Head(q.mBuffer).info, TRUE)
----------------------------------------------------------------------------
(* H264: a NAL unit is known when the next one has started, and the access *)
(* unit is known when a NAL unit that cannot be part of it is.             *)

IsSlice(nal) == nal.code \in {"idr", "slice"}

FirstFlush(nals) ==
  SelectInSeq([i \in DOMAIN nals |-> i], LAMBDA i :
    /\ \E j \in 1 .. i - 1 : IsSlice(nals[j])
    /\ \/ IsSlice(nals[i]) /\ nals[i].info = 0
       \/ nals[i].code \in {"delimiter", "sps"})

HasIDR(nals) == \E i \in DOMAIN nals : nals[i].code = "idr"

(* MakeAVCCodecSpecificData() needs both parameter sets in the unit.       *)
WithAVCFormat(out) ==
  LET data == out.unit.data
  IN  IF {"sps", "pps"} \subseteq {data[i].code : i \in DOMAIN data}
        THEN [out EXCEPT !.q = WithFormat(@)] ELSE out

DequeueH264(q) ==
  LET at   == Starts(q)
      nals == [i \in 1 .. Len(at) - 1 |-> q.mBuffer[at[i]]]
      last == FirstFlush(nals)
  IN  IF last = 0 THEN Nothing(q)
      ELSE WithAVCFormat(Unit(q, at[last] - 1, HasIDR(SubSeq(nals, 1, last))))
----------------------------------------------------------------------------
(* MPEG-1 and -2 video: the first sequence header, with its extension, is  *)
(* the format; a unit ends where the second picture starts, with whatever  *)
(* headers came before that.                                               *)

Codes(q, at) == [i \in DOMAIN at |-> q.mBuffer[at[i]].code]

EndsHeader(codes, i) ==
  \/ i > 1 /\ codes[i - 1] = "sequence" /\ codes[i] # "extension"
  \/ i > 2 /\ codes[i - 2] = "sequence" /\ codes[i - 1] = "extension"

TakeSequenceHeader(q) ==
  LET at    == Starts(q)
      codes == Codes(q, at)
      end   == SelectInSeq([i \in DOMAIN at |-> i], LAMBDA i : EndsHeader(codes, i))
      seq   == SelectLastInSeq(codes, LAMBDA code : code = "sequence")
  IN  IF end # 0 THEN Nothing(WithFormat(Consumed(q, at[end] - 1)))
      ELSE IF seq # 0 THEN Nothing(Consumed(q, at[seq] - 1))
      ELSE Nothing(q)

DequeuePicture(q) ==
  LET at       == Starts(q)
      codes    == Codes(q, at)
      pictures == SelectSeq([i \in DOMAIN at |-> i], LAMBDA i : codes[i] = "picture")
      before   == SubSeq(codes, 1, pictures[2] - 1)
      gop      == SelectLastInSeq(before, LAMBDA code : code = "gop")
  IN  IF Len(pictures) < 2 THEN Nothing(q)
      ELSE Unit(q, at[pictures[2]] - 1,
                gop # 0 /\ q.mBuffer[at[gop]].info \in {"linked", "closed"})

DequeueMPEGVideo(q) == IF q.mFormat = NoFormat THEN TakeSequenceHeader(q) ELSE DequeuePicture(q)
----------------------------------------------------------------------------
(* MPEG-4 video: chunk by chunk, as far as the next one has started; from  *)
(* is the first piece not discarded yet.  In the first state a chunk is to *)
(* be discarded before offset has moved past it, and is looked at again.   *)

VopStep(scan, chunk) ==
  CASE chunk.code = "vop" -> [scan EXCEPT !.end = "unit", !.to = chunk.to, !.sync = chunk.info = "intra"]
    [] chunk.code = "gov" -> scan
    [] OTHER              -> [scan EXCEPT !.from = chunk.to + 1]

Expect(scan, seen, then) ==
  IF seen THEN [scan EXCEPT !.state = then] ELSE [scan EXCEPT !.end = "null"]

ScanChunk(scan, chunk) ==
  CASE scan.end # "no" -> scan
    [] scan.end = "no" /\ scan.state = "SKIP_TO_VISUAL_OBJECT_SEQ_START" ->
         IF chunk.code = "visual_sequence" THEN [scan EXCEPT !.state = "EXPECT_VISUAL_OBJECT_START"]
                                           ELSE [scan EXCEPT !.end = "loops"]
    [] scan.end = "no" /\ scan.state = "EXPECT_VISUAL_OBJECT_START" ->
         Expect(scan, chunk.code = "visual_object", "EXPECT_VO_START")
    [] scan.end = "no" /\ scan.state = "EXPECT_VO_START" ->
         Expect(scan, chunk.code = "video_object", "EXPECT_VOL_START")
    [] scan.end = "no" /\ scan.state = "EXPECT_VOL_START" ->
         Expect(scan, chunk.code = "vol", "WAIT_FOR_VOP_START")
    [] scan.end = "no" /\ scan.state = "WAIT_FOR_VOP_START" ->
         IF chunk.code \in {"gov", "vop"}
           THEN VopStep([scan EXCEPT !.from = chunk.at, !.state = "SKIP_TO_VOP_START"], chunk)
           ELSE scan
    [] OTHER -> VopStep(scan, chunk)

Scanned(q, scan) ==
  LET kept == Consumed(IF scan.state = "SKIP_TO_VOP_START" THEN WithFormat(q) ELSE q, scan.from - 1)
  IN  CASE scan.end = "loops" -> Fails(q, "loops")
        [] scan.end = "unit"  -> Unit(kept, scan.to - scan.from + 1, scan.sync)
        [] OTHER              -> Nothing(kept)

DequeueMPEG4Video(q) ==
  LET at     == Starts(q)
      chunks == [i \in 1 .. Len(at) - 1 |->
                   [at |-> at[i], to |-> at[i + 1] - 1,
                    code |-> q.mBuffer[at[i]].code, info |-> q.mBuffer[at[i]].info]]
      first  == [state |-> IF q.mFormat = NoFormat THEN "SKIP_TO_VISUAL_OBJECT_SEQ_START"
                                                   ELSE "SKIP_TO_VOP_START",
                 from |-> 1, to |-> 0, sync |-> FALSE, end |-> "no"]
  IN  Scanned(q, FoldLeft(ScanChunk, first, chunks))
----------------------------------------------------------------------------
Dequeue(q) ==
  CASE q.mode = "H264"        -> DequeueH264(q)
    [] q.mode = "AAC"         -> DequeueAAC(q)
    [] q.mode = "MPEG_VIDEO"  -> DequeueMPEGVideo(q)
    [] q.mode = "MPEG4_VIDEO" -> DequeueMPEG4Video(q)
    [] q.mode = "PCM_AUDIO"   -> DequeuePCMAudio(q)
    [] q.mode = "MPEG_AUDIO"  -> DequeueMPEGAudio(q)
=============================================================================
