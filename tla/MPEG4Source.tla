----------------------------- MODULE MPEG4Source -----------------------------
(***************************************************************************)
(* MPEG4Source (src/libstagefright/MPEG4Extractor.cpp): the readers of the *)
(* tracks of an MP4 file.  Each is started, read, with or without a seek,  *)
(* and stopped, and hands out one buffer at a time, whole samples or the   *)
(* NAL units of a sample one by one.  Sources of the same track share its  *)
(* sample table.  A file in fragments is parsed a fragment at a time.      *)
(*                                                                         *)
(* file.data has, by its offset, each sample that is in the file: the      *)
(* lengths of its NAL units.  The boxes of a fragment are those of the     *)
(* file: "tfhd" and "trun" say in "has" which of their fields are there.   *)
(* file.client is what its client does: how it starts a source, whether it *)
(* starts one again, and the times and modes it seeks with.  The client    *)
(* gives a buffer back before it reads the next sample.                    *)
(***************************************************************************)
EXTENDS MPEG4Extractor

CONSTANTS
  MaxTracks,      \* tracks of a file a client asks about
  MaxSources,     \* sources a client asks for
  MaxSeeks,       \* seeks of all sources together
  Uninitialised   \* what memory holds that nothing has been written to

VARIABLES
  source,         \* the sources, in the order they were made
  seeks           \* the times a client has sought, or stopped a source

vars == <<file, x, source, seeks>>

NoBuffer == <<>>
Nothing == [err |-> "none"]
Plain(track) ==
  [track |-> track, mStarted |-> FALSE, mWantsNALFragments |-> FALSE,
   mCurrentSampleIndex |-> 0, mBuffer |-> NoBuffer, held |-> 0,
   mCurrentMoofOffset |-> x.mMoofOffset, mNextMoofOffset |-> Uninitialised, mCurrentTime |-> 0,
   mLastParsedTrackId |-> Uninitialised, mCurrentSamples |-> <<>>,
   tfhd |-> [base |-> 0, duration |-> Uninitialised, size |-> Uninitialised, offset |-> 0],
   aux |-> [default |-> 0, count |-> 0, sizes |-> <<>>],
   pc |-> "idle", asked |-> <<>>, k |-> 0, sync |-> 0, target |-> -1,
   got |-> Nothing, before |-> <<>>, fault |-> FALSE]

Track(s) == x.tracks[s.track]
Format0(s) == Track(s).meta
mIsAVC(s) == Format0(s).MIMEType = "video/avc"
NalBytes(s) == Format0(s).AVCC
Fragmented == x.mMoofOffset > 0
----------------------------------------------------------------------------
(* parseChunk() of a source: the headers and runs of its own track, and    *)
(* the auxiliary information of any track.  A fragment ends with the media *)
(* that follows it, which is where the next one begins.                    *)

Parsed(s, at, err) == [s |-> s, at |-> at, err |-> err]
On(box, s) == Parsed(s, EndOf(box), "OK")
Off(box, s, err) == Parsed(s, box.at, err)

(* parseTrackFragmentHeader(): a default that is not there stays.          *)
Field(box, name, before) == IF name \in box.has THEN box[name] ELSE before
HeaderBytes(box) == 8 + (IF "base" \in box.has THEN 8 ELSE 0) + 4 * Cardinality(box.has \ {"base"})

parseTrackFragmentHeader(s, box) ==
  LET seen == [s EXCEPT !.mLastParsedTrackId = box.track]
  IN  IF DataSize(box) < 8 \/ box.version # 0 THEN Off(box, s, "INVALID")
      ELSE IF ~HasData(box, 8) THEN Off(box, s, "MALFORMED")
      ELSE IF box.track # Format0(s).TrackID THEN On(box, seen)
      ELSE IF DataSize(box) < HeaderBytes(box) THEN Off(box, seen, "INVALID")
      ELSE IF ~HasData(box, HeaderBytes(box)) THEN Off(box, seen, "MALFORMED")
      ELSE On(box, [seen EXCEPT !.tfhd = [base     |-> Field(box, "base", s.mCurrentMoofOffset),
                                          duration |-> Field(box, "duration", @.duration),
                                          size     |-> Field(box, "sampleSize", @.size),
                                          offset   |-> 0]])

(* parseTrackFragmentRun(): samples where the run says, or after the run   *)
(* before it                                                               *)
RunBytes(box) ==
  8 + 4 * Cardinality(box.has \cap {"offset", "firstFlags"})
    + Len(box.samples) * 4 * Cardinality(box.has \cap {"duration", "size", "flags", "cts"})

RunStart(s, box) == IF "offset" \in box.has THEN s.tfhd.base + box.offset ELSE s.tfhd.offset

Run(s, box) ==
  LET size(i) == IF "size" \in box.has THEN box.samples[i].size ELSE s.tfhd.size
      place == [i \in 0 .. Len(box.samples) |->
                  RunStart(s, box) + FoldLeft(LAMBDA sum, k : sum + size(k), 0, [k \in 1 .. i |-> k])]
  IN  [s EXCEPT !.mCurrentSamples = @ \o
                  [i \in DOMAIN box.samples |->
                     [offset |-> place[i - 1], size |-> size(i), crypto |-> <<>>,
                      duration |-> IF "duration" \in box.has THEN box.samples[i].duration
                                   ELSE s.tfhd.duration]],
                !.tfhd.offset = place[Len(box.samples)]]

parseTrackFragmentRun(s, box) ==
  IF DataSize(box) < 8 \/ box.version # 0 \/ {"firstFlags", "flags"} \subseteq box.has THEN Off(box, s, "INVALID")
  ELSE IF DataSize(box) < RunBytes(box) THEN Off(box, s, "INVALID")
  ELSE IF ~HasData(box, RunBytes(box)) THEN Off(box, s, "MALFORMED")
  ELSE On(box, Run(s, box))

(* saiz and saio: the sizes of the auxiliary information of each sample,   *)
(* and where it begins.  Information longer than the initialisation vector *)
(* says how many bytes are clear and how many encrypted.                   *)
parseSampleAuxiliaryInformationSizes(s, box) ==
  IF ~HasData(box, 9) THEN Off(box, s, "IO")
  ELSE IF box.version # 0 THEN Off(box, s, "UNSUPPORTED")
  ELSE On(box, [s EXCEPT !.aux = [default |-> box.default, count |-> box.count,
                                  sizes |-> IF box.default # 0 THEN @.sizes ELSE box.sizes]])

InfoSize(s, i) == IF s.aux.default # 0 THEN s.aux.default ELSE s.aux.sizes[i]
(* the information of a sample: the vector, of so many bytes, and the      *)
(* subsamples when there is more; by its offset in file.info               *)
Crypto(s, at, i) ==
  [iv |-> at,
   subsamples |-> IF InfoSize(s, i) > Format0(s).CryptoDefaultIVSize
                    THEN file.info[at] ELSE <<[clear |-> 0, encrypted |-> s.mCurrentSamples[i].size]>>]

(* The sizes of the table are trusted for nothing but whether there are    *)
(* subsamples: each sample's information follows the one before.           *)
InfoBytes(s, i, at) ==
  Format0(s).CryptoDefaultIVSize
    + (IF InfoSize(s, i) > Format0(s).CryptoDefaultIVSize THEN 2 + 6 * Len(file.info[at]) ELSE 0)

Encrypt(run, i) ==
  IF i > Len(run.s.mCurrentSamples) THEN [run EXCEPT !.s.fault = TRUE]
  ELSE [s  |-> [run.s EXCEPT !.mCurrentSamples[i].crypto = Append(@, Crypto(run.s, run.at, i))],
        at |-> run.at + InfoBytes(run.s, i, run.at)]

parseSampleAuxiliaryInformationOffsets(s, box) ==
  IF ~HasData(box, 8 + 4) THEN Off(box, s, "IO")
  ELSE IF ~Knows(Format0(s), "CryptoDefaultIVSize") THEN On(box, [s EXCEPT !.fault = TRUE])
  ELSE On(box, FoldLeft(Encrypt, [s |-> s, at |-> s.mCurrentMoofOffset + box.offset],
                        [i \in 1 .. s.aux.count |-> i]).s)

RECURSIVE InsideFragment(_, _), Ended(_), parseFragment(_, _)
InsideFragment(r, stop) ==
  IF r.err # "OK" \/ r.at >= stop THEN r ELSE InsideFragment(parseFragment(r.s, r.at), stop)

(* the chunk after the fragment is parsed to step over it                  *)
Ended(r) ==
  IF r.err # "OK" THEN r
  ELSE LET media == parseFragment(r.s, r.at)
       IN  Parsed([media.s EXCEPT !.mNextMoofOffset = media.at], media.at, "OK")

FragmentBox(s, box) ==
  CASE box.size < box.hdr -> Off(box, s, "MALFORMED")
    [] box.size >= box.hdr /\ box.type = "traf" ->
         InsideFragment(Parsed(s, box.at + box.hdr, "OK"), EndOf(box))
    [] box.size >= box.hdr /\ box.type = "moof" ->
         Ended(InsideFragment(Parsed(s, box.at + box.hdr, "OK"), EndOf(box)))
    [] box.size >= box.hdr /\ box.type = "tfhd" -> parseTrackFragmentHeader(s, box)
    [] box.size >= box.hdr /\ box.type = "trun" ->
         IF s.mLastParsedTrackId = Format0(s).TrackID THEN parseTrackFragmentRun(s, box) ELSE On(box, s)
    [] box.size >= box.hdr /\ box.type = "saiz" -> parseSampleAuxiliaryInformationSizes(s, box)
    [] box.size >= box.hdr /\ box.type = "saio" -> parseSampleAuxiliaryInformationOffsets(s, box)
    [] OTHER -> On(box, s)

parseFragment(s, at) ==
  IF ~Readable(at, 8) THEN Parsed(s, at, "IO") ELSE FragmentBox(s, file.boxes[at])

(* A source made for a track, one started again or sent elsewhere begins   *)
(* with the samples of the fragment there, whatever parsing it comes to.   *)
Fragment(s, at) ==
  parseFragment([s EXCEPT !.mCurrentMoofOffset = at, !.mCurrentSamples = <<>>,
                          !.mCurrentSampleIndex = 0], at).s
----------------------------------------------------------------------------
(* What a read returns: a sample, or a NAL unit of one, or an error.       *)

Exists(id) == id \in DOMAIN source
Idle(id) == Exists(id) /\ source[id].mStarted /\ ~source[id].fault /\ source[id].pc = "idle"
Becomes(id, s) == source' = [source EXCEPT ![id] = s]

(* got, before and asked are what the client knows of its reads.           *)
Before(s) == IF s.got.err = "OK" THEN <<s.got>> ELSE <<>>

Failed(s, err) ==
  [s EXCEPT !.got = [err |-> IF err = "OUT_OF_RANGE" THEN "EOS" ELSE err], !.before = Before(s),
            !.pc = "idle", !.mBuffer = NoBuffer]
Gave(s, buffer, nal, size) ==
  [s EXCEPT !.got = [err |-> "OK", offset |-> buffer.offset, nal |-> nal, size |-> size,
                     time |-> buffer.time, sync |-> buffer.sync, target |-> buffer.target,
                     crypto |-> buffer.crypto],
            !.before = Before(s),
            !.held = @ + 1, !.pc = "idle"]

(* One NAL unit of the buffer, in a clone that has the buffer's meta data. *)
NextNal(s, buffer) ==
  LET size == file.data[buffer.offset][buffer.nal]
      rest == buffer.left - NalBytes(s) - size
  IN  IF buffer.left < NalBytes(s) THEN [s EXCEPT !.fault = TRUE]
      ELSE IF rest < 0 THEN Failed(s, "MALFORMED")
      ELSE [Gave(s, buffer, buffer.nal, size) EXCEPT
              !.mBuffer = IF rest = 0 THEN NoBuffer
                          ELSE <<[buffer EXCEPT !.nal = @ + 1, !.left = rest]>>]

(* All of them, each after a start code of four bytes, the empty ones left *)
(* out; CHECK fails when the buffer has no room for a start code.          *)
StartCode == 4
Joined(s, buffer) ==
  FoldLeft(LAMBDA run, n :
             CASE run.err # "OK" \/ run.src >= buffer.left -> run
               [] OTHER -> IF run.src + NalBytes(s) + n > buffer.left THEN [run EXCEPT !.err = "MALFORMED"]
                           ELSE IF n = 0 THEN [run EXCEPT !.src = @ + NalBytes(s)]
                           ELSE [err |-> IF run.dst + StartCode + n > Format0(s).MaxInputSize
                                           THEN "ABORT" ELSE "OK",
                                 src |-> run.src + NalBytes(s) + n, dst |-> run.dst + StartCode + n],
           [err |-> "OK", src |-> 0, dst |-> 0], file.data[buffer.offset])

WholeSample(s, buffer) ==
  LET joined == Joined(s, buffer)
  IN  CASE joined.err = "OK" -> [Gave(s, buffer, 0, joined.dst) EXCEPT !.mCurrentSampleIndex = @ + 1,
                                                                        !.mBuffer = NoBuffer]
        [] joined.err = "ABORT" -> [s EXCEPT !.fault = TRUE]
        [] OTHER -> Failed(s, joined.err)

(* A new buffer is filled from the file.                                   *)
Fill(s, buffer) ==
  IF ~Readable(buffer.offset, buffer.left) THEN Failed(s, "IO")
  ELSE IF ~mIsAVC(s)
    THEN [Gave(s, buffer, 0, buffer.left) EXCEPT !.mCurrentSampleIndex = @ + 1, !.mBuffer = NoBuffer]
  ELSE IF s.mWantsNALFragments THEN NextNal([s EXCEPT !.mCurrentSampleIndex = @ + 1], buffer)
  ELSE WholeSample(s, buffer)

Micro(s, time) == (time * Second) \div Track(s).timescale
Buffer(s, offset, size, time, sync, crypto) ==
  [offset |-> offset, left |-> size, nal |-> 1, time |-> Micro(s, time), sync |-> sync,
   target |-> s.target, crypto |-> crypto]
----------------------------------------------------------------------------
(* read() of a track that is not in fragments: a seek looks up the sample  *)
(* at the time, the sync sample near it, and the time of the sample, each  *)
(* under the lock of the table, which other sources take in between.       *)

FlagOf(mode) == CASE mode = "PREVIOUS_SYNC" -> "Before" [] mode = "NEXT_SYNC" -> "After" [] OTHER -> "Closest"
(* the sync sample before the closest one, even if the next is nearer      *)
SyncFlag(mode) == IF mode = "CLOSEST" THEN "Before" ELSE FlagOf(mode)

TableOf(id) == x.tracks[source[id].track].table[1]
Keep(id, st) == x' = [x EXCEPT !.tracks[source[id].track].table = <<st>>] /\ UNCHANGED file

Asked(s, asked) == [s EXCEPT !.asked = asked, !.target = -1]

(* the sample found: or the end, or an error                               *)
Found(s, r) ==
  IF r.err # "OK" THEN [Failed(s, r.err) EXCEPT !.mBuffer = s.mBuffer]
  ELSE [s EXCEPT !.pc = "near", !.k = r.k]

FindSample(id) ==
  /\ Idle(id) /\ ~Fragmented /\ CanSeek /\ source[id].held = 0
  /\ seeks < MaxSeeks /\ seeks' = seeks + 1
  /\ \E seek \in file.client.seeks : \E s \in {Asked(source[id], <<seek>>)} :
       \E st \in {buildSampleEntriesTable(TableOf(id))} :
         /\ Becomes(id, Found(s, findSampleAtTime(st, (seek.time * Track(s).timescale) \div Second,
                                                  FlagOf(seek.mode))))
         /\ Keep(id, st)

NearSync(id) ==
  /\ Exists(id) /\ source[id].pc = "near"
  /\ \E r \in {findSyncSampleNear(TableOf(id), source[id].k, SyncFlag(source[id].asked[1].mode))} :
       /\ Becomes(id, CASE r.err = "OK"    -> [source[id] EXCEPT !.pc = "time", !.sync = r.k]
                        [] r.err = "ABORT" -> [source[id] EXCEPT !.pc = "idle", !.fault = TRUE]
                        [] OTHER           -> Found(source[id], r))
       /\ Keep(id, r.st)
  /\ UNCHANGED seeks

Sought(s, r) ==
  IF r.err # "OK" THEN Found(s, r)
  ELSE [s EXCEPT !.pc = "fetch", !.mCurrentSampleIndex = s.sync, !.k = 0, !.sync = 0, !.mBuffer = NoBuffer,
                 !.target = IF s.asked[1].mode = "CLOSEST" THEN Micro(s, r.st.it.time) ELSE -1]

TimeOfSample(id) ==
  /\ Exists(id) /\ source[id].pc = "time"
  /\ \E r \in {seekTo(TableOf(id), source[id].k)} :
       Becomes(id, Sought(source[id], r)) /\ Keep(id, r.st)
  /\ UNCHANGED seeks

Fetched(s, r) ==
  IF r.err # "OK" THEN Failed(s, r.err) ELSE Fill(s, Buffer(s, r.offset, r.size, r.time, r.sync, <<>>))

(* The client reads on, but not after an error; the one buffer of the      *)
(* group has to be back before another sample is read.                     *)
ReadsOn(id) == Idle(id) /\ source[id].got.err \in {"none", "OK"}

Fetch(id) ==
  /\ ~Fragmented
  /\ \/ Exists(id) /\ source[id].pc = "fetch" /\ ~source[id].fault
     \/ ReadsOn(id) /\ source[id].held = 0 /\ source[id].mBuffer = NoBuffer
  /\ \E s \in {IF source[id].pc = "fetch" THEN source[id] ELSE Asked(source[id], <<>>)} :
       \E r \in {getMetaDataForSample(TableOf(id), s.mCurrentSampleIndex)} :
         Becomes(id, Fetched(s, r)) /\ Keep(id, r.st)
  /\ UNCHANGED seeks

(* the next NAL unit of the sample in the buffer                           *)
ReadNal(id) ==
  /\ ~Fragmented /\ ReadsOn(id) /\ source[id].mBuffer # NoBuffer
  /\ Becomes(id, NextNal(Asked(source[id], <<>>), source[id].mBuffer[1]))
  /\ UNCHANGED <<file, x, seeks>>
----------------------------------------------------------------------------
(* fragmentedRead(): a seek goes to a segment of the index, or to the one  *)
(* after it; a fragment that is read leads to the next one.                *)

SegmentAt(seek) ==
  FoldLeft(LAMBDA at, segment :
             IF at.found THEN at
             ELSE LET end  == at.time + segment.durationUs
                      next == [time |-> end, offset |-> at.offset + segment.size, found |-> end > seek.time]
                  IN  IF ~next.found THEN next
                      ELSE IF \/ seek.mode = "NEXT_SYNC"
                              \/ seek.mode = "CLOSEST_SYNC" /\ seek.time - at.time > end - seek.time
                        THEN next
                      ELSE [at EXCEPT !.found = TRUE],
           [time |-> 0, offset |-> x.mMoofOffset, found |-> FALSE], x.mSidxEntries)

SeekFragment(s, seek) ==
  IF x.mSidxEntries = <<>> THEN [s EXCEPT !.mBuffer = NoBuffer]
  ELSE [Fragment(s, SegmentAt(seek).offset) EXCEPT
          !.mCurrentTime = (SegmentAt(seek).time * Track(s).timescale) \div Second,
          !.mBuffer = NoBuffer]

AtEnd(s) == s.mCurrentSampleIndex >= Len(s.mCurrentSamples)
(* The last sample of the fragment is looked at, which must not be empty.  *)
Onward(s) == IF s.mCurrentSamples = <<>> THEN [s EXCEPT !.fault = TRUE] ELSE Fragment(s, s.mNextMoofOffset)

FragmentSample(s) ==
  LET sample == s.mCurrentSamples[s.mCurrentSampleIndex + 1]
  IN  Fill([s EXCEPT !.mCurrentTime = @ + sample.duration],
           Buffer(s, sample.offset, sample.size, s.mCurrentTime, s.mCurrentSampleIndex = 0, sample.crypto))

(* Where the rest of a buffer is read the sample looked at is the next one,*)
(* whose information it gets, and there may be none.                       *)
RestOfSample(s) ==
  IF AtEnd(s) THEN [s EXCEPT !.fault = TRUE]
  ELSE NextNal(s, [s.mBuffer[1] EXCEPT !.time = -1, !.sync = FALSE, !.target = -1,
                                       !.crypto = s.mCurrentSamples[s.mCurrentSampleIndex + 1].crypto])

fragmentedRead(s) ==
  CASE s.fault -> s
    [] ~s.fault /\ s.mBuffer # NoBuffer -> RestOfSample(s)
    [] ~s.fault /\ s.mBuffer = NoBuffer /\ AtEnd(s) -> Failed(s, "EOS")
    [] OTHER -> FragmentSample(s)

ReadFragment(id) ==
  /\ Fragmented /\ ReadsOn(id) /\ (source[id].held = 0 \/ source[id].mBuffer # NoBuffer)
  /\ \E s \in {Asked(source[id], <<>>)} :
       Becomes(id, fragmentedRead(IF s.mBuffer = NoBuffer /\ AtEnd(s) THEN Onward(s) ELSE s))
  /\ UNCHANGED <<file, x, seeks>>

ReadFragmentAt(id) ==
  /\ Fragmented /\ Idle(id) /\ CanSeek /\ source[id].held = 0
  /\ seeks < MaxSeeks /\ seeks' = seeks + 1
  /\ \E seek \in file.client.seeks : \E s \in {SeekFragment(Asked(source[id], <<seek>>), seek)} :
       Becomes(id, fragmentedRead(IF AtEnd(s) THEN Onward(s) ELSE s))
  /\ UNCHANGED <<file, x>>
----------------------------------------------------------------------------
(* getTrack() and the constructor; start(), stop(), and the buffers that   *)
(* come back                                                               *)

NewSource(i) == IF Fragmented THEN Fragment(Plain(i), x.mMoofOffset) ELSE Plain(i)

GetTrack(i) ==
  /\ ~x.reading /\ x.mInitCheck = "OK" /\ ~x.fault
  /\ Len(source) < MaxSources /\ i \in DOMAIN x.tracks
  /\ source' = Append(source, IF Knows(x.tracks[i].meta, "TrackID") THEN NewSource(i)
                              ELSE [Plain(i) EXCEPT !.fault = TRUE])
  /\ UNCHANGED <<file, x, seeks>>

StartSource(id) ==
  /\ Exists(id) /\ ~source[id].mStarted /\ ~source[id].fault
  /\ \E s \in {source[id]}, wants \in file.client.wants :
       Becomes(id, IF Knows(Format0(s), "MaxInputSize")
                     THEN [s EXCEPT !.mStarted = TRUE, !.mWantsNALFragments = wants, !.got = Nothing]
                     ELSE [s EXCEPT !.fault = TRUE])
  /\ UNCHANGED <<file, x, seeks>>

StopSource(id) ==
  /\ Idle(id) /\ source[id].held = 0 /\ file.client.restarts /\ seeks < MaxSeeks /\ seeks' = seeks + 1
  /\ Becomes(id, [source[id] EXCEPT !.mStarted = FALSE, !.mBuffer = NoBuffer, !.mCurrentSampleIndex = 0])
  /\ UNCHANGED <<file, x>>

Release(id) ==
  /\ Exists(id) /\ source[id].held > 0
  /\ Becomes(id, [source[id] EXCEPT !.held = 0])
  /\ UNCHANGED <<file, x, seeks>>
----------------------------------------------------------------------------
Init == ExtractorInit /\ source = <<>> /\ seeks = 0

Next ==
  \/ ReadMetaData /\ UNCHANGED <<source, seeks>>
  \/ \E i \in 1 .. MaxTracks : GetTrackMetaData(i) /\ UNCHANGED <<source, seeks>>
  \/ \E i \in 1 .. MaxTracks : GetTrack(i)
  \/ \E id \in 1 .. MaxSources :
       \/ StartSource(id) \/ StopSource(id)
       \/ FindSample(id) \/ NearSync(id) \/ TimeOfSample(id) \/ Fetch(id) \/ ReadNal(id)
       \/ ReadFragmentAt(id) \/ ReadFragment(id)
       \/ Release(id)

Spec == Init /\ [][Next]_vars
----------------------------------------------------------------------------
(* Properties                                                              *)

(* file.tracks[i].samples are the samples of a track in decoding order:    *)
(* [offset, time, sync, nals, crypto, early], times in microseconds; one   *)
(* that is early has a negative composition offset.                        *)
SamplesOf(s) == file.tracks[s.track].samples
Place(s, offset) == CHOOSE i \in DOMAIN SamplesOf(s) : SamplesOf(s)[i].offset = offset
Bytes(s) == IF mIsAVC(s) THEN StartCode ELSE 0
Filled(nals) == SelectSeq(nals, LAMBDA n : n > 0)

IsSample(s, sample) ==
  /\ s.got.offset = sample.offset
  /\ s.got.time = sample.time /\ s.got.sync = sample.sync /\ s.got.crypto = sample.crypto
  /\ IF s.got.nal > 0 THEN s.got.size = sample.nals[s.got.nal]
     ELSE s.got.size = FoldLeft(LAMBDA sum, n : sum + n + Bytes(s), 0, Filled(sample.nals))

Judged(s) == file.sound /\ ~s.fault /\ s.pc = "idle" /\ s.got.err # "none"

Delivered(s) == IF s.before = <<>> THEN 0 ELSE Place(s, s.before[1].offset)

(* Reading on, a source returns the samples the file has, one after the    *)
(* other and NAL unit after NAL unit, each from its place and with its     *)
(* time, whoever else uses the tables; it ends after the last, and no      *)
(* assertion fails on the way (read(), fragmentedRead()).                  *)
NextNalOf(s) == /\ s.before # <<>> /\ s.got.nal = s.before[1].nal + 1
                /\ IsSample(s, SamplesOf(s)[Delivered(s)])
NextSampleOf(s) == /\ s.got.nal <= 1 /\ Delivered(s) < Len(SamplesOf(s))
                   /\ IsSample(s, SamplesOf(s)[Delivered(s) + 1])

SamplesInOrder ==
  \A id \in DOMAIN source : \A s \in {source[id]} :
    /\ file.sound => ~s.fault
    /\ Judged(s) /\ s.asked = <<>> =>
      IF s.got.err # "OK" THEN s.got.err = "EOS" /\ Delivered(s) = Len(SamplesOf(s))
      ELSE IF s.got.nal > 1 THEN NextNalOf(s) ELSE NextSampleOf(s)

(* Where a seek is to land, by the mode: the sample in time, and the sync  *)
(* sample on the side the mode says of it.  When the sample is looked for, *)
(* an early one has 2^32 units more than its time                          *)
(* (buildSampleEntriesTable(), SampleTable.cpp:506).                       *)
TimeAt(s, i) == SamplesOf(s)[i].time
TimeInTable(s, i) ==
  TimeAt(s, i) + (IF SamplesOf(s)[i].early THEN (Word * Second) \div Track(s).timescale ELSE 0)

Nearest(set, time, At(_)) ==
  CHOOSE i \in set : \A j \in set :
    \/ Abs(At(i), time) < Abs(At(j), time)
    \/ Abs(At(i), time) = Abs(At(j), time) /\ At(i) <= At(j)

InTime(s, seek) ==
  LET all == DOMAIN SamplesOf(s)
      At(i) == TimeInTable(s, i)
      before == {i \in all : At(i) <= seek.time}
      after  == {i \in all : At(i) >= seek.time}
  IN  CASE seek.mode = "PREVIOUS_SYNC" -> Nearest(IF before = {} THEN all ELSE before, seek.time, At)
        [] seek.mode = "NEXT_SYNC" -> IF after = {} THEN 0 ELSE Nearest(after, seek.time, At)
        [] OTHER -> Nearest(all, seek.time, At)

Landing(s, seek) ==
  LET i     == InTime(s, seek)
      At(j) == TimeAt(s, j)
      syncs == {j \in DOMAIN SamplesOf(s) : SamplesOf(s)[j].sync}
  IN  CASE i = 0 -> 0
        [] i # 0 /\ seek.mode \in {"PREVIOUS_SYNC", "CLOSEST"} -> Max({j \in syncs : j <= i})
        [] i # 0 /\ seek.mode = "NEXT_SYNC" ->
             IF \E j \in syncs : j >= i THEN Min({j \in syncs : j >= i}) ELSE 0
        [] OTHER -> Nearest(syncs, IF Fragmented THEN seek.time ELSE TimeAt(s, i), At)

(* The first read after a seek returns that sync sample, or the end where  *)
(* there is none, and tells the time of the sample that was asked for when *)
(* the client wants to go on to it (findSampleAtTime(),                    *)
(* findSyncSampleNear(), the sidx of fragmentedRead()).  An early sample   *)
(* is not found at its time: it counts as the last of the track.           *)
SeeksLand ==
  \A id \in DOMAIN source : \A s \in {source[id]} :
    Judged(s) /\ s.asked # <<>> =>
      IF Landing(s, s.asked[1]) = 0 THEN s.got.err = "EOS"
      ELSE /\ s.got.err = "OK" /\ s.got.nal <= 1
           /\ IsSample(s, SamplesOf(s)[Landing(s, s.asked[1])])
           /\ s.asked[1].mode = "CLOSEST" /\ ~Fragmented =>
                s.got.target = TimeAt(s, InTime(s, s.asked[1]))

(* No CHECK fails and no vector is read past its end (Vector::operator[],  *)
(* src/libutils/include/Vector.h:286).                                     *)
NoAssertionFails == ~x.fault /\ \A id \in DOMAIN source : ~source[id].fault
==============================================================================
