---------------------------- MODULE MPEG4Extractor ----------------------------
(***************************************************************************)
(* MPEG4Extractor (src/libstagefright/MPEG4Extractor.cpp): the boxes of an *)
(* MP4 file, read once, by whichever call comes first, into the tracks,    *)
(* their meta data and sample tables, and the meta data of the file.       *)
(*                                                                         *)
(* A file is [size, boxes, ...]: its length and the boxes by the offset    *)
(* they begin at, each with its type, its size and its header's bytes, and *)
(* the fields the extractor reads.  A box need not end where the file or   *)
(* the box around it does; a negative size is one of 64 bits with which    *)
(* the sum of offset and size wraps.  Seconds have Second of the model's   *)
(* microseconds.  x.fault says that a null track was used or a CHECK       *)
(* failed, x.retried that the last round began again where it had begun.   *)
(***************************************************************************)
EXTENDS SampleTable

CONSTANTS
  Files,          \* a sequence of the files an extractor may be given
  Second          \* microseconds in a second

VARIABLES
  file,           \* the file that is played
  x               \* the extractor's members

Extractor ==
  [reading |-> TRUE, at |-> 0, mInitCheck |-> "NO_INIT", mHasVideo |-> FALSE, mHeaderTimescale |-> 0,
   tracks |-> <<>>, mFileMetaData |-> <<>>, mSidxEntries |-> <<>>, mSidxDuration |-> 0,
   mMoofOffset |-> 0, mPssh |-> 0, comment |-> <<>>, retried |-> FALSE, fault |-> FALSE]

Readable(at, n) == at + n <= file.size
HasData(box, n) == Has(file.size, box, n)
EndOf(box) == box.at + box.size
----------------------------------------------------------------------------
(* Meta data: a function from the keys that are set                        *)

Put(meta, key, value) == (key :> value) @@ meta
PutAll(meta, values) == values @@ meta
Knows(meta, key) == key \in DOMAIN meta

HasTrack(e) == e.tracks # <<>>
Current(e) == e.tracks[Len(e.tracks)]
Meta(e) == Current(e).meta
Fault(e) == [e EXCEPT !.fault = TRUE]

(* mLastTrack->meta, which is used whether or not there is a track         *)
Tell(e, values) ==
  IF HasTrack(e) THEN [e EXCEPT !.tracks[Len(e.tracks)].meta = PutAll(@, values)] ELSE Fault(e)
TellFile(e, key, value) == [e EXCEPT !.mFileMetaData = Put(@, key, value)]

(* What handling a box comes to: the extractor, the offset, the error      *)
Out(e, at, err) == [e |-> e, at |-> at, err |-> err]
Past(box, e) == Out(e, EndOf(box), "OK")
Refuse(box, e, err) == Out(e, box.at, err)
----------------------------------------------------------------------------
(* FourCC2MIME(): a format it does not list fails a CHECK.                 *)

MIME ==
  [mp4a |-> "audio/mp4a-latm", samr |-> "audio/3gpp", sawb |-> "audio/amr-wb", mp3 |-> "audio/mpeg",
   mp4v |-> "video/mp4v-es", s263 |-> "video/3gpp", avc1 |-> "video/avc", jpeg |-> "video/mjpeg",
   MPG2 |-> "video/mpeg2"]
Videos == {"video/mp4v-es", "video/3gpp", "video/avc", "video/mjpeg", "video/mpeg2"}
AudioEntries == {"mp4a", "enca", "samr", "sawb", "mp3"}
VideoEntries == {"mp4v", "encv", "s263", "avc1", "jpeg", "MPG2"}

(* AdjustChannelsAndRate(): AMR is mono, at one rate.                      *)
Adjusted(format, values) ==
  CASE format = "samr" -> [values EXCEPT !.ChannelCount = 1, !.SampleRate = 8000]
    [] format = "sawb" -> [values EXCEPT !.ChannelCount = 1, !.SampleRate = 16000]
    [] OTHER -> values

frma(e, box) ==
  LET amr == Adjusted(box.format, [ChannelCount |-> 0, SampleRate |-> 0])
  IN  IF ~HasData(box, 4) THEN Refuse(box, e, "IO")
      ELSE IF box.format \notin DOMAIN MIME THEN Past(box, Fault(e))
      ELSE Past(box, Tell(e, [MIMEType |-> MIME[box.format]] @@
                             (IF amr.SampleRate # 0 THEN amr ELSE <<>>)))

tenc(e, box) ==
  IF box.size < 32 THEN Refuse(box, e, "MALFORMED")
  ELSE IF ~HasData(box, 24) THEN Refuse(box, e, "IO")
  ELSE IF box.algorithm > 1 \/ box.iv \notin {0, 8, 16} \/ (box.algorithm = 0 <=> box.iv # 0)
    THEN Refuse(box, e, "MALFORMED")
  ELSE Past(box, Tell(e, [CryptoMode |-> box.algorithm, CryptoDefaultIVSize |-> box.iv]))

tkhd(e, box) ==
  IF DataSize(box) < 4 THEN Refuse(box, e, "MALFORMED")
  ELSE IF ~HasData(box, 1) THEN Refuse(box, e, "IO")
  ELSE IF DataSize(box) # (IF box.version = 1 THEN 96 ELSE 84) THEN Refuse(box, e, "MALFORMED")
  ELSE IF ~HasData(box, DataSize(box)) THEN Refuse(box, e, "IO")
  ELSE IF box.version \notin {0, 1} THEN Refuse(box, e, "UNSUPPORTED")
  ELSE Past(box, Tell(e, [TrackID |-> box.id, DisplayWidth |-> box.width, DisplayHeight |-> box.height] @@
                         (IF box.degrees # 0 THEN [Rotation |-> box.degrees] ELSE <<>>)))

pssh(e, box) ==
  IF ~HasData(box, 24) THEN Refuse(box, e, "IO")
  ELSE IF box.length + 20 > box.size THEN Refuse(box, e, "MALFORMED")
  ELSE IF ~HasData(box, 24 + box.length) THEN Refuse(box, e, "IO")
  ELSE Past(box, [e EXCEPT !.mPssh = @ + 20 + box.length])

(* A duration of all ones is not known and counts as 0 when it has 32      *)
(* bits; one of 64 bits is taken as -1.  Quotients are cut towards zero.   *)
Unknown == -1
Lasts(box) ==
  LET n == IF box.version = 0 /\ box.duration = Unknown THEN 0 ELSE box.duration
  IN  IF n < 0 THEN -((-n * Second) \div box.timescale) ELSE (n * Second) \div box.timescale
mdhd(e, box) ==
  LET told == [Duration |-> Lasts(box), MediaLanguage |-> box.language]
  IN  IF DataSize(box) < 4 THEN Refuse(box, e, "MALFORMED")
      ELSE IF ~HasData(box, 1) \/ box.version \notin {0, 1} THEN Refuse(box, e, "IO")
      ELSE IF ~HasData(box, IF box.version = 1 THEN 34 ELSE 22) THEN Refuse(box, e, "IO")
      ELSE IF ~HasTrack(e) \/ box.timescale = 0 THEN Past(box, Fault(e))
      ELSE Past(box, Tell([e EXCEPT !.tracks[Len(e.tracks)].timescale = box.timescale], told))

(* elst: an edit counts when it is the only one and the duration and the   *)
(* rate of its track are known by then.  It tells of a delay; the padding  *)
(* is computed and not set.                                                *)
Scaled(time, e) == (time * Second + e.mHeaderTimescale \div 2) \div e.mHeaderTimescale

Edited(e, box) ==
  Tell(e, [EncoderDelay |-> (Scaled(box.mediaTime, e) * Meta(e).SampleRate + Second \div 2) \div Second])

elst(e, box) ==
  IF ~HasData(box, 8) THEN Refuse(box, e, "IO")
  ELSE IF box.count # 1 \/ e.mHeaderTimescale = 0 THEN Past(box, e)
  ELSE IF box.version \notin {0, 1} \/ ~HasData(box, IF box.version = 1 THEN 24 ELSE 16) THEN Refuse(box, e, "IO")
  ELSE IF ~HasTrack(e) THEN Past(box, Fault(e))
  ELSE IF Knows(Meta(e), "Duration") /\ Knows(Meta(e), "SampleRate") THEN Past(box, Edited(e, box))
  ELSE Past(box, e)

mvhd(e, box) ==
  IF DataSize(box) < 24 THEN Refuse(box, e, "MALFORMED")
  ELSE IF ~HasData(box, 24) THEN Refuse(box, e, "IO")
  ELSE IF box.version \notin {0, 1} THEN Refuse(box, e, "MALFORMED")
  ELSE Past(box, TellFile([e EXCEPT !.mHeaderTimescale = box.timescale], "Date", box.created))

hdlr(e, box) ==
  IF ~HasData(box, 12) THEN Refuse(box, e, "IO")
  ELSE IF box.handler \in {"text", "sbtl"} THEN Past(box, Tell(e, [MIMEType |-> "text/3gpp-tt"]))
  ELSE Past(box, e)
----------------------------------------------------------------------------
(* The tables of the track                                                 *)

Table(e) == Current(e).table[1]
HasTable(e) == HasTrack(e) /\ Current(e).table # <<>>
WithTable(e, st) == [e EXCEPT !.tracks[Len(e.tracks)].table = <<st>>]

Tabled(e, box, r) ==
  IF r.err # "OK" THEN Refuse(box, WithTable(e, r.st), r.err) ELSE Past(box, WithTable(e, r.st))

table(e, box) ==
  IF ~HasTable(e) THEN Past(box, Fault(e))
  ELSE Tabled(e, box,
         CASE box.type \in {"stco", "co64"} -> setChunkOffsetParams(Table(e), box)
           [] box.type = "stsc" -> setSampleToChunkParams(Table(e), box)
           [] box.type = "stts" -> setTimeToSampleParams(Table(e), box)
           [] box.type = "ctts" -> setCompositionTimeToSampleParams(Table(e), box)
           [] box.type = "stss" -> setSyncSampleParams(Table(e), box)
           [] box.type \in {"stsz", "stz2"} -> setSampleSizeParams(Table(e), box))

(* stsz also says how large a buffer must be, a NAL unit growing by two    *)
(* bytes, ten of them in a sample, and how many frames a second has.       *)
Macroblocks(n) == (n + 15) \div 16
Guess(meta) ==
  LET known  == Knows(meta, "Width") /\ Knows(meta, "Height")
      width  == IF known THEN meta.Width ELSE 1920
      height == IF known THEN meta.Height ELSE 1080
  IN  IF meta.MIMEType = "video/avc" THEN Macroblocks(width) * Macroblocks(height) * 192
      ELSE (width * height * 3) \div 2

MaxInput(meta, most) == [MaxInputSize |-> IF most # 0 THEN most + 20 ELSE Guess(meta)]

FrameRate(e) ==
  LET meta == Meta(e)
  IN  IF meta.MIMEType \notin Videos \/ ~Knows(meta, "Duration") \/ meta.Duration <= 0 THEN <<>>
      ELSE [FrameRate |-> (NumSamples(Table(e)) * Second + meta.Duration \div 2) \div meta.Duration]

Sized(e, box, most) ==
  IF most.err # "OK" THEN Refuse(box, e, most.err)
  ELSE Past(box, Tell(e, MaxInput(Meta(e), most.size) @@ FrameRate(e)))

sizes(e, box) ==
  LET told == table(e, box)
  IN  IF told.err # "OK" \/ told.e.fault THEN told ELSE Sized(told.e, box, getMaxSampleSize(Table(told.e)))
----------------------------------------------------------------------------
(* Codec configuration: updateAudioTrackInfoFromESDS_MPEG4Audio() and the  *)
(* ESDS it reads, whose descriptors are [whole, oti, csd, aot, index, rate,*)
(* channels, ext]: the object type, the bytes of the specific information, *)
(* and the fields of those bytes; an index of 15 goes with a rate.         *)

Rates == <<96000, 88200, 64000, 48000, 44100, 32000, 24000, 22050, 16000, 12000, 11025, 8000, 7350>>
SBR == {5, 29}

SpecificError(esds) ==
  CASE esds.csd < 2 -> "MALFORMED"
    [] esds.csd >= 2 /\ esds.index = 15 /\ esds.csd < 5 -> "MALFORMED"
    [] esds.csd >= 2 /\ esds.index \in {13, 14} -> "MALFORMED"
    [] esds.csd >= 2 /\ esds.aot \in SBR /\ esds.ext \in {13, 14} -> "MALFORMED"
    [] esds.csd >= 2 /\ esds.aot \in SBR /\ esds.ext = 15 /\ esds.csd < 8 -> "MALFORMED"
    [] OTHER -> "OK"

AudioSpecific(esds) ==
  [AACAOT       |-> esds.aot,
   SampleRate   |-> IF esds.index = 15 THEN esds.rate ELSE Rates[esds.index + 1],
   ChannelCount |-> IF esds.channels = 0 THEN 2 ELSE esds.channels]

updateAudioTrackInfoFromESDS(e, box, esds) ==
  CASE ~esds.whole -> Refuse(box, e, "MALFORMED")
    [] esds.whole /\ esds.oti = "qcelp" -> Past(box, Tell(e, [MIMEType |-> "audio/qcelp"]))
    [] esds.whole /\ esds.oti = "mp3" -> Past(box, Tell(e, [MIMEType |-> "audio/mpeg"]))
    [] esds.whole /\ esds.oti = "mpeg4" /\ esds.csd = 0 -> Past(box, e)
    [] OTHER -> IF SpecificError(esds) # "OK" THEN Refuse(box, e, SpecificError(esds))
                ELSE Past(box, Tell(e, AudioSpecific(esds)))

\* mutant of esds: the audio entry's own rate and channels are kept
EntryKept(e, box, path) ==
  IF DataSize(box) < 4 THEN Refuse(box, e, "MALFORMED") ELSE Past(box, Tell(e, [ESDS |-> box.at]))
esds(e, box, path) ==
  IF DataSize(box) < 4 THEN Refuse(box, e, "MALFORMED")
  ELSE IF DataSize(box) > 256 THEN Refuse(box, e, "BUFFER_TOO_SMALL")
  ELSE IF ~HasData(box, DataSize(box)) THEN Refuse(box, e, "IO")
  ELSE IF box.version # 0 THEN Refuse(box, e, "MALFORMED")
  ELSE IF Len(path) >= 2 /\ path[Len(path) - 1] = "mp4a"
    THEN updateAudioTrackInfoFromESDS(Tell(e, [ESDS |-> box.at]), box, box.esds)
  ELSE Past(box, Tell(e, [ESDS |-> box.at]))

avcC(e, box) ==
  IF ~HasData(box, DataSize(box)) THEN Refuse(box, e, "IO")
  ELSE Past(box, Tell(e, [AVCC |-> box.nalLengthSize]))

d263(e, box) ==
  IF DataSize(box) \notin {7, 23} THEN Refuse(box, e, "MALFORMED")
  ELSE IF ~HasData(box, DataSize(box)) THEN Refuse(box, e, "IO")
  ELSE Past(box, Tell(e, [D263 |-> box.at]))

(* The formats of a text track are appended.                               *)
tx3g(e, box) ==
  LET before == IF HasTrack(e) /\ Knows(Meta(e), "TextFormatData") THEN Meta(e).TextFormatData ELSE <<>>
  IN  IF ~Readable(box.at, box.size) THEN Refuse(box, e, "IO")
      ELSE Past(box, Tell(e, [TextFormatData |-> Append(before, box.at)]))
----------------------------------------------------------------------------
(* Meta data of the file                                                   *)

xyz(e, box) ==
  IF DataSize(box) < 8 \/ DataSize(box) - 5 >= 18 THEN Refuse(box, e, "MALFORMED")
  ELSE IF ~HasData(box, DataSize(box) - 1) THEN Refuse(box, e, "IO")
  ELSE Past(box, TellFile(e, "Location", box.at))

covr(e, box) ==
  IF ~HasData(box, DataSize(box)) THEN Refuse(box, e, "IO")
  ELSE Past(box, TellFile(e, "AlbumArt", box.at))

UnderMetaDataPath(path) ==
  Len(path) >= 5 /\ SubSeq(path, 1, 4) = <<"moov", "udta", "meta", "ilst">>

ItemKeys ==
  [alb |-> "Album", ART |-> "Artist", aART |-> "AlbumArtist", day |-> "Year", nam |-> "Title",
   wrt |-> "Writer", gnre |-> "Genre", gen |-> "Genre"]

(* The comments of iTunes: a mean, a name and the data; the one named      *)
(* iTunSMPB has the delay and the padding of the last track.               *)
Comment(e, box, kind) == [e EXCEPT !.comment = Put(@, kind, box.value)]
CommentDone(e) ==
  LET c == e.comment
      e1 == IF c.mean = "com.apple.iTunes" /\ c.name = "iTunSMPB" /\ "padding" \in DOMAIN c.data
              THEN Tell(e, [EncoderDelay |-> c.data.delay, EncoderPadding |-> c.data.padding])
              ELSE e
  IN  [e1 EXCEPT !.comment = <<>>]

Commented(e) == IF DOMAIN e.comment = {"mean", "name", "data"} THEN CommentDone(e) ELSE e

Item(e, box, item) ==
  LET n == DataSize(box)
  IN  CASE item = "cpil" -> IF n = 9 /\ box.flags = 21 THEN TellFile(e, "Compilation", box.value) ELSE e
        [] item = "trkn" -> IF n = 16 /\ box.flags = 0 THEN TellFile(e, "CDTrackNumber", box.value) ELSE e
        [] item = "disk" -> IF n \in {14, 16} /\ box.flags = 0 THEN TellFile(e, "DiscNumber", box.value) ELSE e
        [] item \in DOMAIN ItemKeys \ {"gnre", "gen"} ->
             IF n >= 8 THEN TellFile(e, ItemKeys[item], box.value) ELSE e
        [] item \in {"gnre", "gen"} ->
             IF n < 8 \/ box.flags \notin {0, 1} THEN e
             ELSE TellFile(e, "Genre", IF box.flags = 1 THEN box.value
                                       ELSE IF box.value = 0 THEN 255 ELSE box.value - 1)
        [] OTHER -> e

parseMetaData(e, box, path) ==
  IF DataSize(box) < 4 THEN Refuse(box, e, "MALFORMED")
  ELSE IF ~HasData(box, DataSize(box)) THEN Refuse(box, e, "IO")
  ELSE IF path[5] = "----" THEN Past(box, Commented(Comment(e, box, box.type)))
  ELSE Past(box, Item(e, box, path[5]))

itemData(e, box, path) ==
  IF Len(path) = 6 /\ UnderMetaDataPath(path) THEN parseMetaData(e, box, path) ELSE Past(box, e)
----------------------------------------------------------------------------
(* parseSegmentIndex(): an index that cannot be read is passed over.       *)

SidxHeader(box) == IF box.version = 0 THEN 24 ELSE 32
SidxWhole(box) ==
  /\ DataSize(box) >= SidxHeader(box) + 12 * Len(box.segments)
  /\ HasData(box, SidxHeader(box) + 12 * Len(box.segments))

SidxDuration(box) == (FoldLeft(LAMBDA sum, s : sum + s.duration, 0, box.segments) * Second) \div box.timescale

Indexed(e, box) ==
  LET added == [e EXCEPT !.mSidxEntries = @ \o [i \in DOMAIN box.segments |->
                             [size |-> box.segments[i].size,
                              durationUs |-> (Second * box.segments[i].duration) \div box.timescale]],
                         !.mSidxDuration = SidxDuration(box)]
  IN  IF ~HasTrack(e) THEN Fault(added)
      ELSE IF ~Knows(Meta(e), "Duration") \/ Meta(e).Duration = 0
        THEN Tell(added, [Duration |-> SidxDuration(box)])
      ELSE added

\* mutant of sidx: an index is not stepped over
SidxAgain(e, box) == Out(IF SidxWhole(box) THEN Indexed(e, box) ELSE e, box.at, "UNKNOWN")
sidx(e, box) ==
  Out(IF ~SidxWhole(box) THEN e ELSE IF box.timescale = 0 THEN Fault(e) ELSE Indexed(e, box),
      EndOf(box), "UNKNOWN")
----------------------------------------------------------------------------
(* parseChunk(): a box, and the boxes inside it until one of them fails or *)
(* the end of the box is reached; to end anywhere else is an error.        *)

NewTrack ==
  [meta |-> [MIMEType |-> "application/octet-stream"], timescale |-> 0, table |-> <<>>,
   skip |-> FALSE, expensive |-> FALSE]

(* verifyTrack()                                                           *)
Configured(meta) ==
  CASE meta.MIMEType = "video/avc" -> Knows(meta, "AVCC")
    [] meta.MIMEType \in {"video/mp4v-es", "audio/mp4a-latm"} -> Knows(meta, "ESDS")
    [] OTHER -> TRUE
verifyTrack(track) ==
  IF ~Configured(track.meta) THEN "MALFORMED"
  ELSE IF track.table = <<>> THEN "FAULT"
  ELSE IF ~isValid(track.table[1]) THEN "MALFORMED" ELSE "OK"

TrackDone(e, at) ==
  IF Current(e).skip THEN Out([e EXCEPT !.tracks = Front(@)], at, "OK")
  ELSE IF verifyTrack(Current(e)) = "FAULT" THEN Out(Fault(e), at, "OK")
  ELSE Out(e, at, verifyTrack(Current(e)))

(* what a container does when it is entered and when it is left            *)
Entered(e, type) ==
  CASE type = "trak" -> [e EXCEPT !.tracks = Append(@, NewTrack)]
    [] type = "stbl" -> IF HasTrack(e) THEN WithTable(e, NewTable(file.size)) ELSE Fault(e)
    [] OTHER -> e
Left(out, type) ==
  CASE out.err # "OK" -> out
    [] out.err = "OK" /\ type = "trak" -> TrackDone(out.e, out.at)
    [] out.err = "OK" /\ type = "moov" -> Out([out.e EXCEPT !.mInitCheck = "OK"], out.at, "UNKNOWN")
    [] OTHER -> out

Containers == {"moov", "trak", "mdia", "minf", "dinf", "stbl", "mvex", "moof", "traf", "mfra",
               "udta", "ilst", "sinf", "schi", "edts"}
Tables == {"stco", "co64", "stsc", "stts", "ctts", "stss"}

RECURSIVE Inside(_, _, _), Counted(_, _, _), parseChunk(_, _, _)

Inside(out, stop, path) ==
  IF out.err # "OK" THEN out
  ELSE IF out.at >= stop THEN (IF out.at = stop THEN out ELSE [out EXCEPT !.err = "MALFORMED"])
  ELSE Inside(parseChunk(out.e, out.at, path), stop, path)

(* the entries of stsd are counted                                         *)
Counted(out, n, path) ==
  IF out.err # "OK" \/ n = 0 THEN out ELSE Counted(parseChunk(out.e, out.at, path), n - 1, path)

\* mutant of EndsAt: where the entries end is not looked at
EndsAnywhere(out, stop) == out
EndsAt(out, stop) == IF out.err = "OK" /\ out.at # stop THEN [out EXCEPT !.err = "MALFORMED"] ELSE out

Container(e, box, path) ==
  Left(Inside(Out(Entered(e, box.type), box.at + box.hdr, "OK"), EndOf(box), path), box.type)

(* Several entries are taken of text tracks only.                          *)
stsd(e, box, path) ==
  IF DataSize(box) < 8 THEN Refuse(box, e, "MALFORMED")
  ELSE IF ~HasData(box, 8) THEN Refuse(box, e, "IO")
  ELSE IF box.version # 0 THEN Refuse(box, e, "MALFORMED")
  ELSE IF box.count > 1 /\ ~HasTrack(e) THEN Past(box, Fault(e))
  ELSE IF box.count > 1 /\ Meta(e).MIMEType \notin {"text/3gpp-tt", "application/octet-stream"}
    THEN Past(box, [e EXCEPT !.tracks[Len(e.tracks)].skip = TRUE])
  ELSE EndsAt(Counted(Out(e, box.at + box.hdr + 8, "OK"), box.count, path), EndOf(box))

Entry(e, box, fields, values, path) ==
  IF DataSize(box) < fields THEN Refuse(box, e, "MALFORMED")
  ELSE IF ~HasData(box, fields) THEN Refuse(box, e, "IO")
  ELSE Inside(Out(Tell(e, values), box.at + box.hdr + fields, "OK"), EndOf(box), path)

Format(type) == IF type \in DOMAIN MIME THEN [MIMEType |-> MIME[type]] ELSE <<>>

audioEntry(e, box, path) ==
  Entry(e, box, 28,
        Adjusted(box.type, [ChannelCount |-> box.channels, SampleRate |-> box.rate]) @@ Format(box.type), path)

videoEntry(e, box, path) ==
  Entry([e EXCEPT !.mHasVideo = TRUE], box, 78,
        [Width |-> IF box.width = 0 THEN 352 ELSE box.width,
         Height |-> IF box.height = 0 THEN 288 ELSE box.height] @@ Format(box.type), path)

meta(e, box, path) ==
  IF DataSize(box) < 4 THEN Refuse(box, e, "MALFORMED")
  ELSE IF ~HasData(box, 4) THEN Refuse(box, e, "IO")
  ELSE IF box.version # 0 THEN Past(box, e)
  ELSE Inside(Out(e, box.at + box.hdr + 4, "OK"), EndOf(box), path)

(* Every item of the list holds boxes, whatever its name.                  *)
IsItem(type, path) == type \notin {"cprt", "covr"} /\ Len(path) = 5 /\ UnderMetaDataPath(path)

Handle(e, box, path) ==
  LET type == box.type
  IN  CASE IsItem(type, path) -> Inside(Out(e, box.at + box.hdr, "OK"), EndOf(box), path)
        [] ~IsItem(type, path) /\ type = "----" -> Past(box, [e EXCEPT !.comment = <<>>])
        [] type \in Containers -> Container(e, box, path)
        [] type = "elst" -> elst(e, box)
        [] type = "frma" -> frma(e, box)
        [] type = "tenc" -> tenc(e, box)
        [] type = "tkhd" -> tkhd(e, box)
        [] type = "pssh" -> pssh(e, box)
        [] type = "mdhd" -> mdhd(e, box)
        [] type = "stsd" -> stsd(e, box, path)
        [] type \in AudioEntries -> audioEntry(e, box, path)
        [] type \in VideoEntries -> videoEntry(e, box, path)
        [] type \in Tables -> table(e, box)
        [] type \in {"stsz", "stz2"} -> sizes(e, box)
        [] type = "xyz" -> xyz(e, box)
        [] type = "esds" -> esds(e, box, path)
        [] type = "avcC" -> avcC(e, box)
        [] type = "d263" -> d263(e, box)
        [] type = "meta" -> meta(e, box, path)
        [] type \in {"mean", "name", "data"} -> itemData(e, box, path)
        [] type = "mvhd" -> mvhd(e, box)
        [] type = "hdlr" -> hdlr(e, box)
        [] type = "tx3g" -> tx3g(e, box)
        [] type = "covr" -> covr(e, box)
        [] type = "sidx" -> sidx(e, box)
        [] OTHER -> Past(box, e)

Chunk(e, box, path) ==
  IF box.hdr = 16 /\ ~Readable(box.at, 16) THEN Refuse(box, e, "IO")
  ELSE IF box.size \in 0 .. box.hdr - 1 THEN Refuse(box, e, "MALFORMED")
  ELSE Handle(e, box, path)

parseChunk(e, at, path) ==
  IF ~Readable(at, 8) THEN Out(e, at, "IO")
  ELSE Chunk(e, file.boxes[at], Append(path, file.boxes[at].type))
----------------------------------------------------------------------------
(* readMetaData(): boxes until one fails, and on after a segment index,    *)
(* that is, wherever the bytes at the offset are an index's header.        *)

Next8(at) == IF Readable(at, 8) THEN file.boxes[at].type ELSE "none"

Done(e, err) ==
  [e EXCEPT !.reading = FALSE,
            !.mInitCheck = IF @ = "OK" THEN "OK" ELSE err,
            !.mFileMetaData = IF e.mInitCheck = "OK"
                                THEN Put(@, "MIMEType", IF e.mHasVideo THEN "video/mp4" ELSE "audio/mp4")
                                ELSE @]

AfterChunk(out) ==
  LET e == [out.e EXCEPT !.at = out.at]
  IN  CASE out.err = "OK" -> e
        [] out.err # "OK" /\ Next8(out.at) = "sidx" -> [e EXCEPT !.retried = out.at = x.at]
        [] out.err # "OK" /\ Next8(out.at) = "moof" -> Done([e EXCEPT !.mMoofOffset = out.at], out.err)
        [] OTHER -> Done(e, out.err)

ReadMetaData ==
  /\ x.reading
  /\ \E out \in {parseChunk(x, x.at, <<>>)} : x' = AfterChunk(out)
  /\ UNCHANGED file

(* flags()                                                                 *)
CanSeek == x.mMoofOffset = 0 \/ x.mSidxEntries # <<>>

(* getTrackMetaData() with the flag for what is expensive to find out: a   *)
(* thumbnail of each video track, looked up once                           *)
Thumbnail(track) ==
  IF x.mMoofOffset > 0
    THEN [track EXCEPT !.meta = IF Knows(@, "Duration") THEN Put(@, "ThumbnailTime", @.Duration \div 4) ELSE @]
  ELSE LET best == findThumbnailSample(track.table[1])
           r    == seekTo(track.table[1], best.k)
       IN  IF best.err # "OK" THEN track
           ELSE IF r.err # "OK" THEN [track EXCEPT !.table = <<r.st>>]
           ELSE [track EXCEPT !.table = <<r.st>>,
                              !.meta = Put(@, "ThumbnailTime", (r.st.it.time * Second) \div track.timescale)]

GetTrackMetaData(i) ==
  /\ ~x.reading /\ x.mInitCheck = "OK" /\ i \in DOMAIN x.tracks
  /\ i \in file.client.thumbnails /\ ~x.tracks[i].expensive
  /\ \E track \in {[x.tracks[i] EXCEPT !.expensive = TRUE]} :
       x' = [x EXCEPT !.tracks[i] = IF track.meta.MIMEType \in Videos THEN Thumbnail(track) ELSE track]
  /\ UNCHANGED file

ExtractorInit == (\E files \in {Files} : \E i \in DOMAIN files : file = files[i]) /\ x = Extractor
----------------------------------------------------------------------------
(* SniffMPEG4(): a brand it knows before the movie box, within the first   *)
(* bytes; or else one of a few brands at the start of the file.            *)

kMaxScanOffset == 128
Good == {"isom", "iso2", "avc1", "3gp4", "mp41", "mp42", "qt", "MSNV", "3g2a", "3g2b", "wmf"}
Legacy == {"3gp4", "mp42", "3gr6", "3gs6", "3ge6", "3gg6", "isom", "M4V", "M4A", "f4v", "kddi", "M4VP"}

RECURSIVE Better(_, _)
Better(at, good) ==
  IF at >= kMaxScanOffset THEN good
  ELSE IF ~Readable(at, 8) THEN FALSE
  ELSE LET box == file.boxes[at]
       IN  CASE box.size < box.hdr -> FALSE
             [] box.size >= box.hdr /\ box.type = "moov" -> good
             [] box.size >= box.hdr /\ box.type = "ftyp" ->
                  /\ DataSize(box) >= 8 /\ HasData(box, DataSize(box))
                  /\ box.brands \cap Good # {}
                  /\ Better(EndOf(box), TRUE)
             [] OTHER -> Better(EndOf(box), good)

SniffMPEG4 ==
  \/ Better(0, FALSE)
  \/ Readable(0, 12) /\ file.boxes[0].type = "ftyp" /\ file.boxes[0].major \in Legacy
----------------------------------------------------------------------------
(* Properties                                                              *)

(* What the boxes of a sound file say is what the extractor tells: its     *)
(* tracks, without those it is to skip, each with the meta data and the    *)
(* number of samples the file has of it, and the meta data of the file;    *)
(* and SniffMPEG4() knows the file for what it is.                         *)
SaysSo(told, says) == \A key \in DOMAIN says : Knows(told, key) /\ told[key] = says[key]

TracksAreTheFiles ==
  ~x.reading /\ file.sound =>
    /\ SniffMPEG4 /\ x.mInitCheck = "OK" /\ ~x.fault
    /\ SaysSo(x.mFileMetaData, file.says)
    /\ Len(x.tracks) = Len(file.tracks)
    /\ \A i \in DOMAIN x.tracks : /\ SaysSo(x.tracks[i].meta, file.tracks[i].says)
                                  /\ NumSamples(x.tracks[i].table[1]) = file.tracks[i].count

(* A damaged file is refused: one that ends before its movie does, or has  *)
(* a track with no configuration, without one of its tables, with two of a *)
(* kind, or with entries that contradict their box.  Chunk offsets are not *)
(* read before they are used, so that a file which only lacks the last of  *)
(* them is neither refused nor "damaged".                                  *)
DamageIsSeen == ~x.reading /\ file.damaged => x.mInitCheck # "OK"

(* A sound file is told as it is, and a damaged one is refused, once the   *)
(* meta data is read (readMetaData(), parseChunk()).                       *)
FileIsRead == TracksAreTheFiles /\ DamageIsSeen

(* Every box that is read leaves less of the file to read, or is the last, *)
(* with two exceptions in which readMetaData() never returns.  The header  *)
(* of a segment index that cannot be taken, because the size in it is too  *)
(* small or the file ends in it, is looked at again for ever (501-504);    *)
(* and a size of 64 bits can lead back.                                    *)
Refused(at) ==
  /\ Readable(at, 8)
  /\ \E box \in {file.boxes[at]} :
       box.type = "sidx" /\ (box.size \in 0 .. box.hdr - 1 \/ ~Readable(at, box.hdr))
LeadsBack(at) == Readable(at, 8) /\ file.boxes[at].size < 0

ReadingAdvances ==
  [][x.reading => \/ x'.at > x.at \/ ~x'.reading
                  \/ x'.at = x.at /\ Refused(x.at)
                  \/ LeadsBack(x.at)]_<<file, x>>
==============================================================================
