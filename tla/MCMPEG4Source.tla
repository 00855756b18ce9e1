----------------------------- MODULE MCMPEG4Source -----------------------------
(***************************************************************************)
(* MP4 files for the extractor and its sources: a movie of a video and an  *)
(* audio track, one in fragments with an index, an encrypted one, files    *)
(* with the boxes of other codecs and of meta data, and damaged ones.      *)
(* A file is written as boxes in boxes, from which the boxes by their      *)
(* offset are computed.                                                    *)
(***************************************************************************)
EXTENDS MPEG4Source

\* a box with what is inside: the rows of a table, its own first, each with
\* the bytes before the next row and the number of rows of its box
Joined0(trees) == FoldLeft(LAMBDA all, tree : all \o tree, <<>>, trees)
Box(type, head, info, kids) ==
  FoldLeft(LAMBDA box, kid : [box EXCEPT ![1].rows = @ + Len(kid)] \o kid,
           <<[type |-> type, bytes |-> 8 + head, info |-> info, rows |-> 1]>>, kids)
Leaf(type, head, info) == Box(type, head, info, <<>>)
Group(type, kids) == Box(type, 0, <<>>, kids)

SizeOf(rows) ==
  LET sum[i \in 0 .. Len(rows)] == IF i = 0 THEN 0 ELSE sum[i - 1] + rows[i].bytes IN sum[Len(rows)]
Placed0(rows, i) ==
  [at |-> SizeOf(SubSeq(rows, 1, i - 1)), size |-> SizeOf(SubSeq(rows, i, i + rows[i].rows - 1)),
   hdr |-> 8, type |-> rows[i].type] @@ rows[i].info
Layout(rows) ==
  LET map[i \in 0 .. Len(rows)] ==
        IF i = 0 THEN <<>> ELSE (Placed0(rows, i).at :> Placed0(rows, i)) @@ map[i - 1]
  IN  map[Len(rows)]

Quiet == [wants |-> {FALSE}, restarts |-> FALSE, thumbnails |-> {1}, seeks |-> {}]
File(boxes) ==
  [size |-> SizeOf(Joined0(boxes)), boxes |-> Layout(Joined0(boxes)), data |-> <<>>, info |-> <<>>, client |-> Quiet,
   sound |-> FALSE, damaged |-> FALSE, says |-> <<>>, tracks |-> <<>>]

Ftyp == Leaf("ftyp", 12, [major |-> "isom", brands |-> {"isom", "mp42"}])
Mdat(n) == Leaf("mdat", n, <<>>)
Mvhd(scale) == Leaf("mvhd", 100, [version |-> 0, timescale |-> scale, created |-> "then"])
Tkhd(id, w, h, degrees) ==
  Leaf("tkhd", 84, [version |-> 0, id |-> id, width |-> w, height |-> h, degrees |-> degrees])
Mdhd(scale, duration) ==
  Leaf("mdhd", 24, [version |-> 0, timescale |-> scale, duration |-> duration, language |-> "und"])
Hdlr(handler) == Leaf("hdlr", 24, [handler |-> handler])
Stsd(entries) == Box("stsd", 8, [version |-> 0, count |-> Len(entries)], entries)

Full(n) == [version |-> 0, count |-> n]
Stts(e) == Leaf("stts", 8 + 8 * Len(e), Full(Len(e)) @@ [entries |-> e])
Ctts(e) == Leaf("ctts", 8 + 8 * Len(e), Full(Len(e)) @@ [entries |-> e])
Stsc(e) == Leaf("stsc", 8 + 12 * Len(e), Full(Len(e)) @@ [entries |-> e])
Stss(e) == Leaf("stss", 8 + 4 * Len(e), Full(Len(e)) @@ [entries |-> e])
Stco(e) == Leaf("stco", 8 + 4 * Len(e), Full(Len(e)) @@ [entries |-> e])
Co64(e) == Leaf("co64", 8 + 8 * Len(e), Full(Len(e)) @@ [entries |-> e])
Stsz(e) == Leaf("stsz", 12 + 4 * Len(e), Full(Len(e)) @@ [entries |-> e, default |-> 0])
Stsz1(n, size) == Leaf("stsz", 12, Full(n) @@ [entries |-> <<>>, default |-> size])
Stz2(e) == Leaf("stz2", 12 + Len(e), Full(Len(e)) @@ [entries |-> e, bits |-> 8])
Times(n, value) == [n |-> n, value |-> value]
Chunks(start, per) == [startChunk |-> start, perChunk |-> per]

Avc1(nalLengthSize) ==
  Box("avc1", 78, [width |-> 32, height |-> 16], <<Leaf("avcC", 8, [nalLengthSize |-> nalLengthSize])>>)
Esds0 == [whole |-> TRUE, oti |-> "mpeg4", csd |-> 2, aot |-> 2, index |-> 4, rate |-> 0, channels |-> 2, ext |-> 0]
Esds(d) == Leaf("esds", 24, [version |-> 0, esds |-> d])
Audio(type, kids) == Box(type, 28, [channels |-> 1, rate |-> 8000], kids)
Video(type, kids) == Box(type, 78, [width |-> 0, height |-> 0], kids)

Trak(id, scale, duration, handler, entries, tables) ==
  Group("trak",
    <<Tkhd(id, 32, 16, 0),
      Group("mdia", <<Mdhd(scale, duration), Hdlr(handler),
                      Group("minf", <<Group("stbl", <<entries>> \o tables)>>)>>)>>)
----------------------------------------------------------------------------
(* The movie.  Its media is a chunk of three pictures, one of two sounds,  *)
(* one of two pictures and one of two sounds.                              *)

MediaAt == SizeOf(Ftyp) + 8
PictureSizes == <<12, 9, 7, 13, 8>>
PictureNals  == <<<<4, 0, 2>>, <<7>>, <<5>>, <<3, 6>>, <<2, 2>>>>
SoundSizes   == <<3, 4, 5, 6>>
VideoChunks  == <<MediaAt, MediaAt + 35>>
AudioChunks  == <<MediaAt + 28, MediaAt + 56>>

MovieVideo ==
  Trak(1, 100, 70, "vide", Stsd(<<Avc1(2)>>),
       <<Stts(<<Times(3, 10), Times(2, 20)>>), Ctts(<<Times(1, 0), Times(1, 15), Times(3, 0)>>),
         Stss(<<0, 3>>), Stsc(<<Chunks(0, 3), Chunks(1, 2)>>), Stsz(PictureSizes), Stco(VideoChunks)>>)
MovieAudio ==
  Trak(2, 50, 20, "soun", Stsd(<<Audio("mp4a", <<Esds(Esds0)>>)>>),
       <<Stts(<<Times(4, 5)>>), Stsc(<<Chunks(0, 2)>>), Stz2(SoundSizes), Co64(AudioChunks)>>)
\* two formats, once one is known: not taken
Skipped ==
  Trak(3, 50, 20, "vide", Stsd(<<Avc1(2)>>),
       <<Stsd(<<Avc1(2), Avc1(2)>>), Stts(<<Times(1, 5)>>), Stsc(<<Chunks(0, 1)>>), Stsz1(1, 3),
         Stco(<<MediaAt>>)>>)

Sample(offset, size, time, sync, nals) ==
  [offset |-> offset, time |-> time, sync |-> sync, nals |-> nals, crypto |-> <<>>, early |-> FALSE]
Sounds ==
  LET at == <<MediaAt + 28, MediaAt + 31, MediaAt + 56, MediaAt + 61>>
  IN  [i \in 1 .. 4 |-> Sample(at[i], SoundSizes[i], (i - 1) * 100, TRUE, <<SoundSizes[i]>>)]
Pictures ==
  LET at   == <<MediaAt, MediaAt + 12, MediaAt + 21, MediaAt + 35, MediaAt + 48>>
      time == <<0, 250, 200, 300, 500>>
  IN  [i \in 1 .. 5 |-> Sample(at[i], PictureSizes[i], time[i], i \in {1, 4}, PictureNals[i])]

Seek(time, mode) == [time |-> time, mode |-> mode]
Says(id, mime, duration) == [TrackID |-> id, MIMEType |-> mime, Duration |-> duration]

Movie ==
  [File(<<Ftyp, Mdat(67), Group("moov", <<Mvhd(10), MovieVideo, Skipped, MovieAudio>>)>>) EXCEPT
     !.sound = TRUE, !.says = [MIMEType |-> "video/mp4", Date |-> "then"],
     !.data = [o \in {p.offset : p \in {Pictures[i] : i \in DOMAIN Pictures}} |->
                 (CHOOSE p \in {Pictures[i] : i \in DOMAIN Pictures} : p.offset = o).nals],
     !.tracks = <<[says |-> Says(1, "video/avc", 700) @@ [FrameRate |-> 7, MaxInputSize |-> 33],
                   count |-> 5, samples |-> Pictures],
                  [says |-> Says(2, "audio/mp4a-latm", 400) @@
                            [AACAOT |-> 2, SampleRate |-> 44100, ChannelCount |-> 2],
                   count |-> 4, samples |-> Sounds]>>,
     !.client = [wants |-> {FALSE}, restarts |-> FALSE, thumbnails |-> {1},
                 seeks |-> {Seek(260, "PREVIOUS_SYNC"), Seek(220, "NEXT_SYNC"), Seek(240, "CLOSEST_SYNC"),
                            Seek(260, "CLOSEST"), Seek(360, "NEXT_SYNC")}]]

\* the same movie, its NAL units read one by one
NalMovie ==
  [Movie EXCEPT !.client = [wants |-> {TRUE}, restarts |-> TRUE, thumbnails |-> {}, seeks |-> {Seek(260, "CLOSEST")}]]

\* four pictures, the second to be shown before its time in the decoder
EarlyAt == [i \in 1 .. 4 |-> MediaAt + 3 * (i - 1)]
EarlyVideo ==
  Trak(1, 100, 40, "vide", Stsd(<<Video("jpeg", <<>>)>>),
       <<Stts(<<Times(4, 10)>>), Ctts(<<Times(1, 0), Times(1, -5), Times(2, 0)>>), Stss(<<0, 1, 3>>),
         Stsc(<<Chunks(0, 4)>>), Stsz1(4, 3), Stco(<<MediaAt>>)>>)
EarlyPictures ==
  LET time == <<0, 50, 200, 300>>
  IN  [i \in 1 .. 4 |-> [Sample(EarlyAt[i], 3, time[i], i # 3, <<3>>) EXCEPT !.early = i = 2]]

EarlyMovie ==
  [File(<<Ftyp, Mdat(12), Group("moov", <<Mvhd(10), EarlyVideo>>)>>) EXCEPT
     !.sound = TRUE, !.says = [MIMEType |-> "video/mp4"],
     !.tracks = <<[says |-> Says(1, "video/mjpeg", 400), count |-> 4, samples |-> EarlyPictures]>>,
     !.client = [wants |-> {FALSE}, restarts |-> FALSE, thumbnails |-> {},
                 seeks |-> {Seek(50, "CLOSEST"), Seek(60, "PREVIOUS_SYNC"), Seek(40, "NEXT_SYNC"),
                            Seek(300, "CLOSEST_SYNC"), Seek(900, "NEXT_SYNC")}]]

----------------------------------------------------------------------------
(* The same tracks in two fragments, with an index.  In each fragment the  *)
(* pictures come first, and the sounds are in two runs.                    *)

NoTablesYet == <<Stts(<<>>), Stsc(<<>>), Stsz1(0, 0), Stco(<<>>)>>
Sidx(scale, segments) ==
  Leaf("sidx", 24 + 12 * Len(segments), [version |-> 0, timescale |-> scale, segments |-> segments])
Segment(size, duration) == [size |-> size, duration |-> duration]

Tfhd(track, fields) ==
  Leaf("tfhd", 8 + 4 * Cardinality(DOMAIN fields),
       fields @@ [version |-> 0, track |-> track, has |-> DOMAIN fields])
Trun(fields, perSample, samples) ==
  Leaf("trun", 8 + 4 * Cardinality(DOMAIN fields) + 4 * Cardinality(perSample) * Len(samples),
       fields @@ [version |-> 0, has |-> DOMAIN fields \cup perSample, samples |-> samples])
SizesIn(sizes0) == [i \in DOMAIN sizes0 |-> [size |-> sizes0[i]]]
Moof(pictures, at) ==
  Group("moof",
    <<Leaf("mfhd", 8, <<>>),
      Group("traf", <<Tfhd(1, [duration |-> 20]), Trun([offset |-> at], {"size"}, SizesIn(pictures))>>),
      Group("traf", <<Tfhd(2, [duration |-> 10, sampleSize |-> 2]),
                      Trun([offset |-> at + pictures[1] + pictures[2]], {"flags"}, <<[flags |-> 0]>>),
                      Trun(<<>>, {"flags"}, <<[flags |-> 0]>>)>>)>>)
MoofSize == SizeOf(Moof(<<6, 5>>, 0))

FragmentHead ==
  <<Ftyp, Group("moov", <<Mvhd(10), Trak(1, 100, 0, "vide", Stsd(<<Avc1(4)>>), NoTablesYet),
                          Trak(2, 50, 0, "soun", Stsd(<<Audio("mp4a", <<Esds(Esds0)>>)>>), NoTablesYet),
                          Group("mvex", <<Leaf("trex", 24, <<>>)>>)>>)>>
Index == Sidx(100, <<Segment(MoofSize + 8 + 15, 40), Segment(MoofSize + 8 + 16, 40)>>)
MoofAt == SizeOf(Joined0(FragmentHead)) + SizeOf(Index)
First == MoofAt + MoofSize + 8
Second0 == First + 15 + MoofSize + 8

FragmentPictures ==
  <<Sample(First, 6, 0, TRUE, <<2>>), Sample(First + 6, 5, 200, FALSE, <<1>>),
    Sample(Second0, 7, 400, TRUE, <<3>>), Sample(Second0 + 7, 5, 600, FALSE, <<1>>)>>
FragmentSounds ==
  <<Sample(First + 11, 2, 0, TRUE, <<2>>), Sample(First + 13, 2, 200, FALSE, <<2>>),
    Sample(Second0 + 12, 2, 400, TRUE, <<2>>), Sample(Second0 + 14, 2, 600, FALSE, <<2>>)>>

Fragments ==
  [File(FragmentHead \o <<Index, Moof(<<6, 5>>, MoofSize + 8), Mdat(15), Moof(<<7, 5>>, MoofSize + 8), Mdat(16)>>) EXCEPT
     !.sound = TRUE, !.says = [MIMEType |-> "video/mp4"],
     !.data = [o \in {First, First + 6, Second0, Second0 + 7} |->
                 CASE o = First -> <<2>> [] o = Second0 -> <<3>> [] OTHER -> <<1>>],
     !.tracks = <<[says |-> [MIMEType |-> "video/avc", Width |-> 32], count |-> 0, samples |-> FragmentPictures],
                  [says |-> Says(2, "audio/mp4a-latm", 800), count |-> 0, samples |-> FragmentSounds]>>,
     !.client = [wants |-> {FALSE}, restarts |-> FALSE, thumbnails |-> {1},
                 seeks |-> {Seek(100, "PREVIOUS_SYNC"), Seek(500, "CLOSEST"), Seek(100, "NEXT_SYNC"),
                            Seek(150, "CLOSEST_SYNC"), Seek(300, "CLOSEST_SYNC")}]]

(* An encrypted sound track in one fragment; the information on its two    *)
(* samples comes before them, the first with a part that is clear.         *)
Enca ==
  Audio("enca", <<Esds(Esds0),
                  Group("sinf", <<Leaf("frma", 4, [format |-> "mp4a"]), Leaf("schm", 12, <<>>),
                                  Group("schi", <<Leaf("tenc", 24, [algorithm |-> 1, iv |-> 8])>>)>>)>>)
SecretMoof(at) ==
  Group("moof", <<Group("traf",
    <<Tfhd(2, [duration |-> 10]),
      Trun([offset |-> at + 24], {"size"}, SizesIn(<<9, 7>>)),
      Leaf("saiz", 11, [version |-> 0, default |-> 0, count |-> 2, sizes |-> <<16, 8>>]),
      Leaf("saio", 12, [version |-> 0, offset |-> at])>>)>>)
SecretHead ==
  <<Ftyp, Group("moov", <<Mvhd(10), Leaf("pssh", 28, [length |-> 4]),
                          Trak(2, 50, 20, "soun", Stsd(<<Enca>>), NoTablesYet)>>)>>
SecretMoofSize == SizeOf(SecretMoof(0))
InfoAt == SizeOf(Joined0(SecretHead)) + SecretMoofSize + 8
Parts(clear, encrypted) == <<[clear |-> clear, encrypted |-> encrypted]>>

Encrypted ==
  [File(SecretHead \o <<SecretMoof(SecretMoofSize + 8), Mdat(40)>>) EXCEPT
     !.sound = TRUE, !.says = [MIMEType |-> "audio/mp4"],
     !.info = (InfoAt :> Parts(3, 6)),
     !.tracks = <<[says |-> Says(2, "audio/mp4a-latm", 400) @@ [CryptoMode |-> 1, SampleRate |-> 8000],
                   count |-> 0,
                   samples |-> <<[Sample(InfoAt + 24, 9, 0, TRUE, <<9>>) EXCEPT
                                    !.crypto = <<[iv |-> InfoAt, subsamples |-> Parts(3, 6)]>>],
                                 [Sample(InfoAt + 33, 7, 200, FALSE, <<7>>) EXCEPT
                                    !.crypto = <<[iv |-> InfoAt + 16, subsamples |-> Parts(0, 7)]>>]>>]>>]
----------------------------------------------------------------------------
(* Other codecs, and meta data                                             *)

OneSample == <<Stts(<<Times(1, 5)>>), Stsc(<<Chunks(0, 1)>>), Stsz1(1, 3), Stco(<<MediaAt>>)>>
One(id, handler, entries) == Trak(id, 50, 20, handler, Stsd(entries), OneSample)
OneOf(id, mime) == [says |-> Says(id, mime, 400), count |-> 1,
                    samples |-> <<Sample(MediaAt, 3, 0, TRUE, <<3>>)>>]
Alone(trak, extra) == File(<<Ftyp, Mdat(3), Group("moov", <<Mvhd(10)>> \o trak \o extra)>>)

\* a media header of 64 bits whose duration is not known: -1 second's 50th
Timeless(id, entries) ==
  Group("trak",
    <<Tkhd(id, 32, 16, 0),
      Group("mdia", <<Leaf("mdhd", 36, [version |-> 1, timescale |-> 50, duration |-> -1, language |-> "und"]),
                      Group("minf", <<Group("stbl", <<Stsd(entries)>> \o OneSample)>>)>>)>>)

Codecs ==
  [Alone(<<One(1, "vide", <<Video("s263", <<Leaf("d263", 7, <<>>)>>)>>),
           One(2, "vide", <<Video("mp4v", <<Esds(Esds0)>>)>>),
           One(3, "soun", <<Audio("samr", <<>>)>>),
           One(4, "text", <<Leaf("tx3g", 20, <<>>), Leaf("tx3g", 30, <<>>)>>),
           Timeless(6, <<Video("jpeg", <<>>)>>),
           One(5, "soun", <<Audio("mp4a", <<Esds([Esds0 EXCEPT !.oti = "mp3"])>>)>>)>>, <<>>) EXCEPT
     !.sound = TRUE, !.says = [MIMEType |-> "video/mp4"],
     !.tracks = <<OneOf(1, "video/3gpp"), OneOf(2, "video/mp4v-es"), OneOf(3, "audio/3gpp"),
                  OneOf(4, "text/3gpp-tt"),
                  [OneOf(6, "video/mjpeg") EXCEPT !.says = Says(6, "video/mjpeg", -20)], OneOf(5, "audio/mpeg")>>,
     !.client.wants = {}, !.client.thumbnails = {}]

Datum(type, n, flags, value) == Leaf(type, n, [flags |-> flags, value |-> value])
Items ==
  Group("udta",
    <<Leaf("xyz", 20, <<>>),
      Box("meta", 4, [version |-> 0],
        <<Group("ilst",
            <<Group("nam",  <<Datum("data", 12, 1, "a title")>>),
              Group("trkn", <<Datum("data", 16, 0, 7)>>),
              Group("gnre", <<Datum("data", 10, 0, 9)>>),
              Leaf("covr", 30, <<>>),
              Group("----", <<Datum("mean", 20, 0, "com.apple.iTunes"), Datum("name", 12, 0, "iTunSMPB"),
                              Datum("data", 40, 1, [delay |-> 21, padding |-> 5])>>),
              Group("----", <<Datum("mean", 20, 0, "com.apple.iTunes"), Datum("name", 12, 0, "iTunNORM"),
                              Datum("data", 40, 1, "a volume")>>)>>)>>)>>)
Tagged ==
  [Alone(<<One(2, "soun", <<Audio("sawb", <<>>)>>)>>, <<Items>>) EXCEPT
     !.sound = TRUE,
     !.says = [MIMEType |-> "audio/mp4", Title |-> "a title", CDTrackNumber |-> 7, Genre |-> 8],
     !.tracks = <<[OneOf(2, "audio/amr-wb") EXCEPT !.says = @ @@ [EncoderDelay |-> 21, EncoderPadding |-> 5]]>>]

\* an edit list after the media of its track
EditedTrack ==
  Group("trak",
    <<Tkhd(2, 32, 16, 90),
      Group("mdia", <<Mdhd(50, 20), Group("minf", <<Group("stbl",
        <<Stsd(<<Audio("mp4a", <<Esds(Esds0)>>)>>)>> \o OneSample)>>)>>),
      Group("edts", <<Leaf("elst", 20, [version |-> 0, count |-> 1, mediaTime |-> 1, duration |-> 2])>>)>>)
Edits ==
  [Alone(<<EditedTrack>>, <<>>) EXCEPT
     !.sound = TRUE, !.says = [MIMEType |-> "audio/mp4"],
     !.tracks = <<[OneOf(2, "audio/mp4a-latm") EXCEPT
                     !.says = @ @@ [Rotation |-> 90, EncoderDelay |-> 4410]]>>]
----------------------------------------------------------------------------
(* Damaged files                                                           *)

Damage(f) == [f EXCEPT !.damaged = TRUE]
Cut(n) == [Movie EXCEPT !.size = @ - n, !.sound = FALSE, !.client.seeks = {}, !.client.thumbnails = {}]
Lone(entries, tables) == Damage(Alone(<<Trak(1, 50, 20, "vide", entries, tables)>>, <<>>))
Jpeg == Stsd(<<Video("jpeg", <<>>)>>)

DamagedFiles ==
  <<Damage(Cut(40)), Damage(Cut(300)),
    Lone(Stsd(<<Video("avc1", <<>>)>>), OneSample),
    Lone(Jpeg, Tail(OneSample)),
    Lone(Jpeg, OneSample \o <<Stco(<<MediaAt>>)>>),
    Lone(Jpeg, <<Leaf("stz2", 12, Full(1) @@ [entries |-> <<3>>, bits |-> 5])>> \o OneSample),
    Lone(Jpeg, OneSample \o <<Leaf("ctts", 12, Full(1) @@ [entries |-> <<Times(1, 0)>>])>>),
    Lone(Box("stsd", 8, [version |-> 0, count |-> 1], <<Video("jpeg", <<>>), Video("jpeg", <<>>)>>), OneSample),
    Lone(Stsd(<<Audio("mp4a", <<Esds([Esds0 EXCEPT !.csd = 1])>>)>>), OneSample)>>

\* read without end: an index whose size is too small or beyond the end of
\* the file, and a box whose size leads back to the first
Ends(type, movie) == File(<<Ftyp>> \o movie \o <<Leaf(type, 8, [version |-> 0])>>)
NoIndex == Ends("sidx", <<Group("moov", <<Mvhd(10)>>)>>)
LastOf(f) == Max(DOMAIN f.boxes)
Endless(f, size, hdr) == [f EXCEPT !.boxes[LastOf(f)].size = size, !.boxes[LastOf(f)].hdr = hdr]
EndlessFiles ==
  <<Endless(NoIndex, 4, 8), Endless([NoIndex EXCEPT !.size = @ - 4], 20, 16),
    Endless(Ends("free", <<>>), -LastOf(Ends("free", <<>>)), 16)>>
----------------------------------------------------------------------------
\* the last chunk offsets of Cut(3) are missing, which only a read finds out
MCFiles ==
  <<Movie, NalMovie, EarlyMovie, Fragments, Encrypted, Codecs, Tagged, Edits, Cut(3)>>
    \o DamagedFiles \o EndlessFiles
\* the client asks for the fragment after the last
MCPastTheLast == <<[Fragments EXCEPT !.client.seeks = {Seek(500, "NEXT_SYNC")}]>>
MCMaxSeeks == 1
=============================================================================
