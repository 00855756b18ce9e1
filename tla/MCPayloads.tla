----------------------------- MODULE MCPayloads -----------------------------
(***************************************************************************)
(* What is carried and read, in parts that do not call each other:         *)
(* strings, messages, meta data, a file through its cache, the choice of   *)
(* an extractor, and the parsers of small formats.  The parts use the same *)
(* variables, each its own way; a behaviour is one of one part, and        *)
(* MCMedia says which.                                                     *)
(***************************************************************************)
EXTENDS Integers, TLC

VARIABLES v1, v2, v3, v4, v5, v6, v7

From6Off == v6 = 0 /\ v7 = 0
From5Off == v5 = 0 /\ From6Off
PayloadsOff == v1 = 0 /\ v2 = 0 /\ v3 = 0 /\ v4 = 0 /\ From5Off
----------------------------------------------------------------------------
\* Strings: three narrow ones and two wide ones
Text(text, sharers, wide) == [text |-> text, sharers |-> sharers, wide |-> wide]
MCTextBeginnings ==
  {Text(<<>>, {}, <<>>), Text(<<65, 47, 97, 46, 1114111>>, {"s", "t"}, <<>>),
   Text(<<47, 46, 2047, 47>>, {"s", "t"}, <<65, 1114111, 47>>),
   Text(<<97, 46>>, {"s"}, <<57344, 97>>)}
MCTexts == {<<>>, <<65>>, <<47, 2048, 46, 97>>, <<128, 47>>, <<65536, 65535>>}

Strs == INSTANCE Strings WITH
  Names8 <- {"s", "t", "u"}, Names16 <- {"w", "x"}, Buffers <- 1 .. 7, Texts <- MCTexts,
  Beginnings <- MCTextBeginnings, MaxLength <- 6, MaxOps <- 2,
  str <- v1, heap <- v2, meant <- v3, ops <- v4
----------------------------------------------------------------------------
\* Messages: four of them, a buffer and an object, at first held or inside
\* each other
Unallocated == [kind |-> "free"]
Held(refs, what, items) == [kind |-> "message", refs |-> refs, what |-> what, mItems |-> items]
Named(name, type, value) == [mName |-> name, mType |-> type, value |-> value]
Buffer(refs, farewell) ==
  [kind |-> "buffer", refs |-> refs, mRangeOffset |-> 0, mRangeLength |-> 1, mMeta |-> 0,
   mFarewell |-> farewell]
Thing(refs) == [kind |-> "object", refs |-> refs]
MCHeaps ==
  {[held |-> {1, 2, 5, 7},
    heap |-> 1 :> Held(1, 0, <<>>) @@ 2 :> Held(1, 0, <<>>) @@ 3 :> Unallocated @@ 4 :> Unallocated
               @@ 5 :> Buffer(1, 0) @@ 7 :> Thing(1)],
   [held |-> {1},
    heap |-> 1 :> Held(1, 0, <<Named("a", "Message", 2), Named("b", "Buffer", 5)>>)
               @@ 2 :> Held(1, 1, <<Named("a", "Object", 7), Named("b", "Int32", 0)>>)
               @@ 3 :> Held(1, 0, <<>>) @@ 4 :> Unallocated @@ 5 :> Buffer(1, 3) @@ 7 :> Thing(1)]}

Messaging == INSTANCE AMessage WITH
  Messages <- 1 .. 4, ABuffers <- {5}, Objects <- {7}, ItemNames <- {"a", "b"}, Values <- {0, 1},
  kMaxNumItems <- 2, Capacity <- 1, Beginnings <- MCHeaps, MaxOps <- 3,
  heap <- v1, held <- v2, posted <- v3, ended <- v4, meant <- v5, dups <- v6, ops <- v7
----------------------------------------------------------------------------
\* Meta data: two dictionaries, and values in place and in memory
Datum(type, size, data) == [mType |-> type, mSize |-> size, data |-> data]
MCData == {Datum(1, 4, <<1>>), Datum(2, 8, <<2>>), Datum(2, 8, <<3>>), Datum(3, 5, <<4>>)}

Dictionary == INSTANCE MetaData WITH
  Dicts <- {1, 2}, Keys <- 1 .. 2, DataValues <- MCData, Storages <- 1 .. 3, Blocks <- 1 .. 7,
  MaxSets <- 5, mItems <- v1, storages <- v2, memory <- v3, says <- v4, sets <- v5
----------------------------------------------------------------------------
\* A file of five bytes behind a cache of three: all of it, a part, and one
\* whose length is not known
Source(offset, length) == [mOffset |-> offset, mLength |-> length]
MCSources == {Source(0, 5), Source(1, 3), Source(2, -1)}

File == INSTANCE TinyCacheSource WITH
  FileReaders <- {1}, Bytes <- <<10, 11, 12, 13, 14>>, FileSources <- MCSources, kCacheSize <- 3,
  Requests <- [offset : 0 .. 5, size : {0, 1, 2, 4}],
  source <- v1, mCache <- v2, mCachedOffset <- v3, mCachedSize <- v4, reads <- v5
----------------------------------------------------------------------------
\* Two threads with files that one sniffer knows, or several, or none
Opinion(mime, confidence) == [mimeType |-> mime, confidence |-> confidence]
MCOpinions ==
  {<<>>, "SniffMPEG2TS" :> Opinion("video/mp2ts", 2) @@ "SniffMPEG2PS" :> Opinion("video/mp2p", 2),
   "SniffMPEG4" :> Opinion("video/mp4", 4) @@ "SniffMPEG2TS" :> Opinion("video/mp2ts", 1),
   "SniffMPEG4" :> Opinion("audio/mp4", 1) @@ "SniffMPEG2TS" :> Opinion("video/mp2ts", 1)
     @@ "SniffMPEG2PS" :> Opinion("video/mp2p", 2)}

Extractor == INSTANCE MediaExtractor WITH
  Makers <- {1, 2}, Opinions <- MCOpinions,
  gSniffersRegistered <- v1, gSniffers <- v2, opinion <- v3, makes <- v4
----------------------------------------------------------------------------
\* Inputs of the parsers
Of(kind, name, set) == {[kind |-> kind] @@ (name :> x) : x \in set}
Some(f) == {[k \in keys |-> f[k]] : keys \in SUBSET DOMAIN f}

MCNals == {<<103, 66>>, <<101, 0, 5>>, <<65, 1>>, <<1, 0, 1>>, <<10>>}
Streams ==
  UNION {[kind : {"nals"}, nals : [1 .. n -> MCNals], zeros : [1 .. n -> 2 .. 3]] : n \in 1 .. 3}
ParameterSetsIn ==
  {p \in [profile : {66, 100}, chroma : 0 .. 3, poc : 0 .. 2, mbs : {22}, units : {9}, frame : {0, 1},
          crop : {<<>>, <<0, 0, 0, 2>>, <<1, 2, 1, 0>>}, sar : {-1, 13, 255}] :
     p.profile = 66 => p.chroma = 1}
VideoLayers ==
  [id : {0, 1}, aspect : {1, 15}, control : {0, 1}, vbv : {0, 1}, resolution : {1, 3, 25, 30000},
   fixed : {0, 1}]
AudioHeaders ==
  [version : 0 .. 3, layer : 0 .. 3, bitrate_index : 0 .. 15, sampling_rate_index : 0 .. 3,
   padding : {0, 1}, channel_mode : {3}]
StreamDescriptors ==
  [long : BOOLEAN, depends : BOOLEAN, url : {-1, 0, 2, 40}, ocr : BOOLEAN,
   info : {<<>>, <<18, 16>>, <<4, 5, 3, 4, 5, 255>>}]
\* descriptors that say they are shorter than they are, with the rest or not
ShortDescriptors ==
  UNION {[kind : {"short"}, esds : {p}, says : {n}, ends : {n, 99}] :
           p \in [long : {FALSE}, depends : BOOLEAN, url : {-1, 0, 2}, ocr : BOOLEAN, info : {<<>>, <<18, 16>>}],
           n \in 3 .. 9}
AudioConfigs == [profile : 0 .. 3, index : 0 .. 11, channels : 1 .. 8]

VideoMetas ==
  {type @@ sync @@ sar : type \in {"kKeyMIMEType" :> mime @@ "kKeyWidth" :> 8 @@ "kKeyHeight" :> 6 :
                                     mime \in {"video/avc", "video/mp4v-es"}},
                         sync \in Some("kKeyIsSyncFrame" :> 0) \cup Some("kKeyIsSyncFrame" :> 1),
                         sar \in {<<>>, "kKeySARWidth" :> 4 @@ "kKeySARHeight" :> 3}}
AudioMetas ==
  {"kKeyMIMEType" :> "audio/mp4a-latm" @@ "kKeyChannelCount" :> 2 @@ "kKeySampleRate" :> 44100 @@ more :
     more \in Some("kKeyChannelMask" :> 3 @@ "kKeyEncoderDelay" :> 1 @@ "kKeyEncoderPadding" :> 4
                     @@ "kKeyIsADTS" :> 2 @@ "kKeyDuration" :> 5 @@ "kKeyMaxInputSize" :> 6)}
SetsOfOne == {<<103, 1, 2, 3, 4>>, <<103>>, <<103, 0, 0, 3, 1>>, <<104, 5, 6, 7>>}
Tracks ==
  [csd : {"avc"}, meta : {m \in VideoMetas : m["kKeyMIMEType"] = "video/avc"},
   sps : UNION {[1 .. n -> SetsOfOne] : n \in 0 .. 2}, pps : UNION {[1 .. n -> SetsOfOne] : n \in 1 .. 2}]
    \cup [csd : {"esds"}, meta : VideoMetas \cup AudioMetas, info : {<<18, 16>>, <<1, 2, 3, 4, 5>>}]

MCInputs ==
  Streams \cup Of("sps", "sps", ParameterSetsIn) \cup Of("vol", "vol", VideoLayers)
    \cup Of("mpa", "header", AudioHeaders) \cup Of("esds", "esds", StreamDescriptors)
    \cup ShortDescriptors \cup Of("aac", "aac", AudioConfigs) \cup Of("format", "format", Tracks)
    \cup Of("base64", "data", UNION {[1 .. n -> {0, 77, 255}] : n \in 0 .. 5})
    \cup Of("bits", "bytes", {<<129, 2, 67, 196, 5, 70, 199, 8, 73, 202, 11>>, <<90>>})

Parsers == INSTANCE Formats WITH
  Inputs <- MCInputs, BitCounts <- {0, 1, 8, 13, 25, 32, 40},
  input <- v1, br <- v2, pos <- v3, got <- v4
----------------------------------------------------------------------------
PayloadParts == {"texts", "messages", "metadata", "file", "extractor", "formats"}

PayloadsInit(part) ==
  \/ part = "texts" /\ Strs!Init /\ From5Off
  \/ part = "messages" /\ Messaging!Init
  \/ part = "metadata" /\ Dictionary!Init /\ From6Off
  \/ part = "file" /\ File!Init /\ From6Off
  \/ part = "extractor" /\ Extractor!Init /\ From5Off
  \/ part = "formats" /\ Parsers!Init /\ From5Off

PayloadsNext(part) ==
  \/ part = "texts" /\ Strs!Next /\ UNCHANGED <<v5, v6, v7>>
  \/ part = "messages" /\ Messaging!Next
  \/ part = "metadata" /\ Dictionary!Next /\ UNCHANGED <<v6, v7>>
  \/ part = "file" /\ File!Next /\ UNCHANGED <<v6, v7>>
  \/ part = "extractor" /\ Extractor!Next /\ UNCHANGED <<v5, v6, v7>>
  \/ part = "formats" /\ Parsers!Next /\ UNCHANGED <<v5, v6, v7>>

Shared(part) ==
  CASE part = "texts" -> Strs!StringBuffersCounted
    [] part = "messages" -> Messaging!MessagesAreRight
    [] part = "metadata" -> Dictionary!MetaDataIsRight
    [] OTHER -> TRUE

Found(part) ==
  CASE part = "file" -> File!ReadsAreOfTheFile
    [] part = "extractor" -> Extractor!BestIsTaken
    [] OTHER -> TRUE

Converted(part) ==
  CASE part = "texts" -> Strs!SaysWhatIsMeant /\ Strs!WaysAgree
    [] part = "formats" -> Parsers!FormatsAreRight
    [] OTHER -> TRUE
=============================================================================
