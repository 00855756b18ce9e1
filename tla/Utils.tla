------------------------------- MODULE Utils -------------------------------
(***************************************************************************)
(* The format of a track as meta data and as a message, and the one made   *)
(* of the other.  Each is a function from its keys to values.  The codec   *)
(* specific data is in the message one or two buffers: parameter sets with *)
(* start codes, what an ESDS has for the decoder, or the Vorbis headers.   *)
(***************************************************************************)
EXTENDS avc_utils

(* ESDS: descriptors inside descriptors, each with a tag and a size in     *)
(* sevens of bits.  mData is a sequence of bytes, read at offsets from 0.  *)
kTag_ESDescriptor == 3
kTag_DecoderConfigDescriptor == 4
kTag_DecoderSpecificInfo == 5

Malformed == [err |-> "MALFORMED"]
PastEnd == [err |-> "PAST_END"]   \* a byte after mData was read
ByteAt(mData, offset) == mData[offset + 1]
HasBit(byte, value) == (byte \div value) % 2 = 1

(* The size ends with the first byte whose top bit is not set.             *)
skipDescriptorHeader(mData, offset, size) ==
  LET there == Min({size, Len(mData) - offset}) - 1
      ends == {k \in 1 .. there : ~HasBit(ByteAt(mData, offset + k), 128)}
      last == CHOOSE k \in ends : \A j \in ends : k <= j
      sevens == [k \in 1 .. last |-> ByteAt(mData, offset + k) % 128]
      length == FoldLeft(LAMBDA sum, seven : 128 * sum + seven, 0, sevens)
  IN  IF size # 0 /\ ends = {} /\ offset + size > Len(mData) THEN PastEnd
      ELSE IF size = 0 \/ ends = {} THEN Malformed
      ELSE IF length > size - 1 - last THEN Malformed
      ELSE [err |-> "OK", tag |-> ByteAt(mData, offset), offset |-> offset + 1 + last, size |-> length]

(* What is read of a descriptor that must have the tag.                    *)
Within(header, tag, read) ==
  IF header.err # "OK" THEN header ELSE IF header.tag # tag THEN Malformed ELSE read

parseDecoderConfigDescriptor(mData, offset, size) ==
  LET header == skipDescriptorHeader(mData, offset + 13, size - 13)
      none   == [err |-> "OK", type |-> ByteAt(mData, offset), info |-> <<>>]
      whole  == header.offset + header.size <= Len(mData)
  IN  IF size < 13 THEN Malformed
      ELSE IF offset >= Len(mData) THEN PastEnd
      ELSE IF size = 13 THEN none
      ELSE Within(header, kTag_DecoderSpecificInfo,
                  IF ~whole THEN PastEnd
                  ELSE [none EXCEPT !.info = SubSeq(mData, header.offset + 1, header.offset + header.size)])

(* What the flags say is there is skipped, without a look at how much is   *)
(* left, so that the size wraps.  Where a URL is looked for, and at the    *)
(* end, the offset from the start is compared with what is left.           *)
SizeModulus == 2 ^ 30     \* 2^32 or 2^64 in the code: more than any offset
Skip(s, n) == [s EXCEPT !.offset = @ + n, !.size = (@ - n) % SizeModulus]
\* mutant of SkipURL: the byte with its length is not skipped
SkipURLShort(mData, s) ==
  IF s.offset >= s.size THEN [s EXCEPT !.err = "MALFORMED"] ELSE Skip(s, ByteAt(mData, s.offset))
SkipURL(mData, s) ==
  IF s.offset >= s.size THEN [s EXCEPT !.err = "MALFORMED"]
  ELSE IF s.offset >= Len(mData) THEN [s EXCEPT !.err = "PAST_END"]
  ELSE Skip(s, ByteAt(mData, s.offset) + 1)

(* Content "in the wild" has the flag and not the id.                      *)
SkipOCR(mData, s) ==
  LET after  == Skip(s, 2)
      Looks(at) == at < after.size
      IsConfig(at) == ByteAt(mData, at) = kTag_DecoderConfigDescriptor
  IN  IF \E at \in {s.offset, after.offset} : Looks(at) /\ at >= Len(mData)
        THEN [s EXCEPT !.err = "PAST_END"]
      ELSE IF /\ ~(Looks(after.offset) /\ IsConfig(after.offset))
              /\ Looks(s.offset) /\ IsConfig(s.offset)
        THEN s
      ELSE after

parseESDescriptor(mData, offset, size) ==
  LET flags == ByteAt(mData, offset + 2)
      s0 == [err |-> "OK", offset |-> offset + 3, size |-> size - 3]
      s1 == IF HasBit(flags, 128) THEN Skip(s0, 2) ELSE s0
      s2 == IF HasBit(flags, 64) THEN SkipURL(mData, s1) ELSE s1
      s3 == IF HasBit(flags, 32) /\ s2.err = "OK" THEN SkipOCR(mData, s2) ELSE s2
      header == skipDescriptorHeader(mData, s3.offset, s3.size)
  IN  IF size < 3 THEN Malformed
      ELSE IF s3.err # "OK" THEN [err |-> s3.err]
      ELSE IF s3.offset >= s3.size THEN Malformed
      ELSE Within(header, kTag_DecoderConfigDescriptor,
                  parseDecoderConfigDescriptor(mData, header.offset, header.size))

parse(mData) ==
  LET header == skipDescriptorHeader(mData, 0, Len(mData)) IN
  Within(header, kTag_ESDescriptor, parseESDescriptor(mData, header.offset, header.size))
----------------------------------------------------------------------------
(* base64: a character is the number it stands for, or Pad; Other is any   *)
(* character that is neither.                                              *)
Pad == 64
Other == 65
NotBase64 == <<-1>>

Groups(s, n) == [g \in 1 .. Len(s) \div n |-> SubSeq(s, n * (g - 1) + 1, n * g)]

Encode3(x) ==
  <<x[1] \div 4, (x[1] * 16 + x[2] \div 16) % 64, (x[2] * 4 + x[3] \div 64) % 64, x[3] % 64>>
EncodeRest(x) ==
  CASE Len(x) = 0 -> <<>>
    [] Len(x) = 1 -> <<x[1] \div 4, (x[1] * 16) % 64, Pad, Pad>>
    [] Len(x) = 2 -> <<x[1] \div 4, (x[1] * 16 + x[2] \div 16) % 64, (x[2] * 4) % 64, Pad>>

encodeBase64(data) ==
  LET whole == Groups(data, 3) IN
  FlattenSeq([g \in DOMAIN whole |-> Encode3(whole[g])])
    \o EncodeRest(SubSeq(data, 3 * Len(whole) + 1, Len(data)))

Padding(s) ==
  IF s = <<>> \/ Last(s) # Pad THEN 0 ELSE IF s[Len(s) - 1] # Pad THEN 1 ELSE 2

\* mutant of Decode4: the third byte keeps what belongs to the second
Decode4Loose(x) ==
  LET value == [i \in DOMAIN x |-> IF x[i] = Pad THEN 0 ELSE x[i]] IN
  <<value[1] * 4 + value[2] \div 16, (value[2] * 16 + value[3] \div 4) % 256, (value[3] * 16 + value[4]) % 256>>
Decode4(x) ==
  LET value == [i \in DOMAIN x |-> IF x[i] = Pad THEN 0 ELSE x[i]] IN
  <<value[1] * 4 + value[2] \div 16, (value[2] * 16 + value[3] \div 4) % 256, (value[3] * 64 + value[4]) % 256>>

decodeBase64(s) ==
  LET out == FlattenSeq([g \in DOMAIN Groups(s, 4) |-> Decode4(Groups(s, 4)[g])]) IN
  IF Len(s) % 4 # 0 \/ \E i \in DOMAIN s : s[i] = Other \/ (s[i] = Pad /\ i <= Len(s) - Padding(s))
  THEN NotBase64 ELSE SubSeq(out, 1, Len(out) - Padding(s))
----------------------------------------------------------------------------
(* The two formats of a track *)


Aborted == "aborted" :> TRUE       \* a CHECK has failed
Refused == "refused" :> TRUE       \* EINVAL

VideoTypes == {"video/avc", "video/mp4v-es"}
AudioTypes == {"audio/mp4a-latm", "audio/vorbis"}

CommonKeys ==
  "kKeyMIMEType" :> "mime" @@ "kKeyDuration" :> "durationUs" @@ "kKeyMaxInputSize" :> "max-input-size"
SizeKeys == "kKeyWidth" :> "width" @@ "kKeyHeight" :> "height"
SARKeys == "kKeySARWidth" :> "sar-width" @@ "kKeySARHeight" :> "sar-height"
AudioKeys ==
  "kKeyChannelCount" :> "channel-count" @@ "kKeySampleRate" :> "sample-rate"
    @@ "kKeyChannelMask" :> "channel-mask" @@ "kKeyEncoderDelay" :> "encoder-delay"
    @@ "kKeyEncoderPadding" :> "encoder-padding"

Has(m, keys) == keys \subseteq DOMAIN m
Renamed(m, names) ==
  [name \in {names[k] : k \in DOMAIN names \cap DOMAIN m} |-> m[CHOOSE k \in DOMAIN names : names[k] = name]]
Back(names) == [name \in {names[k] : k \in DOMAIN names} |-> CHOOSE k \in DOMAIN names : names[k] = name]
Together(m, names) == IF Has(m, DOMAIN names) THEN Renamed(m, names) ELSE <<>>
----------------------------------------------------------------------------
(* Codec specific data into buffers.                                       *)

StartCode == <<0, 0, 0, 1>>

(* n sets with their lengths before them.                                  *)
ParameterSets(s, n) ==
  FoldLeft(LAMBDA t, k :
             LET length == t.ptr[1] * 256 + t.ptr[2] IN
             [buffer |-> t.buffer \o StartCode \o SubSeq(t.ptr, 3, length + 2),
              ptr    |-> SubSeq(t.ptr, length + 3, Len(t.ptr))],
           [buffer |-> <<>>, ptr |-> s], [k \in 1 .. n |-> k])

FromAVCC(avcc) ==
  LET seq == ParameterSets(SubSeq(avcc, 7, Len(avcc)), avcc[6] % 32)
      pic == ParameterSets(Tail(seq.ptr), Head(seq.ptr))
  IN  "csd-0" :> seq.buffer @@ "csd-1" :> pic.buffer

CsdOf(meta) ==
  IF Has(meta, {"kKeyAVCC"}) THEN FromAVCC(meta["kKeyAVCC"])
  ELSE IF Has(meta, {"kKeyESDS"})
    THEN LET esds == parse(meta["kKeyESDS"]) IN IF esds.err # "OK" THEN Aborted ELSE "csd-0" :> esds.info
  ELSE IF ~Has(meta, {"kKeyVorbisInfo"}) THEN <<>>
  ELSE IF ~Has(meta, {"kKeyVorbisBooks"}) THEN Refused
  ELSE "csd-0" :> meta["kKeyVorbisInfo"] @@ "csd-1" :> meta["kKeyVorbisBooks"]

Wanted(meta) ==
  IF meta["kKeyMIMEType"] \in VideoTypes THEN {"kKeyWidth", "kKeyHeight"}
  ELSE IF meta["kKeyMIMEType"] \in AudioTypes THEN {"kKeyChannelCount", "kKeySampleRate"} ELSE {}

convertMetaDataToMessage(meta) ==
  LET mime == meta["kKeyMIMEType"]
      sync == Has(meta, {"kKeyIsSyncFrame"}) /\ meta["kKeyIsSyncFrame"] # 0
      msg  == Renamed(meta, CommonKeys) @@ (IF sync THEN "is-sync-frame" :> 1 ELSE <<>>)
                @@ (IF mime \in VideoTypes THEN Renamed(meta, SizeKeys) @@ Together(meta, SARKeys)
                    ELSE IF mime \in AudioTypes
                      THEN Renamed(meta, AudioKeys)
                             @@ (IF Has(meta, {"kKeyIsADTS"}) THEN "is-adts" :> 1 ELSE <<>>)
                    ELSE <<>>)
                @@ CsdOf(meta)
  IN  IF ~Has(meta, Wanted(meta)) \/ Has(msg, DOMAIN Aborted) THEN Aborted
      ELSE IF Has(msg, DOMAIN Refused) THEN Refused ELSE msg
----------------------------------------------------------------------------
(* And out of buffers.  i goes through the bytes; a set is known when the  *)
(* next one starts, or where no other can.                                 *)

SplitSet(csd, s) ==
  LET end == s.i >= Len(csd) - 4
      i   == IF end THEN Len(csd) ELSE s.i
  IN  IF s.i > 0 /\ s.i >= Len(csd) THEN s
      ELSE IF ~end /\ SubSeq(csd, s.i + 1, s.i + 4) # StartCode THEN [s EXCEPT !.i = @ + 1]
      ELSE [i |-> i + 4, last |-> i + 4,
            sets |-> IF s.last > 0 THEN Append(s.sets, SubSeq(csd, s.last + 1, i)) ELSE s.sets]

\* mutant of SplitSets: the last set needs a start code behind it
SplitSetsEarly(csd) ==
  FoldLeft(LAMBDA s, k : IF s.i >= Len(csd) - 4 THEN s ELSE SplitSet(csd, s),
           [i |-> 0, last |-> 0, sets |-> <<>>], [k \in 1 .. Len(csd) |-> k]).sets
SplitSets(csd) ==
  FoldLeft(LAMBDA s, k : SplitSet(csd, s), [i |-> 0, last |-> 0, sets |-> <<>>],
           [k \in 1 .. Len(csd) |-> k]).sets

Lengths(sets) == FlattenSeq([k \in DOMAIN sets |-> U16(Len(sets[k])) \o sets[k]])
reassembleAVCC(csd0, csd1) ==
  LET seq == SplitSets(csd0)
      pic == SplitSets(csd1)
  IN  <<1, 100, 0, 13, 255, 224 + Len(seq)>> \o Lengths(seq) \o <<Len(pic)>> \o Lengths(pic)

Size4(n) == <<128 + n \div 2 ^ 21, 128 + ((n \div 2 ^ 14) % 128), 128 + ((n \div 128) % 128), n % 128>>
reassembleESDS(csd0) ==
  <<kTag_ESDescriptor>> \o Size4(26 + Len(csd0)) \o <<0, 0, 0>>
    \o <<kTag_DecoderConfigDescriptor>> \o Size4(18 + Len(csd0))
    \o <<64, 21, 0, 24, 0, 0, 0, 250, 0, 0, 0, 250, 0>>
    \o <<kTag_DecoderSpecificInfo>> \o Size4(Len(csd0)) \o csd0

CsdIn(msg, mime) ==
  IF ~Has(msg, {"csd-0"}) \/ mime \notin VideoTypes \cup AudioTypes THEN <<>>
  ELSE IF mime \in VideoTypes /\ Has(msg, {"csd-1"})
    THEN "kKeyAVCC" :> reassembleAVCC(msg["csd-0"], msg["csd-1"])
  ELSE "kKeyESDS" :> reassembleESDS(msg["csd-0"])

convertMessageToMetaData(msg) ==
  LET mime == msg["mime"]
      sync == Has(msg, {"is-sync-frame"}) /\ msg["is-sync-frame"] # 0
  IN  Renamed(msg, Back(CommonKeys)) @@ (IF sync THEN "kKeyIsSyncFrame" :> 1 ELSE <<>>)
        @@ (IF mime \in VideoTypes THEN Together(msg, Back(SizeKeys)) @@ Together(msg, Back(SARKeys))
            ELSE IF mime \in AudioTypes THEN Renamed(msg, Back(AudioKeys) @@ "is-adts" :> "kKeyIsADTS")
            ELSE <<>>)
        @@ CsdIn(msg, mime)
=============================================================================
