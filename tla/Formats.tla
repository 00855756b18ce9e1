------------------------------ MODULE Formats ------------------------------
(***************************************************************************)
(* The parsers of small formats at work: on what an encoder that follows   *)
(* the standards would give them, one input in a behaviour, and a bit      *)
(* reader that is read and given back to.  The encoders are those of       *)
(* ITU-T H.264 (7.3), ISO/IEC 14496-2 (6.2), 14496-1 (7.2), 11172-3 (2.4)  *)
(* and RFC 4648, with the fields nothing depends on fixed.                 *)
(***************************************************************************)
EXTENDS Utils, FiniteSets

CONSTANTS
  Inputs,      \* records, each of a kind
  BitCounts    \* how many bits are read, skipped or put back at once

VARIABLES
  input,
  br,          \* the ABitReader, of an input of the kind "bits"
  pos,         \* how many bits were read and not put back
  got          \* what was read last, or what a skip would have

vars == <<input, br, pos, got>>

Init ==
  /\ input \in Inputs
  /\ br = Reader(IF input.kind = "bits" THEN input.bytes ELSE <<>>) /\ pos = 0 /\ got = <<>>
----------------------------------------------------------------------------
(* The bit reader *)

All == BitsOfBytes(input.bytes)
Reads == input.kind = "bits" /\ ~br.aborted /\ UNCHANGED input

GetBits(n) ==
  LET read == getBits(br, n) IN
  Reads /\ br' = read.br /\ got' = read.got /\ pos' = pos + n

SkipBits(n) ==
  Reads /\ br' = skipBits(br, n) /\ pos' = pos + n /\ got' = <<>>

(* Up to 25 bits that were read are put back: more would need bytes that   *)
(* have left the reservoir.                                                *)
PutBits(n) ==
  /\ Reads /\ 0 < n /\ n <= 25 /\ n <= pos
  /\ br' = putBits(br, SubSeq(All, pos - n + 1, pos)) /\ pos' = pos - n /\ got' = <<>>

Next == \E n \in BitCounts : GetBits(n) \/ SkipBits(n) \/ PutBits(n)

Spec == Init /\ [][Next]_vars

(* Bits are read in their order, whatever was put back, and the reader     *)
(* knows how many are left; it fails only when there are not enough        *)
(* (ABitReader::getBits(), putBits()).                                     *)
BitsInOrder ==
  /\ br.aborted <=> pos > Len(All)
  /\ ~br.aborted => /\ got = SubSeq(All, pos - Len(got) + 1, pos)
                    /\ numBitsLeft(br) = Len(All) - pos
                    /\ dataAt(br) = pos \div 8
----------------------------------------------------------------------------
(* NAL units.  Each is joined to those before by so many zeros and a one.  *)

StartCodeOf(zeros) == Zeros(zeros) \o <<1>>
Joined(nals, zeros) == FlattenSeq([i \in DOMAIN nals |-> StartCodeOf(zeros[i]) \o nals[i]])

(* All units of a stream are found and none is changed, except that one of *)
(* a single byte at the end is not seen (getNextNALUnit()).                *)
Seen(nals) == IF Len(nals) > 1 /\ Len(Last(nals)) = 1 THEN Front(nals) ELSE nals
UnitsAreFound ==
  LET data  == Joined(input.nals, input.zeros)
      types == [i \in DOMAIN Seen(input.nals) |-> NalType(input.nals[i])]
      slices == SelectSeq(Seen(input.nals), LAMBDA nal : NalType(nal) \in {1, 5})
  IN  /\ NALUnits(data, TRUE) = Seen(input.nals)
      /\ NALUnits(data, FALSE) = Front(input.nals)
      /\ IsIDR(data) <=> 5 \in ToSet(types)
      /\ IsAVCReferenceFrame(data) <=> slices = <<>> \/ (slices[1][1] \div 32) % 4 # 0 \/ NalType(slices[1]) = 5
----------------------------------------------------------------------------
(* Headers *)

UEBits(v) == LET n == NumBits(v + 1) IN Zeros(n - 1) \o Bits(v + 1, n)
When(condition, bits) == IF condition THEN bits ELSE <<>>
ToBytes(bits) ==
  LET n == (Len(bits) + 7) \div 8
      padded == bits \o Zeros(8 * n - Len(bits))
  IN  [i \in 1 .. n |-> Number(SubSeq(padded, 8 * i - 7, 8 * i))]

EncodedSPS(p) ==
  <<103>> \o ToBytes(
    Bits(p.profile, 8) \o Bits(30, 16) \o UEBits(0)
      \o When(p.profile = 100, UEBits(p.chroma) \o When(p.chroma = 3, <<0>>) \o UEBits(0) \o UEBits(0) \o <<0, 0>>)
      \o UEBits(4) \o UEBits(p.poc) \o When(p.poc = 0, UEBits(2))
      \o When(p.poc = 1, <<0>> \o UEBits(3) \o UEBits(1) \o UEBits(2) \o UEBits(5) \o UEBits(6))
      \o UEBits(1) \o <<0>> \o UEBits(p.mbs - 1) \o UEBits(p.units - 1)
      \o <<p.frame>> \o When(p.frame = 0, <<1>>) \o <<1>>
      \o (IF p.crop = <<>> THEN <<0>>
          ELSE <<1>> \o FlattenSeq([i \in 1 .. 4 |-> UEBits(p.crop[i])]))
      \o (IF p.sar < 0 THEN <<0>>
          ELSE <<1, 1>> \o Bits(p.sar, 8) \o When(p.sar = 255, Bits(40, 16) \o Bits(33, 16)))
      \o <<1>>)

(* The width and height of what is shown, and the shape of a sample.       *)
SubWidthC(p) == IF p.chroma \in {1, 2} THEN 2 ELSE 1
SubHeightC(p) == IF p.chroma = 1 THEN 2 ELSE 1
CropOf(p, i) == IF p.crop = <<>> THEN 0 ELSE p.crop[i]
WidthOf(p) == 16 * p.mbs - SubWidthC(p) * (CropOf(p, 1) + CropOf(p, 2))
HeightOf(p) ==
  16 * p.units * (2 - p.frame) - SubHeightC(p) * (2 - p.frame) * (CropOf(p, 3) + CropOf(p, 4))
SAROf(p) ==
  CASE p.sar = 255 -> <<40, 33>> [] p.sar = 2 -> <<12, 11>> [] p.sar = 13 -> <<160, 99>> [] OTHER -> <<>>

(* A stream that needs emulation prevention is not read as it is meant.    *)
Emulates(bytes) == \E i \in 3 .. Len(bytes) : bytes[i - 2] = 0 /\ bytes[i - 1] = 0 /\ bytes[i] <= 3

(* What is made of an access unit with parameter sets says its size, and   *)
(* gives the decoder the same sets (MakeAVCCodecSpecificData(),            *)
(* FindAVCDimensions(), convertMetaDataToMessage()).                       *)
AccessUnit(p) == Joined(<<<<9, 240>>, EncodedSPS(p), <<104, 206>>, <<101, 136, 132>>>>, <<3, 3, 2, 2>>)
SaysSizeOf(made, p) ==
  /\ made.made = "yes"
  /\ made.width = WidthOf(p) /\ made.height = HeightOf(p) /\ made.sar = SAROf(p)
  /\ FromAVCC(made.avcc) = [key \in {"csd-0", "csd-1"} |->
                              StartCode \o (IF key = "csd-0" THEN EncodedSPS(p) ELSE <<104, 206>>)]
DimensionsAreRight ==
  ~Emulates(EncodedSPS(input.sps)) =>
    SaysSizeOf(MakeAVCCodecSpecificData(AccessUnit(input.sps)), input.sps)

EncodedVOL(p) ==
  <<0, 0, 1, 32>> \o ToBytes(
    <<0>> \o Bits(1, 8) \o <<p.id>> \o When(p.id = 1, Bits(9, 7))
      \o Bits(p.aspect, 4) \o When(p.aspect = 15, Bits(771, 16))
      \o <<p.control>> \o When(p.control = 1, <<0, 1, 0, p.vbv>>)
      \o When(p.control = 1 /\ p.vbv = 1,
              Bits(5, 15) \o <<1>> \o Bits(6, 15) \o <<1>> \o Bits(7, 15) \o <<1>>
                \o Bits(2, 3) \o Bits(9, 11) \o <<1>> \o Bits(3, 15) \o <<1>>)
      \o <<0, 0, 1>> \o Bits(p.resolution, 16) \o <<1, p.fixed>>
      \o When(p.fixed = 1, [i \in 1 .. Cardinality({n \in 0 .. 15 : 2 ^ n < p.resolution}) |-> 1])
      \o <<1>> \o Bits(352, 13) \o <<1>> \o Bits(288, 13) \o <<1, 0>>)

(* The dimensions of an MPEG-4 video (ExtractDimensionsFromVOLHeader()).   *)
VideoIsRight ==
  ExtractDimensionsFromVOLHeader(EncodedVOL(input.vol)) = [aborted |-> FALSE, width |-> 352, height |-> 288]

(* A frame of MPEG audio is as long as its bitrate lasts for its samples,  *)
(* to a slot (GetMPEGAudioFrameSize()).                                    *)
FramesLast ==
  LET frame == GetMPEGAudioFrameSize(input.header)
      slot  == IF input.header.layer = 3 THEN 4 ELSE 1
      size  == frame.frame_size - slot * input.header.padding
      bits  == frame.num_samples * frame.bitrate * 125
  IN  frame.ok => size * frame.sampling_rate <= bits /\ bits < (size + slot) * frame.sampling_rate
----------------------------------------------------------------------------
(* Formats.  Descriptors may use one byte for a size, or four.             *)

Descriptor(tag, long, body) == <<tag>> \o (IF long THEN Size4(Len(body)) ELSE <<Len(body)>>) \o body
StreamDescriptor(p) ==
    <<0, 1, (IF p.depends THEN 128 ELSE 0) + (IF p.url >= 0 THEN 64 ELSE 0) + (IF p.ocr THEN 32 ELSE 0)>>
      \o When(p.depends, <<0, 2>>) \o When(p.url >= 0, <<p.url>> \o [i \in 1 .. p.url |-> 97])
      \o When(p.ocr, <<0, 3>>)
      \o Descriptor(4, p.long,
           <<64, 21>> \o Zeros(11) \o When(p.info # <<>>, Descriptor(5, p.long, p.info)))
      \o <<6, 1, 2>>
EncodedESDS(p) == Descriptor(3, p.long, StreamDescriptor(p))

(* A descriptor is read as it was written; one that is refused has a URL   *)
(* (ESDS::parse()).                                                        *)
ReadAsWritten(read, esds) == read.err = "OK" => read.type = 64 /\ read.info = esds.info
DescriptorsAreRead ==
  LET read == parse(EncodedESDS(input.esds)) IN
  ReadAsWritten(read, input.esds) /\ (read.err # "OK" => read.err = "MALFORMED" /\ input.esds.url > 0)

(* One that says it is shorter than it is, is read as it was written or    *)
(* refused; where there is no more of it, bytes after it are read only if  *)
(* it says less than its flags need, when the size wraps                   *)
(* (parseESDescriptor()).                                                  *)
Flagged(p) == (IF p.depends THEN 2 ELSE 0) + (IF p.url >= 0 THEN 1 + p.url ELSE 0) + (IF p.ocr THEN 2 ELSE 0)
ShortOnesAreSeen ==
  LET whole == StreamDescriptor(input.esds)
      read  == parse(<<3, input.says>> \o SubSeq(whole, 1, Min({input.ends, Len(whole)})))
  IN
  /\ ReadAsWritten(read, input.esds)
  /\ read.err = "PAST_END" => input.says < 3 + Flagged(input.esds)

(* A format made a message and meta data again says what it said, and has  *)
(* the same parameter sets or decoder information                          *)
(* (convertMetaDataToMessage(), convertMessageToMetaData()).               *)
CsdKeys == {"kKeyAVCC", "kKeyESDS"}
Said(meta) ==
  [key \in {k \in DOMAIN meta \ CsdKeys : ~(k = "kKeyIsSyncFrame" /\ meta[k] = 0)} |->
     IF key \in {"kKeyIsADTS", "kKeyIsSyncFrame"} THEN 1 ELSE meta[key]]
AVCCOf(format) ==
  <<1, 77, 0, 30, 255, 224 + Len(format.sps)>> \o Lengths(format.sps)
    \o <<Len(format.pps)>> \o Lengths(format.pps)
MetaOf(format) ==
  format.meta
    @@ (IF format.csd = "avc" THEN "kKeyAVCC" :> AVCCOf(format)
        ELSE "kKeyESDS" :> EncodedESDS([long |-> FALSE, depends |-> FALSE, url |-> -1, ocr |-> FALSE,
                                        info |-> format.info]))
SaysTheSame(back, format) ==
  /\ Said(back) = Said(MetaOf(format))
  /\ IF format.csd = "avc" THEN SubSeq(back["kKeyAVCC"], 6, Len(back["kKeyAVCC"]))
                                  = SubSeq(AVCCOf(format), 6, Len(AVCCOf(format)))
     ELSE parse(back["kKeyESDS"]).info = format.info
FormatsComeBack ==
  SaysTheSame(convertMessageToMetaData(convertMetaDataToMessage(MetaOf(input.format))), input.format)

(* The data an AAC header stands for is what its descriptor says           *)
(* (MakeAACCodecSpecificData()).                                           *)
AudioIsRight ==
  LET aac  == MakeAACCodecSpecificData(input.aac.profile, input.aac.index, input.aac.channels)
      info == BitsOfBytes(parse(aac.esds).info)
  IN  /\ Number(SubSeq(info, 1, 5)) = input.aac.profile + 1
      /\ kSamplingFreq[Number(SubSeq(info, 6, 9)) + 1] = aac.rate
      /\ Number(SubSeq(info, 10, 13)) = input.aac.channels

(* Bytes come back from base64 (encodeBase64(), decodeBase64()).           *)
Base64ComesBack ==
  /\ decodeBase64(encodeBase64(input.data)) = input.data
  /\ \A c \in {Pad, Other} : decodeBase64(<<c>> \o encodeBase64(input.data)) = NotBase64

FormatsAreRight ==
  CASE input.kind = "bits" -> BitsInOrder
    [] input.kind = "nals" -> UnitsAreFound
    [] input.kind = "sps" -> DimensionsAreRight
    [] input.kind = "vol" -> VideoIsRight
    [] input.kind = "mpa" -> FramesLast
    [] input.kind = "esds" -> DescriptorsAreRead
    [] input.kind = "short" -> ShortOnesAreSeen
    [] input.kind = "format" -> FormatsComeBack
    [] input.kind = "aac" -> AudioIsRight
    [] input.kind = "base64" -> Base64ComesBack
=============================================================================
