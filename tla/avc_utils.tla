----------------------------- MODULE avc_utils -----------------------------
(***************************************************************************)
(* What the headers of elementary streams say: NAL units and where they    *)
(* end, the dimensions in a sequence parameter set, the codec specific     *)
(* data that is made of an access unit, MPEG audio frames, and the header  *)
(* of a video object layer.  A header's fields are read in their order,    *)
(* those left out that an earlier field says are not there.                *)
(***************************************************************************)
EXTENDS Integers, SequencesExt, TLC

(* ABitReader: bits read from bytes, through a reservoir of 32 that is     *)
(* filled with four bytes at a time, or with what is left.  A bit string   *)
(* is a sequence of 0 and 1, the most significant one first; a shift is    *)
(* one of the reservoir's 32 bits.                                         *)
Bits(x, n) == [i \in 1 .. n |-> (x \div 2 ^ (n - i)) % 2]
Number(bits) == FoldLeft(LAMBDA sum, bit : 2 * sum + bit, 0, bits)
BitsOfBytes(bytes) == FlattenSeq([i \in DOMAIN bytes |-> Bits(bytes[i], 8)])

Zeros(n) == [i \in 1 .. n |-> 0]
ShiftLeft(r, m) == SubSeq(r, m + 1, 32) \o Zeros(m)

(* mData is the number of bytes behind.                                    *)
Reader(bytes) ==
  [bytes |-> bytes, mData |-> 0, mSize |-> Len(bytes), mReservoir |-> Zeros(32), mNumBitsLeft |-> 0,
   aborted |-> FALSE]

fillReservoir(br) ==
  LET i == IF br.mSize < 4 THEN br.mSize ELSE 4
      taken == BitsOfBytes(SubSeq(br.bytes, br.mData + 1, br.mData + i))
  IN  IF br.mSize = 0 THEN [br EXCEPT !.aborted = TRUE]
      ELSE [br EXCEPT !.mData = @ + i, !.mSize = @ - i, !.mNumBitsLeft = 8 * i,
                      !.mReservoir = taken \o Zeros(32 - 8 * i)]

(* What is read is in got, and how many bits are still wanted in n.        *)
TakeFrom(br, s) ==
  LET m == IF s.n > br.mNumBitsLeft THEN br.mNumBitsLeft ELSE s.n
  IN  [br  |-> [br EXCEPT !.mReservoir = ShiftLeft(@, m), !.mNumBitsLeft = @ - m],
       got |-> s.got \o SubSeq(br.mReservoir, 1, m),
       n   |-> s.n - m]
Take(s) == TakeFrom(IF s.br.mNumBitsLeft = 0 THEN fillReservoir(s.br) ELSE s.br, s)

\* 32 bits meet at most four fillings: the bits that are left, two in
\* between, and one that fails
getBits(br, n) ==
  FoldLeft(LAMBDA s, k : IF s.n = 0 \/ s.br.aborted THEN s ELSE Take(s),
           [br |-> br, got |-> <<>>, n |-> n], <<1, 2, 3, 4>>)

(* In parts of 32 and a rest.                                              *)
skipBits(br, n) ==
  FoldLeft(LAMBDA b, k : getBits(b, IF k <= n \div 32 THEN 32 ELSE n % 32).br,
           br, [k \in 1 .. n \div 32 + 1 |-> k])

(* The bytes that do not fit any more are to be read again.                *)
\* mutant of putBits: the bytes to be read again are not counted
putBitsUncounted(br, x) ==
  LET n    == Len(x)
      over == br.mNumBitsLeft + n - 32
      k    == IF over > 0 THEN (over + 7) \div 8 ELSE 0
  IN  [br EXCEPT !.mNumBitsLeft = @ - 8 * k + n, !.mData = @ - k,
                 !.mReservoir = x \o SubSeq(@, 1, 32 - n)]
putBits(br, x) ==
  LET n    == Len(x)
      over == br.mNumBitsLeft + n - 32
      k    == IF over > 0 THEN (over + 7) \div 8 ELSE 0
  IN  [br EXCEPT !.mNumBitsLeft = @ - 8 * k + n, !.mData = @ - k, !.mSize = @ + k,
                 !.mReservoir = x \o SubSeq(@, 1, 32 - n)]

numBitsLeft(br) == br.mSize * 8 + br.mNumBitsLeft
dataAt(br) == br.mData - (br.mNumBitsLeft + 7) \div 8
----------------------------------------------------------------------------

Least(set) == CHOOSE n \in set : \A k \in set : n <= k
Greatest(set) == CHOOSE n \in set : \A k \in set : k <= n
----------------------------------------------------------------------------
(* NAL units *)

ZerosAt(data, i) == Least({n \in 0 .. Len(data) - i : i + n = Len(data) \/ data[i + n + 1] # 0})

(* Places of 01 with 00 00 before it, behind from.                         *)
StartCodes(data, from) ==
  {i \in from + 1 .. Len(data) : data[i] = 1 /\ data[i - 1] = 0 /\ data[i - 2] = 0}

(* The rest begins with the start code that was found; a rest of fewer     *)
(* than two bytes behind the code is no rest.                              *)
NoUnit == [err |-> "EAGAIN", nal |-> <<>>, rest |-> <<>>]
getNextNALUnit(data, startCodeFollows) ==
  LET offset == ZerosAt(data, 0)
      start  == offset + 1
      codes  == StartCodes(data, start)
      found  == IF codes = {} THEN Len(data) + 2 ELSE Least(codes) - 1
      end    == Greatest({start + 1} \cup {e \in start + 1 .. found - 2 : data[e] # 0})
  IN  IF offset = Len(data) \/ (codes = {} /\ ~startCodeFollows) THEN NoUnit
      ELSE IF offset < 2 \/ data[offset + 1] # 1 THEN [NoUnit EXCEPT !.err = "MALFORMED"]
      ELSE [err  |-> "OK",
            nal  |-> SubSeq(data, start + 1, IF found - 2 > start THEN end ELSE found - 2),
            rest |-> IF found + 2 < Len(data) THEN SubSeq(data, found - 1, Len(data)) ELSE <<>>]

(* The units that a loop over getNextNALUnit() meets.                      *)
NALUnits(data, startCodeFollows) ==
  FoldLeft(LAMBDA s, k :
             LET next == getNextNALUnit(s.data, startCodeFollows) IN
             IF s.data = <<>> \/ next.err # "OK" THEN [s EXCEPT !.data = <<>>]
             ELSE [data |-> next.rest, nals |-> Append(s.nals, next.nal)],
           [data |-> data, nals |-> <<>>], [k \in 1 .. Len(data) \div 4 + 1 |-> k]).nals

NalType(nal) == nal[1] % 32
NalRefIdc(nal) == (nal[1] \div 32) % 4

FindNAL(data, type) == SelectSeq(NALUnits(data, TRUE), LAMBDA nal : NalType(nal) = type)
IsIDR(data) == \E nal \in ToSet(NALUnits(data, TRUE)) : NalType(nal) = 5
IsAVCReferenceFrame(data) ==
  LET slices == SelectSeq(NALUnits(data, TRUE), LAMBDA nal : NalType(nal) \in {1, 5}) IN
  slices = <<>> \/ NalType(slices[1]) = 5 \/ NalRefIdc(slices[1]) # 0
----------------------------------------------------------------------------
(* Fields of a header: names with a number of bits, or Golomb, or Computed *)
(* from an earlier field.                                                  *)

Golomb == -1
Computed == -2
MaxCycle == 2      \* bound: reference frames in a picture order cycle

Bit(name) == <<name, 1>>
UE(name) == <<name, Golomb>>

HighFields == {"chroma_format_idc", "bit_depth_luma", "bit_depth_chroma", "bypass", "scaling"}
CycleFields == {"always_zero", "non_ref_pic", "top_to_bottom", "cycle"}
CropFields == {"left", "right", "top", "bottom"}
SPSFields ==
  <<<<"profile_idc", 8>>, <<"constraints_level", 16>>, UE("seq_parameter_set_id"),
    UE("chroma_format_idc"), Bit("residual_colour"), UE("bit_depth_luma"), UE("bit_depth_chroma"),
    Bit("bypass"), Bit("scaling"),
    UE("log2_max_frame_num"), UE("pic_order_cnt_type"), UE("log2_max_lsb"),
    Bit("always_zero"), UE("non_ref_pic"), UE("top_to_bottom"), UE("cycle"),
    UE("ref_frame_1"), UE("ref_frame_2"),
    UE("num_ref_frames"), Bit("gaps"), UE("width_in_mbs"), UE("height_in_map_units"),
    Bit("frame_mbs_only"), Bit("mb_adaptive"), Bit("direct_8x8"),
    Bit("cropping"), UE("left"), UE("right"), UE("top"), UE("bottom"),
    Bit("vui"), Bit("aspect_ratio_info"), <<"aspect_ratio_idc", 8>>,
    <<"sar_width", 16>>, <<"sar_height", 16>>>>

AbsentFromSPS(f) ==
  (IF f.profile_idc \in {100, 110, 122, 244, 44, 83, 86} THEN {} ELSE HighFields)
    \cup (IF f.chroma_format_idc = 3 THEN {} ELSE {"residual_colour"})
    \cup (IF f.pic_order_cnt_type = 0 THEN {} ELSE {"log2_max_lsb"})
    \cup (IF f.pic_order_cnt_type = 1 THEN {} ELSE CycleFields)
    \cup {<<"ref_frame_1", "ref_frame_2">>[i] : i \in f.cycle + 1 .. MaxCycle}
    \cup (IF f.frame_mbs_only = 1 THEN {"mb_adaptive"} ELSE {})
    \cup (IF f.cropping = 1 THEN {} ELSE CropFields)
    \cup (IF f.vui = 1 THEN {} ELSE {"aspect_ratio_info"})
    \cup (IF f.aspect_ratio_info = 1 THEN {} ELSE {"aspect_ratio_idc"})
    \cup (IF f.aspect_ratio_idc = 255 THEN {} ELSE {"sar_width", "sar_height"})

Markers == [n \in 1 .. 10 |-> "marker" \o ToString(n)]
Marker(n) == Bit(Markers[n])
ControlFields == {"chroma_format", "low_delay", "vbv"}
VbvFields ==
  {"bit_rate_1", "bit_rate_2", "buffer_1", "buffer_2_occupancy_1", "occupancy_2"}
    \cup ToSet(SubSeq(Markers, 1, 5))
VOLFields ==
  <<Bit("random_accessible"), <<"type_indication", 8>>, Bit("identifier"), <<"verid_priority", 7>>,
    <<"aspect", 4>>, <<"par", 16>>, Bit("control"), <<"chroma_format", 2>>, Bit("low_delay"), Bit("vbv"),
    <<"bit_rate_1", 15>>, Marker(1), <<"bit_rate_2", 15>>, Marker(2), <<"buffer_1", 15>>, Marker(3),
    <<"buffer_2_occupancy_1", 14>>, Marker(4), <<"occupancy_2", 15>>, Marker(5),
    <<"shape", 2>>, Marker(6), <<"resolution", 16>>, Marker(7),
    Bit("fixed_vop_rate"), <<"time_increment", Computed>>,
    Marker(8), <<"width", 13>>, Marker(9), <<"height", 13>>, Marker(10), Bit("interlaced")>>

\* mutant of AbsentFromVOL: the vbv parameters are always there
AbsentButVbv(f) ==
  (IF f.identifier = 1 THEN {} ELSE {"verid_priority"})
    \cup (IF f.aspect = 15 THEN {} ELSE {"par"})
    \cup (IF f.control = 1 THEN {} ELSE ControlFields \cup VbvFields)
    \cup (IF f.fixed_vop_rate = 1 THEN {} ELSE {"time_increment"})
AbsentFromVOL(f) ==
  (IF f.identifier = 1 THEN {} ELSE {"verid_priority"})
    \cup (IF f.aspect = 15 THEN {} ELSE {"par"})
    \cup (IF f.control = 1 THEN {} ELSE ControlFields)
    \cup (IF f.vbv = 1 THEN {} ELSE VbvFields)
    \cup (IF f.fixed_vop_rate = 1 THEN {} ELSE {"time_increment"})

NumBits(x) == Least({n \in 0 .. 16 : 2 ^ n > x})

ValueOf(read) == [br |-> read.br, value |-> Number(read.got)]

(* Zeroes up to a one, and as many bits behind it.                         *)
CountZero(zeroes, one) == [br |-> one.br, zeroes |-> zeroes + 1 - one.got[1], done |-> one.got = <<1>>]
LeadingZeroes(br) ==
  FoldLeft(LAMBDA s, k : IF s.done \/ s.br.aborted THEN s ELSE CountZero(s.zeroes, getBits(s.br, 1)),
           [br |-> br, zeroes |-> 0, done |-> FALSE], [k \in 1 .. 16 |-> k])
BehindZeroes(s) == [ValueOf(getBits(s.br, s.zeroes)) EXCEPT !.value = @ + 2 ^ s.zeroes - 1]
parseUE(br) == BehindZeroes(LeadingZeroes(br))

FieldIs(s, name, read) ==
  LET f == [s.f EXCEPT ![name] = read.value] IN
  [s EXCEPT !.br = read.br, !.f = f, !.absent = IF s.sps THEN AbsentFromSPS(f) ELSE AbsentFromVOL(f)]
ReadField(s, field) ==
  LET width == IF field[2] = Computed THEN NumBits(s.f.resolution - 1) ELSE field[2] IN
  IF field[1] \in s.absent THEN s
  ELSE FieldIs(s, field[1], IF width = Golomb THEN parseUE(s.br) ELSE ValueOf(getBits(s.br, width)))

Names(fields) == {fields[i][1] : i \in DOMAIN fields}
Unread(fields) == [name \in Names(fields) |-> IF name = "chroma_format_idc" THEN 1 ELSE 0]
Header(bytes, fields, sps) ==
  LET none == Unread(fields) IN
  FoldLeft(ReadField, [br |-> Reader(bytes), f |-> none, sps |-> sps,
                       absent |-> IF sps THEN AbsentFromSPS(none) ELSE AbsentFromVOL(none)], fields)

kFixedSARWidth == <<1, 12, 10, 16, 40, 24, 20, 32, 80, 18, 15, 64, 160>>
kFixedSARHeight == <<1, 11, 11, 11, 33, 11, 11, 11, 33, 11, 11, 33, 99>>

(* A set with scaling matrices fails a CHECK.                              *)
DimensionsIn(f, aborted) ==
  LET subWidthC  == IF f.chroma_format_idc \in {0, 3} THEN 1 ELSE 2
      subHeightC == IF f.chroma_format_idc = 1 THEN 2 ELSE 1
      fixed == f.aspect_ratio_idc \in DOMAIN kFixedSARWidth
  IN  [aborted |-> aborted \/ f.scaling # 0,
       width   |-> f.width_in_mbs * 16 + 16 - (f.left + f.right) * subWidthC,
       height  |-> (2 - f.frame_mbs_only)
                     * (f.height_in_map_units * 16 + 16 - (f.top + f.bottom) * subHeightC),
       sar     |-> IF fixed THEN <<kFixedSARWidth[f.aspect_ratio_idc], kFixedSARHeight[f.aspect_ratio_idc]>>
                   ELSE <<f.sar_width, f.sar_height>>]
DimensionsOf(h) == DimensionsIn(h.f, h.br.aborted)
FindAVCDimensions(seqParamSet) == DimensionsOf(Header(Tail(seqParamSet), SPSFields, TRUE))

DimensionsOfVOL(h) ==
  LET marks == {h.f[Markers[n]] : n \in (IF h.f.vbv = 1 THEN 1 .. 5 ELSE {}) \cup 6 .. 10}
  IN  [aborted |-> h.br.aborted \/ marks # {1} \/ h.f.shape # 0 \/ h.f.type_indication = 33
                     \/ (h.f.fixed_vop_rate = 1 /\ h.f.resolution = 0),
       width |-> h.f.width, height |-> h.f.height]
ExtractDimensionsFromVOLHeader(data) ==
  DimensionsOfVOL(Header(SubSeq(data, 5, Len(data)), VOLFields, FALSE))
----------------------------------------------------------------------------
(* Codec specific data *)

U16(n) == <<n \div 256, n % 256>>

(* An AVCDecoderConfigurationRecord of one set of each kind.               *)
avcC(sps, pps) ==
  <<1, sps[2], sps[3], sps[4], 253, 225>> \o U16(Len(sps)) \o sps \o <<1>> \o U16(Len(pps)) \o pps

CodecDataOf(avcc, dim) ==
  IF dim.aborted THEN [made |-> "aborted"]
  ELSE [made |-> "yes", mime |-> "video/avc", avcc |-> avcc, width |-> dim.width, height |-> dim.height,
        sar |-> IF dim.sar[1] > 1 \/ dim.sar[2] > 1 THEN dim.sar ELSE <<>>]
CodecDataOfSets(sps, pps) ==
  IF sps = <<>> THEN [made |-> "no"]
  ELSE IF pps = <<>> THEN [made |-> "aborted"]
  ELSE CodecDataOf(avcC(sps[1], pps[1]), FindAVCDimensions(sps[1]))
MakeAVCCodecSpecificData(data) == CodecDataOfSets(FindNAL(data, 7), FindNAL(data, 8))

kSamplingFreq ==
  <<96000, 88200, 64000, 48000, 44100, 32000, 24000, 22050, 16000, 12000, 11025, 8000>>
kStaticESDS == <<3, 22, 0, 0, 0, 4, 17, 64>> \o Zeros(12) \o <<5, 2>>

MakeAACCodecSpecificData(profile, sampling_freq_index, channels) ==
  [mime |-> "audio/mp4a-latm", rate |-> kSamplingFreq[sampling_freq_index + 1], channels |-> channels,
   esds |-> kStaticESDS \o <<(profile + 1) * 8 + sampling_freq_index \div 2,
                             (sampling_freq_index % 2) * 128 + channels * 8>>]
----------------------------------------------------------------------------
(* MPEG audio: a header is its fields, after the sync word.  Version 3 is  *)
(* MPEG 1, 2 is MPEG 2 and 0 is MPEG 2.5; layer 3 is layer I, 1 is III.    *)

kSamplingRateV1 == <<44100, 48000, 32000>>
kBitrateV1 == <<32, 64, 96, 128, 160, 192, 224, 256, 288, 320, 352, 384, 416, 448>>
kBitrateV2 == <<32, 48, 56, 64, 80, 96, 112, 128, 144, 160, 176, 192, 224, 256>>
kBitrateV1L2 == <<32, 48, 56, 64, 80, 96, 112, 128, 160, 192, 224, 256, 320, 384>>
kBitrateV1L3 == <<32, 40, 48, 56, 64, 80, 96, 112, 128, 160, 192, 224, 256, 320>>
kBitrateV2Rest == <<8, 16, 24, 32, 40, 48, 56, 64, 80, 96, 112, 128, 144, 160>>

Bitrates(version, layer) ==
  CASE layer = 3 -> IF version = 3 THEN kBitrateV1 ELSE kBitrateV2
    [] layer # 3 /\ version = 3 -> IF layer = 2 THEN kBitrateV1L2 ELSE kBitrateV1L3
    [] OTHER -> kBitrateV2Rest

GetMPEGAudioFrameSize(h) ==
  LET rate == kSamplingRateV1[h.sampling_rate_index + 1] \div
                (CASE h.version = 3 -> 1 [] h.version = 2 -> 2 [] h.version = 0 -> 4)
      bitrate == Bitrates(h.version, h.layer)[h.bitrate_index]
      half    == h.version # 3 /\ h.layer = 1
  IN  IF h.version = 1 \/ h.layer = 0 \/ h.bitrate_index \in {0, 15} \/ h.sampling_rate_index = 3
      THEN [ok |-> FALSE]
      ELSE [ok |-> TRUE, sampling_rate |-> rate, bitrate |-> bitrate,
            frame_size |-> IF h.layer = 3 THEN ((12000 * bitrate) \div rate + h.padding) * 4
                           ELSE ((IF half THEN 72000 ELSE 144000) * bitrate) \div rate + h.padding,
            num_samples |-> IF h.layer = 3 THEN 384 ELSE IF half THEN 576 ELSE 1152,
            channels |-> IF h.channel_mode = 3 THEN 1 ELSE 2]
=============================================================================
