------------------------------ MODULE MCDemux ------------------------------
(***************************************************************************)
(* Transport streams of a video and an audio track, a few frames each, cut *)
(* into PES packets at frames, between frames and inside them, and into    *)
(* one or two packets per PES packet; and program streams of such tracks.  *)
(* The two extractors share the elementary stream queues and packet        *)
(* sources; a behaviour plays a file of one or of the other.               *)
(***************************************************************************)
EXTENDS MPEG2TSExtractor, TLC

Piece(code, n, info) == [code |-> code, n |-> n, info |-> info]
Rest(n) == Piece("data", n, 0)

\* frames of video, numbered from 1
Picture264(n, headed, slice) ==
  <<Piece("delimiter", n, 0)>>
    \o (IF headed THEN <<Piece("sps", n, 0), Piece("pps", n, 0)>> ELSE <<>>)
    \o <<Piece(slice, n, 0), Rest(n), Piece(slice, n, 1)>>
\* with neither delimiter nor, but for the first, parameter sets
Bare264(n, headed, slice) == Tail(Picture264(n, headed, slice))
Picture2(n) == <<Piece("picture", n, 0), Rest(n)>>
Picture4(n, key) == <<Piece("vop", n, IF key THEN "intra" ELSE "inter"), Rest(n)>>
\* frames of audio, numbered from 11
Frame(code, n) == <<Piece(code, n, 2), Rest(n)>>

Pes(pid, pts, length, pieces) ==
  [pid |-> pid, pieces |-> <<[code |-> "pes", media |-> TRUE, length |-> length, pts |-> pts]>> \o pieces]
Bounded(pid, pts, pieces) == Pes(pid, pts, Len(pieces), pieces)
Unbounded(pid, pts, pieces) == Pes(pid, pts, 0, pieces)

Packet(pid, start, payload) ==
  [sync |-> TRUE, error |-> FALSE, pid |-> pid, start |-> start, counter |-> 0,
   carries |-> TRUE, payload |-> payload]

\* a PES packet in two packets when it has more than four pieces
Split(pes) ==
  IF Len(pes.pieces) <= 4 THEN <<Packet(pes.pid, TRUE, pes.pieces)>>
  ELSE <<Packet(pes.pid, TRUE, SubSeq(pes.pieces, 1, 3)),
         Packet(pes.pid, FALSE, SubSeq(pes.pieces, 4, Len(pes.pieces)))>>

Table(pid, table, entries) ==
  Packet(pid, TRUE, <<[code |-> "table", length |-> 1, table |-> table, entries |-> entries]>>)

Info(pid, type) == [pid |-> pid, type |-> type]
PAT == Table(0, 0, <<[number |-> 0, pid |-> 16], [number |-> 1, pid |-> 32]>>)
\* the types of what PID 64 and PID 65 carry
PMT(video, audio) == Table(32, 2, <<Info(65, audio), Info(64, video)>>)

\* the counter of each packet among those of its PID
Counted(packets) ==
  [i \in DOMAIN packets |->
     [packets[i] EXCEPT !.counter =
        Cardinality({j \in 1 .. i - 1 : packets[j].pid = packets[i].pid}) % CounterModulus]]

Stuffing == [Packet(NullPID, FALSE, <<>>) EXCEPT !.carries = TRUE]
ClockOnly == [Packet(64, FALSE, <<>>) EXCEPT !.carries = FALSE]
Damaged == [Packet(65, TRUE, <<>>) EXCEPT !.error = TRUE]

Stream0(pes) == FlattenSeq([i \in DOMAIN pes |-> Split(pes[i])])

\* the frames by their pieces, where the first piece of a PES packet is its header
Frames(pes) ==
  LET all      == SelectSeq(FlattenSeq([i \in DOMAIN pes |-> Tail(pes[i].pieces)]), LAMBDA c : c.n # 0)
      ns       == {all[k].n : k \in DOMAIN all}
      first(n) == all[Min({k \in DOMAIN all : all[k].n = n})]
      holds(n) == {i \in DOMAIN pes : \E k \in 2 .. Len(pes[i].pieces) : pes[i].pieces[k].n = n}
      after(n) == \E i \in DOMAIN pes : \E k \in 3 .. Len(pes[i].pieces) :
                    pes[i].pieces[k].n = n /\ pes[i].pieces[k - 1].code = "gop"
  IN  [n \in ns |->
         [pieces |-> SelectSeq(all, LAMBDA c : c.n = n),
          pts    |-> pes[Min(holds(n))].pieces[1].pts,
          next   |-> n + 1,
          split  |-> Cardinality(holds(n)) > 1,
          alone  |-> \/ first(n).code \in {"adts", "mpa", "pcm"}
                     \/ \E k \in DOMAIN all : all[k].n = n /\ all[k].code = "idr"
                     \/ first(n).code = "vop" /\ first(n).info = "intra"
                     \/ first(n).code = "picture" /\ after(n),
          last   |-> n + 1 \notin ns \/ n + 2 \notin ns]]

File(tables, pes) ==
  [packets |-> Counted(tables \o Stream0(pes)), frames |-> Frames(pes),
   first |-> {1, 11}, whole |-> TRUE, wellFormed |-> TRUE]

VideoPID == 64
AudioPID == 65

\* H264 and AAC: bounded and unbounded packets, an audio frame across two
\* of them, two units in one
Avc == <<
  Bounded(VideoPID, 9, Picture264(1, TRUE, "idr")),
  Bounded(AudioPID, 9, Frame("adts", 11) \o <<Piece("adts", 12, 2)>>),
  Unbounded(VideoPID, 18, Picture264(2, FALSE, "slice")),
  Bounded(AudioPID, 18, <<Rest(12)>> \o Frame("adts", 13)),
  Bounded(VideoPID, 27, Picture264(3, TRUE, "idr")),
  Unbounded(VideoPID, 36, Picture264(4, FALSE, "slice")),
  Bounded(AudioPID, 36, Frame("adts", 14)),
  Bounded(VideoPID, 45, Picture264(5, TRUE, "idr")),
  Bounded(AudioPID, 45, Frame("adts", 15))>>

AvcFile == File(<<PAT, PMT("H264", "MPEG2_AUDIO_ADTS")>>, Avc)

\* the same with a packet missing
Lost(f, i) == [f EXCEPT !.packets = RemoveAt(@, i), !.whole = FALSE]

\* MPEG-2 video and MPEG audio
Mpeg2 == <<
  Unbounded(VideoPID, 9, <<Piece("sequence", 0, 0), Piece("extension", 0, 0), Piece("gop", 0, "closed")>>
                           \o Picture2(1) \o Picture2(2)),
  Bounded(AudioPID, 9, Frame("mpa", 11)),
  Unbounded(VideoPID, 27, Picture2(3) \o <<Piece("gop", 0, "broken")>> \o Picture2(4)),
  Bounded(AudioPID, 18, Frame("mpa", 12) \o <<Piece("mpa", 13, 2)>>),
  Bounded(AudioPID, 36, <<Rest(13)>> \o Frame("mpa", 14)),
  Unbounded(VideoPID, 45, Picture2(5))>>

Mpeg2File == [File(<<PAT, Stuffing, PMT("MPEG2_VIDEO", "MPEG2_AUDIO")>>, Mpeg2)
                EXCEPT !.frames = [n \in DOMAIN @ |-> [@[n] EXCEPT !.last = n + 1 \notin DOMAIN Frames(Mpeg2)]]]

\* the gap takes with it the packet before it, which was not flushed yet:
\* what is left of frame 13 is joined with frame 16
CutMpegAudio ==
  Lost(File(<<PAT, PMT("MPEG2_VIDEO", "MPEG2_AUDIO")>>,
            <<Mpeg2[1], Mpeg2[2], Mpeg2[4], Mpeg2[5], Bounded(AudioPID, 45, Frame("mpa", 15)),
              Bounded(AudioPID, 54, Frame("mpa", 16))>>), 8)

\* H264 with an IDR picture that nothing precedes, and with a picture cut in
\* two, one part of which may be missing
BareAvc == <<
  Bounded(VideoPID, 9, Bare264(1, TRUE, "idr")),
  Bounded(AudioPID, 9, Frame("adts", 11)),
  Bounded(VideoPID, 18, Bare264(2, FALSE, "slice")),
  Bounded(VideoPID, 27, Bare264(3, FALSE, "idr")),
  Bounded(AudioPID, 27, Frame("adts", 12)),
  Bounded(VideoPID, 36, Bare264(4, FALSE, "slice")),
  Bounded(VideoPID, 45, Bare264(5, FALSE, "slice"))>>
BareFile == File(<<PAT, PMT("H264", "MPEG2_AUDIO_ADTS")>>, BareAvc)

CutAvc == <<
  Bounded(VideoPID, 9, Picture264(1, TRUE, "idr")),
  Bounded(AudioPID, 9, Frame("adts", 11)),
  Unbounded(VideoPID, 18, SubSeq(Picture264(2, TRUE, "slice"), 1, 4)),
  Unbounded(VideoPID, 19, SubSeq(Picture264(2, TRUE, "slice"), 5, 6)),
  Unbounded(VideoPID, 27, Picture264(3, FALSE, "idr")),
  Bounded(VideoPID, 36, Picture264(4, FALSE, "slice"))>>
CutFile == File(<<PAT, PMT("H264", "MPEG2_AUDIO_ADTS")>>, CutAvc)

\* an AAC frame whose length is 0
EmptyFile == File(<<PAT, PMT("H264", "MPEG2_AUDIO_ADTS")>>,
                  [Avc EXCEPT ![7] = Bounded(AudioPID, 36, <<Piece("adts", 14, 0), Rest(14)>>)])

\* MPEG-4 video and PCM
Mpeg4 == <<
  Unbounded(VideoPID, 9, <<Piece("visual_sequence", 0, 0), Piece("visual_object", 0, 0),
                           Piece("video_object", 0, 0), Piece("vol", 0, 0)>> \o Picture4(1, TRUE)),
  Bounded(AudioPID, 9, Frame("pcm", 11)),
  Unbounded(VideoPID, 18, <<Piece("gov", 0, 0)>> \o Picture4(2, FALSE)),
  Bounded(AudioPID, 18, Frame("pcm", 12)),
  Unbounded(VideoPID, 27, Picture4(3, TRUE))>>

Mpeg4File == File(<<PAT, PMT("MPEG4_VIDEO", "PCM_AUDIO"), ClockOnly>>, Mpeg4)

\* packets of no interest, tables in two packets, and parameter sets before
\* the first IDR picture
Halves(pid, table, entries) ==
  <<Packet(pid, TRUE, <<[code |-> "table", length |-> 2, table |-> table, entries |-> entries]>>),
    Packet(pid, FALSE, <<Rest(0)>>)>>
OddFile ==
  File(<<Damaged, Stuffing, PAT, ClockOnly>>
         \o Halves(32, 2, <<Info(65, "MPEG2_AUDIO_ADTS"), Info(66, "OTHER"), Info(64, "H264")>>)
         \o <<Packet(66, TRUE, <<Rest(0)>>), Packet(67, TRUE, <<Rest(0)>>)>>,
       <<Bounded(VideoPID, 8, Picture264(9, TRUE, "slice"))>> \o Avc)

\* the streams trade their PIDs, after as many packets of one as of the other
Trading == <<
  Unbounded(VideoPID, 9, <<Piece("sequence", 0, 0), Piece("gop", 0, "closed"), Piece("picture", 1, 0)>>),
  Bounded(AudioPID, 9, Frame("mpa", 11)),
  Bounded(VideoPID, 18, Picture2(2)),
  Bounded(AudioPID, 18, Frame("mpa", 12))>>
Traded == <<
  Bounded(AudioPID, 27, Picture2(3)),
  Bounded(VideoPID, 27, Frame("mpa", 13)),
  Bounded(AudioPID, 36, Picture2(4)),
  Bounded(VideoPID, 36, Frame("mpa", 14))>>
TradeFile ==
  LET frames == Frames(Trading \o Traded) IN
  [packets |-> Counted(<<PAT, PMT("MPEG2_VIDEO", "MPEG2_AUDIO")>> \o Stream0(Trading)
                         \o <<PMT("MPEG2_AUDIO", "MPEG2_VIDEO")>> \o Stream0(Traded)),
   frames |-> [n \in DOMAIN frames |-> [frames[n] EXCEPT !.last = n \in {4, 14}]],
   first |-> {1, 11}, whole |-> TRUE, wellFormed |-> TRUE]

\* a PES packet that says it is longer than it is; a table that changes a type
Long(pes) == [pes EXCEPT !.pieces[1].length = @ + 1]
LongFile == [File(<<PAT, PMT("H264", "MPEG2_AUDIO_ADTS")>>, [Avc EXCEPT ![7] = Long(@)])
               EXCEPT !.whole = FALSE]
Retyped(f, i) == [f EXCEPT !.packets = InsertAt(@, i, PMT("MPEG2_VIDEO", "MPEG2_AUDIO_ADTS")),
                           !.whole = FALSE]

MCAnchors == {-1, 1000}
MCFiles ==
  {AvcFile, Mpeg2File, Mpeg4File, OddFile, TradeFile, LongFile, Retyped(AvcFile, 9),
   BareFile, CutFile, EmptyFile, CutMpegAudio, Lost(Mpeg4File, 4)}
    \cup {Lost(AvcFile, i) : i \in {3, 4, 6, 7, 8, 13}}
    \cup {Lost(Mpeg2File, i) : i \in {7, 9}}
    \cup {Lost(CutFile, i) : i \in {7, 9}}

----------------------------------------------------------------------------
\* Program streams: packets of a few units of four bytes, in chunks of four

VARIABLES psStream, ps, psScans, psPc, psGot
psVars == <<psStream, ps, psScans, psPc, psGot>>

ChunkUnits == 4
AudioID == 192
VideoID == 224

PesOf(id, pts, size, pieces) ==
  [code |-> "pes", id |-> id, media |-> TRUE, pts |-> pts, size |-> size, pieces |-> pieces]
Header == [code |-> "header", size |-> 1]
Padding == [code |-> "pes", id |-> 190, media |-> FALSE, pts |-> -1, size |-> 2, pieces |-> <<>>]
Junk == [code |-> "junk", size |-> 1]
StreamMap(types, whole) == [code |-> "map", size |-> 2, types |-> types, whole |-> whole]

\* the frames of each id, with the packet where their end is known
PSFrames(packets) ==
  LET pieces(i) == IF packets[i].code # "pes" THEN <<>>
                   ELSE SelectSeq(packets[i].pieces, LAMBDA c : c.n # 0)
      all       == FlattenSeq([i \in DOMAIN packets |-> pieces(i)])
      holds(n)  == {i \in DOMAIN packets : \E k \in DOMAIN pieces(i) : pieces(i)[k].n = n}
      ns        == {all[k].n : k \in DOMAIN all}
      after(n)  == IF n + 1 \in ns THEN Min(holds(n + 1)) ELSE Len(packets) + 1
  IN  [n \in ns |-> [pieces |-> SelectSeq(all, LAMBDA c : c.n = n),
                     pts    |-> packets[Min(holds(n))].pts,
                     packet |-> IF all[Min({k \in DOMAIN all : all[k].n = n})].code = "adts"
                                  THEN Max(holds(n)) ELSE Max(holds(n) \cup {after(n)})]]
ProgramStream(packets) == [packets |-> packets, frames |-> PSFrames(packets)]

\* a map names the types; frames and packets do not end together
Mapped == ProgramStream(<<
  Header, Header, StreamMap((AudioID :> "MPEG2_AUDIO_ADTS") @@ (VideoID :> "H264"), TRUE),
  PesOf(VideoID, 9, 3, Picture264(1, TRUE, "idr")),
  PesOf(AudioID, 9, 2, Frame("adts", 11) \o <<Piece("adts", 12, 2)>>),
  Padding,
  PesOf(VideoID, 18, 1, Picture264(2, FALSE, "slice")),
  PesOf(AudioID, 18, 2, <<Rest(12)>> \o Frame("adts", 13)),
  Header,
  PesOf(VideoID, 27, 3, Picture264(3, TRUE, "idr")),
  PesOf(AudioID, 36, 1, Frame("adts", 14)),
  PesOf(VideoID, 36, 1, Picture264(4, FALSE, "slice")),
  PesOf(AudioID, 45, 1, Frame("adts", 15)), Padding, Padding>>)

\* the ids give the types; one stream appears when scanning is over
Unmapped == ProgramStream(<<
  Header,
  PesOf(VideoID, 9, 2, <<Piece("sequence", 0, 0), Piece("gop", 0, "closed")>> \o Picture2(1)
                         \o Picture2(2)),
  PesOf(VideoID, 18, 1, Picture2(3)), Padding, Header,
  PesOf(VideoID, 27, 3, Picture2(4)),
  PesOf(AudioID, 9, 1, Frame("mpa", 11)),
  PesOf(VideoID, 36, 2, Picture2(5)), Header, Padding>>)

\* something between the packets; a map that ends the scan; data that
\* starts nothing
JunkInside == ProgramStream(InsertAt(Mapped.packets, 10, Junk))
MapEndsScan == ProgramStream(InsertAt(Mapped.packets, 7, StreamMap(<<>>, FALSE)))
NoStart == ProgramStream(
  [Mapped.packets EXCEPT ![3] = StreamMap((AudioID :> "MPEG2_AUDIO_ADTS") @@ (190 :> "OTHER"), TRUE),
                         ![6] = PesOf(190, 9, 2, <<Rest(0)>>),
                         ![4] = PesOf(VideoID, 9, 3, <<Rest(0)>>)])
\* an AAC frame whose length is 0
EmptyInside == ProgramStream(
  [Mapped.packets EXCEPT ![11] = PesOf(AudioID, 36, 1, <<Piece("adts", 14, 0), Rest(14)>>)])
PSStreams == {Mapped, Unmapped, JunkInside, MapEndsScan, NoStart, EmptyInside}

PS == INSTANCE MPEG2PSExtractor WITH
        Streams <- PSStreams, kChunkSize <- ChunkUnits, MaxScans <- 7,
        stream <- psStream, x <- ps, scans <- psScans, pc <- psPc, got <- psGot

NoFile == [packets |-> <<>>, frames |-> <<>>, first |-> {}, whole |-> FALSE, wellFormed |-> TRUE]
NoStream == [packets |-> <<>>, frames |-> <<>>]

OnlyTS ==
  /\ Init
  /\ psStream = NoStream /\ ps = [mTracks |-> <<>>] /\ psScans = 0 /\ psPc = <<>> /\ psGot = <<>>
OnlyPS ==
  /\ PS!Init
  /\ file = NoFile /\ phase = "off" /\ estimate = [prev |-> 1, durations |-> <<>>, us |-> -1]
  /\ x = [p |-> NewParser, mOffset |-> 0, mSourceImpls |-> <<>>, mSyncPoints |-> <<>>, seekTrack |-> 0]
  /\ pc = [t \in Tracks |-> "idle"] /\ got = [t \in Tracks |-> <<>>]
  /\ sought = [count |-> 0, moved |-> FALSE]

PlayTS == file # NoFile /\ Next /\ UNCHANGED psVars
PlayPS == psStream # NoStream /\ PS!Next /\ UNCHANGED vars

MCSpec == (OnlyTS \/ OnlyPS) /\ [][PlayTS \/ PlayPS]_<<vars, psVars>>

(* PSUnitsAreFrames: of the program stream extractor, every unit a reader  *)
(* gets is a whole frame with its time, in order and none left out, up to  *)
(* the last one that is complete when it is told of the end.               *)
PSUnitsAreFrames == PS!UnitsAreFrames
(* PSFeedsAdvance: each call of its feedMore() for a reader takes a packet *)
(* or ends that reader's source, but at an AAC frame of length 0.          *)
PSFeedsAdvance == PS!FeedsAdvance

(* UnitsRead: from either kind of file a reader gets whole frames with     *)
(* their times, none skipped, and the queues account for every piece; what *)
(* each part excepts where packets are missing from the file is stated     *)
(* with it.                                                                *)
UnitsRead == UnitsAreFrames /\ NothingIsSkipped /\ AccountsBalance /\ PSUnitsAreFrames

(* FeedsRead: every call of either feedMore() gets on with the file, but   *)
(* for the two kinds of streams FeedsAdvance names, on which the code goes *)
(* round for ever.                                                         *)
FeedsRead == FeedsAdvance /\ PSFeedsAdvance
=============================================================================
