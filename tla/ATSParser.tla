----------------------------- MODULE ATSParser -----------------------------
(***************************************************************************)
(* ATSParser (src/libstagefright/mpeg2ts/ATSParser.cpp): one transport     *)
(* stream packet at a time, through the tables that name the programs and  *)
(* their streams, into the PES packets of each stream, their elementary    *)
(* stream queue and the packet source of its access units.                 *)
(*                                                                         *)
(* A packet is a record [sync, error, pid, start, counter, carries,        *)
(* payload]: carries is FALSE when it only has an adaptation field, and    *)
(* payload is a sequence of pieces (see ESQueue).  The first piece of a    *)
(* PES packet is its header, [code |-> "pes", media, length, pts], where a *)
(* length of 0 is an unbounded packet and a pts of -1 none; the first      *)
(* piece of a table is [code |-> "table", length, table, entries].  The    *)
(* fixed bits the code CHECKs, and the program clock, which it only logs,  *)
(* are left out; so are the overloads without an event: nothing calls them.*)
(***************************************************************************)
EXTENDS ESQueue, FiniteSets, FiniteSetsExt, Functions

CONSTANTS
  CounterModulus,   \* 16 in the code
  Anchors           \* what mAbsoluteTimeAnchorUs may be after a discontinuity in time

ASSUME ATSParserAssumption == CounterModulus \in Nat \ {0} /\ Anchors \subseteq Int

NullPID == 8191       \* 0x1FFF
NoEvent == [offset |-> -1, source |-> 0, timeUs |-> -1]
NoQueue == [mode |-> "none"]

Ok(p) == [p |-> p, err |-> "OK", event |-> NoEvent]
Malformed(p) == [Ok(p) EXCEPT !.err = "MALFORMED"]

(* The sources live in sources; a stream has the index of its own, or 0.   *)
NewParser ==
  [mPrograms |-> <<>>, mPSISections |-> [pid \in {0} |-> <<>>], sources |-> <<>>,
   mAbsoluteTimeAnchorUs |-> -1]

Mode(type) ==
  CASE type = "H264" -> "H264"
    [] type = "MPEG2_AUDIO_ADTS" -> "AAC"
    [] type \in {"MPEG1_AUDIO", "MPEG2_AUDIO"} -> "MPEG_AUDIO"
    [] type \in {"MPEG1_VIDEO", "MPEG2_VIDEO"} -> "MPEG_VIDEO"
    [] type = "MPEG4_VIDEO" -> "MPEG4_VIDEO"
    [] type = "PCM_AUDIO" -> "PCM_AUDIO"
    [] OTHER -> "none"

NewStream(type) ==
  [type |-> type, mExpectedContinuityCounter |-> -1, mPayloadStarted |-> FALSE,
   mEOSReached |-> FALSE, mPesStartOffset |-> -1, mBuffer |-> <<>>, source |-> 0,
   mQueue |-> IF Mode(type) = "none" THEN NoQueue ELSE NewQueue(Mode(type))]

IsVideo(s) == s.type \in {"H264", "MPEG1_VIDEO", "MPEG2_VIDEO", "MPEG4_VIDEO"}
IsAudio(s) == s.type \in {"MPEG1_AUDIO", "MPEG2_AUDIO", "MPEG2_AUDIO_ADTS", "PCM_AUDIO"}
Is(s, kind) == IF kind = "video" THEN IsVideo(s) ELSE IsAudio(s)

Stream(p, i, pid) == p.mPrograms[i].mStreams[pid]
WithStream(p, i, pid, s) == [p EXCEPT !.mPrograms[i].mStreams[pid] = s]
----------------------------------------------------------------------------
(* Times *)

(* convertPTSToTimestamp(): the first PTS of a program is time 0.          *)
ConvertPTS(program, PTS) ==
  IF ~program.mFirstPTSValid \/ PTS < program.mFirstPTS THEN 0 ELSE PTS - program.mFirstPTS

Timestamp(p, i, PTS) ==
  ((ConvertPTS(p.mPrograms[i], PTS) * 100) \div 9)
    + (IF p.mAbsoluteTimeAnchorUs >= 0 THEN p.mAbsoluteTimeAnchorUs ELSE 0)

WithFirstPTS(p, i, PTS) ==
  IF p.mPrograms[i].mFirstPTSValid THEN p
  ELSE [p EXCEPT !.mPrograms[i].mFirstPTSValid = TRUE, !.mPrograms[i].mFirstPTS = PTS]
----------------------------------------------------------------------------
(* From a PES packet to the source *)

IsIDR(unit) == \E i \in DOMAIN unit.data : unit.data[i].code = "idr"

\* mutant of StartsSource: a source may begin with any unit
StartsAnywhere(q, unit) == q.mFormat # NoFormat
(* The source begins once the format is known, H264 at an IDR picture.     *)
StartsSource(q, unit) == q.mFormat # NoFormat /\ (q.mode = "H264" => IsIDR(unit))

(* One round of the loop in onPayloadData(): a unit goes to the source,    *)
(* the first sync unit into the event.                                     *)
Queued(run, out) ==
  LET unit  == out.unit
      known == out.q.mFormat # NoFormat
      fresh == run.source = NoUnit /\ known
      skips == fresh /\ ~StartsSource(out.q, unit)
      source == CASE unit = NoUnit \/ ~known \/ skips -> run.source
                  [] unit # NoUnit /\ fresh /\ ~skips ->
                       QueueAccessUnit(NewSource(out.q.mFormat), unit)
                  [] OTHER -> QueueAccessUnit(SetFormat(run.source, out.q.mFormat), unit)
  IN  [q |-> out.q, source |-> source, done |-> unit = NoUnit,
       event |-> IF unit # NoUnit /\ known /\ ~skips /\ run.event = NoUnit /\ unit.isSync
                 THEN unit ELSE run.event]

QueueOne(run) == Queued(run, Dequeue(run.q))

QueueAll(q, source) ==
  FoldLeft(LAMBDA run, i : IF run.done THEN run ELSE QueueOne(run),
           [q |-> q, source |-> source, event |-> NoUnit, done |-> FALSE],
           [i \in 1 .. Len(q.mBuffer) + 1 |-> i])

(* What is left of a stream after the loop, and the event of the call,     *)
(* which has none when signalEOS() makes it.                               *)
Delivered(p, i, pid, run) ==
  LET s       == Stream(p, i, pid)
      begins  == s.source = 0 /\ run.source # NoUnit
      source  == IF begins THEN Len(p.sources) + 1 ELSE s.source
      sources == CASE begins -> Append(p.sources, run.source)
                   [] ~begins /\ source # 0 -> [p.sources EXCEPT ![source] = run.source]
                   [] OTHER -> p.sources
  IN  [p |-> [WithStream(p, i, pid, [s EXCEPT !.mQueue = run.q, !.source = source])
                EXCEPT !.sources = sources],
       err |-> "OK",
       event |-> IF run.event = NoUnit \/ s.mEOSReached THEN NoEvent
                 ELSE [offset |-> s.mPesStartOffset, source |-> source,
                       timeUs |-> run.event.timeUs]]

OnPayloadData(p, i, pid, PTS, data) ==
  LET s      == Stream(p, i, pid)
      timed  == IF PTS = -1 THEN p ELSE WithFirstPTS(p, i, PTS)
      timeUs == IF PTS = -1 THEN 0 ELSE Timestamp(timed, i, PTS)
      fails  == AppendFails(s.mQueue, data)
      fed    == IF fails THEN s.mQueue ELSE AppendData(s.mQueue, data, timeUs)
      queue  == IF s.mEOSReached THEN EndQueue(fed) ELSE fed
  IN  IF fails THEN Ok(WithStream(timed, i, pid, [s EXCEPT !.mQueue = queue]))
      ELSE Delivered(timed, i, pid,
                     QueueAll(queue, IF s.source = 0 THEN NoUnit ELSE p.sources[s.source]))

(* parsePES(): padding and the streams that carry no media are skipped.    *)
ParsePES(p, i, pid, pes) ==
  LET header == Head(pes)
      rest   == Tail(pes)
  IN  CASE header.code # "pes" -> Malformed(p)
        [] header.code = "pes" /\ ~header.media -> Ok(p)
        [] header.code = "pes" /\ header.media /\ Len(rest) < header.length -> Malformed(p)
        [] OTHER -> OnPayloadData(p, i, pid, header.pts,
                      IF header.length = 0 THEN rest ELSE SubSeq(rest, 1, header.length))

Flush(p, i, pid) ==
  IF Stream(p, i, pid).mBuffer = <<>> THEN Ok(p)
  ELSE [ParsePES(p, i, pid, Stream(p, i, pid).mBuffer)
          EXCEPT !.p.mPrograms[i].mStreams[pid].mBuffer = <<>>]

\* mutant of Broken: a missing packet goes unnoticed
NeverBroken(s, counter) == FALSE
Broken(s, counter) ==
  s.mExpectedContinuityCounter >= 0 /\ s.mExpectedContinuityCounter # counter

(* Stream::parse(): what was gathered is dropped where a packet is         *)
(* missing, and flushed where a PES packet starts.                         *)
Gathered(out, i, pid, packet, offset) ==
  LET t     == Stream(out.p, i, pid)
      begun == IF packet.start THEN [t EXCEPT !.mPayloadStarted = TRUE, !.mPesStartOffset = offset]
                               ELSE t
  IN  IF out.err # "OK" THEN out
      ELSE [out EXCEPT !.p = WithStream(@, i, pid,
              IF begun.mPayloadStarted THEN [begun EXCEPT !.mBuffer = @ \o packet.payload]
                                       ELSE begun)]

ParseStream(p, i, pid, packet, offset) ==
  LET s       == Stream(p, i, pid)
      broken  == Broken(s, packet.counter)
      cut     == IF broken THEN [s EXCEPT !.mPayloadStarted = FALSE, !.mBuffer = <<>>,
                                          !.mExpectedContinuityCounter = -1] ELSE s
      counted == WithStream(p, i, pid, [cut EXCEPT
                   !.mExpectedContinuityCounter = (packet.counter + 1) % CounterModulus])
  IN  CASE s.mQueue = NoQueue -> Ok(p)
        [] s.mQueue # NoQueue /\ broken /\ ~packet.start -> Ok(WithStream(p, i, pid, cut))
        [] OTHER ->
             Gathered(IF packet.start /\ cut.mPayloadStarted THEN Flush(counted, i, pid)
                                                             ELSE Ok(counted),
                      i, pid, packet, offset)
----------------------------------------------------------------------------
(* The tables *)

(* parseProgramAssociationTable(); entry 0 is the network's.               *)
AddProgram(p, entry) ==
  LET known == {k \in DOMAIN p.mPrograms : p.mPrograms[k].number = entry.number}
      new   == [number |-> entry.number, mProgramMapPID |-> entry.pid, mStreams |-> <<>>,
                mFirstPTSValid |-> FALSE, mFirstPTS |-> 0]
      with  == [p EXCEPT !.mPrograms = IF known = {} THEN Append(@, new)
                                       ELSE [@ EXCEPT ![Min(known)].mProgramMapPID = entry.pid]]
  IN  IF entry.number = 0 THEN p
      ELSE IF entry.pid \in DOMAIN p.mPSISections THEN with
      ELSE [with EXCEPT !.mPSISections = @ @@ (entry.pid :> <<>>)]

ParsePAT(p, table) == IF table.table # 0 THEN p ELSE FoldLeft(AddProgram, p, table.entries)

(* parseProgramMap(): two streams may trade their PIDs; any other change   *)
(* of a PID's type is an error.  New streams are added, none is removed.   *)
Other(streams, pid) == CHOOSE other \in DOMAIN streams : other # pid

TradesPIDs(streams, infos) ==
  /\ Cardinality(DOMAIN streams) = 2 /\ Len(infos) = 2
  /\ ToSet(infos) = {[pid |-> pid, type |-> streams[Other(streams, pid)].type] : pid \in DOMAIN streams}

Swapped(streams) == [pid \in DOMAIN streams |-> streams[Other(streams, pid)]]

AddStream(streams, info) ==
  IF info.pid \in DOMAIN streams THEN streams ELSE streams @@ (info.pid :> NewStream(info.type))

ParseProgramMap(p, i, table) ==
  LET streams == p.mPrograms[i].mStreams
      infos   == table.entries
      changed == \E k \in DOMAIN infos :
                   infos[k].pid \in DOMAIN streams /\ streams[infos[k].pid].type # infos[k].type
      trades  == changed /\ TradesPIDs(streams, infos)
  IN  IF table.table # 2 \/ (changed /\ ~trades) THEN Malformed(p)
      ELSE Ok([p EXCEPT !.mPrograms[i].mStreams =
                 FoldLeft(AddStream, IF trades THEN Swapped(@) ELSE @, infos)])

(* A section is complete when it is as long as its first piece says.       *)
IsComplete(section) == section # <<>> /\ Len(section) >= Head(section).length

ParseSection(p, packet) ==
  LET pid     == packet.pid
      section == (IF packet.start THEN <<>> ELSE p.mPSISections[pid]) \o packet.payload
      kept    == [p EXCEPT !.mPSISections[pid] = section]
      cleared == [p EXCEPT !.mPSISections[pid] = <<>>]
      owners  == {k \in DOMAIN p.mPrograms : p.mPrograms[k].mProgramMapPID = pid}
      parsed  == ParseProgramMap(cleared, Min(owners), Head(section))
  IN  CASE ~IsComplete(section) -> Ok(kept)
        [] IsComplete(section) /\ pid = 0 -> Ok(ParsePAT(cleared, Head(section)))
        [] IsComplete(section) /\ pid # 0 /\ owners = {} ->
             Ok([p EXCEPT !.mPSISections = Restrict(@, DOMAIN @ \ {pid})])
        [] IsComplete(section) /\ pid # 0 /\ owners # {} /\ parsed.err # "OK" -> Malformed(kept)
        [] OTHER -> parsed
----------------------------------------------------------------------------
(* What the extractor calls *)

(* feedTSPacket(): offset is where the packet starts.                      *)
FeedTSPacket(p, packet, offset) ==
  LET owners == {k \in DOMAIN p.mPrograms : packet.pid \in DOMAIN p.mPrograms[k].mStreams}
  IN  CASE ~packet.sync \/ packet.error \/ packet.pid = NullPID \/ ~packet.carries -> Ok(p)
        [] OTHER ->
             CASE packet.pid \in DOMAIN p.mPSISections -> ParseSection(p, packet)
               [] packet.pid \notin DOMAIN p.mPSISections /\ owners # {} ->
                    ParseStream(p, Min(owners), packet.pid, packet, offset)
               [] OTHER -> Ok(p)

AllStreams(p) ==
  SetToSeq(UNION {{<<i, pid>> : pid \in DOMAIN p.mPrograms[i].mStreams} : i \in DOMAIN p.mPrograms})

(* Stream::signalDiscontinuity()                                           *)
Discontinue(p, i, pid, types) ==
  LET s     == Stream(p, i, pid)
      reset == [s EXCEPT !.mExpectedContinuityCounter = -1, !.mPayloadStarted = FALSE,
                         !.mEOSReached = FALSE, !.mBuffer = <<>>,
                         !.mQueue = ClearQueue(@, (IF IsAudio(s) THEN "AUDIO_FORMAT"
                                                   ELSE "VIDEO_FORMAT") \in types)]
      with  == WithStream(p, i, pid, reset)
  IN  IF s.mQueue = NoQueue
        THEN WithStream(p, i, pid, [s EXCEPT !.mExpectedContinuityCounter = -1])
      ELSE IF s.source = 0 THEN with
      ELSE [with EXCEPT !.sources[s.source] = QueueDiscontinuity(@, types, TRUE)]

(* A discontinuity in time sets the anchor to a variable that nothing has  *)
(* set: the line that looks the time up is commented out.                  *)
SignalDiscontinuity(p, types, anchor) ==
  FoldLeft(LAMBDA q, at : Discontinue(q, at[1], at[2], types),
           [p EXCEPT !.mAbsoluteTimeAnchorUs = IF "TIME" \in types THEN anchor ELSE @],
           AllStreams(p))

(* Stream::signalEOS(): the source ends first; what flush() still finds    *)
(* is queued behind that.                                                  *)
EndStream(p, i, pid, result) ==
  LET s     == Stream(p, i, pid)
      ended == [WithStream(p, i, pid, [s EXCEPT !.mEOSReached = TRUE]) EXCEPT
                  !.sources = [k \in DOMAIN @ |->
                                 IF k = s.source THEN SignalEOS(@[k], result) ELSE @[k]]]
  IN  IF s.mQueue = NoQueue THEN ended ELSE Flush(ended, i, pid).p

SignalParserEOS(p, result) ==
  FoldLeft(LAMBDA q, at : EndStream(q, at[1], at[2], result), p, AllStreams(p))

(* getSource(): the source of the first stream of a kind that has one, 0   *)
(* when there is none.                                                     *)
GetSource(p, kind) ==
  LET found == {<<i, pid>> \in UNION {{i} \X DOMAIN p.mPrograms[i].mStreams : i \in DOMAIN p.mPrograms} :
                  Is(Stream(p, i, pid), kind) /\ Stream(p, i, pid).source # 0}
      program == Min({at[1] : at \in found})
      pid     == Min({at[2] : at \in {a \in found : a[1] = program}})
  IN  IF found = {} THEN 0 ELSE Stream(p, program, pid).source
=============================================================================
