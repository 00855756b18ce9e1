-------------------------- MODULE MPEG2PSExtractor --------------------------
(***************************************************************************)
(* MPEG2PSExtractor (src/libstagefright/mpeg2ts/MPEG2PSExtractor.cpp): a   *)
(* program stream, read a chunk of bytes at a time and taken apart packet  *)
(* by packet, by the constructor while it looks for tracks and then by     *)
(* whichever track's read() finds its source empty.  feedMore() runs under *)
(* mLock; the readers of two tracks interleave between its calls.          *)
(*                                                                         *)
(* A packet is [code, size, ...]: "pes" with the id of its stream, media   *)
(* (FALSE for padding and the like), pts and its pieces (see ESQueue); a   *)
(* "map" from stream ids to types, with whole FALSE when it is malformed;  *)
(* "header" for packs and system headers; "junk" for anything that is not  *)
(* a packet.  Sizes count units of four bytes, what dequeueChunk() needs.  *)
(***************************************************************************)
EXTENDS ESQueue, FiniteSets, Functions

CONSTANTS
  Streams,        \* [packets, frames]: the packets, and the frames they carry
  kChunkSize,     \* 8192 bytes in the code
  MaxScans        \* 500: calls of feedMore() that look for tracks

VARIABLES
  stream,
  x,         \* [mOffset, next, mFinalResult, mScanning, mTypes, mTracks]: next is the
             \* packet mBuffer starts with, mTypes the valid map
  scans,     \* calls of feedMore() by the constructor
  pc, got    \* the read() of each track, and what it returned

vars == <<stream, x, scans, pc, got>>

NoType == "RESERVED"
Ids == {packet.id : packet \in {p \in ToSet(stream.packets) : p.code = "pes"}}
Track(type) == [mQueue |-> NewQueue(type), mSource |-> <<>>]     \* <<>>: no source yet

Init ==
  /\ stream \in Streams
  /\ x = [mOffset |-> 0, next |-> 1, mFinalResult |-> "OK", mScanning |-> TRUE,
          mTypes |-> <<>>, mTracks |-> <<>>]
  /\ scans = 0
  /\ pc = [id \in Ids |-> "idle"] /\ got = [id \in Ids |-> <<>>]
----------------------------------------------------------------------------
(* The modes of the types, and the type of an id the map does not name     *)
Mode(type) ==
  CASE type \in {"MPEG1_AUDIO", "MPEG2_AUDIO"} -> "MPEG_AUDIO"
    [] type \in {"MPEG1_VIDEO", "MPEG2_VIDEO"} -> "MPEG_VIDEO"
    [] type = "MPEG2_AUDIO_ADTS" -> "AAC"
    [] type \in {"H264", "MPEG4_VIDEO"} -> type
    [] OTHER -> "none"

TypeOf(e, id) ==
  CASE id \in DOMAIN e.mTypes -> e.mTypes[id]
    [] id \notin DOMAIN e.mTypes /\ id \in 192 .. 223 -> "MPEG2_AUDIO"     \* 0xc0
    [] id \notin DOMAIN e.mTypes /\ id \in 224 .. 239 -> "MPEG2_VIDEO"     \* 0xe0
    [] OTHER -> NoType

\* mutant of Queued: the unit that brings the source about is not queued
QueuedLate(track, out) ==
  [mQueue  |-> out.q,
   mSource |-> IF out.q.mFormat = NoFormat THEN track.mSource
               ELSE IF track.mSource = <<>> THEN <<NewSource(out.q.mFormat)>>
               ELSE <<QueueAccessUnit(track.mSource[1], out.unit)>>]
(* appendPESData(): the source begins with the first unit that is known to *)
(* have a format.                                                          *)
Queued(track, out) ==
  [mQueue  |-> out.q,
   mSource |-> IF out.q.mFormat = NoFormat THEN track.mSource
               ELSE IF track.mSource = <<>>
                 THEN <<QueueAccessUnit(NewSource(out.q.mFormat), out.unit)>>
               ELSE <<QueueAccessUnit(track.mSource[1], out.unit)>>]

QueueOne(run, out) ==
  IF out.unit = NoUnit THEN [track |-> [run.track EXCEPT !.mQueue = out.q], done |-> TRUE]
                       ELSE [track |-> Queued(run.track, out), done |-> FALSE]

Appended(track, timeUs, data) ==
  FoldLeft(LAMBDA run, i : IF run.done THEN run ELSE QueueOne(run, Dequeue(run.track.mQueue)),
           [track |-> [track EXCEPT !.mQueue = AppendData(@, data, timeUs)], done |-> FALSE],
           [i \in 1 .. Len(track.mQueue.mBuffer) + Len(data) + 1 |-> i]).track

Out(e, err) == [e |-> e, err |-> err]

AppendPESData(e, id, packet) ==
  LET track  == e.mTracks[id]
      timeUs == IF packet.pts = -1 THEN 0 ELSE (packet.pts * 100) \div 9
  IN  IF track.mQueue.mode = "none" THEN Out(e, "OK")
      ELSE IF AppendFails(track.mQueue, packet.pieces) THEN Out(e, "MALFORMED")
      ELSE Out([e EXCEPT !.mTracks[id] = Appended(track, timeUs, packet.pieces)], "OK")

(* dequeuePES(): maps count, and tracks begin, only while scanning.        *)
DequeueMap(e, packet) ==
  CASE ~e.mScanning  -> Out(e, "OK")
    [] e.mScanning /\ packet.whole  -> Out([e EXCEPT !.mTypes = packet.types], "OK")
    [] e.mScanning /\ ~packet.whole -> Out([e EXCEPT !.mTypes = <<>>], "MALFORMED")

DequeuePES(e, packet) ==
  LET id    == packet.id
      begun == IF id \in DOMAIN e.mTracks \/ ~e.mScanning THEN e
               ELSE [e EXCEPT !.mTracks = @ @@ (id :> Track(Mode(TypeOf(e, id))))]
  IN  IF ~packet.media \/ id \notin DOMAIN begun.mTracks THEN Out(e, "OK")
      ELSE AppendPESData(begun, id, packet)

DequeuePacket(e, packet) ==
  CASE packet.code = "header" -> Out(e, "OK")
    [] packet.code = "map"    -> DequeueMap(e, packet)
    [] packet.code = "pes"    -> DequeuePES(e, packet)
----------------------------------------------------------------------------
(* dequeueChunk(): a packet is left in the buffer until it is all there,   *)
(* and where taking it fails.                                              *)

Start(i) == FoldLeft(LAMBDA sum, p : sum + p.size, 0, SubSeq(stream.packets, 1, i - 1))
Buffered(e) == e.mOffset - Start(e.next)

IfTaken(out) == IF out.err = "OK" THEN [out EXCEPT !.e.next = @ + 1] ELSE out

DequeueChunk(e) ==
  LET packet == stream.packets[e.next]
  IN  CASE Buffered(e) < 1 -> Out(e, "AGAIN")
        [] Buffered(e) >= 1 /\ packet.code = "junk" -> Out(e, "MALFORMED")
        [] Buffered(e) >= 1 /\ packet.code # "junk" /\ Buffered(e) < packet.size -> Out(e, "AGAIN")
        [] OTHER -> IfTaken(DequeuePacket(e, packet))

(* feedMore(): chunks are read until one packet is taken; what follows the *)
(* last whole chunk of the file is not looked at.                          *)
ReadChunk(e) ==
  IF e.mOffset + kChunkSize > Start(Len(stream.packets) + 1)
    THEN Out([e EXCEPT !.mFinalResult = "EOS"], "EOS")
    ELSE Out([e EXCEPT !.mOffset = @ + kChunkSize], "MORE")

Failed(out) == IF out.err = "OK" THEN out ELSE [out EXCEPT !.e.mFinalResult = out.err]
Round(out) ==
  IF out.err = "AGAIN" /\ out.e.mFinalResult = "OK" THEN ReadChunk(out.e) ELSE Failed(out)

Rounds == [i \in 1 .. Start(Len(stream.packets) + 1) \div kChunkSize + 1 |-> i]
FeedMore(e) ==
  FoldLeft(LAMBDA out, i : IF out.err = "MORE" THEN Round(DequeueChunk(out.e)) ELSE out,
           Out(e, "MORE"), Rounds)
----------------------------------------------------------------------------
(* The constructor, which ends without the tracks whose format it has not  *)
(* learnt                                                                  *)

(* The loop over the access units of a track may have no end.              *)
Endless(e) == \E id \in DOMAIN e.mTracks : e.mTracks[id].mQueue.failed = "loops"

Built(e) ==
  [e EXCEPT !.mScanning = FALSE,
            !.mTracks = Restrict(@, {id \in DOMAIN @ : @[id].mSource # <<>>})]

Scan ==
  /\ x.mScanning
  /\ \E out \in {FeedMore(x)} :
       x' = IF ~Endless(out.e) /\ (out.err # "OK" \/ scans + 1 = MaxScans)
              THEN Built(out.e) ELSE out.e
  /\ scans' = scans + 1
  /\ UNCHANGED <<stream, pc, got>>
----------------------------------------------------------------------------
(* Track::read()                                                           *)

Source(id) == x.mTracks[id].mSource[1]
Open(id) == ~x.mScanning /\ id \in DOMAIN x.mTracks
AtEnd(id) == got[id] # <<>> /\ "end" \in DOMAIN Last(got[id])

Call(id) ==
  /\ Open(id) /\ pc[id] = "idle"
  /\ ~AtEnd(id)                             \* the caller stops at the end
  /\ pc' = [pc EXCEPT ![id] = "check"]
  /\ UNCHANGED <<stream, x, scans, got>>

Check(id) ==
  /\ pc[id] = "check"
  /\ \/ /\ HasBufferAvailable(Source(id))
        /\ pc' = [pc EXCEPT ![id] = "read"] /\ UNCHANGED got
     \/ /\ ~HasBufferAvailable(Source(id)) /\ FinalResult(Source(id)) # "OK"
        /\ pc' = [pc EXCEPT ![id] = "idle"]
        /\ got' = [got EXCEPT ![id] = Append(@, [end |-> "EOS"])]
     \/ /\ ~HasBufferAvailable(Source(id)) /\ FinalResult(Source(id)) = "OK"
        /\ pc' = [pc EXCEPT ![id] = "feed"] /\ UNCHANGED got
  /\ UNCHANGED <<stream, x, scans>>

\* mutant of Fed: the source goes on after an error
FedAfterError(out, id) == out.e
(* An error of feedMore() ends this track's source.                        *)
Fed(out, id) ==
  IF out.err = "OK" THEN out.e
  ELSE [out.e EXCEPT !.mTracks[id].mSource[1] = SignalEOS(@, out.err)]

Feed(id) ==
  /\ pc[id] = "feed"
  /\ x' = Fed(FeedMore(x), id)
  /\ pc' = [pc EXCEPT ![id] = "check"]
  /\ UNCHANGED <<stream, scans, got>>

Return(id) ==
  /\ pc[id] = "read"
  /\ got' = [got EXCEPT ![id] = Append(@, Head(Source(id).mBuffers))]
  /\ x' = [x EXCEPT !.mTracks[id].mSource[1] = Read(@)]
  /\ pc' = [pc EXCEPT ![id] = "idle"]
  /\ UNCHANGED <<stream, scans>>

Done ==
  /\ ~x.mScanning /\ \A id \in Ids : pc[id] = "idle" /\ (Open(id) => AtEnd(id))
  /\ UNCHANGED vars

Next ==
  \/ ~Endless(x) /\ (Scan \/ \E id \in Ids : Call(id) \/ Check(id) \/ Feed(id) \/ Return(id))
  \/ Done
  \/ Endless(x) /\ UNCHANGED vars

Spec == Init /\ [][Next]_vars
----------------------------------------------------------------------------
(* Properties.  The frames are numbered as in MPEG2TSExtractor; frames[n]  *)
(* is [pieces, pts, packet]: the last packet that holds a piece of it or   *)
(* the piece by which its end is known.                                    *)

Units(id) == SelectSeq(got[id], LAMBDA r : "data" \in DOMAIN r)
Media(pieces) == SelectSeq(pieces, LAMBDA piece : piece.n # 0)
FrameOf(unit) == Head(Media(unit.data)).n
FramesOf(id) ==
  {n \in DOMAIN stream.frames : \E i \in DOMAIN stream.packets :
     LET p == stream.packets[i] IN
     p.code = "pes" /\ p.id = id /\ \E k \in DOMAIN p.pieces : p.pieces[k].n = n}

(* Whatever the readers' interleaving and the cut into packets and chunks, *)
(* each unit a track's reader gets is one whole frame with the time of the *)
(* packet it starts in, the first frame first and none left out; and a     *)
(* reader is told of the end only after every frame of its track that the  *)
(* packets taken so far complete, also when the other reader took them.    *)
UnitsAreFrames ==
  \A id \in DOMAIN x.mTracks :
    LET units == Units(id) IN
    /\ \A i \in DOMAIN units :
         LET n == FrameOf(units[i]) IN
         /\ Media(units[i].data) = stream.frames[n].pieces
         /\ units[i].timeUs = (stream.frames[n].pts * 100) \div 9
         /\ Cardinality({m \in FramesOf(id) : m < n}) = i - 1
    /\ AtEnd(id) =>
         \A n \in FramesOf(id) :
           stream.frames[n].packet < x.next => \E i \in DOMAIN units : FrameOf(units[i]) = n

(* Each feed takes a packet of the stream or ends the source it is for, so *)
(* that every read() returns, but where an AAC frame gives its length as 0 *)
(* (see MPEG2TSExtractor).                                                 *)
FeedsAdvance ==
  [][/\ \A id \in DOMAIN pc :
          pc[id] = "feed" /\ pc'[id] = "check" =>
            x'.next > x.next \/ x'.mTracks[id].mSource[1].mEOSResult # "OK"
     /\ Endless(x') =>
          \E n \in DOMAIN stream.frames : stream.frames[n].pieces[1].code = "adts"
                                            /\ stream.frames[n].pieces[1].info = 0]_vars
=============================================================================
