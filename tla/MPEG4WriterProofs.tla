-------------------------- MODULE MPEG4WriterProofs --------------------------
(***************************************************************************)
(* Every call on an MPEG4Writer returns, but the stop() of a recording     *)
(* started again after a start that failed, when another writer takes its  *)
(* signal: whichever tracks were started, paused, resumed or failed        *)
(* before, stop() joins threads that run and leave their loops, and an     *)
(* only writer is woken when it is told to end, after the last of them.    *)
(***************************************************************************)
EXTENDS MPEG4Writer, SequenceTheorems, TLAPS

(***************************************************************************)
(* The inductive invariant.                                                *)
(***************************************************************************)
Ops    == {"none", "start", "pause", "unwind", "stop", "close"}
Places == {"none", "read", "admit", "stamp", "buffer", "tail", "finish", "exited"}
WriterPlaces == {"loop", "write", "parked", "exited"}

TracksShape ==
  /\ DOMAIN ctl = TrackSet /\ DOMAIN loc = TrackSet
  /\ \A t \in TrackSet :
       /\ {"mDone", "mPaused", "mStarted"} \subseteq DOMAIN ctl[t]
       /\ ctl[t].mDone \in BOOLEAN /\ ctl[t].mPaused \in BOOLEAN /\ ctl[t].mStarted \in BOOLEAN
       /\ {"at", "then"} \subseteq DOMAIN loc[t]
       /\ loc[t].at \in Places /\ loc[t].then \in {"read", "finish"}
WriterShape == writers \in Seq(WriterPlaces) /\ done \in BOOLEAN
RecShape ==
  /\ {"started", "paused", "over"} \subseteq DOMAIN rec
  /\ rec.started \in BOOLEAN /\ rec.paused \in BOOLEAN /\ rec.over \in BOOLEAN
CallShape ==
  /\ call \in [op : Ops, at : Nat \ {0}, upto : 0 .. Len(Tracks), err : BOOLEAN, join : BOOLEAN]
  /\ call.at <= call.upto + 1
Shape == TracksShape /\ WriterShape /\ RecShape /\ CallShape

Quiet(from, to) == \A i \in DOMAIN Tracks : from <= i /\ i <= to => ~Running(Tracks[i])
AllQuiet == \A t \in TrackSet : ~Running(t)
Paused(from, to) == \A i \in DOMAIN Tracks : from <= i /\ i <= to => ctl[Tracks[i]].mPaused
PausedOrQuiet(from) ==
  \A i \in DOMAIN Tracks : from <= i => ctl[Tracks[i]].mPaused \/ ~Running(Tracks[i])
Last == Len(Tracks)

(* A track's flags say whether it has a thread; one that was told to end   *)
(* still runs only while it is being joined.                               *)
FlagsTell ==
  \A t \in TrackSet :
    /\ ctl[t].mStarted <=> loc[t].at # "none"
    /\ ctl[t].mDone /\ Running(t) => call.join /\ t = Track
Joined ==
  call.join => /\ call.op \in {"stop", "unwind"} /\ call.at <= call.upto
               /\ ctl[Track].mDone /\ ctl[Track].mStarted

(* Of the writers only one that is not the newest may be waited for in     *)
(* vain.                                                                   *)
WriterLives ==
  /\ writers = <<>> => /\ call.op \in {"none", "pause"} /\ ~rec.started
                       /\ \A t \in TrackSet : ~ctl[t].mStarted /\ ~ctl[t].mDone
  /\ done => /\ writers # <<>> /\ (Newest = "parked" => Len(writers) > 1)
             /\ call.op = "close" \/ rec.over
  /\ call.op = "close" => done

(* A start() that failed leaves the tracks up to the one it failed at done *)
(* and the others as they were, so that the next one either gives them all *)
(* threads or resumes those it does not: a paused one can fail only before *)
(* it has resumed a track.                                                 *)
DoneFirst(from) ==
  \A i, j \in DOMAIN Tracks :
    from <= i /\ i <= j /\ ctl[Tracks[j]].mDone => ctl[Tracks[i]].mDone
NoneDone(from) == \A i \in DOMAIN Tracks : from <= i => ~ctl[Tracks[i]].mDone
Started(to)    == \A i \in DOMAIN Tracks : i <= to => ctl[Tracks[i]].mStarted
NonePaused     == \A t \in TrackSet : ~ctl[t].mPaused

(* How far each call came.                                                 *)
NoCall ==
  call.op = "none" =>
    /\ rec.paused => PausedOrQuiet(1)
    /\ ~rec.started => AllQuiet
    /\ ~rec.started /\ ~rec.over => /\ DoneFirst(1)
                                    /\ IF rec.paused THEN Paused(1, Last) ELSE NonePaused
Pausing ==
  call.op = "pause" => /\ rec.paused /\ call.upto = Last /\ Paused(1, call.at - 1)
                       /\ ~rec.started => AllQuiet /\ DoneFirst(1)
Starting ==
  call.op = "start" =>
    /\ call.upto = Last /\ PausedOrQuiet(call.at)
    /\ ~rec.started => Quiet(call.at, Last) /\ DoneFirst(call.at)
    /\ ~rec.started /\ ~rec.paused => NonePaused /\ Started(call.at - 1)
    /\ rec.paused => /\ ~rec.started /\ PausedOrQuiet(1) /\ Paused(call.at, Last)
                     /\ \/ Paused(1, call.at - 1) /\ Started(call.at - 1)
                        \/ NoneDone(call.at)
Unwinding ==
  call.op = "unwind" =>
    /\ Quiet(1, call.at - 1) /\ (rec.started => ~rec.paused)
    /\ ~rec.started =>
         /\ Quiet(call.upto + 1, Last) /\ call.upto < Last
         /\ Started(call.upto) /\ (\A i \in DOMAIN Tracks : i < call.at => ctl[Tracks[i]].mDone)
         /\ ctl[Tracks[call.upto + 1]].mDone /\ DoneFirst(call.upto + 1)
         /\ IF rec.paused THEN Paused(1, Last) ELSE NonePaused
Stopping ==
  call.op = "stop" => Quiet(1, call.at - 1) /\ (call.upto = Last \/ AllQuiet)
Ended ==
  /\ call.op = "close" => AllQuiet
  /\ rec.over => call.op = "none" /\ AllQuiet

IInv ==
  /\ Shape /\ FlagsTell /\ Joined /\ WriterLives
  /\ NoCall /\ Pausing /\ Starting /\ Unwinding /\ Stopping /\ Ended

LEMMA TrackIsOne ==
  /\ \A i \in DOMAIN Tracks : Tracks[i] \in TrackSet
  /\ \A t \in TrackSet : \E i \in DOMAIN Tracks : Tracks[i] = t
  /\ DOMAIN Tracks = 1 .. Len(Tracks) /\ Len(Tracks) \in Nat \ {0}
  /\ \A i, j \in DOMAIN Tracks : Tracks[i] = Tracks[j] => i = j
BY MPEG4WriterAssumption DEF TrackSet

(* The track a call is at is one of the tracks.                            *)
LEMMA TrackIsThere ==
  ASSUME Shape, call.at <= call.upto
  PROVE  call.at \in DOMAIN Tracks /\ Track \in TrackSet
BY TrackIsOne DEF Shape, CallShape, Track

(* Its place among them.                                                   *)
LEMMA CallIsAt ==
  ASSUME Shape, call.at <= call.upto
  PROVE  /\ call.at \in DOMAIN Tracks /\ call.at \in Nat /\ Track = Tracks[call.at]
         /\ \A i \in DOMAIN Tracks : Tracks[i] \in TrackSet /\ (i # call.at => Tracks[i] # Track)
BY TrackIsOne, TrackIsThere DEF Shape, CallShape, Track

(***************************************************************************)
(* The threads of the tracks.                                              *)
(***************************************************************************)
(* A signal changes neither how many writers there are nor, but to wake    *)
(* it, the newest.                                                         *)
WritersMove ==
  /\ (writers' = <<>>) <=> (writers = <<>>)
  /\ Len(writers') = Len(writers) /\ (Newest' = "parked" => Newest = "parked")

(* What a step of a track's thread may touch of what the invariant reads:  *)
(* its own place, and a writer that it wakes.                              *)
Moves(t) ==
  /\ Shape' /\ call' = call
  /\ Running(t) /\ loc'[t].at # "none"
  /\ \A u \in TrackSet : u # t => loc'[u].at = loc[u].at
  /\ \A u \in TrackSet : /\ ctl'[u].mDone = ctl[u].mDone /\ ctl'[u].mPaused = ctl[u].mPaused
                         /\ ctl'[u].mStarted = ctl[u].mStarted
  /\ rec'.started = rec.started /\ rec'.paused = rec.paused /\ rec'.over = rec.over
  /\ done' = done /\ WritersMove

(* The flags, the recording and the writer as a thread leaves them, and    *)
(* where the thread itself may go.                                         *)
LocMoves(t) ==
  /\ Running(t) /\ DOMAIN loc' = TrackSet /\ \A u \in TrackSet : u # t => loc'[u] = loc[u]
  /\ {"at", "then"} \subseteq DOMAIN loc'[t]
  /\ loc'[t].at \in Places \ {"none"} /\ loc'[t].then \in {"read", "finish"}
FlagsStay ==
  /\ DOMAIN ctl' = TrackSet
  /\ \A u \in TrackSet :
       /\ DOMAIN ctl'[u] = DOMAIN ctl[u]
       /\ ctl'[u].mDone = ctl[u].mDone /\ ctl'[u].mPaused = ctl[u].mPaused
       /\ ctl'[u].mStarted = ctl[u].mStarted
RecStays ==
  /\ DOMAIN rec' = DOMAIN rec
  /\ rec'.started = rec.started /\ rec'.paused = rec.paused /\ rec'.over = rec.over
WriterStays == writers' \in Seq(WriterPlaces) /\ done' = done /\ WritersMove

LEMMA SignalsStay ==
  ASSUME Shape, Signals
  PROVE  /\ writers' \in Seq(WriterPlaces) /\ WritersMove
         /\ writers # <<>> /\ Newest' = "parked" => Len(writers) > 1
<1>1. writers \in Seq(WriterPlaces)
  BY DEF Shape, WriterShape
<1>2. CASE (\A i \in DOMAIN writers : writers[i] # "parked") /\ writers' = writers
  BY <1>1, <1>2 DEF WritersMove, Newest
<1>3. ASSUME NEW i \in DOMAIN writers, writers[i] = "parked",
             writers' = [writers EXCEPT ![i] = "loop"]
      PROVE  /\ writers' \in Seq(WriterPlaces) /\ WritersMove
             /\ writers # <<>> /\ Newest' = "parked" => Len(writers) > 1
  <2>1. DOMAIN writers = 1 .. Len(writers) /\ Len(writers) \in Nat
    BY <1>1
  <2>2. writers' \in Seq(WriterPlaces) /\ Len(writers') = Len(writers)
    BY <1>1, <1>3 DEF WriterPlaces
  <2>3. \A k \in 1 .. Len(writers) : writers'[k] = IF k = i THEN "loop" ELSE writers[k]
    BY <1>1, <1>3
  <2> QED
    BY <2>1, <2>2, <2>3 DEF WritersMove, Newest
<1> QED
  BY <1>2, <1>3 DEF Signals

LEMMA MovesIfLocal ==
  ASSUME Shape, NEW t \in TrackSet, call' = call, LocMoves(t), FlagsStay, RecStays, WriterStays
  PROVE  Moves(t)
<1>1. TracksShape'
  <2>1. DOMAIN ctl' = TrackSet /\ DOMAIN loc' = TrackSet
    BY DEF LocMoves, FlagsStay
  <2>2. ASSUME NEW u \in TrackSet
        PROVE  /\ {"mDone", "mPaused", "mStarted"} \subseteq DOMAIN ctl'[u]
               /\ ctl'[u].mDone \in BOOLEAN /\ ctl'[u].mPaused \in BOOLEAN
               /\ ctl'[u].mStarted \in BOOLEAN
    BY DEF FlagsStay, Shape, TracksShape
  <2>3. ASSUME NEW u \in TrackSet
        PROVE  /\ {"at", "then"} \subseteq DOMAIN loc'[u]
               /\ loc'[u].at \in Places /\ loc'[u].then \in {"read", "finish"}
    BY DEF LocMoves, Shape, TracksShape
  <2> QED
    BY <2>1, <2>2, <2>3 DEF TracksShape
<1>2. WriterShape'
  BY DEF WriterStays, Shape, WriterShape
<1>3. RecShape'
  BY DEF RecStays, Shape, RecShape
<1>4. CallShape'
  BY DEF Shape, CallShape
<1>5. \A u \in TrackSet : u # t => loc'[u].at = loc[u].at
  BY DEF LocMoves
<1> QED
  BY <1>1, <1>2, <1>3, <1>4, <1>5
  DEF Moves, LocMoves, FlagsStay, RecStays, WriterStays, Shape

LEMMA Unchanged ==
  ASSUME Shape
  PROVE  /\ ctl' = ctl => FlagsStay
         /\ rec' = rec => RecStays
         /\ writers' = writers /\ done' = done => WriterStays
BY DEF Shape, TracksShape, WriterShape, FlagsStay, RecStays, WriterStays, WritersMove, Newest

(* A sample that passes changes neither the flags nor, but for the place,  *)
(* the shape of what the thread keeps.                                     *)
LEMMA StampedStays ==
  ASSUME Shape, NEW t \in TrackSet
  PROVE  /\ DOMAIN StampedTrack(t) = DOMAIN ctl[t]
         /\ StampedTrack(t).mDone = ctl[t].mDone
         /\ StampedTrack(t).mPaused = ctl[t].mPaused
         /\ StampedTrack(t).mStarted = ctl[t].mStarted
         /\ DOMAIN NextChunk(t, NextCtts(t, NextSample(t))) = DOMAIN loc[t]
         /\ NextChunk(t, NextCtts(t, NextSample(t))).at \in {"buffer", "read"}
         /\ NextChunk(t, NextCtts(t, NextSample(t))).then = "read"
<1>1. /\ {"mDone", "mPaused", "mStarted"} \subseteq DOMAIN ctl[t]
      /\ {"at", "then"} \subseteq DOMAIN loc[t]
  BY DEF Shape, TracksShape
<1>2. /\ DOMAIN StampedTrack(t) = DOMAIN ctl[t]
      /\ StampedTrack(t).mDone = ctl[t].mDone
      /\ StampedTrack(t).mPaused = ctl[t].mPaused
      /\ StampedTrack(t).mStarted = ctl[t].mStarted
  BY <1>1 DEF StampedTrack
<1>3. DOMAIN NextSample(t) = DOMAIN loc[t]
  BY DEF NextSample
<1>4. ASSUME NEW l PROVE DOMAIN NextCtts(t, l) = DOMAIN l
  BY DEF NextCtts
<1>5. ASSUME NEW l, {"at", "then"} \subseteq DOMAIN l
      PROVE  /\ DOMAIN NextChunk(t, l) = DOMAIN l
             /\ NextChunk(t, l).at \in {"buffer", "read"} /\ NextChunk(t, l).then = "read"
  BY <1>5 DEF NextChunk
<1>6. DOMAIN NextCtts(t, NextSample(t)) = DOMAIN loc[t]
  BY <1>3, <1>4
<1> QED
  BY <1>1, <1>2, <1>5, <1>6

LEMMA TrackStepMoves ==
  ASSUME Shape, NEW t \in TrackSet, TrackStep(t)
  PROVE  Moves(t)
<1>1. CASE TrackReads(t)
  <2>1. LocMoves(t)
    BY <1>1 DEF Shape, TracksShape, LocMoves, Running, Places, TrackReads
  <2>2. FlagsStay
    BY <1>1, Unchanged DEF TrackReads, trackKeeps
  <2>3. RecStays /\ call' = call
    BY <1>1, Unchanged DEF TrackReads, trackKeeps
  <2>4. WriterStays
    BY <1>1, Unchanged DEF TrackReads, trackKeeps
  <2> QED
    BY <2>1, <2>2, <2>3, <2>4, MovesIfLocal
<1>2. CASE TrackStops(t)
  <2>1. LocMoves(t)
    BY <1>2 DEF Shape, TracksShape, LocMoves, Running, Places, TrackStops, Go
  <2>2. FlagsStay
    BY <1>2, Unchanged DEF TrackStops, trackKeeps
  <2>3. RecStays /\ call' = call
    BY <1>2, Unchanged DEF TrackStops, trackKeeps
  <2>4. WriterStays
    BY <1>2, Unchanged DEF TrackStops, trackKeeps
  <2> QED
    BY <2>1, <2>2, <2>3, <2>4, MovesIfLocal
<1>3. CASE TrackDropsPaused(t)
  <2>1. LocMoves(t)
    BY <1>3 DEF Shape, TracksShape, LocMoves, Running, Places, TrackDropsPaused, Go
  <2>2. FlagsStay
    BY <1>3, Unchanged DEF TrackDropsPaused, trackKeeps
  <2>3. RecStays /\ call' = call
    BY <1>3 DEF Shape, RecShape, RecStays, TrackDropsPaused, trackKeeps
  <2>4. WriterStays
    BY <1>3, Unchanged DEF TrackDropsPaused, trackKeeps
  <2> QED
    BY <2>1, <2>2, <2>3, <2>4, MovesIfLocal
<1>4. CASE TrackDropsBehind(t)
  <2>1. LocMoves(t)
    BY <1>4 DEF Shape, TracksShape, LocMoves, Running, Places, TrackDropsBehind, Admits, Go
  <2>2. FlagsStay
    BY <1>4, Unchanged DEF TrackDropsBehind, trackKeeps
  <2>3. RecStays /\ call' = call
    BY <1>4, Unchanged DEF TrackDropsBehind, trackKeeps
  <2>4. WriterStays
    BY <1>4, Unchanged DEF TrackDropsBehind, trackKeeps
  <2> QED
    BY <2>1, <2>2, <2>3, <2>4, MovesIfLocal
<1>5. CASE TrackTakesConfig(t)
  <2>1. LocMoves(t)
    BY <1>5
    DEF Shape, TracksShape, LocMoves, Running, Places, TrackTakesConfig, Kept, Admits
  <2>2. FlagsStay
    BY <1>5 DEF Shape, TracksShape, FlagsStay, TrackTakesConfig, Kept, Admits
  <2>3. RecStays /\ call' = call
    BY <1>5, Unchanged DEF TrackTakesConfig, trackKeeps
  <2>4. WriterStays
    <3>1. UNCHANGED <<trackKeeps, tab, rec, taken>>
      BY <1>5, Zenon DEF TrackTakesConfig
    <3> QED
      BY <3>1, Unchanged DEF trackKeeps
  <2> QED
    BY <2>1, <2>2, <2>3, <2>4, MovesIfLocal
<1>6. CASE TrackCounts(t)
  <2>1. LocMoves(t)
    BY <1>6 DEF Shape, TracksShape, LocMoves, Running, Places, TrackCounts, Kept, Admits
  <2>2. FlagsStay
    BY <1>6 DEF Shape, TracksShape, FlagsStay, TrackCounts, Kept, Admits
  <2>3. RecStays /\ call' = call
    BY <1>6, Unchanged DEF TrackCounts, trackKeeps
  <2>4. WriterStays
    <3>1. UNCHANGED <<trackKeeps, tab, rec, taken, aborted>>
      BY <1>6, Zenon DEF TrackCounts
    <3> QED
      BY <3>1, Unchanged DEF trackKeeps
  <2> QED
    BY <2>1, <2>2, <2>3, <2>4, MovesIfLocal
<1>7. CASE TrackSkips(t)
  <2>1. PICK start, bytes : ctl' = [ctl EXCEPT ![t].start = start, ![t].mdat = bytes]
    BY <1>7, Zenon DEF TrackSkips
  <2>2. PICK cut, stamp : loc' = [loc EXCEPT ![t].at = "read", ![t].prevPaused = cut,
                                             ![t].stamp = stamp]
    BY <1>7, Zenon DEF TrackSkips
  <2>3. PICK startUs : rec' = [rec EXCEPT !.startUs = startUs]
    BY <1>7, Zenon DEF TrackSkips
  <2>4. loc[t].at = "stamp" /\ UNCHANGED <<trackKeeps, tab, taken>>
    BY <1>7, Zenon DEF TrackSkips
  <2>5. LocMoves(t)
    BY <2>2, <2>4 DEF Shape, TracksShape, LocMoves, Running, Places
  <2>6. FlagsStay
    BY <2>1 DEF Shape, TracksShape, FlagsStay
  <2>7. RecStays
    BY <2>3 DEF Shape, RecShape, RecStays
  <2>8. WriterStays /\ call' = call
    BY <2>4, Unchanged DEF trackKeeps
  <2> QED
    BY <2>5, <2>6, <2>7, <2>8, MovesIfLocal
<1>8. CASE TrackStamps(t)
  <2>1. ctl' = [ctl EXCEPT ![t] = StampedTrack(t)]
    BY <1>8, Zenon DEF TrackStamps
  <2>2. loc' = [loc EXCEPT ![t] = NextChunk(t, NextCtts(t, NextSample(t)))]
    BY <1>8, Zenon DEF TrackStamps
  <2>3. PICK startUs, wait : rec' = [rec EXCEPT !.startUs = startUs, !.waitSync = wait]
    BY <1>8, Zenon DEF TrackStamps
  <2>4. loc[t].at = "stamp" /\ UNCHANGED trackKeeps
    BY <1>8, Zenon DEF TrackStamps
  <2>5. LocMoves(t)
    BY <2>2, <2>4, StampedStays DEF Shape, TracksShape, LocMoves, Running, Places
  <2>6. FlagsStay
    BY <2>1, StampedStays DEF Shape, TracksShape, FlagsStay
  <2>7. RecStays
    BY <2>3 DEF Shape, RecShape, RecStays
  <2>8. WriterStays /\ call' = call
    BY <2>4, Unchanged DEF trackKeeps
  <2> QED
    BY <2>5, <2>6, <2>7, <2>8, MovesIfLocal
<1>9. CASE TrackBuffers(t)
  <2>1. LocMoves(t)
    BY <1>9 DEF Shape, TracksShape, LocMoves, Running, Places, TrackBuffers, Go
  <2>2. FlagsStay
    BY <1>9 DEF Shape, TracksShape, FlagsStay, TrackBuffers, Go
  <2>3. RecStays /\ call' = call
    BY <1>9, Unchanged DEF TrackBuffers
  <2>4. WriterStays
    BY <1>9, SignalsStay DEF WriterStays, TrackBuffers
  <2> QED
    BY <2>1, <2>2, <2>3, <2>4, MovesIfLocal
<1>10. CASE TrackEndsChunk(t)
  <2>1. LocMoves(t)
    BY <1>10 DEF Shape, TracksShape, LocMoves, Running, Places, TrackEndsChunk, Go
  <2>2. FlagsStay
    BY <1>10, Unchanged DEF TrackEndsChunk, trackKeeps
  <2>3. RecStays /\ call' = call
    BY <1>10, Unchanged DEF TrackEndsChunk, trackKeeps
  <2>4. WriterStays
    BY <1>10, Unchanged DEF TrackEndsChunk, trackKeeps
  <2> QED
    BY <2>1, <2>2, <2>3, <2>4, MovesIfLocal
<1>11. CASE TrackFinishes(t)
  <2>1. LocMoves(t)
    BY <1>11 DEF Shape, TracksShape, LocMoves, Running, Places, TrackFinishes, Go
  <2>2. FlagsStay
    BY <1>11 DEF Shape, TracksShape, FlagsStay, TrackFinishes, Go
  <2>3. RecStays /\ call' = call
    BY <1>11, Unchanged DEF TrackFinishes, trackKeeps
  <2>4. WriterStays
    BY <1>11, Unchanged DEF TrackFinishes, trackKeeps
  <2> QED
    BY <2>1, <2>2, <2>3, <2>4, MovesIfLocal
<1> QED
  BY <1>1, <1>2, <1>3, <1>4, <1>5, <1>6, <1>7, <1>8, <1>9, <1>10, <1>11 DEF TrackStep

(* A thread that moves leaves the invariant: it runs no more than before.  *)
LEMMA MovesKeepsInv ==
  ASSUME IInv, NEW t \in TrackSet, Moves(t)
  PROVE  IInv'
<1> USE TrackIsOne
<1>1. /\ \A u \in TrackSet : Running(u)' => Running(u)
      /\ \A u \in TrackSet : loc'[u].at = "none" <=> loc[u].at = "none"
  BY DEF Moves, Running
<1>2. Track' = Track
  BY DEF Moves, Track
<1>3. /\ \A from, to : Quiet(from, to) => Quiet(from, to)'
      /\ AllQuiet => AllQuiet'
      /\ \A from, to : Paused(from, to) => Paused(from, to)'
      /\ \A from : PausedOrQuiet(from) => PausedOrQuiet(from)'
  BY <1>1 DEF Moves, Quiet, AllQuiet, Paused, PausedOrQuiet
<1>8. /\ \A from : (DoneFirst(from) => DoneFirst(from)') /\ (NoneDone(from) => NoneDone(from)')
      /\ \A to : Started(to) => Started(to)'
      /\ NonePaused => NonePaused'
  BY DEF Moves, DoneFirst, NoneDone, Started, NonePaused
<1>4. FlagsTell'
  BY <1>1, <1>2 DEF Moves, IInv, FlagsTell
<1>5. Joined'
  BY <1>2, TrackIsThere DEF Moves, IInv, Joined
<1>6. WriterLives'
  BY DEF Moves, WritersMove, IInv, WriterLives
<1>9. /\ call' = call /\ rec'.started = rec.started /\ rec'.paused = rec.paused
      /\ rec'.over = rec.over
  BY DEF Moves
<1>10. \A i \in DOMAIN Tracks : ctl'[Tracks[i]].mDone = ctl[Tracks[i]].mDone
  BY DEF Moves
<1>7. NoCall' /\ Pausing' /\ Starting' /\ Unwinding' /\ Stopping' /\ Ended'
  <2>1. NoCall' /\ Pausing' /\ Stopping' /\ Ended'
    BY <1>3, <1>8, <1>9 DEF IInv, NoCall, Pausing, Stopping, Ended, Last
  <2>2. Starting'
    BY <1>3, <1>8, <1>9 DEF IInv, Starting, Last
  <2>3. Unwinding'
    <3>1. SUFFICES ASSUME call.op = "unwind" PROVE Unwinding'
      BY <1>9 DEF Unwinding
    <3>2. call.upto \in Nat
      BY DEF IInv, Shape, CallShape
    <3>3. call.upto < Last => call.upto + 1 \in DOMAIN Tracks
      BY <3>2 DEF Last
    <3> QED
      BY <1>3, <1>8, <1>9, <1>10, <3>1, <3>3 DEF IInv, Unwinding, Last
  <2> QED
    BY <2>1, <2>2, <2>3
<1> QED
  BY <1>4, <1>5, <1>6, <1>7 DEF Moves, IInv

(***************************************************************************)
(* The writer's thread.                                                    *)
(***************************************************************************)
(* Only a writer that is not told to end waits.                            *)
LEMMA WriterStepMoves ==
  ASSUME Shape, NEW i \in DOMAIN writers, WriterStep(i)
  PROVE  /\ ctl' = ctl /\ loc' = loc /\ rec' = rec /\ call' = call /\ done' = done
         /\ writers' \in Seq(WriterPlaces) /\ Len(writers') = Len(writers)
         /\ writers # <<>> /\ writers' # <<>>
         /\ done /\ Newest' = "parked" => Newest = "parked"
<1>1. writers \in Seq(WriterPlaces) /\ DOMAIN writers = 1 .. Len(writers) /\ Len(writers) \in Nat
  BY DEF Shape, WriterShape
<1>2. PICK at \in WriterPlaces : writers' = [writers EXCEPT ![i] = at] /\ (done => at # "parked")
  BY Zenon DEF WriterStep, WriterTakes, WriterWaits, WriterWrites, WriterEnds, WriterPlaces
<1>3. UNCHANGED writerKeeps
  BY Zenon DEF WriterStep, WriterTakes, WriterWaits, WriterWrites, WriterEnds
<1>4. /\ writers' \in Seq(WriterPlaces) /\ Len(writers') = Len(writers)
      /\ \A k \in 1 .. Len(writers) : writers'[k] = IF k = i THEN at ELSE writers[k]
  BY <1>1, <1>2
<1>5. Len(writers) > 0 /\ writers # <<>> /\ writers' # <<>>
  BY <1>1, <1>4
<1> QED
  BY <1>1, <1>2, <1>3, <1>4, <1>5 DEF writerKeeps, Newest

LEMMA WriterKeepsInv ==
  ASSUME IInv, NEW i \in DOMAIN writers, WriterStep(i)
  PROVE  IInv'
<1>1. Shape
  BY DEF IInv
<1>2. /\ ctl' = ctl /\ loc' = loc /\ rec' = rec /\ call' = call /\ done' = done
      /\ writers' \in Seq(WriterPlaces) /\ Len(writers') = Len(writers)
      /\ writers # <<>> /\ writers' # <<>>
      /\ done /\ Newest' = "parked" => Newest = "parked"
  BY <1>1, WriterStepMoves
<1>3. Shape'
  BY <1>1, <1>2 DEF Shape, TracksShape, WriterShape, RecShape, CallShape
<1>4. WriterLives'
  BY <1>2 DEF IInv, WriterLives
<1>5. FlagsTell' /\ Joined'
  BY <1>2 DEF IInv, FlagsTell, Joined, Running, Track
<1>6. NoCall' /\ Pausing' /\ Starting' /\ Unwinding' /\ Stopping' /\ Ended'
  BY <1>2 DEF IInv, NoCall, Pausing, Starting, Unwinding, Stopping, Ended, Quiet, AllQuiet,
              Paused, PausedOrQuiet, DoneFirst, NoneDone, Started, NonePaused, Running
<1> QED
  BY <1>3, <1>4, <1>5, <1>6 DEF IInv

(***************************************************************************)
(* The owner.                                                              *)
(***************************************************************************)
(* The call goes on to the next track.                                     *)
LEMMA NextTrackIs ==
  ASSUME Shape, call.at <= call.upto, NEW err \in BOOLEAN
  PROVE  /\ NextTrack(err) \in [op : Ops, at : Nat \ {0}, upto : 0 .. Len(Tracks),
                               err : BOOLEAN, join : BOOLEAN]
         /\ NextTrack(err).at = call.at + 1 /\ NextTrack(err).upto = call.upto
         /\ NextTrack(err).op = call.op /\ ~NextTrack(err).join
<1>1. PICK e \in BOOLEAN :
        NextTrack(err) = [call EXCEPT !.at = @ + 1, !.err = e, !.join = FALSE]
  <2>1. (call.err \/ err) \in BOOLEAN
    OBVIOUS
  <2> QED
    BY <2>1, Zenon DEF NextTrack
<1>2. /\ call.op \in Ops /\ call.at \in Nat \ {0} /\ call.upto \in 0 .. Len(Tracks)
      /\ call = [op |-> call.op, at |-> call.at, upto |-> call.upto, err |-> call.err,
                 join |-> call.join]
  BY DEF Shape, CallShape
<1>3. NextTrack(err) = [op |-> call.op, at |-> call.at + 1, upto |-> call.upto, err |-> e,
                        join |-> FALSE]
  BY <1>1, <1>2
<1>4. call.at + 1 \in Nat \ {0}
  BY <1>2
<1> QED
  BY <1>2, <1>3, <1>4

LEMMA NextTrackShape ==
  ASSUME Shape, call.at <= call.upto, NEW err \in BOOLEAN, call' = NextTrack(err)
  PROVE  CallShape'
<1>1. call.at \in Nat /\ call.upto \in 0 .. Len(Tracks)
  BY DEF Shape, CallShape
<1>2. /\ call' \in [op : Ops, at : Nat \ {0}, upto : 0 .. Len(Tracks), err : BOOLEAN, join : BOOLEAN]
      /\ call'.at = call.at + 1 /\ call'.upto = call.upto
  BY NextTrackIs
<1>3. call'.at <= call'.upto + 1
  BY <1>1, <1>2
<1> QED
  BY <1>2, <1>3 DEF CallShape

LEMMA StartKeepsInv ==
  ASSUME IInv, Start
  PROVE  IInv'
<1> USE TrackIsOne DEF threadsKeep, writersKeep, Newest
<1>1. Shape'
  <2>1. TracksShape'
    BY TrackIsThere DEF IInv, Shape, TracksShape, Start
  <2>2. WriterShape'
    <3>1. writers \in Seq(WriterPlaces) /\ writers' = Append(writers, "loop") /\ done' = FALSE
      BY DEF IInv, Shape, WriterShape, Start
    <3>2. "loop" \in WriterPlaces
      BY DEF WriterPlaces
    <3> HIDE DEF WriterPlaces
    <3> QED
      BY <3>1, <3>2, AppendProperties DEF WriterShape
  <2>3. RecShape'
    BY DEF IInv, Shape, RecShape, Start
  <2>4. CallShape'
    BY TrackIsThere DEF CallShape, Ops, Start, Calls
  <2> QED
    BY <2>1, <2>2, <2>3, <2>4 DEF Shape
<1>2. FlagsTell'
  BY TrackIsThere DEF IInv, FlagsTell, Joined, Running, Start
<1>3. Joined'
  BY TrackIsThere DEF Joined, Start, Calls
<1>4. WriterLives'
  BY TrackIsThere DEF IInv, WriterLives, Start, Calls
<1>5. NoCall' /\ Pausing'
  BY TrackIsThere DEF NoCall, Pausing, Start, Calls
<1>6. Starting' /\ Unwinding'
  BY TrackIsThere
  DEF IInv, NoCall, WriterLives, Starting, Unwinding, AllQuiet, Quiet, Paused,
      PausedOrQuiet, DoneFirst, Started, NonePaused, Running, Last, Start, Calls
<1>7. Stopping' /\ Ended'
  BY TrackIsThere
  DEF IInv, NoCall, WriterLives, Stopping, Ended, AllQuiet, Quiet, Running, Start
<1> QED
  BY <1>1, <1>2, <1>3, <1>4, <1>5, <1>6, <1>7 DEF IInv

LEMMA StartAgainKeepsInv ==
  ASSUME IInv, StartAgain
  PROVE  IInv'
<1> USE TrackIsOne DEF threadsKeep, writersKeep, Newest
<1>1. Shape'
  <2>1. TracksShape'
    BY TrackIsThere DEF IInv, Shape, TracksShape, StartAgain
  <2>2. WriterShape'
    BY DEF IInv, Shape, WriterShape, StartAgain
  <2>3. RecShape'
    BY DEF IInv, Shape, RecShape, StartAgain
  <2>4. CallShape'
    BY TrackIsThere DEF IInv, Shape, CallShape, Ops, StartAgain, Calls
  <2> QED
    BY <2>1, <2>2, <2>3, <2>4 DEF Shape
<1>2. FlagsTell'
  BY TrackIsThere DEF IInv, FlagsTell, Joined, Running, StartAgain
<1>3. Joined'
  BY TrackIsThere DEF IInv, Joined, StartAgain, Calls
<1>4. WriterLives'
  BY TrackIsThere DEF IInv, WriterLives, StartAgain, Calls
<1>5. NoCall' /\ Pausing'
  BY TrackIsThere DEF NoCall, Pausing, StartAgain, Calls
<1>6. Starting' /\ Unwinding'
  BY TrackIsThere
  DEF IInv, NoCall, Starting, Unwinding, PausedOrQuiet, Running, Last, StartAgain, Calls
<1>7. Stopping' /\ Ended'
  BY TrackIsThere DEF Stopping, Ended, StartAgain, Calls
<1> QED
  BY <1>1, <1>2, <1>3, <1>4, <1>5, <1>6, <1>7 DEF IInv

LEMMA PauseKeepsInv ==
  ASSUME IInv, Pause
  PROVE  IInv'
<1> USE TrackIsOne DEF threadsKeep, writersKeep, Newest
<1>1. Shape'
  <2>1. TracksShape'
    BY TrackIsThere DEF IInv, Shape, TracksShape, Pause
  <2>2. WriterShape'
    BY DEF IInv, Shape, WriterShape, Pause
  <2>3. RecShape'
    BY DEF IInv, Shape, RecShape, Pause
  <2>4. CallShape'
    BY TrackIsThere DEF CallShape, Ops, Pause, Calls
  <2> QED
    BY <2>1, <2>2, <2>3, <2>4 DEF Shape
<1>2. FlagsTell'
  BY TrackIsThere DEF IInv, FlagsTell, Joined, Running, Pause
<1>3. Joined'
  BY TrackIsThere DEF Joined, Pause, Calls
<1>4. WriterLives'
  BY TrackIsThere DEF IInv, WriterLives, Pause, Calls
<1>5. NoCall' /\ Pausing'
  BY TrackIsThere 
  DEF IInv, NoCall, Pausing, AllQuiet, Paused, DoneFirst, Running, Last, Pause, Calls
<1>6. Starting' /\ Unwinding'
  BY TrackIsThere DEF Starting, Unwinding, Pause, Calls
<1>7. Stopping' /\ Ended'
  BY TrackIsThere DEF Stopping, Ended, Pause, Calls
<1> QED
  BY <1>1, <1>2, <1>3, <1>4, <1>5, <1>6, <1>7 DEF IInv

LEMMA PauseTrackKeepsInv ==
  ASSUME IInv, PauseTrack
  PROVE  IInv'
<1> USE TrackIsOne DEF threadsKeep, writersKeep, Newest
<1>1. Shape'
  <2>1. TracksShape'
    BY TrackIsThere DEF IInv, Shape, TracksShape, PauseTrack, AtTrack
  <2>2. WriterShape'
    BY DEF IInv, Shape, WriterShape, PauseTrack
  <2>3. RecShape'
    BY DEF IInv, Shape, RecShape, PauseTrack
  <2>4. CallShape'
    <3>1. Shape /\ call.at <= call.upto /\ call' = NextTrack(FALSE)
      BY DEF IInv, PauseTrack, AtTrack
    <3> QED
      BY <3>1, NextTrackShape
  <2> QED
    BY <2>1, <2>2, <2>3, <2>4 DEF Shape
<1>2. FlagsTell'
  BY TrackIsThere
  DEF IInv, FlagsTell, Joined, Running, Shape, TracksShape, PauseTrack, AtTrack
<1>3. Joined'
  BY TrackIsThere DEF Joined, PauseTrack, NextTrack
<1>4. WriterLives'
  BY TrackIsThere DEF IInv, WriterLives, Paused, Shape, TracksShape, PauseTrack, NextTrack
<1>5. NoCall' /\ Pausing'
  <2>1. /\ call.op = "pause" /\ call'.op = "pause" /\ call'.at = call.at + 1
        /\ call'.upto = call.upto /\ call.at \in DOMAIN Tracks /\ call.at \in Nat
        /\ Track \in TrackSet /\ Track = Tracks[call.at] /\ rec' = rec /\ loc' = loc
    BY NextTrackIs, TrackIsThere DEF IInv, Shape, CallShape, PauseTrack, AtTrack, Track
  <2>2. \A i \in DOMAIN Tracks :
          /\ ctl'[Tracks[i]].mDone = ctl[Tracks[i]].mDone
          /\ (i = call.at \/ ctl[Tracks[i]].mPaused) => ctl'[Tracks[i]].mPaused
    BY <2>1 DEF IInv, Shape, TracksShape, PauseTrack
  <2>3. Paused(1, call.at - 1) => Paused(1, call.at - 1)'
    BY <2>1, <2>2 DEF Paused
  <2>4. (DoneFirst(1) => DoneFirst(1)') /\ (AllQuiet => AllQuiet')
    BY <2>1, <2>2 DEF DoneFirst, AllQuiet, Running
  <2> QED
    BY <2>1, <2>3, <2>4 DEF IInv, NoCall, Pausing, Last
<1>6. Starting' /\ Unwinding'
  BY TrackIsThere DEF Starting, Unwinding, Shape, RecShape, PauseTrack, AtTrack, NextTrack
<1>7. Stopping' /\ Ended'
  BY TrackIsThere DEF IInv, Stopping, Ended, PauseTrack, AtTrack, NextTrack
<1> QED
  BY <1>1, <1>2, <1>3, <1>4, <1>5, <1>6, <1>7 DEF IInv

LEMMA ResumeTrackKeepsInv ==
  ASSUME IInv, ResumeTrack
  PROVE  IInv'
<1> USE TrackIsOne DEF threadsKeep, writersKeep, Newest
<1>1. Shape'
  <2>1. TracksShape'
    BY TrackIsThere DEF IInv, Shape, TracksShape, ResumeTrack
  <2>2. WriterShape'
    BY DEF IInv, Shape, WriterShape, ResumeTrack
  <2>3. RecShape'
    BY DEF IInv, Shape, RecShape, ResumeTrack
  <2>4. CallShape'
    <3>1. Shape /\ call.at <= call.upto /\ call' = NextTrack(FALSE)
      BY DEF IInv, ResumeTrack, AtTrack
    <3> QED
      BY <3>1, NextTrackShape
  <2> QED
    BY <2>1, <2>2, <2>3, <2>4 DEF Shape
<1>2. FlagsTell'
  BY TrackIsThere DEF IInv, FlagsTell, Running, Shape, TracksShape, ResumeTrack, AtTrack
<1>3. Joined'
  BY TrackIsThere DEF Joined, ResumeTrack, NextTrack
<1>4. WriterLives'
  BY TrackIsThere DEF IInv, WriterLives, ResumeTrack, AtTrack, NextTrack
<1>5. NoCall' /\ Pausing'
  BY TrackIsThere DEF NoCall, Pausing, ResumeTrack, AtTrack, NextTrack
<1>6. Starting' /\ Unwinding'
  <2>1. /\ call.op = "start" /\ call'.op = "start" /\ call'.at = call.at + 1
        /\ call'.upto = call.upto /\ call.at \in DOMAIN Tracks /\ call.at \in Nat
        /\ Track \in TrackSet /\ Track = Tracks[call.at] /\ ~ctl[Track].mDone /\ ctl[Track].mPaused
        /\ rec' = rec /\ loc' = loc
    BY NextTrackIs, TrackIsThere DEF IInv, Shape, CallShape, ResumeTrack, AtTrack, Track
  <2>2. \A i \in DOMAIN Tracks :
          /\ ctl'[Tracks[i]].mDone = ctl[Tracks[i]].mDone
          /\ ctl'[Tracks[i]].mStarted = ctl[Tracks[i]].mStarted
          /\ i # call.at => ctl'[Tracks[i]].mPaused = ctl[Tracks[i]].mPaused
    BY <2>1 DEF IInv, Shape, TracksShape, ResumeTrack
  <2>3. /\ PausedOrQuiet(call.at) => PausedOrQuiet(call.at)'
        /\ Paused(call.at, Last) => Paused(call.at, Last)'
        /\ Quiet(call.at, Last) => Quiet(call.at, Last)'
        /\ DoneFirst(call.at) => DoneFirst(call.at)'
    BY <2>1, <2>2 DEF PausedOrQuiet, Paused, Quiet, DoneFirst, Running, Last
  <2>4. DoneFirst(call.at) => NoneDone(call.at)'
    BY <2>1, <2>2 DEF DoneFirst, NoneDone
  <2>5. PausedOrQuiet(1) /\ Quiet(call.at, Last) => PausedOrQuiet(1)'
    BY <2>1, <2>2 DEF PausedOrQuiet, Quiet, Running, Last
  <2>6. ~NonePaused
    BY <2>1 DEF NonePaused
  <2>7. Starting'
    BY <2>1, <2>3, <2>4, <2>5, <2>6 DEF IInv, Starting, Last
  <2>8. Unwinding'
    BY <2>1 DEF Unwinding
  <2> QED
    BY <2>7, <2>8
<1>7. Stopping' /\ Ended'
  BY TrackIsThere DEF IInv, Stopping, Ended, ResumeTrack, AtTrack, NextTrack
<1> QED
  BY <1>1, <1>2, <1>3, <1>4, <1>5, <1>6, <1>7 DEF IInv

LEMMA StartTrackKeepsInv ==
  ASSUME IInv, StartTrack
  PROVE  IInv'
<1> USE TrackIsOne DEF threadsKeep, writersKeep, Newest
<1>1. Shape'
  <2>1. TracksShape'
    <3>1. /\ Shape /\ call.at <= call.upto
          /\ ctl' = [ctl EXCEPT ![Track].mDone = FALSE, ![Track].mStarted = TRUE,
                                ![Track].again = ctl[Track].mStarted,
                                ![Track].us = 0, ![Track].mReachedEOS = FALSE,
                                ![Track].est = 0, ![Track].mdat = 0]
          /\ loc' = [loc EXCEPT ![Track] = [Locals EXCEPT !.at = "read"]]
      BY DEF IInv, StartTrack, AtTrack
    <3>2. Track \in TrackSet
      BY <3>1, TrackIsThere
    <3>3. /\ DOMAIN ctl' = TrackSet
          /\ \A t \in TrackSet : /\ {"mDone", "mPaused", "mStarted"} \subseteq DOMAIN ctl'[t]
                                  /\ ctl'[t].mDone \in BOOLEAN /\ ctl'[t].mPaused \in BOOLEAN
                                  /\ ctl'[t].mStarted \in BOOLEAN
      BY <3>1, <3>2 DEF Shape, TracksShape
    <3>4. /\ DOMAIN loc' = TrackSet
          /\ \A t \in TrackSet : /\ {"at", "then"} \subseteq DOMAIN loc'[t]
                                  /\ loc'[t].at \in Places /\ loc'[t].then \in {"read", "finish"}
      BY <3>1, <3>2 DEF Shape, TracksShape, Places, Locals
    <3> QED
      BY <3>3, <3>4 DEF TracksShape
  <2>2. WriterShape'
    BY DEF IInv, Shape, WriterShape, StartTrack
  <2>3. RecShape'
    BY DEF IInv, Shape, RecShape, StartTrack
  <2>4. CallShape'
    <3>1. Shape /\ call.at <= call.upto /\ call' = NextTrack(FALSE)
      BY DEF IInv, StartTrack, AtTrack
    <3> QED
      BY <3>1, NextTrackShape
  <2> QED
    BY <2>1, <2>2, <2>3, <2>4 DEF Shape
<1>2. FlagsTell'
  BY TrackIsThere
  DEF IInv, FlagsTell, Running, Shape, TracksShape, StartTrack, AtTrack, Locals
<1>3. Joined'
  BY TrackIsThere DEF Joined, Shape, CallShape, StartTrack, NextTrack
<1>4. WriterLives'
  BY TrackIsThere DEF IInv, WriterLives, StartTrack, AtTrack, NextTrack
<1>5. NoCall' /\ Pausing'
  BY TrackIsThere DEF NoCall, Pausing, Shape, CallShape, StartTrack, AtTrack, NextTrack
<1>6. Starting' /\ Unwinding'
  <2>1. /\ Track \in TrackSet /\ call.at \in DOMAIN Tracks /\ call.op = "start"
        /\ ctl[Track].mDone \/ ~ctl[Track].mPaused
    BY TrackIsThere DEF IInv, StartTrack, AtTrack
  <2>2. call'.op = "start" /\ call'.at = call.at + 1 /\ call'.upto = call.upto
    <3>1. Shape /\ call.at <= call.upto /\ call.op = "start" /\ call' = NextTrack(FALSE)
      BY DEF IInv, StartTrack, AtTrack
    <3> QED
      BY <3>1, NextTrackIs
  <2>3. rec' = rec /\ call.at \in Nat /\ Track = Tracks[call.at]
    <3>1. rec' = rec /\ Shape /\ call.at <= call.upto
      BY DEF IInv, StartTrack, AtTrack
    <3> QED
      BY <3>1, CallIsAt
  <2>4. \A i \in DOMAIN Tracks :
          /\ ctl'[Tracks[i]].mPaused = ctl[Tracks[i]].mPaused
          /\ ctl'[Tracks[i]].mStarted <=> (i = call.at \/ ctl[Tracks[i]].mStarted)
          /\ i # call.at => /\ ctl'[Tracks[i]].mDone = ctl[Tracks[i]].mDone
                            /\ loc'[Tracks[i]] = loc[Tracks[i]]
    <3>1. Shape /\ call.at <= call.upto
      BY DEF IInv, StartTrack, AtTrack
    <3>2. /\ TracksShape
          /\ loc' = [loc EXCEPT ![Track] = [Locals EXCEPT !.at = "read"]]
          /\ ctl' = [ctl EXCEPT ![Track].mDone = FALSE, ![Track].mStarted = TRUE,
                                ![Track].again = ctl[Track].mStarted,
                                ![Track].us = 0, ![Track].mReachedEOS = FALSE,
                                ![Track].est = 0, ![Track].mdat = 0]
      BY DEF IInv, Shape, StartTrack
    <3>3. ASSUME NEW u \in TrackSet, u # Track
          PROVE  ctl'[u] = ctl[u] /\ loc'[u] = loc[u]
      BY <3>2, <3>3 DEF TracksShape
    <3>4. ctl'[Track].mPaused = ctl[Track].mPaused /\ ctl'[Track].mStarted
      BY <2>1, <3>2 DEF TracksShape
    <3>5. ASSUME NEW i \in DOMAIN Tracks, i # call.at
          PROVE  ctl'[Tracks[i]] = ctl[Tracks[i]] /\ loc'[Tracks[i]] = loc[Tracks[i]]
      <4>1. Tracks[i] \in TrackSet /\ Tracks[i] # Track
        BY <3>1, <3>5, CallIsAt
      <4> QED
        BY <3>3, <4>1, Zenon
    <3> QED
      BY <2>3, <3>4, <3>5
  <2>5. /\ PausedOrQuiet(call.at) => PausedOrQuiet(call.at)'
        /\ Paused(call.at, Last) => Paused(call.at, Last)'
        /\ Quiet(call.at, Last) => Quiet(call.at, Last)'
        /\ DoneFirst(call.at) => DoneFirst(call.at)'
        /\ Started(call.at - 1) => Started(call.at - 1)'
    <3>1. call'.at = call.at + 1 /\ call.at \in Nat /\ DOMAIN Tracks \subseteq Nat
      BY <2>2, <2>3
    <3>2. PausedOrQuiet(call.at) => PausedOrQuiet(call.at)'
      BY <2>4, <3>1 DEF PausedOrQuiet, Running
    <3>3. Paused(call.at, Last) => Paused(call.at, Last)'
      BY <2>4, <3>1 DEF Paused, Last
    <3>4. Quiet(call.at, Last) => Quiet(call.at, Last)'
      BY <2>4, <3>1 DEF Quiet, Running, Last
    <3>5. DoneFirst(call.at) => DoneFirst(call.at)'
      BY <2>4, <3>1 DEF DoneFirst
    <3>6. Started(call.at - 1) => Started(call.at - 1)'
      BY <2>4, <3>1 DEF Started
    <3> QED
      BY <3>2, <3>3, <3>4, <3>5, <3>6
  <2>6. NonePaused => NonePaused'
    BY <2>4, TrackIsOne DEF NonePaused
  <2>7. ASSUME rec.paused PROVE Starting'
    <3>1. /\ ~rec.started /\ PausedOrQuiet(1) /\ Paused(call.at, Last) /\ PausedOrQuiet(call.at)
          /\ call.upto = Last /\ Quiet(call.at, Last) /\ DoneFirst(call.at)
          /\ (Paused(1, call.at - 1) /\ Started(call.at - 1)) \/ NoneDone(call.at)
      BY <2>1, <2>7 DEF IInv, Starting
    <3>2. ctl[Track].mPaused /\ ctl[Track].mDone
      BY <2>1, <2>3, <3>1 DEF Paused, Last
    <3>3. Paused(1, call.at - 1) /\ Started(call.at - 1)
      BY <2>1, <2>3, <3>1, <3>2 DEF NoneDone
    <3>4. Paused(1, call.at - 1)' /\ PausedOrQuiet(1)'
      BY <2>1, <2>2, <2>3, <2>4, <3>1, <3>2, <3>3 DEF Paused, PausedOrQuiet, Running
    <3> QED
      BY <2>2, <2>3, <2>5, <2>7, <3>1, <3>3, <3>4 DEF Starting, Last
  <2>8. ASSUME ~rec.paused PROVE Starting'
    BY <2>1, <2>2, <2>3, <2>5, <2>6, <2>8 DEF IInv, Starting, Last
  <2>9. Unwinding'
    BY <2>2 DEF Unwinding
  <2> QED
    BY <2>7, <2>8, <2>9
<1>7. Stopping' /\ Ended'
  BY TrackIsThere
  DEF IInv, Stopping, Ended, Shape, CallShape, StartTrack, AtTrack, NextTrack
<1> QED
  BY <1>1, <1>2, <1>3, <1>4, <1>5, <1>6, <1>7 DEF IInv

LEMMA StartTrackFailsKeepsInv ==
  ASSUME IInv, StartTrackFails
  PROVE  IInv'
<1> USE TrackIsOne DEF threadsKeep, writersKeep, Newest
<1>1. Shape'
  <2>1. TracksShape'
    <3>1. /\ Shape /\ call.at <= call.upto
          /\ ctl' = [ctl EXCEPT ![Track].mDone = TRUE, ![Track].mReachedEOS = TRUE] /\ loc' = loc
      BY DEF IInv, StartTrackFails, AtTrack
    <3>2. Track \in TrackSet
      BY <3>1, TrackIsThere
    <3> QED
      BY <3>1, <3>2 DEF Shape, TracksShape
  <2>2. WriterShape'
    BY DEF IInv, Shape, WriterShape, StartTrackFails
  <2>3. RecShape'
    BY DEF IInv, Shape, RecShape, StartTrackFails
  <2>4. CallShape'
    <3>1. Shape /\ call.at \in 1 .. Len(Tracks)
      BY TrackIsThere DEF IInv, StartTrackFails, AtTrack
    <3>2. call' = [op |-> "unwind", at |-> 1, upto |-> call.at - 1, err |-> TRUE, join |-> FALSE]
      BY DEF StartTrackFails, Calls
    <3> QED
      BY <3>1, <3>2 DEF CallShape, Ops
  <2> QED
    BY <2>1, <2>2, <2>3, <2>4 DEF Shape
<1>2. FlagsTell'
  BY TrackIsThere
  DEF IInv, FlagsTell, Joined, Starting, PausedOrQuiet, Running, Track, Shape, TracksShape,
      StartTrackFails, AtTrack
<1>3. Joined'
  BY TrackIsThere DEF Joined, StartTrackFails, Calls
<1>4. WriterLives'
  BY TrackIsThere DEF IInv, WriterLives, StartTrackFails, AtTrack, Calls
<1>5. NoCall' /\ Pausing'
  BY TrackIsThere DEF NoCall, Pausing, StartTrackFails, Calls
<1>6. Starting' /\ Unwinding'
  <2>1. /\ call.op = "start" /\ call'.op = "unwind" /\ call'.at = 1 /\ call'.upto = call.at - 1
        /\ call.at \in DOMAIN Tracks /\ call.at \in Nat /\ Track \in TrackSet
        /\ Track = Tracks[call.at] /\ (ctl[Track].mDone \/ ~ctl[Track].mPaused)
        /\ rec' = rec /\ loc' = loc
    BY TrackIsThere DEF IInv, Shape, CallShape, StartTrackFails, AtTrack, Track, Calls
  <2>2. \A i \in DOMAIN Tracks :
          /\ ctl'[Tracks[i]].mPaused = ctl[Tracks[i]].mPaused
          /\ ctl'[Tracks[i]].mStarted = ctl[Tracks[i]].mStarted
          /\ ctl'[Tracks[i]].mDone <=> (i = call.at \/ ctl[Tracks[i]].mDone)
    BY <2>1 DEF IInv, Shape, TracksShape, StartTrackFails
  <2>3. Quiet(1, call.at - 1)' /\ (rec.started => ~rec.paused)
    BY <2>1 DEF IInv, Starting, Quiet
  <2>4. ASSUME ~rec.started
        PROVE  /\ Quiet(call.upto + 1, Last)' /\ Started(call.upto)'
               /\ DoneFirst(call.upto + 1)' /\ ctl'[Tracks[call'.upto + 1]].mDone
               /\ \A i \in DOMAIN Tracks : i < call'.at => ctl'[Tracks[i]].mDone
               /\ IF rec.paused THEN Paused(1, Last)' ELSE NonePaused'
    <3>1. Quiet(call.at, Last) /\ DoneFirst(call.at)
      BY <2>1, <2>4 DEF IInv, Starting
    <3>2. Started(call.at - 1) /\ (IF rec.paused THEN Paused(1, Last) ELSE NonePaused)
      <4>1. CASE rec.paused
        <5>1. /\ Paused(call.at, Last)
              /\ (Paused(1, call.at - 1) /\ Started(call.at - 1)) \/ NoneDone(call.at)
          BY <2>1, <4>1 DEF IInv, Starting
        <5>2. ctl[Track].mDone
          BY <2>1, <5>1 DEF Paused, Last
        <5>3. Paused(1, call.at - 1) /\ Started(call.at - 1)
          BY <2>1, <5>1, <5>2 DEF NoneDone
        <5> QED
          BY <2>1, <4>1, <5>1, <5>3 DEF Paused, Last
      <4>2. CASE ~rec.paused
        BY <2>1, <2>4, <4>2 DEF IInv, Starting
      <4> QED
        BY <4>1, <4>2
    <3>3. call'.upto + 1 = call.at
      BY <2>1
    <3>5. Quiet(call.upto + 1, Last)'
      BY <2>1, <3>1, <3>3 DEF Quiet, Running, Last
    <3>6. Started(call.upto)'
      BY <2>1, <2>2, <3>2 DEF Started
    <3>7. DoneFirst(call.upto + 1)'
      BY <2>1, <2>2, <3>1, <3>3 DEF DoneFirst
    <3>8. /\ ctl'[Tracks[call'.upto + 1]].mDone
          /\ \A i \in DOMAIN Tracks : i < call'.at => ctl'[Tracks[i]].mDone
      BY <2>1, <2>2, <3>3
    <3>4. (Paused(1, Last) => Paused(1, Last)') /\ (NonePaused => NonePaused')
      BY <2>2, TrackIsOne DEF Paused, NonePaused, Last
    <3> QED
      BY <3>2, <3>4, <3>5, <3>6, <3>7, <3>8
  <2>5. call'.upto < Last
    BY <2>1 DEF Last
  <2>6. Unwinding'
    BY <2>1, <2>3, <2>4, <2>5 DEF Unwinding, Last
  <2>7. Starting'
    BY <2>1 DEF Starting
  <2> QED
    BY <2>6, <2>7
<1>7. Stopping' /\ Ended'
  BY TrackIsThere DEF IInv, Stopping, Ended, StartTrackFails, AtTrack, Calls
<1> QED
  BY <1>1, <1>2, <1>3, <1>4, <1>5, <1>6, <1>7 DEF IInv

LEMMA ReturnsKeepsInv ==
  ASSUME IInv, Returns
  PROVE  IInv'
<1> USE TrackIsOne DEF threadsKeep, writersKeep, Newest
<1>1. Shape'
  <2>1. TracksShape'
    BY TrackIsThere DEF IInv, Shape, TracksShape, Returns
  <2>2. WriterShape'
    BY DEF IInv, Shape, WriterShape, Returns
  <2>3. RecShape'
    BY DEF IInv, Shape, RecShape, Returns
  <2>4. CallShape'
    BY TrackIsThere DEF CallShape, Ops, Returns, Idle
  <2> QED
    BY <2>1, <2>2, <2>3, <2>4 DEF Shape
<1>2. FlagsTell'
  BY TrackIsThere DEF IInv, FlagsTell, Joined, Running, Shape, CallShape, Returns
<1>3. Joined'
  BY TrackIsThere DEF Joined, Returns, Idle
<1>4. WriterLives'
  BY TrackIsThere
  DEF IInv, WriterLives, Pausing, Paused, Shape, TracksShape, CallShape, Returns, Idle
<1>5. NoCall' /\ Pausing'
  <2>1. /\ call.op \in {"start", "pause", "unwind"} /\ call.at > call.upto
        /\ ctl' = ctl /\ loc' = loc /\ call'.op = "none"
    BY DEF Returns, Idle
  <2>2. rec'.paused = rec.paused /\ (rec'.started <=> rec.started \/ call.op = "start")
    BY DEF IInv, Shape, RecShape, Returns
  <2>3. CASE call.op = "start"
    BY <2>1, <2>2, <2>3
    DEF IInv, NoCall, Pausing, Starting, AllQuiet, PausedOrQuiet, Running
  <2>6. /\ \A from, to : (Paused(from, to) => Paused(from, to)') /\ (Quiet(from, to) => Quiet(from, to)')
        /\ \A from : DoneFirst(from) => DoneFirst(from)'
        /\ (NonePaused => NonePaused') /\ (AllQuiet => AllQuiet')
        /\ PausedOrQuiet(1) => PausedOrQuiet(1)'
    BY <2>1 DEF Paused, Quiet, DoneFirst, NonePaused, AllQuiet, PausedOrQuiet, Running
  <2>7. call.at \in Nat /\ call.upto \in 0 .. Last /\ call.at = call.upto + 1
    BY <2>1 DEF IInv, Shape, CallShape, Last
  <2>8. \A to : Paused(1, to) /\ to = Last => PausedOrQuiet(1)
    BY DEF Paused, PausedOrQuiet, Last
  <2>4. CASE call.op = "pause"
    <3>1. /\ rec.paused /\ call.upto = Last /\ Paused(1, call.at - 1)
          /\ ~rec.started => AllQuiet /\ DoneFirst(1)
      BY <2>4 DEF IInv, Pausing
    <3>2. Paused(1, Last)
      BY <2>7, <3>1 DEF Last
    <3> QED
      BY <2>1, <2>2, <2>4, <2>6, <2>8, <3>1, <3>2 DEF NoCall, Pausing, Last
  <2>5. CASE call.op = "unwind"
    <3>1. Unwinding
      BY DEF IInv
    <3>2. ASSUME ~rec.started
          PROVE  AllQuiet /\ DoneFirst(1) /\ (IF rec.paused THEN Paused(1, Last) ELSE NonePaused)
      <4>1. /\ Quiet(1, call.at - 1) /\ Quiet(call.upto + 1, Last)
            /\ \A i \in DOMAIN Tracks : i < call.at => ctl[Tracks[i]].mDone
            /\ DoneFirst(call.upto + 1) /\ (IF rec.paused THEN Paused(1, Last) ELSE NonePaused)
        BY <2>5, <3>1, <3>2 DEF Unwinding
      <4>2. AllQuiet
        BY <2>7, <4>1 DEF Quiet, AllQuiet, Last
      <4>3. DoneFirst(1)
        BY <2>7, <4>1 DEF DoneFirst
      <4> QED
        BY <4>1, <4>2, <4>3
    <3>3. rec.paused => PausedOrQuiet(1)
      BY <2>5, <2>8, <3>1, <3>2 DEF Unwinding
    <3> QED
      BY <2>1, <2>2, <2>5, <2>6, <3>2, <3>3 DEF NoCall, Pausing, Last
  <2> QED
    BY <2>1, <2>3, <2>4, <2>5
<1>6. Starting' /\ Unwinding'
  BY TrackIsThere DEF Starting, Unwinding, Returns, Idle
<1>7. Stopping' /\ Ended'
  BY TrackIsThere DEF IInv, Stopping, Ended, Returns, Idle
<1> QED
  BY <1>1, <1>2, <1>3, <1>4, <1>5, <1>6, <1>7 DEF IInv

LEMMA StopKeepsInv ==
  ASSUME IInv, Stop
  PROVE  IInv'
<1> USE TrackIsOne DEF threadsKeep, writersKeep, Newest
<1>1. Shape'
  <2>1. TracksShape'
    BY TrackIsThere DEF IInv, Shape, TracksShape, Stop
  <2>2. WriterShape'
    BY DEF IInv, Shape, WriterShape, Stop
  <2>3. RecShape'
    <3>1. RecShape /\ (rec' = rec \/ rec' = [rec EXCEPT !.over = TRUE])
      BY DEF IInv, Shape, Stop
    <3> QED
      BY <3>1 DEF RecShape
  <2>4. CallShape'
    <3>1. CASE call' = call
      BY <3>1 DEF IInv, Shape, CallShape
    <3>2. rec.started \in BOOLEAN /\ (~rec.started) \in BOOLEAN
      BY DEF IInv, Shape, RecShape
    <3>3. (IF rec.started THEN Len(Tracks) ELSE 0) \in 0 .. Len(Tracks)
      OBVIOUS
    <3>4. call' = call \/ call' = [Calls("stop", IF rec.started THEN Len(Tracks) ELSE 0)
                                    EXCEPT !.err = ~rec.started]
      BY Zenon DEF Stop
    <3>5. ASSUME NEW last \in 0 .. Len(Tracks), NEW bad \in BOOLEAN,
                 call' = [Calls("stop", last) EXCEPT !.err = bad]
          PROVE  CallShape'
      <4> DEFINE Set == [op : Ops, at : Nat \ {0}, upto : 0 .. Len(Tracks), err : BOOLEAN,
                         join : BOOLEAN]
      <4>1. /\ Calls("stop", last) \in Set
            /\ Calls("stop", last).at = 1 /\ Calls("stop", last).upto = last
        BY DEF Calls, Ops
      <4>2. ASSUME NEW c \in Set, c.at = 1, c.upto = last
            PROVE  /\ [c EXCEPT !.err = bad] \in Set
                   /\ [c EXCEPT !.err = bad].at = 1 /\ [c EXCEPT !.err = bad].upto = last
        BY <4>2
      <4>3. call' \in Set /\ call'.at = 1 /\ call'.upto = last
        BY <3>5, <4>1, <4>2, Zenon
      <4> QED
        BY <4>3 DEF CallShape
    <3> QED
      BY <3>1, <3>2, <3>3, <3>4, <3>5, Zenon
  <2> QED
    BY <2>1, <2>2, <2>3, <2>4 DEF Shape
<1>2. FlagsTell'
  BY TrackIsThere DEF IInv, FlagsTell, Joined, Running, Stop
<1>3. Joined'
  BY TrackIsThere DEF IInv, Joined, Stop, Calls
<1>4. WriterLives'
  BY TrackIsThere DEF IInv, WriterLives, Paused, Shape, RecShape, Stop, Calls
<1>5. NoCall' /\ Pausing'
  BY TrackIsThere
  DEF IInv, NoCall, Pausing, AllQuiet, PausedOrQuiet, Running, Shape, RecShape, Stop, Calls
<1>6. Starting' /\ Unwinding'
  BY TrackIsThere DEF Starting, Unwinding, Stop, Calls
<1>7. Stopping' /\ Ended'
  BY TrackIsThere
  DEF IInv, NoCall, WriterLives, Stopping, Ended, AllQuiet, Quiet, Running, Last, Stop,
      Calls
<1> QED
  BY <1>1, <1>2, <1>3, <1>4, <1>5, <1>6, <1>7 DEF IInv

LEMMA StopTrackKeepsInv ==
  ASSUME IInv, StopTrack
  PROVE  IInv'
<1> USE TrackIsOne DEF threadsKeep, writersKeep, Newest
<1>1. Shape'
  <2>1. TracksShape'
    BY TrackIsThere DEF IInv, Shape, TracksShape, StopTrack
  <2>2. WriterShape'
    BY DEF IInv, Shape, WriterShape, StopTrack
  <2>3. RecShape'
    BY DEF IInv, Shape, RecShape, StopTrack
  <2>4. CallShape'
    <3>1. Shape /\ call.at <= call.upto /\ ctl[Track].mStarted \in BOOLEAN
      BY TrackIsThere DEF IInv, StopTrack, AtTrack, Shape, TracksShape
    <3>2. call' = [call EXCEPT !.join = TRUE] \/ call' = NextTrack(~ctl[Track].mStarted)
      BY DEF StopTrack
    <3>3. CASE call' = [call EXCEPT !.join = TRUE]
      BY <3>1, <3>3 DEF Shape, CallShape
    <3>4. CASE call' = NextTrack(~ctl[Track].mStarted)
      <4>1. (~ctl[Track].mStarted) \in BOOLEAN
        BY <3>1
      <4> QED
        BY <3>1, <3>4, <4>1, NextTrackShape
    <3> QED
      BY <3>2, <3>3, <3>4
  <2> QED
    BY <2>1, <2>2, <2>3, <2>4 DEF Shape
<1>2. FlagsTell'
  <2>1. /\ Shape /\ FlagsTell /\ call.at <= call.upto /\ ~call.join
        /\ ctl' = [ctl EXCEPT ![Track].mDone = @ \/ ctl[Track].mStarted] /\ loc' = loc
        /\ call' = IF ctl[Track].mStarted /\ ~ctl[Track].mDone THEN [call EXCEPT !.join = TRUE]
                   ELSE NextTrack(~ctl[Track].mStarted)
    BY DEF IInv, StopTrack, AtTrack
  <2>2. Track \in TrackSet
    BY <2>1, TrackIsThere
  <2>3. \A t \in TrackSet : /\ ctl'[t].mStarted = ctl[t].mStarted
                             /\ t # Track => ctl'[t].mDone = ctl[t].mDone
    BY <2>1, <2>2 DEF Shape, TracksShape
  <2>4. ctl'[Track].mDone /\ Running(Track) => call'.join /\ Track' = Track
    <3>1. Running(Track) => ctl[Track].mStarted /\ ~ctl[Track].mDone
      BY <2>1, <2>2 DEF FlagsTell, Running
    <3>2. CASE Running(Track)
      <4>1. ctl[Track].mStarted /\ ~ctl[Track].mDone
        BY <3>1, <3>2
      <4>2. \/ call' = [call EXCEPT !.join = TRUE]
            \/ ~(ctl[Track].mStarted /\ ~ctl[Track].mDone)
        BY DEF StopTrack
      <4>3. call' = [call EXCEPT !.join = TRUE]
        BY <4>1, <4>2, SMT
      <4> QED
        BY <2>1, <4>3 DEF Shape, CallShape, Track
    <3> QED
      BY <3>2
  <2> QED
    BY <2>1, <2>2, <2>3, <2>4 DEF FlagsTell, Running
<1>3. Joined'
  BY TrackIsThere
  DEF IInv, Joined, Track, Shape, TracksShape, CallShape, StopTrack, AtTrack, NextTrack
<1>4. WriterLives'
  BY TrackIsThere DEF IInv, WriterLives, Paused, Shape, TracksShape, StopTrack, NextTrack
<1>5. NoCall' /\ Pausing'
  BY TrackIsThere DEF NoCall, Pausing, StopTrack, AtTrack, NextTrack
<1>6. Starting' /\ Unwinding'
  <2>1. /\ Shape /\ FlagsTell /\ Joined /\ Unwinding /\ call.op \in {"stop", "unwind"}
        /\ call.at <= call.upto /\ rec' = rec /\ loc' = loc
    BY DEF IInv, Joined, StopTrack, AtTrack
  <2>2. /\ Track \in TrackSet /\ call.at \in DOMAIN Tracks /\ call.at \in Nat
        /\ call.upto \in Nat /\ Track = Tracks[call.at] /\ call.upto + 1 \in Nat
    BY <2>1, TrackIsThere DEF Shape, CallShape, Track
  <2>3. \A i \in DOMAIN Tracks :
          /\ ctl'[Tracks[i]].mPaused = ctl[Tracks[i]].mPaused
          /\ ctl'[Tracks[i]].mStarted = ctl[Tracks[i]].mStarted
          /\ i # call.at => ctl'[Tracks[i]].mDone = ctl[Tracks[i]].mDone
          /\ ctl[Tracks[i]].mDone => ctl'[Tracks[i]].mDone
    BY <2>1, <2>2 DEF Shape, TracksShape, StopTrack
  <2>4. ctl[Track].mStarted => ctl'[Track].mDone
    BY <2>1, <2>2 DEF Shape, TracksShape, StopTrack
  <2>5. \/ call' = [call EXCEPT !.join = TRUE]
        \/ /\ call' = NextTrack(~ctl[Track].mStarted)
           /\ ~(ctl[Track].mStarted /\ ~ctl[Track].mDone)
    BY DEF StopTrack
  <2>6. /\ call'.op = call.op /\ call'.upto = call.upto
        /\ \/ call'.at = call.at
           \/ call'.at = call.at + 1 /\ ~(ctl[Track].mStarted /\ ~ctl[Track].mDone)
    <3>1. CASE call' = [call EXCEPT !.join = TRUE]
      BY <2>1, <3>1 DEF Shape, CallShape
    <3>2. CASE /\ call' = NextTrack(~ctl[Track].mStarted)
               /\ ~(ctl[Track].mStarted /\ ~ctl[Track].mDone)
      <4>1. (~ctl[Track].mStarted) \in BOOLEAN
        BY <2>1, <2>2 DEF Shape, TracksShape
      <4> QED
        BY <2>1, <3>2, <4>1, NextTrackIs
    <3> QED
      BY <2>5, <3>1, <3>2
  <2>7. ASSUME call.op = "unwind" PROVE Unwinding'
    <3>1. Quiet(1, call.at - 1) /\ (rec.started => ~rec.paused)
      BY <2>1, <2>7 DEF Unwinding
    <3>2. Quiet(1, call.at - 1)'
      <4>1. ~(ctl[Track].mStarted /\ ~ctl[Track].mDone) => ~Running(Track) \/ call.join
        BY <2>1, <2>2 DEF FlagsTell, Running
      <4>2. ~call.join
        BY DEF StopTrack
      <4> QED
        BY <2>1, <2>2, <2>6, <3>1, <4>1, <4>2 DEF Quiet, Running
    <3>3. ASSUME ~rec.started
          PROVE  /\ Quiet(call.upto + 1, Last)' /\ Started(call.upto)'
                 /\ DoneFirst(call.upto + 1)' /\ ctl'[Tracks[call.upto + 1]].mDone
                 /\ \A i \in DOMAIN Tracks : i < call'.at => ctl'[Tracks[i]].mDone
                 /\ call.upto < Last /\ IF rec.paused THEN Paused(1, Last)' ELSE NonePaused'
      <4>1. /\ Quiet(call.upto + 1, Last) /\ call.upto < Last
            /\ Started(call.upto) /\ (\A i \in DOMAIN Tracks : i < call.at => ctl[Tracks[i]].mDone)
            /\ ctl[Tracks[call.upto + 1]].mDone /\ DoneFirst(call.upto + 1)
            /\ IF rec.paused THEN Paused(1, Last) ELSE NonePaused
        BY <2>1, <2>7, <3>3 DEF Unwinding
      <4>2. call.upto + 1 \in DOMAIN Tracks
        BY <2>2, <4>1 DEF Last
      <4>3. Quiet(call.upto + 1, Last)'
        BY <2>1, <2>6, <4>1 DEF Quiet, Running, Last
      <4>4. Started(call.upto)'
        BY <2>3, <2>6, <4>1 DEF Started
      <4>5. DoneFirst(call.upto + 1)'
        BY <2>1, <2>2, <2>3, <2>6, <4>1 DEF DoneFirst
      <4>6. ctl[Track].mStarted
        BY <2>1, <2>2, <4>1 DEF Started
      <4>7. \A i \in DOMAIN Tracks : i < call'.at => ctl'[Tracks[i]].mDone
        BY <2>2, <2>3, <2>4, <2>6, <4>1, <4>6
      <4>8. (Paused(1, Last) => Paused(1, Last)') /\ (NonePaused => NonePaused')
        BY <2>3 DEF Paused, NonePaused, Last
      <4> QED
        BY <2>3, <4>1, <4>2, <4>3, <4>4, <4>5, <4>7, <4>8
    <3> QED
      BY <2>1, <2>6, <2>7, <3>1, <3>2, <3>3 DEF Unwinding, Last
  <2> QED
    BY <2>1, <2>6, <2>7 DEF Starting, Unwinding
<1>7. Stopping' /\ Ended'
  BY TrackIsThere
  DEF IInv, FlagsTell, Stopping, Ended, AllQuiet, Quiet, Running, Track, Shape, CallShape,
      StopTrack, NextTrack
<1> QED
  BY <1>1, <1>2, <1>3, <1>4, <1>5, <1>6, <1>7 DEF IInv

LEMMA JoinTrackKeepsInv ==
  ASSUME IInv, JoinTrack
  PROVE  IInv'
<1> USE TrackIsOne DEF threadsKeep, writersKeep, Newest
<1>1. Shape'
  <2>1. TracksShape'
    BY TrackIsThere DEF IInv, Shape, TracksShape, JoinTrack
  <2>2. WriterShape'
    BY DEF IInv, Shape, WriterShape, JoinTrack
  <2>3. RecShape'
    BY DEF IInv, Shape, RecShape, JoinTrack
  <2>4. CallShape'
    BY TrackIsThere, NextTrackIs DEF IInv, CallShape, Joined, JoinTrack
  <2> QED
    BY <2>1, <2>2, <2>3, <2>4 DEF Shape
<1>2. FlagsTell'
  BY TrackIsThere DEF IInv, FlagsTell, Running, JoinTrack
<1>3. Joined'
  BY TrackIsThere DEF Joined, JoinTrack, NextTrack
<1>4. WriterLives'
  BY TrackIsThere DEF IInv, WriterLives, Paused, JoinTrack, NextTrack
<1>5. NoCall' /\ Pausing'
  BY TrackIsThere DEF IInv, Joined, NoCall, Pausing, JoinTrack, NextTrack
<1>6. Starting' /\ Unwinding'
  <2>1. /\ Shape /\ FlagsTell /\ Joined /\ Unwinding /\ call.op \in {"stop", "unwind"}
        /\ call.at <= call.upto /\ rec' = rec /\ loc' = loc
    BY DEF IInv, Joined, JoinTrack
  <2>2. /\ Track \in TrackSet /\ call.at \in DOMAIN Tracks /\ call.at \in Nat
        /\ call.upto \in Nat /\ Track = Tracks[call.at] /\ call.upto + 1 \in Nat
    BY <2>1, TrackIsThere DEF Shape, CallShape, Track
  <2>3. /\ call'.op = call.op /\ call'.upto = call.upto /\ call'.at = call.at + 1 /\ ctl' = ctl
        /\ ctl[Track].mDone /\ ~Running(Track)
    BY <2>1, NextTrackIs DEF JoinTrack, Joined, Running
  <2>4. ASSUME call.op = "unwind" PROVE Unwinding'
    <3>1. Quiet(1, call.at - 1) => Quiet(1, call.at - 1)'
      BY <2>1, <2>2, <2>3 DEF Quiet, Running
    <3>2. /\ Quiet(call.upto + 1, Last) => Quiet(call.upto + 1, Last)'
          /\ Started(call.upto) => Started(call.upto)'
          /\ DoneFirst(call.upto + 1) => DoneFirst(call.upto + 1)'
          /\ (Paused(1, Last) => Paused(1, Last)') /\ (NonePaused => NonePaused')
      BY <2>1, <2>3 DEF Quiet, Started, DoneFirst, Paused, NonePaused, Running, Last
    <3>3. (\A i \in DOMAIN Tracks : i < call.at => ctl[Tracks[i]].mDone)
          => \A i \in DOMAIN Tracks : i < call'.at => ctl'[Tracks[i]].mDone
      BY <2>2, <2>3
    <3> QED
      BY <2>1, <2>3, <2>4, <3>1, <3>2, <3>3 DEF Unwinding, Last
  <2> QED
    BY <2>1, <2>3, <2>4 DEF Starting, Unwinding
<1>7. Stopping' /\ Ended'
  BY TrackIsThere
  DEF IInv, Stopping, Ended, AllQuiet, Quiet, Running, Track, Shape, CallShape, JoinTrack,
      NextTrack
<1> QED
  BY <1>1, <1>2, <1>3, <1>4, <1>5, <1>6, <1>7 DEF IInv

LEMMA StopWriterKeepsInv ==
  ASSUME IInv, StopWriter
  PROVE  IInv'
<1> USE TrackIsOne DEF threadsKeep, writersKeep, Newest
<1>1. Shape'
  <2>1. TracksShape'
    BY TrackIsThere DEF IInv, Shape, TracksShape, StopWriter
  <2>2. WriterShape'
    BY SignalsStay DEF IInv, Shape, WriterShape, StopWriter
  <2>3. RecShape'
    BY DEF IInv, Shape, RecShape, StopWriter
  <2>4. CallShape'
    BY TrackIsThere DEF IInv, Shape, CallShape, Ops, StopWriter
  <2> QED
    BY <2>1, <2>2, <2>3, <2>4 DEF Shape
<1>2. FlagsTell'
  BY TrackIsThere DEF IInv, FlagsTell, Running, Track, StopWriter
<1>3. Joined'
  BY TrackIsThere DEF IInv, Joined, Shape, CallShape, StopWriter
<1>4. WriterLives'
  <2>1. /\ Shape /\ Signals /\ done' = TRUE /\ rec' = rec /\ ctl' = ctl /\ writers # <<>>
        /\ call'.op = "close"
    BY DEF IInv, Shape, CallShape, WriterLives, StopWriter
  <2>2. writers' # <<>> /\ (Newest' = "parked" => Len(writers') > 1)
    BY <2>1, SignalsStay DEF WritersMove
  <2> QED
    BY <2>1, <2>2 DEF WriterLives
<1>5. NoCall' /\ Pausing'
  BY TrackIsThere DEF NoCall, Pausing, StopWriter
<1>6. Starting' /\ Unwinding'
  BY TrackIsThere DEF Starting, Unwinding, StopWriter
<1>7. Stopping' /\ Ended'
  BY TrackIsThere
  DEF IInv, Stopping, Ended, AllQuiet, Quiet, Running, Last, Shape, CallShape, StopWriter
<1> QED
  BY <1>1, <1>2, <1>3, <1>4, <1>5, <1>6, <1>7 DEF IInv

LEMMA CloseBrokenKeepsInv ==
  ASSUME IInv, CloseBroken
  PROVE  IInv'
<1> USE TrackIsOne DEF threadsKeep, writersKeep, Newest
<1>1. Shape'
  <2>1. TracksShape'
    BY TrackIsThere DEF IInv, Shape, TracksShape, CloseBroken
  <2>2. WriterShape'
    BY DEF IInv, Shape, WriterShape, CloseBroken
  <2>3. RecShape'
    BY DEF IInv, Shape, RecShape, CloseBroken
  <2>4. CallShape'
    BY TrackIsThere DEF CallShape, Ops, CloseBroken, Idle
  <2> QED
    BY <2>1, <2>2, <2>3, <2>4 DEF Shape
<1>2. FlagsTell'
  BY TrackIsThere DEF IInv, FlagsTell, Joined, Running, CloseBroken
<1>3. Joined'
  BY TrackIsThere DEF Joined, CloseBroken, Idle
<1>4. WriterLives'
  BY TrackIsThere DEF IInv, WriterLives, CloseBroken
<1>5. NoCall' /\ Pausing'
  BY TrackIsThere
  DEF IInv, Ended, NoCall, Pausing, AllQuiet, PausedOrQuiet, Running, CloseBroken, Idle
<1>6. Starting' /\ Unwinding'
  BY TrackIsThere DEF Starting, Unwinding, CloseBroken, Idle
<1>7. Stopping' /\ Ended'
  BY TrackIsThere DEF IInv, Stopping, Ended, AllQuiet, Running, CloseBroken, Idle
<1> QED
  BY <1>1, <1>2, <1>3, <1>4, <1>5, <1>6, <1>7 DEF IInv

LEMMA CloseKeepsInv ==
  ASSUME IInv, Close
  PROVE  IInv'
<1> USE TrackIsOne DEF threadsKeep, writersKeep, Newest
<1>1. Shape'
  <2>1. TracksShape'
    BY TrackIsThere DEF IInv, Shape, TracksShape, Close
  <2>2. WriterShape'
    BY DEF IInv, Shape, WriterShape, Close
  <2>3. RecShape'
    BY DEF IInv, Shape, RecShape, Close
  <2>4. CallShape'
    BY TrackIsThere DEF CallShape, Ops, Close, Idle
  <2> QED
    BY <2>1, <2>2, <2>3, <2>4 DEF Shape
<1>2. FlagsTell'
  BY TrackIsThere DEF IInv, FlagsTell, Joined, Running, Close
<1>3. Joined'
  BY TrackIsThere DEF Joined, Close, Idle
<1>4. WriterLives'
  BY TrackIsThere DEF IInv, WriterLives, Close
<1>5. NoCall' /\ Pausing'
  BY TrackIsThere
  DEF IInv, Ended, NoCall, Pausing, AllQuiet, PausedOrQuiet, Running, Close, Idle
<1>6. Starting' /\ Unwinding'
  BY TrackIsThere DEF Starting, Unwinding, Close, Idle
<1>7. Stopping' /\ Ended'
  BY TrackIsThere DEF IInv, Stopping, Ended, AllQuiet, Running, Close, Idle
<1> QED
  BY <1>1, <1>2, <1>3, <1>4, <1>5, <1>6, <1>7 DEF IInv

LEMMA CallKeepsInv ==
  ASSUME IInv, CallStep \/ Start \/ StartAgain \/ Pause \/ Stop
  PROVE  IInv'
BY StartKeepsInv, StartAgainKeepsInv, PauseKeepsInv, PauseTrackKeepsInv, ResumeTrackKeepsInv,
   StartTrackKeepsInv, StartTrackFailsKeepsInv, ReturnsKeepsInv, StopKeepsInv, StopTrackKeepsInv,
   JoinTrackKeepsInv, StopWriterKeepsInv, CloseBrokenKeepsInv, CloseKeepsInv
DEF CallStep

(***************************************************************************)
(* The invariant, and what follows from it.                                *)
(***************************************************************************)
LEMMA InitInv == Init => IInv
<1> SUFFICES ASSUME Init PROVE IInv
  OBVIOUS
<1>1. Shape
  <2>1. TracksShape
    BY DEF Init, TracksShape, Flags, Locals, Places
  <2>2. WriterShape /\ RecShape
    <3>1. writers = <<>> /\ done = FALSE
      BY DEF Init
    <3>2. WriterShape
      BY <3>1, EmptySeq DEF WriterShape
    <3> QED
      BY <3>2 DEF Init, RecShape
  <2>3. CallShape
    BY TrackIsOne DEF Init, CallShape, Idle, Ops
  <2> QED
    BY <2>1, <2>2, <2>3 DEF Shape
<1>2. /\ \A t \in TrackSet : /\ ~ctl[t].mStarted /\ ~ctl[t].mDone
                              /\ loc[t].at = "none" /\ ~Running(t) /\ ~ctl[t].mPaused
      /\ call.op = "none" /\ ~call.join
      /\ ~rec.started /\ ~rec.paused /\ ~rec.over /\ writers = <<>> /\ ~done
  BY DEF Init, Flags, Locals, Idle, Running
<1>3. AllQuiet /\ NonePaused /\ DoneFirst(1)
  BY <1>2, TrackIsOne DEF AllQuiet, NonePaused, DoneFirst
<1>4. FlagsTell /\ Joined /\ WriterLives
  BY <1>1, <1>2 DEF FlagsTell, Joined, WriterLives
<1>5. NoCall /\ Pausing /\ Starting /\ Unwinding /\ Stopping /\ Ended
  BY <1>2, <1>3 DEF NoCall, Pausing, Starting, Unwinding, Stopping, Ended
<1> QED
  BY <1>1, <1>4, <1>5 DEF IInv

LEMMA StepInv == IInv /\ [Next]_vars => IInv'
<1> SUFFICES ASSUME IInv, [Next]_vars PROVE IInv'
  OBVIOUS
<1>1. ASSUME NEW t \in TrackSet, TrackStep(t) PROVE IInv'
  <2>1. Moves(t)
    BY <1>1, TrackStepMoves DEF IInv
  <2> QED
    BY <1>1, <2>1, MovesKeepsInv
<1>2. CASE UNCHANGED vars
  BY <1>2
  DEF vars, IInv, Shape, TracksShape, WriterShape, RecShape, CallShape, FlagsTell, Joined,
              WriterLives, NoCall, Pausing, Starting, Unwinding, Stopping, Ended, Quiet, AllQuiet,
              Paused, PausedOrQuiet, DoneFirst, NoneDone, Started, NonePaused, Running, Track,
              Newest
<1> QED
  BY <1>1, <1>2, WriterKeepsInv, CallKeepsInv DEF Next

LEMMA InvCallsReturn == IInv => CallsReturn
<1> SUFFICES ASSUME IInv PROVE CallsReturn
  OBVIOUS
<1>1. ASSUME call.op # "none" PROVE SomebodyCanGo \/ SignalLost
  <2>1. CASE call.join
    <3>1. Track \in TrackSet /\ loc[Track].at \in Places \ {"none"}
      BY <2>1, TrackIsThere DEF IInv, Joined, FlagsTell, Shape, TracksShape
    <3>2. CASE loc[Track].at = "exited"
      BY <2>1, <3>2 DEF SomebodyCanGo, CallCanGo
    <3>3. CASE loc[Track].at # "exited" /\ LockFree
      BY <3>1, <3>3 DEF SomebodyCanGo, TrackCanGo, Places
    <3>4. CASE ~LockFree
      BY <3>4 DEF SomebodyCanGo, WriterCanGo, LockFree
    <3> QED
      BY <3>2, <3>3, <3>4
  <2>2. CASE ~call.join /\ call.op = "close"
    <3>1. writers \in Seq(WriterPlaces) /\ writers # <<>> /\ done
          /\ (Newest = "parked" => Len(writers) > 1)
      BY <2>2 DEF IInv, WriterLives, Shape, WriterShape
    <3>2. Len(writers) \in DOMAIN writers /\ Newest \in WriterPlaces
      BY <3>1 DEF Newest
    <3> QED
      BY <2>2, <3>1, <3>2 DEF WriterPlaces, SomebodyCanGo, CallCanGo, WriterCanGo, SignalLost, Newest
  <2>3. CASE ~call.join /\ call.op = "stop" /\ call.at > call.upto
    BY <2>3 DEF SomebodyCanGo, CallCanGo, WriterCanGo, LockFree
  <2>4. CASE ~call.join /\ call.op # "close" /\ ~(call.op = "stop" /\ call.at > call.upto)
    BY <2>4 DEF SomebodyCanGo, CallCanGo
  <2> QED
    BY <2>1, <2>2, <2>3, <2>4
<1>2. StartsThread => ~Running(Track)
  BY TrackIsThere
  DEF StartsThread, AtTrack, IInv, FlagsTell, Joined, Starting, PausedOrQuiet,
                      Shape, CallShape, Track
<1>3. done => \A t \in TrackSet : ~Running(t)
  BY DEF IInv, WriterLives, Ended, AllQuiet
<1> QED
  BY <1>1, <1>2, <1>3 DEF CallsReturn

(* The flags of a track say whether it has a thread, and every call of the *)
(* owner leaves behind it what it has started, paused or joined so far     *)
(* (start(), pause(), reset()).                                            *)
THEOREM WriterInvariant == Spec => []IInv
<1>1. Init => IInv
  BY InitInv
<1>2. IInv /\ [Next]_vars => IInv'
  BY StepInv
<1> QED
  BY <1>1, <1>2, PTL DEF Spec

(* For any tracks, sources and settings, and any number of calls, also of  *)
(* start() after a start() that failed: a call under way never waits for   *)
(* nobody, but for the stop() whose one signal was taken by an earlier     *)
(* writer (SignalLost, stopWriterThread()); start() never gives a thread   *)
(* to a track that has one running (pthread_create() in Track::start());   *)
(* and no thread of a track is left when the writers are told to end       *)
(* (reset()).                                                              *)
THEOREM EveryCallReturns == Spec => []CallsReturn
<1>1. Spec => []IInv
  BY WriterInvariant
<1>2. IInv => CallsReturn
  BY InvCallsReturn
<1> QED
  BY <1>1, <1>2, PTL
==============================================================================
