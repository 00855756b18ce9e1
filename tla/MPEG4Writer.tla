---------------------------- MODULE MPEG4Writer ----------------------------
(***************************************************************************)
(* The MP4 writer of src/libstagefright/MPEG4Writer.cpp: a thread per      *)
(* track reads its source, stamps the samples, fills the sample tables and *)
(* hands chunks of samples to the writer thread, which puts them into the  *)
(* file; the owner starts, pauses, resumes and stops the recording, and    *)
(* stopping writes the movie box.                                          *)
(***************************************************************************)
EXTENDS MP4Boxes, FiniteSets

CONSTANTS
  Tracks,         \* the tracks in the order they were added
  Source,         \* Source[t]: the frames a track's source may have
  Scale,          \* Scale[t]: mTimeScale, ticks in SecondUs microseconds
  SecondUs,       \* 1000000 in the code
  MaxCtts,        \* kMaxCttsOffsetTimeUs
  Codec, Csd,     \* Codec[t], and the bytes of codec specific data in its format
  Confs,          \* the settings a recording may be made with
  CanFail         \* the tracks whose source may fail to start or to stop

IsAudio(t) == t = "audio"
IsAvc(t)   == Codec[t] = "avc1"
TrackSet   == {Tracks[i] : i \in DOMAIN Tracks}

ASSUME MPEG4WriterAssumption ==
  /\ Tracks \in Seq({"audio", "video"}) /\ Len(Tracks) > 0
  /\ \A i, j \in DOMAIN Tracks : Tracks[i] = Tracks[j] => i = j
  /\ SecondUs \in Nat \ {0} /\ \A t \in TrackSet : Scale[t] \in Nat \ {0}

VARIABLES
  conf,     \* the settings: [realTime, interleave, limit, est, streamable, use32, nal,
            \* geo, drop], the frames each source has, and two bounds: calls, on
            \* pause() and start() while recording, and starts, on start() otherwise
  ctl,      \* ctl[t]: the flags of a Track
  tab,      \* tab[t]: its sample tables
  loc,      \* loc[t]: where its thread is, and the variables of threadEntry()
  rec,      \* [started, paused, over, startUs, waitSync, from]: MPEG4Writer's own, and
            \* where in the file the last start() began
  chunks,   \* mChunkInfos: the chunks buffered for each track
  writers,  \* where the writer threads are, the oldest first; mThread is the last
  held,     \* the chunk each is writing
  done,     \* mDone
  mdat,     \* what was written of the samples, in order: [track, n, at, len]
  mOffset,
  call,     \* the owner's call: [op, at, upto, err]
  calls,    \* calls made while recording
  file,     \* history: the top-level boxes and the written tables, once closed
  taken,    \* history: taken[t]: the samples a track kept: [n, len, us]
  aborted   \* a CHECK failed

vars == <<conf, ctl, tab, loc, rec, chunks, writers, held, done, mdat, mOffset, call, calls, file,
          taken, aborted>>

NoTime == -1
Idle   == [op |-> "none", at |-> 1, upto |-> 0, err |-> FALSE, join |-> FALSE]
NoFile == [closed |-> FALSE]
FtypSize == 24

(* The variables of threadEntry() when the thread starts.                  *)
Locals ==
  [at |-> "none", next |-> 1, restore |-> FALSE, then |-> "read", stamp |-> 0,
   chunkUs |-> 0, nChunks |-> 0, lastUs |-> 0, lastDurUs |-> 0, lastTicks |-> 0,
   sampleCount |-> 1, prevSize |-> 0, prevPaused |-> 0, lastCtts |-> -1, currCtts |-> 0,
   cttsCount |-> 0, lastPerChunk |-> 0]

Tables ==
  [stsz |-> EmptyTable(1), stco |-> EmptyTable(1), stsc |-> EmptyTable(3),
   stss |-> EmptyTable(1), stts |-> EmptyTable(2), ctts |-> EmptyTable(2)]

Flags(t) ==
  [mDone |-> FALSE, mPaused |-> FALSE, mResumed |-> FALSE, mStarted |-> FALSE,
   mReachedEOS |-> FALSE, csd |-> Csd[t], got |-> Csd[t] > 0, us |-> 0, mdat |-> 0, est |-> 0,
   start |-> NoTime, same |-> TRUE, minCtts |-> 0, maxCtts |-> 0, samples |-> <<>>,
   again |-> FALSE]  \* history: it was given a thread more than once

Init ==
  /\ conf \in Confs
  /\ ctl = [t \in TrackSet |-> Flags(t)] /\ tab = [t \in TrackSet |-> Tables]
  /\ loc = [t \in TrackSet |-> Locals]
  /\ rec = [started |-> FALSE, paused |-> FALSE, over |-> FALSE, startUs |-> NoTime,
            waitSync |-> FALSE, from |-> 0]
  /\ chunks = [t \in TrackSet |-> <<>>] /\ writers = <<>> /\ held = <<>> /\ done = FALSE
  /\ mdat = <<>> /\ mOffset = 0 /\ call = Idle /\ calls = 0
  /\ file = NoFile /\ taken = [t \in TrackSet |-> <<>>] /\ aborted = FALSE

(* mLock is held across steps only by a writer thread that does not write  *)
(* in real time.                                                           *)
LockFree == conf.realTime \/ \A i \in DOMAIN writers : writers[i] # "write"

(***************************************************************************)
(* The tracks' threads.                                                    *)
(***************************************************************************)
Frame(t) == Source[t][loc[t].next - 1]
SampleSize(t, frame) == frame.len + (IF IsAvc(t) THEN conf.nal ELSE 0)
Ticks(t, us) == (us * Scale[t] + SecondUs \div 2) \div SecondUs

trackKeeps == <<conf, chunks, writers, held, done, mdat, mOffset, call, calls, file>>
Go(t, where) == loc' = [loc EXCEPT ![t].at = where]

(* while (!mDone && (err = mSource->read(&buffer)) == OK)                  *)
TrackReads(t) ==
  /\ loc[t].at = "read" /\ ~ctl[t].mDone /\ loc[t].next <= conf.frames[t]
  /\ loc' = [loc EXCEPT ![t].next = @ + 1,
                        ![t].at = IF Source[t][loc[t].next].len = 0 THEN "read" ELSE "admit"]
  /\ UNCHANGED <<trackKeeps, ctl, tab, rec, taken, aborted>>

TrackStops(t) ==
  /\ loc[t].at = "read" /\ (ctl[t].mDone \/ loc[t].next > conf.frames[t])
  /\ Go(t, "tail") /\ UNCHANGED <<trackKeeps, ctl, tab, rec, taken, aborted>>

(* Frames of a paused track are dropped; a video track makes the audio     *)
(* track wait for its next sync frame.                                     *)
TrackDropsPaused(t) ==
  /\ loc[t].at = "admit" /\ ctl[t].mPaused /\ ~ctl[t].mResumed
  /\ Go(t, "read")
  /\ rec' = [rec EXCEPT !.waitSync = @ \/ ~IsAudio(t)]
  /\ UNCHANGED <<trackKeeps, ctl, tab, taken, aborted>>

(* getVideoChunkToWriter(): the bytes buffered for the video track.        *)
SumLens(list) ==
  LET Sum[i \in 0 .. Len(list)] == IF i = 0 THEN 0 ELSE Sum[i - 1] + list[i].len
  IN  Sum[Len(list)]
BufferedVideo ==
  LET list == chunks["video"]
      Sum[i \in 0 .. Len(list)] == IF i = 0 THEN 0 ELSE Sum[i - 1] + SumLens(list[i].samples)
  IN  Sum[Len(list)]

Admits(t) == loc[t].at = "admit" /\ ~(ctl[t].mPaused /\ ~ctl[t].mResumed)

(* With too much video waiting to be written, video is dropped up to the   *)
(* next sync frame.                                                        *)
TrackDropsBehind(t) ==
  /\ Admits(t) /\ ~IsAudio(t) /\ LockFree
  /\ \/ BufferedVideo > conf.drop /\ loc' = [loc EXCEPT ![t].at = "read", ![t].restore = TRUE]
     \/ BufferedVideo <= conf.drop /\ loc[t].restore /\ ~Frame(t).sync /\ Go(t, "read")
  /\ UNCHANGED <<trackKeeps, ctl, tab, rec, taken, aborted>>

Kept(t) ==
  /\ Admits(t)
  /\ ~IsAudio(t) => LockFree /\ BufferedVideo <= conf.drop /\ (loc[t].restore => Frame(t).sync)

TrackTakesConfig(t) ==
  /\ Kept(t) /\ Frame(t).config
  /\ loc' = [loc EXCEPT ![t].at = "read", ![t].restore = FALSE]
  /\ aborted' = (aborted \/ ctl[t].got)
  /\ ctl' = [ctl EXCEPT ![t].got = TRUE,
                        ![t].csd = IF Codec[t] \in {"avc1", "mp4v", "mp4a"} THEN Frame(t).len ELSE @]
  /\ UNCHANGED <<trackKeeps, tab, rec, taken>>

(* updateTrackSizeEstimate()                                               *)
Estimate(t, bytes) ==
  bytes + (IF conf.streamable THEN 0
           ELSE 12 * Count(tab[t].stsc) + 4 * Count(tab[t].stss) + 8 * Count(tab[t].stts)
                + 8 * Count(tab[t].ctts) + 4 * Count(tab[t].stco)
                + (IF ctl[t].same THEN 4 ELSE 4 * Count(tab[t].stsz)))

ExceedsFileSizeLimit(estimates) ==
  LET sum   == estimates["audio"] + estimates["video"]
      total == conf.est + sum
  IN  conf.limit # 0 /\ IF conf.streamable THEN total >= (95 * conf.limit) \div 100
                                           ELSE total + 1024 >= conf.limit

(* The sample is counted; at the size limit the thread leaves its loop.    *)
TrackCounts(t) ==
  /\ Kept(t) /\ ~Frame(t).config
  /\ LET bytes == ctl[t].mdat + SampleSize(t, Frame(t))
         new   == [ctl EXCEPT ![t].mdat = bytes, ![t].est = Estimate(t, bytes)]
         ests  == [u \in {"audio", "video"} |-> IF u \in TrackSet THEN new[u].est ELSE 0]
     IN  /\ ctl' = new
         /\ loc' = [loc EXCEPT ![t].at = IF ExceedsFileSizeLimit(ests) THEN "tail" ELSE "stamp",
                               ![t].restore = FALSE]
  /\ UNCHANGED <<trackKeeps, tab, rec, taken, aborted>>

(***************************************************************************)
(* Time stamps.  The first sample starts the track; after a pause the gap  *)
(* is cut out so that the sample follows the last one kept.                *)
(***************************************************************************)
First(t)       == Count(tab[t].stsz) = 0
StartOf(t)     == IF First(t) THEN Frame(t).us ELSE ctl[t].start
PausedBefore(t) == IF First(t) THEN Frame(t).us ELSE loc[t].prevPaused
PausedUs(t)    == Frame(t).us - PausedBefore(t) - ctl[t].us

(* setStartTimestampUs()                                                   *)
MovieStart(t) ==
  IF First(t) /\ (rec.startUs < 0 \/ rec.startUs > Frame(t).us) THEN Frame(t).us ELSE rec.startUs

SkippedAfterResume(t) ==
  ctl[t].mResumed /\ \/ PausedUs(t) < loc[t].lastDurUs
                     \/ ~IsAudio(t) /\ ~Frame(t).sync
                     \/ IsAudio(t) /\ rec.waitSync

TrackSkips(t) ==
  /\ loc[t].at = "stamp" /\ LockFree /\ SkippedAfterResume(t)
  /\ rec' = [rec EXCEPT !.startUs = MovieStart(t)]
  /\ ctl' = [ctl EXCEPT ![t].start = StartOf(t), ![t].mdat = @ - SampleSize(t, Frame(t))]
  /\ loc' = [loc EXCEPT ![t].at = "read", ![t].prevPaused = PausedBefore(t),
                        ![t].stamp = Frame(t).us]
  /\ aborted' = (aborted \/ Frame(t).us < PausedBefore(t))
  /\ UNCHANGED <<trackKeeps, tab, taken>>

\* mutant of Cut
CutNothing(t) == PausedBefore(t)

(* previousPausedDurationUs once the sample is accepted.                   *)
Cut(t) == PausedBefore(t) + IF ctl[t].mResumed THEN PausedUs(t) - loc[t].lastDurUs ELSE 0

CttsTicks(t) == Ticks(t, Frame(t).us + MaxCtts - Frame(t).dts)

(* The composition offset of a video sample: runs of equal offsets share   *)
(* an entry, the first sample has one of its own.                          *)
CttsTable(t, ticks) ==
  CASE First(t) -> Add(Add(tab[t].ctts, 1), ticks)
    [] ~First(t) /\ ticks # loc[t].lastCtts ->
         Add(Add(tab[t].ctts, loc[t].cttsCount), loc[t].lastCtts)
    [] OTHER -> tab[t].ctts

CttsCount(t, ticks) ==
  CASE First(t) -> 0
    [] ~First(t) /\ ticks # loc[t].lastCtts -> 1
    [] OTHER -> loc[t].cttsCount + 1

(* A new entry of the duration table: for the first sample always, then    *)
(* when the duration changes.                                              *)
NewDuration(t, ticks) ==
  Count(tab[t].stsz) = 2 \/ (Count(tab[t].stsz) > 2 /\ ticks # loc[t].lastTicks)

SampleUs(t)    == (IF IsAudio(t) THEN Frame(t).us ELSE Frame(t).dts) - Cut(t)
SampleTicks(t) == Ticks(t, SampleUs(t)) - Ticks(t, loc[t].lastUs)
Stsz(t)        == Add(tab[t].stsz, SampleSize(t, Frame(t)))
Gathered(t)    == Append(ctl[t].samples, [n |-> loc[t].next - 1, len |-> Frame(t).len])

(* A chunk is full when it lasts longer than it may; it has an entry of    *)
(* its own when it holds another number of samples than the one before.    *)
ChunkFrom(t) == IF conf.interleave # 0 /\ loc[t].chunkUs = 0 THEN SampleUs(t) ELSE loc[t].chunkUs
Full(t)      == conf.interleave = 0 \/ SampleUs(t) - ChunkFrom(t) > conf.interleave
NewEntry(t)  ==
  /\ Full(t)
  /\ conf.interleave = 0 \/ loc[t].nChunks = 0 \/ loc[t].lastPerChunk # Len(Gathered(t))
PerEntry(t)  == IF conf.interleave = 0 THEN 1 ELSE Len(Gathered(t))

StampedTrack(t) ==
  LET ctts == CttsTicks(t)
  IN  [ctl[t] EXCEPT !.start = StartOf(t), !.mResumed = FALSE,
                     !.us = IF SampleUs(t) > @ THEN SampleUs(t) ELSE @,
                     !.same = @ /\ (First(t) \/ loc[t].prevSize = SampleSize(t, Frame(t))),
                     !.minCtts = IF First(t) \/ ctts < @ THEN ctts ELSE @,
                     !.maxCtts = IF First(t) \/ ctts > @ THEN ctts ELSE @,
                     !.samples = Gathered(t)]

StampedTables(t) ==
  [tab[t] EXCEPT
     !.stsz = Stsz(t),
     !.stts = IF NewDuration(t, SampleTicks(t))
              THEN Add(Add(@, loc[t].sampleCount), loc[t].lastTicks) ELSE @,
     !.ctts = IF IsAudio(t) THEN @ ELSE CttsTable(t, CttsTicks(t)),
     !.stss = IF Frame(t).sync THEN Add(@, Count(Stsz(t))) ELSE @,
     !.stsc = IF NewEntry(t) THEN Add(Add(Add(@, loc[t].nChunks + 1), PerEntry(t)), 1) ELSE @]

(* The variables of threadEntry() for the next sample, and for the chunk.  *)
NextSample(t) ==
  [loc[t] EXCEPT !.stamp = SampleUs(t), !.prevPaused = Cut(t), !.lastUs = SampleUs(t),
                 !.lastDurUs = SampleUs(t) - loc[t].lastUs, !.lastTicks = SampleTicks(t),
                 !.sampleCount = IF NewDuration(t, SampleTicks(t)) THEN 1
                                 ELSE IF Count(Stsz(t)) > 2 THEN @ + 1 ELSE @,
                 !.prevSize = SampleSize(t, Frame(t))]
NextCtts(t, locals) ==
  IF IsAudio(t) THEN locals
  ELSE [locals EXCEPT !.lastCtts = CttsTicks(t), !.currCtts = CttsTicks(t),
                      !.cttsCount = CttsCount(t, CttsTicks(t))]
NextChunk(t, locals) ==
  [locals EXCEPT
     !.at = IF Full(t) THEN "buffer" ELSE "read", !.then = "read",
     !.chunkUs = IF Full(t) /\ conf.interleave # 0 THEN SampleUs(t) ELSE ChunkFrom(t),
     !.nChunks = IF Full(t) THEN @ + 1 ELSE @,
     !.lastPerChunk = IF NewEntry(t) /\ conf.interleave # 0 THEN Len(Gathered(t)) ELSE @]

(* The sample passes: its size, duration, composition offset and sync flag *)
(* go to the tables, and the chunk it completes is to be handed over.      *)
TrackStamps(t) ==
  /\ loc[t].at = "stamp" /\ LockFree /\ ~SkippedAfterResume(t)
  /\ rec' = [rec EXCEPT !.startUs = MovieStart(t),
                        !.waitSync = @ /\ ~(~IsAudio(t) /\ ctl[t].mResumed)]
  /\ ctl' = [ctl EXCEPT ![t] = StampedTrack(t)]
  /\ tab' = [tab EXCEPT ![t] = StampedTables(t)]
  /\ loc' = [loc EXCEPT ![t] = NextChunk(t, NextCtts(t, NextSample(t)))]
  /\ taken' = [taken EXCEPT ![t] = Append(@, [n |-> loc[t].next - 1, us |-> SampleUs(t),
                                              len |-> SampleSize(t, Frame(t))])]
  /\ aborted' = (aborted \/ Frame(t).us < Cut(t) \/ SampleUs(t) < 0
                  \/ (~IsAudio(t) /\ Frame(t).us + MaxCtts < Frame(t).dts)
                  \/ (ctl[t].mResumed /\ Frame(t).us < PausedBefore(t)))
  /\ UNCHANGED trackKeeps

(* signal() on mChunkReadyCondition wakes one of those that wait on it.    *)
Signals ==
  \/ \E i \in DOMAIN writers : writers[i] = "parked" /\ writers' = [writers EXCEPT ![i] = "loop"]
  \/ (\A i \in DOMAIN writers : writers[i] # "parked") /\ writers' = writers

(* bufferChunk(): to the list of the track, and a writer is woken.         *)

TrackBuffers(t) ==
  /\ loc[t].at = "buffer" /\ LockFree
  /\ chunks' = [chunks EXCEPT ![t] = Append(@, [stamp |-> loc[t].stamp, samples |-> ctl[t].samples])]
  /\ Signals
  /\ aborted' = (aborted \/ done)
  /\ ctl' = [ctl EXCEPT ![t].samples = <<>>]
  /\ Go(t, loc[t].then)
  /\ UNCHANGED <<conf, tab, rec, held, done, mdat, mOffset, call, calls, file, taken>>

(* After the loop: the samples left are the last chunk.                    *)
TrackEndsChunk(t) ==
  /\ loc[t].at = "tail"
  /\ IF ctl[t].samples = <<>> THEN Go(t, "finish") /\ UNCHANGED tab
     ELSE /\ loc' = [loc EXCEPT ![t].at = "buffer", ![t].then = "finish", ![t].nChunks = @ + 1]
          /\ tab' = [tab EXCEPT ![t].stsc =
                       Add(Add(Add(@, loc[t].nChunks + 1), Len(ctl[t].samples)), 1)]
  /\ UNCHANGED <<trackKeeps, ctl, rec, taken, aborted>>

\* mutant of LastDurations
LastDurationsNoRepeat(t) ==
  LET n == loc[t].sampleCount IN Add(Add(tab[t].stts, n), loc[t].lastTicks)

(* The last sample lasts as long as the one before it.                     *)
LastDurations(t) ==
  LET n     == loc[t].sampleCount + (IF Count(tab[t].stsz) = 1 THEN 0 ELSE 1)
      ticks == IF Count(tab[t].stsz) = 1 THEN 0 ELSE loc[t].lastTicks
      one   == Add(Add(tab[t].stts, 1), ticks)
  IN  CASE Count(tab[t].stsz) > 2 -> Add(Add(tab[t].stts, n), ticks)
        [] Count(tab[t].stsz) <= 2 /\ n > 1 -> Add(Add(one, n - 1), ticks)
        [] OTHER -> one

TrackFinishes(t) ==
  /\ loc[t].at = "finish"
  /\ tab' = [tab EXCEPT ![t].stts = LastDurations(t),
                        ![t].ctts = IF loc[t].currCtts = loc[t].lastCtts /\ loc[t].cttsCount > 0
                                    THEN Add(Add(@, loc[t].cttsCount), loc[t].lastCtts) ELSE @]
  /\ ctl' = [ctl EXCEPT ![t].us = @ + (IF Count(tab[t].stsz) = 1 THEN 0 ELSE loc[t].lastDurUs),
                        ![t].mReachedEOS = TRUE]
  /\ Go(t, "exited")
  /\ UNCHANGED <<trackKeeps, rec, taken, aborted>>

(***************************************************************************)
(* The writer's thread, and those that an earlier start() left: each step  *)
(* but the writing in real time is taken with the lock.                    *)
(***************************************************************************)
writerKeeps == <<conf, done, ctl, loc, rec, call, calls, file, taken, aborted>>

Pending == {t \in TrackSet : chunks[t] # <<>>}
Index(t) == CHOOSE i \in DOMAIN Tracks : Tracks[i] = t

(* findChunkToWrite(): of the first chunks the one with the least time,    *)
(* the earlier track's when they are equal.                                *)
DueIn(left) ==
  LET some == {t \in TrackSet : left[t] # <<>>}
  IN  CHOOSE t \in some : \A u \in some \ {t} :
        \/ left[t][1].stamp < left[u][1].stamp
        \/ left[t][1].stamp = left[u][1].stamp /\ Index(t) < Index(u)
Due == DueIn(chunks)

\* mutant of AddSample
AddSampleBare(at, t, sample) == [track |-> t, n |-> sample.n, at |-> at, len |-> sample.len]

(* addLengthPrefixedSample_l() and addSample_l().                          *)
AddSample(at, t, sample) ==
  [track |-> t, n |-> sample.n, at |-> at, len |-> sample.len + (IF IsAvc(t) THEN conf.nal ELSE 0)]

(* writeChunkToFile() on what is in the file: its samples follow each      *)
(* other, and the first one's offset is the chunk's.                       *)
Put(state, t, chunk) ==
  LET Out[i \in 0 .. Len(chunk.samples)] ==
        IF i = 0 THEN [mdat |-> <<>>, off |-> state.off]
        ELSE LET last == Out[i - 1]
                 s == AddSample(last.off, t, chunk.samples[i])
             IN  [mdat |-> Append(last.mdat, s), off |-> s.at + s.len]
      out == Out[Len(chunk.samples)]
  IN  [mdat |-> state.mdat \o out.mdat, off |-> out.off,
       stco |-> [state.stco EXCEPT ![t] = Add(@, state.off)]]

FileNow == [mdat |-> mdat, off |-> mOffset, stco |-> [t \in TrackSet |-> tab[t].stco]]
FileIs(state) ==
  /\ mdat' = state.mdat /\ mOffset' = state.off
  /\ tab' = [t \in TrackSet |-> [tab[t] EXCEPT !.stco = state.stco[t]]]

AtLoop(i) == writers[i] = "loop" /\ LockFree

WriterTakes(i) ==
  /\ AtLoop(i) /\ ~done /\ Pending # {}
  /\ writers' = [writers EXCEPT ![i] = "write"]
  /\ held' = [held EXCEPT ![i] = <<Due, chunks[Due][1]>>]
  /\ chunks' = [chunks EXCEPT ![Due] = Tail(@)]
  /\ UNCHANGED <<writerKeeps, tab, mdat, mOffset>>

WriterWaits(i) ==
  /\ AtLoop(i) /\ ~done /\ Pending = {}
  /\ writers' = [writers EXCEPT ![i] = "parked"]
  /\ UNCHANGED <<writerKeeps, held, tab, chunks, mdat, mOffset>>

WriterWrites(i) ==
  /\ writers[i] = "write"
  /\ FileIs(Put(FileNow, held[i][1], held[i][2]))
  /\ writers' = [writers EXCEPT ![i] = "loop"]
  /\ held' = [held EXCEPT ![i] = <<>>]
  /\ UNCHANGED <<writerKeeps, chunks>>

(* writeAllChunks(): the chunks left, in the same order.                   *)
WriteAllChunks(state, pending) ==
  LET Left[i \in 0 .. Len(Tracks)] == IF i = 0 THEN 0 ELSE Left[i - 1] + Len(pending[Tracks[i]])
      Out[i \in 0 .. Left[Len(Tracks)]] ==
        IF i = 0 THEN [state |-> state, left |-> pending]
        ELSE CHOOSE next \in {LET t == DueIn(last.left)
                               IN  [state |-> Put(last.state, t, last.left[t][1]),
                                    left |-> [last.left EXCEPT ![t] = Tail(@)]]
                              : last \in {Out[i - 1]}} : TRUE
  IN  Out[Left[Len(Tracks)]].state

WriterEnds(i) ==
  /\ AtLoop(i) /\ done
  /\ FileIs(WriteAllChunks(FileNow, chunks))
  /\ chunks' = [t \in TrackSet |-> <<>>]
  /\ writers' = [writers EXCEPT ![i] = "exited"]
  /\ UNCHANGED <<writerKeeps, held>>

(***************************************************************************)
(* The owner.  A call that stops tracks joins their threads one by one.    *)
(***************************************************************************)
threadsKeep == <<conf, tab, loc, chunks, mdat, file, taken>>
writersKeep == <<writers, held, done>>

Calls(op, upto) == [op |-> op, at |-> 1, upto |-> upto, err |-> FALSE, join |-> FALSE]
Track == Tracks[call.at]
AtTrack(ops) == call.op \in ops /\ call.at <= call.upto
NextTrack(err) == [call EXCEPT !.at = @ + 1, !.err = @ \/ err, !.join = FALSE]

FreeOffset == rec.from + FtypSize
Reserved   == IF conf.streamable THEN conf.est ELSE 0
MdatOffset == FreeOffset + Reserved
MdatHeader == IF conf.use32 THEN 8 ELSE 16

(* A recording that is not started writes the head of the file and gets a  *)
(* writer.  start() looks at mStarted only: after one that failed at a     *)
(* track, whose writer was left running, it does so once more, further on  *)
(* in the file, and loses hold of the first writer.                        *)
Start ==
  /\ call.op = "none" /\ ~rec.over /\ ~rec.started /\ Len(writers) < conf.starts
  /\ rec' = [rec EXCEPT !.startUs = NoTime, !.from = mOffset]
  /\ mOffset' = mOffset + FtypSize + Reserved + MdatHeader
  /\ writers' = Append(writers, "loop") /\ held' = Append(held, <<>>) /\ done' = FALSE
  /\ call' = Calls("start", Len(Tracks))
  /\ UNCHANGED <<threadsKeep, ctl, calls, aborted>>

(* start() while recording resumes a paused recording.                     *)
StartAgain ==
  /\ call.op = "none" /\ rec.started /\ ~rec.over /\ calls < conf.calls
  /\ calls' = calls + 1
  /\ rec' = [rec EXCEPT !.startUs = NoTime, !.paused = FALSE]
  /\ call' = IF rec.paused THEN Calls("start", Len(Tracks)) ELSE call
  /\ UNCHANGED <<threadsKeep, ctl, writersKeep, mOffset, aborted>>

Pause ==
  /\ call.op = "none" /\ ~rec.over /\ calls < conf.calls
  /\ calls' = calls + 1
  /\ rec' = [rec EXCEPT !.paused = TRUE]
  /\ call' = Calls("pause", Len(Tracks))
  /\ UNCHANGED <<threadsKeep, ctl, writersKeep, mOffset, aborted>>

PauseTrack ==
  /\ AtTrack({"pause"})
  /\ ctl' = [ctl EXCEPT ![Track].mPaused = TRUE, ![Track].mResumed = FALSE]
  /\ call' = NextTrack(FALSE)
  /\ UNCHANGED <<threadsKeep, rec, writersKeep, mOffset, calls, aborted>>

ResumeTrack ==
  /\ AtTrack({"start"}) /\ ~ctl[Track].mDone /\ ctl[Track].mPaused
  /\ ctl' = [ctl EXCEPT ![Track].mPaused = FALSE, ![Track].mResumed = TRUE]
  /\ call' = NextTrack(FALSE)
  /\ UNCHANGED <<threadsKeep, rec, writersKeep, mOffset, calls, aborted>>

StartTrack ==
  /\ AtTrack({"start"}) /\ (ctl[Track].mDone \/ ~ctl[Track].mPaused)
  /\ ctl' = [ctl EXCEPT ![Track].mDone = FALSE, ![Track].mStarted = TRUE,
                        ![Track].again = ctl[Track].mStarted,
                        ![Track].us = 0, ![Track].mReachedEOS = FALSE,
                        ![Track].est = 0, ![Track].mdat = 0]
  /\ loc' = [loc EXCEPT ![Track] = [Locals EXCEPT !.at = "read"]]
  /\ call' = NextTrack(FALSE)
  /\ UNCHANGED <<conf, tab, chunks, mdat, file, taken, rec, writersKeep, mOffset, calls, aborted>>

(* The source does not start: the tracks before it are stopped.            *)
StartTrackFails ==
  /\ AtTrack({"start"}) /\ Track \in CanFail /\ (ctl[Track].mDone \/ ~ctl[Track].mPaused)
  /\ ctl' = [ctl EXCEPT ![Track].mDone = TRUE, ![Track].mReachedEOS = TRUE]
  /\ call' = [Calls("unwind", call.at - 1) EXCEPT !.err = TRUE]
  /\ UNCHANGED <<threadsKeep, rec, writersKeep, mOffset, calls, aborted>>

(* start(), pause() and a failed start() return.                           *)
Returns ==
  /\ call.op \in {"start", "pause", "unwind"} /\ call.at > call.upto
  /\ rec' = [rec EXCEPT !.started = @ \/ call.op = "start"]
  /\ call' = Idle
  /\ UNCHANGED <<threadsKeep, ctl, writersKeep, mOffset, calls, aborted>>

(* stop() is reset(): without a recording it only closes the file.         *)
Stop ==
  /\ call.op = "none" /\ ~rec.over
  /\ IF writers = <<>> THEN rec' = [rec EXCEPT !.over = TRUE] /\ call' = call
     ELSE /\ rec' = rec
          /\ call' = [Calls("stop", IF rec.started THEN Len(Tracks) ELSE 0)
                        EXCEPT !.err = ~rec.started]
  /\ UNCHANGED <<threadsKeep, ctl, writersKeep, mOffset, calls, aborted>>

StopTrack ==
  /\ AtTrack({"stop", "unwind"}) /\ ~call.join
  /\ ctl' = [ctl EXCEPT ![Track].mDone = @ \/ ctl[Track].mStarted]
  /\ call' = IF ctl[Track].mStarted /\ ~ctl[Track].mDone THEN [call EXCEPT !.join = TRUE]
             ELSE NextTrack(~ctl[Track].mStarted)
  /\ UNCHANGED <<threadsKeep, rec, writersKeep, mOffset, calls, aborted>>

(* What the thread returned is not looked at, what the source's stop()     *)
(* returns is.                                                             *)
JoinTrack ==
  /\ call.join /\ loc[Track].at = "exited"
  /\ \E bad \in BOOLEAN : (bad => Track \in CanFail) /\ call' = NextTrack(bad)
  /\ UNCHANGED <<threadsKeep, ctl, rec, writersKeep, mOffset, calls, aborted>>

\* mutant of StopWriter
StopWriterSilently ==
  /\ call.op = "stop" /\ call.at > call.upto /\ LockFree
  /\ done' = TRUE /\ UNCHANGED writers
  /\ call' = [call EXCEPT !.op = "close"]
  /\ UNCHANGED <<threadsKeep, held, ctl, rec, mOffset, calls, aborted>>

(* stopWriterThread(): one signal, and the join of the newest writer.      *)
StopWriter ==
  /\ call.op = "stop" /\ call.at > call.upto /\ LockFree
  /\ done' = TRUE /\ Signals
  /\ call' = [call EXCEPT !.op = "close"]
  /\ UNCHANGED <<threadsKeep, held, ctl, rec, mOffset, calls, aborted>>

Newest == writers[Len(writers)]

(* On error there is no movie header.                                      *)
CloseBroken ==
  /\ call.op = "close" /\ Newest = "exited" /\ call.err
  /\ rec' = [rec EXCEPT !.over = TRUE, !.started = FALSE] /\ call' = Idle
  /\ UNCHANGED <<threadsKeep, ctl, writersKeep, mOffset, calls, aborted>>

(***************************************************************************)
(* Closing the file.  junk[t] is what the time stamp of a track that kept  *)
(* no sample happens to be, relative to the movie's: it is never set.      *)
(***************************************************************************)
Empty(t) == Count(tab[t].stsz) = 0
StartUs(t, junk) == IF Empty(t) THEN rec.startUs + junk[t] ELSE ctl[t].start

\* getStartTimeOffsetScaledTime()
StartOffset(t, junk) == Ticks(t, StartUs(t, junk) - rec.startUs)

HasCtts(t) == ~IsAudio(t) /\ ctl[t].minCtts # ctl[t].maxCtts /\ Count(tab[t].ctts) > 0

(* The tables as they are written, the first duration moved by the start.  *)
WrittenTables(t, junk) ==
  LET moved(table, by) == SetAt(table, 1, Get(table, 1) + by)
  IN  [stts |-> Written(moved(tab[t].stts, StartOffset(t, junk))),
       ctts |-> IF HasCtts(t)
                THEN Written(moved(tab[t].ctts, StartOffset(t, junk) - ctl[t].minCtts)) ELSE <<>>,
       stss |-> Written(tab[t].stss), stsz |-> Written(tab[t].stsz),
       stsc |-> Written(tab[t].stsc), stco |-> Written(tab[t].stco)]

TrackBoxes(t) ==
  [audio |-> IsAudio(t), codec |-> Codec[t], csd |-> ctl[t].csd,
   stts |-> Count(tab[t].stts), ctts |-> IF HasCtts(t) THEN Count(tab[t].ctts) ELSE 0,
   stss |-> Count(tab[t].stss), stsz |-> Count(tab[t].stsz), stsc |-> Count(tab[t].stsc),
   stco |-> Count(tab[t].stco)]

CodecDataBad(t) ==
  CASE Codec[t] = "avc1" -> ctl[t].csd < 5 \/ 23 + ctl[t].csd >= 128
    [] Codec[t] \in {"mp4v", "mp4a"} -> ctl[t].csd = 0 \/ 23 + ctl[t].csd >= 128
    [] OTHER -> FALSE

CloseAborts(junk) ==
  \E t \in TrackSet : CodecDataBad(t) \/ StartUs(t, junk) < rec.startUs

MoovWriter ==
  [mWriteMoovBoxToMemory |-> conf.streamable, mMoovBoxBufferOffset |-> 0,
   mEstimatedMoovBoxSize |-> conf.est, mOffset |-> mOffset, mBoxes |-> <<>>, found |-> <<>>]

(* The boxes of the file: the movie box kept in memory goes to the space   *)
(* reserved for it and a free box takes up the rest.                       *)
Boxes(w) ==
  LET at(box) == IF w.mWriteMoovBoxToMemory THEN [box EXCEPT !.at = @ + FreeOffset] ELSE box
      used == IF w.mWriteMoovBoxToMemory THEN w.mMoovBoxBufferOffset ELSE 0
      free == IF conf.streamable
              THEN {[name |-> "free", at |-> FreeOffset + used, size |-> conf.est - used]} ELSE {}
      top  == {[name |-> "ftyp", at |-> rec.from, size |-> FtypSize],
               [name |-> "mdat", at |-> MdatOffset, size |-> mOffset - MdatOffset]}
  IN  top \cup free \cup {at(w.found[i]) : i \in DOMAIN w.found}

Close ==
  /\ call.op = "close" /\ Newest = "exited" /\ ~call.err
  /\ \E junk \in [TrackSet -> -1 .. 1] :
       /\ \A t \in TrackSet : ~Empty(t) => junk[t] = 0
       /\ aborted' = (aborted \/ CloseAborts(junk))
       /\ IF CloseAborts(junk) THEN UNCHANGED file
          ELSE LET w == WriteAll(MoovWriter,
                          MoovBox([i \in DOMAIN Tracks |-> TrackBoxes(Tracks[i])], conf.geo, conf.use32))
               IN  file' = [closed |-> TRUE, boxes |-> Boxes(w),
                            end |-> IF w.mWriteMoovBoxToMemory THEN mOffset ELSE w.mOffset,
                            open |-> w.mBoxes,
                            tables |-> [t \in TrackSet |-> WrittenTables(t, junk)],
                            offset |-> [t \in TrackSet |-> StartOffset(t, junk)]]
  /\ rec' = [rec EXCEPT !.over = TRUE, !.started = FALSE] /\ call' = Idle
  /\ UNCHANGED <<conf, tab, loc, chunks, mdat, taken, ctl, writersKeep, mOffset, calls>>

(***************************************************************************)
(* The specification.                                                      *)
(***************************************************************************)
TrackStep(t) ==
  \/ TrackReads(t) \/ TrackStops(t) \/ TrackDropsPaused(t) \/ TrackDropsBehind(t)
  \/ TrackTakesConfig(t) \/ TrackCounts(t) \/ TrackSkips(t) \/ TrackStamps(t)
  \/ TrackBuffers(t) \/ TrackEndsChunk(t) \/ TrackFinishes(t)

WriterStep(i) == WriterTakes(i) \/ WriterWaits(i) \/ WriterWrites(i) \/ WriterEnds(i)

CallStep ==
  \/ PauseTrack \/ ResumeTrack \/ StartTrack \/ StartTrackFails \/ Returns
  \/ StopTrack \/ JoinTrack \/ StopWriter \/ CloseBroken \/ Close

Next ==
  /\ ~aborted
  /\ \/ \E t \in TrackSet : TrackStep(t)
     \/ \E i \in DOMAIN writers : WriterStep(i)
     \/ CallStep
     \/ Start \/ StartAgain \/ Pause \/ Stop

Spec == Init /\ [][Next]_vars

(***************************************************************************)
(* Properties.                                                             *)
(***************************************************************************)
(* The written tables read as a player reads them.  An stsc entry          *)
(* <<first chunk, samples per chunk, 1>> holds up to the next one.         *)
PerChunk(stsc, chunk) ==
  LET entries == {i \in 1 .. Len(stsc) \div 3 : stsc[3 * i - 2] <= chunk}
  IN  stsc[3 * (CHOOSE i \in entries : \A j \in entries : j <= i) - 1]

SamplesBefore(tables, chunk) ==
  LET Sum[c \in 1 .. chunk] == IF c = 1 THEN 0 ELSE Sum[c - 1] + PerChunk(tables.stsc, c - 1)
  IN  Sum[chunk]

SampleOffset(tables, n) ==
  LET chunk == CHOOSE c \in DOMAIN tables.stco :
                 /\ SamplesBefore(tables, c) < n
                 /\ n <= SamplesBefore(tables, c) + PerChunk(tables.stsc, c)
      Size[i \in SamplesBefore(tables, chunk) .. n - 1] ==
        IF i = SamplesBefore(tables, chunk) THEN 0 ELSE Size[i - 1] + tables.stsz[i]
  IN  tables.stco[chunk] + Size[n - 1]

(* After a start() that failed at a track a recording may be started again *)
(* (start() looks at mStarted only): then two writers may write at once,   *)
(* and a track that has a thread again goes on in the tables of the first  *)
(* with its counts begun anew.  What the file then holds is not claimed.   *)
Once == Len(writers) < 2 /\ \A t \in TrackSet : ~ctl[t].again

(* In the file of a recording and of tracks started once the tables of a   *)
(* track name exactly the samples it kept, and each lies where its chunk   *)
(* offset and the sizes before it say, whatever the order in which the two *)
(* tracks' chunks were written (addOneStscTableEntry(), addChunkOffset(),  *)
(* writeChunkToFile()).                                                    *)
SamplesWhereTablesSay ==
  file.closed /\ Once =>
    \A t \in TrackSet :
      LET tables == file.tables[t]
          kept   == taken[t]
      IN  /\ Len(tables.stsz) = Len(kept)
          /\ Len(kept) > 0 => SamplesBefore(tables, Len(tables.stco) + 1) = Len(kept)
          /\ \A n \in DOMAIN kept :
               \E i \in DOMAIN mdat :
                 mdat[i] = [track |-> t, n |-> kept[n].n, at |-> SampleOffset(tables, n),
                            len |-> tables.stsz[n]]

(* The sum of the durations of the samples before the n-th one.            *)
TimeOf(stts, n) ==
  LET entries   == 0 .. Len(stts) \div 2
      Upto[i \in entries] == IF i = 0 THEN 0 ELSE Upto[i - 1] + stts[2 * i - 1]
      least(a, b) == IF a < b THEN a ELSE b
      Time[i \in entries] ==
        IF i = 0 THEN 0
        ELSE Time[i - 1] + (least(n, Upto[i]) - least(n, Upto[i - 1])) * stts[2 * i]
  IN  Time[Len(stts) \div 2]

PairSum(pairs) ==
  LET Sum[i \in 0 .. Len(pairs) \div 2] == IF i = 0 THEN 0 ELSE Sum[i - 1] + pairs[2 * i - 1]
  IN  Sum[Len(pairs) \div 2]

(* The durations of a closed file add up to the samples' own times, with   *)
(* no rounding error left over, and count every sample once, as the        *)
(* composition offsets do (the runs built in threadEntry()).               *)
TimesSurviveTables ==
  file.closed /\ Once =>
    \A t \in TrackSet : taken[t] # <<>> =>
      LET tables == file.tables[t]
          kept   == taken[t]
      IN  /\ PairSum(tables.stts) = Len(kept)
          /\ tables.ctts # <<>> => PairSum(tables.ctts) = Len(kept)
          /\ \A n \in 2 .. Len(kept) :
               TimeOf(tables.stts, n - 1)
                 = Ticks(t, kept[n].us) - Ticks(t, kept[1].us) + file.offset[t]

(* The time a source lets pass between two frames.                         *)
Spacing(t) ==
  LET gaps == {Source[t][i + 1].us - Source[t][i].us : i \in 1 .. Len(Source[t]) - 1}
  IN  CHOOSE g \in gaps : \A h \in gaps : h <= g

(* A recording that was paused and resumed plays without a gap and without *)
(* going back: the time spent paused is cut out (mResumed in               *)
(* threadEntry()), while nothing else was dropped.  A CHECK stops the      *)
(* program before a time becomes negative.                                 *)
PausesLeaveNoGap ==
  ~aborted /\ Once =>
    \A t \in {u \in TrackSet : IsAudio(u) \/ conf.drop > SumLens(Source[u])} :
    \A n \in 1 .. Len(taken[t]) - 1 :
      LET gap == taken[t][n + 1].us - taken[t][n].us
      IN  gap >= 0 /\ gap <= Spacing(t)

(* The times a player computes of what was started once are those the      *)
(* sources gave, less the pauses.                                          *)
TimesAreTrue == TimesSurviveTables /\ PausesLeaveNoGap

(* The boxes of a closed file nest, and fill the file and each other:      *)
(* where a box ends another begins, or the box around it ends, or the      *)
(* file, whether the movie box went to the space reserved for it, outgrew  *)
(* it half way through, or was meant for the end (write() and endBox()).   *)
(* A recording started again leaves an mdat whose size nobody sets, and is *)
(* left out.                                                               *)
FileWellFormed ==
  file.closed /\ Len(writers) < 2 =>
    LET boxes == file.boxes
        end(b) == b.at + b.size
    IN  /\ file.open = <<>>
        /\ \A b \in boxes : b.size >= 8 /\ end(b) <= file.end
        /\ \A b, c \in boxes : b = c \/ end(b) <= c.at \/ end(c) <= b.at
                               \/ (b.at < c.at /\ end(c) <= end(b))
                               \/ (c.at < b.at /\ end(b) <= end(c))
        /\ \A b \in boxes : \/ end(b) = file.end
                            \/ \E c \in boxes : c.at = end(b) \/ (c.at < b.at /\ end(c) = end(b))
        /\ \A i \in DOMAIN mdat :
             \E b \in boxes : b.name = "mdat" /\ b.at < mdat[i].at
                              /\ mdat[i].at + mdat[i].len <= end(b)

\* who can take a step, by the guards of the actions
TrackCanGo(t) ==
  \/ loc[t].at \in {"read", "tail", "finish"}
  \/ loc[t].at = "admit" /\ (IsAudio(t) \/ LockFree)
  \/ loc[t].at \in {"stamp", "buffer"} /\ LockFree
WriterCanGo == \E i \in DOMAIN writers : writers[i] \in {"loop", "write"}
CallCanGo ==
  CASE call.join -> loc[Track].at = "exited"
    [] ~call.join /\ call.op = "stop" /\ call.at > call.upto -> LockFree
    [] ~call.join /\ call.op = "close" -> Newest = "exited"
    [] OTHER -> TRUE

SomebodyCanGo == CallCanGo \/ WriterCanGo \/ \E t \in TrackSet : TrackCanGo(t)

Running(t) == loc[t].at \notin {"none", "exited"}
StartsThread == AtTrack({"start"}) /\ (ctl[Track].mDone \/ ~ctl[Track].mPaused)

\* stop() joins the newest of several writers, and another was woken
SignalLost == done /\ Len(writers) > 1 /\ Newest = "parked"

(* While a call is under way somebody can take a step: stop() joins        *)
(* threads that leave their loops, also while paused, and nobody waits for *)
(* a chunk that nobody will announce.  No step undoes another and sources  *)
(* end, so every call returns if no CHECK fails, but for one: after a      *)
(* start() that failed at a track, the next one makes a second writer;     *)
(* stop() sends one signal, and when the first writer takes it, waits for  *)
(* the second for ever.  Whatever was started, paused or failed before,    *)
(* start() gives a thread only to a track that has none running, and no    *)
(* track's thread is left when the writers are told to end, so that        *)
(* bufferChunk()'s CHECK(!mDone) holds and no chunk is lost.               *)
CallsReturn ==
  /\ call.op = "none" \/ aborted \/ SomebodyCanGo \/ SignalLost
  /\ StartsThread => ~Running(Track)
  /\ done => \A t \in TrackSet : ~Running(t)
==============================================================================
