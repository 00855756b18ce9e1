------------------------------ MODULE MCQueues ------------------------------
(***************************************************************************)
(* What one thread writes and another reads, in three parts that do not    *)
(* call each other: the callback dispatcher, a packet source, and the      *)
(* transport stream writer.  A behaviour is one of one part, the others    *)
(* off.                                                                    *)
(***************************************************************************)
EXTENDS CallbackDispatcher, TLC

CONSTANTS
  r1, NULL,
  NumSources, MaxFrames   \* of MPEG2TSWriter

VARIABLE part

DispatcherOff == Init
----------------------------------------------------------------------------
\* One reader of a short queue, as each elementary stream has
VARIABLES source, blocked, waiting, byRead
packetVars == <<source, blocked, waiting, byRead>>

MCReaders == {r1}

Packets == INSTANCE AnotherPacketSource WITH
  Readers <- MCReaders, MaxTime <- 1, MaxQueue <- 3, MaxCount <- 5, CountModulus <- 16

PacketsOff == source = 0 /\ blocked = 0 /\ waiting = 0 /\ byRead = 0
----------------------------------------------------------------------------
\* The transport stream writer, started once
VARIABLES mStarted, mNumSourcesDone, mEOSReceived, mID, mBuffer, primed, running, inbox,
          handles, notes, handling, owning, media, starts, frames, written, changed,
          misused, aborted
writerVars == <<mStarted, mNumSourcesDone, mEOSReceived, mID, mBuffer, primed, running, inbox,
                handles, notes, handling, owning, media, starts, frames, written, changed,
                misused, aborted>>

TS == INSTANCE MPEG2TSWriter WITH MaxStarts <- 1, handled <- handling, owner <- owning

ASSUME QueuesAssumption == TS!StartedOnce

WriterOff ==
  /\ mStarted = FALSE /\ mNumSourcesDone = 0 /\ mEOSReceived = {} /\ mID = 0 /\ mBuffer = 0
  /\ primed = 0 /\ running = 0 /\ inbox = 0 /\ handles = 0 /\ notes = 0 /\ handling = 0
  /\ owning = 0 /\ media = 0 /\ starts = 0 /\ frames = 0 /\ written = 0 /\ changed = {}
  /\ misused = 0 /\ aborted = 0
----------------------------------------------------------------------------
MCInit ==
  \/ part = "dispatcher" /\ Init /\ PacketsOff /\ WriterOff
  \/ part = "packets" /\ DispatcherOff /\ Packets!Init /\ WriterOff
  \/ part = "writer" /\ DispatcherOff /\ PacketsOff /\ TS!Init

InDispatcher == part = "dispatcher" /\ UNCHANGED <<part, packetVars, writerVars>>
InPackets == part = "packets" /\ UNCHANGED <<part, vars, writerVars>>
InWriter == part = "writer" /\ UNCHANGED <<part, vars, packetVars>>

MCNext ==
  \/ InDispatcher /\ Next
  \/ InPackets /\ Packets!Next
  \/ InWriter /\ TS!Next

all == <<part, vars, packetVars, writerVars>>

(* The fairness of each part, as in its FairSpec.                          *)
MCSpec ==
  /\ MCInit /\ [][MCNext]_all
  /\ WF_all(InDispatcher /\ Loop) /\ WF_all(InDispatcher /\ Component)
  /\ WF_all(InDispatcher /\ Joins)
  /\ WF_all(InPackets /\ Packets!Reads(r1))
  /\ WF_all(InWriter /\ TS!Writer) /\ WF_all(InWriter /\ TS!Proceed)
  /\ \A s \in TS!Sources : WF_all(InWriter /\ TS!Source(s)) /\ SF_all(InWriter /\ TS!ReadEnds(s))

(* BookkeepingMatches: what an AnotherPacketSource keeps beside its queue  *)
(* agrees with the queue.                                                  *)
BookkeepingMatches == part = "packets" => Packets!BookkeepingMatches

(* ReaderReturns: a blocked reader returns when there is something to take *)
(* or the stream has ended.                                                *)
ReaderReturns == []<>(part = "packets" => r1 \notin blocked \/ Packets!MustWait(source))

(* UnitsAreWritten: MPEG2TSWriter writes each access unit once, whole and  *)
(* in order, all of them before it reports the end, and reads a source     *)
(* only while it is started and not past its end.                          *)
UnitsAreWritten ==
  part = "writer" =>
    /\ TS!FramesIntact /\ TS!EOSMeansWritten /\ TS!ReadsWhenStarted /\ TS!EndsOnce
    /\ TS!IInv

(* SourcesEnd: the reads and notifications of MPEG2TSWriter go on to the   *)
(* end of each source.                                                     *)
SourcesEnd ==
  \A s \in TS!Sources :
    part = "writer" /\ mStarted ~> (s \in mEOSReceived \/ s \in changed \/ ~mStarted)
=============================================================================
