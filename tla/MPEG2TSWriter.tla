--------------------------- MODULE MPEG2TSWriter ---------------------------
(***************************************************************************)
(* The transport stream writer of src/libstagefright/MPEG2TSWriter.cpp:    *)
(* each source is read on a looper of its own, one access unit at a time;  *)
(* the unit is assembled in the source's mBuffer and announced to the      *)
(* writer's looper, which writes it and asks the source for the next one;  *)
(* the owner starts, resets and frees the writer.  A looper is its queue   *)
(* and the message its thread is handling (ALooper and ALooperRoster have  *)
(* the detail): messages to an id that is not registered are dropped.      *)
(***************************************************************************)
EXTENDS Naturals, Sequences, FiniteSets

CONSTANTS
  NumSources,
  MaxFrames,      \* bound: access units a source delivers
  MaxStarts,      \* bound: calls of start()
  NULL

Sources == 1 .. NumSources

VARIABLES
  mStarted, mNumSourcesDone,
  mEOSReceived,   \* the sources that have reported their end
  mID,            \* the id each SourceInfo is registered under, 0 if none
  mBuffer,        \* the contents of the ABuffers a source has allocated, the
                  \* last of which is its mBuffer: numbers of access units
  primed,         \* sources whose codec specific data has been read
  running,        \* the sources whose looper runs
  inbox, handles, \* a source's looper: its queue, and what is being handled
  notes, handled, \* the writer's looper: the same
  owner,          \* [call, at]: the owner's call, and the source it is at
  media,          \* each MediaSource: "new", "started", "stopped"
  starts,         \* start() calls so far
  frames,         \* access units each source has delivered
  written,        \* history: what was written of each source
  changed,        \* history: sources that reported INFO_FORMAT_CHANGED
  misused,        \* history: MediaSources called when they must not be
  aborted         \* a CHECK failed

sourceVars == <<mBuffer, primed, handles, media, frames, changed, misused>>
writerVars == <<mNumSourcesDone, mEOSReceived, handled, written, aborted>>
ownerVars == <<mStarted, mID, running, owner, starts>>
vars == <<sourceVars, writerVars, ownerVars, inbox, notes>>

Idle == [call |-> "none", at |-> 0]

Init ==
  /\ mStarted = FALSE /\ mNumSourcesDone = 0 /\ mEOSReceived = {}
  /\ mID = [s \in Sources |-> 0] /\ mBuffer = [s \in Sources |-> <<>>]
  /\ primed = {} /\ running = {}
  /\ inbox = [s \in Sources |-> <<>>] /\ handles = [s \in Sources |-> NULL]
  /\ notes = <<>> /\ handled = NULL
  /\ owner = Idle /\ media = [s \in Sources |-> "new"] /\ starts = 0
  /\ frames = [s \in Sources |-> 0] /\ written = [s \in Sources |-> <<>>]
  /\ changed = {} /\ misused = {} /\ aborted = FALSE

(* A message for the SourceInfo under its present id; with none it is lost. *)
Post(s, what) ==
  inbox' = IF mID[s] = 0 THEN inbox
           ELSE [inbox EXCEPT ![s] = Append(@, [what |-> what, target |-> mID[s]])]

Notify(s, what, buffer) ==
  notes' = Append(notes, [what |-> what, source |-> s, buffer |-> buffer])
----------------------------------------------------------------------------
(* A source's looper *)

SourceTakes(s) ==
  /\ s \in running /\ handles[s] = NULL /\ inbox[s] # <<>> /\ ~aborted
  /\ inbox' = [inbox EXCEPT ![s] = Tail(@)]
  /\ handles' = [handles EXCEPT ![s] =
                   IF Head(inbox[s]).target = mID[s] THEN Head(inbox[s]).what ELSE NULL]
  /\ UNCHANGED <<mBuffer, primed, media, frames, changed, misused, writerVars, ownerVars, notes>>

Handling(s, what) == handles[s] = what /\ ~aborted /\ handles' = [handles EXCEPT ![s] = NULL]

(* kWhatStart: mSource->start(), and the first read unless it failed.      *)
StartSource(s) ==
  /\ Handling(s, "start")
  /\ media' = [media EXCEPT ![s] = "started"]
  /\ \/ Post(s, "read") /\ UNCHANGED notes
     \/ Notify(s, "end", 0) /\ UNCHANGED inbox
  /\ UNCHANGED <<mBuffer, primed, frames, changed, misused, writerVars, ownerVars>>

(* kWhatRead: mSource->read(), which may block, and then one of ...        *)
Reads(s) ==
  /\ Handling(s, "read")
  /\ misused' = IF media[s] = "started" THEN misused ELSE misused \cup {s}
  /\ UNCHANGED <<media, writerVars, ownerVars>>

(* ... the end of the stream or an error,                                  *)
ReadEnds(s) ==
  /\ Reads(s) /\ Notify(s, "end", 0)
  /\ UNCHANGED <<mBuffer, primed, frames, changed, inbox>>

(* ... INFO_FORMAT_CHANGED, after which nothing asks for more,             *)
ReadChangesFormat(s) ==
  /\ Reads(s) /\ changed' = changed \cup {s}
  /\ UNCHANGED <<mBuffer, primed, frames, inbox, notes>>

(* ... the codec specific data or an empty buffer,                         *)
ReadNothing(s) ==
  /\ Reads(s) /\ primed' = primed \cup {s} /\ Post(s, "read")
  /\ UNCHANGED <<mBuffer, frames, changed, notes>>

(* ... or an access unit: it is assembled in mBuffer, or in a new one when *)
(* it does not fit, and announced.                                         *)
ReadsAgain(s) == Post(s, "read")      \* mutant of AwaitsWriter: reads ahead
AwaitsWriter(s) == UNCHANGED inbox

ReadFrame(s) ==
  /\ s \in primed /\ frames[s] < MaxFrames
  /\ Reads(s) /\ frames' = [frames EXCEPT ![s] = @ + 1]
  /\ \/ mBuffer' = [mBuffer EXCEPT ![s] = Append(@, frames'[s])]
     \/ /\ mBuffer[s] # <<>>
        /\ mBuffer' = [mBuffer EXCEPT ![s][Len(mBuffer[s])] = frames'[s]]
  /\ Notify(s, "buffer", Len(mBuffer'[s]))
  /\ AwaitsWriter(s)
  /\ UNCHANGED <<primed, changed>>
----------------------------------------------------------------------------
(* The writer's looper.  Its handler is a reflector that drops what comes  *)
(* once the writer is being destroyed.                                     *)

Reflects == owner.call \notin {"free", "freed"}

WriterTakes ==
  /\ handled = NULL /\ notes # <<>> /\ owner.call # "freed" /\ ~aborted
  /\ notes' = Tail(notes)
  /\ handled' = IF Reflects THEN Head(notes) ELSE NULL
  /\ UNCHANGED <<mNumSourcesDone, mEOSReceived, written, aborted, sourceVars, ownerVars, inbox>>

(* kNotifyReachedEOS and kNotifyStartFailed: setEOSReceived() demands that *)
(* the source has not ended before.                                        *)
Twice(n) == n + 2       \* mutant of OneMore: the end is counted twice
OneMore(n) == n + 1

SourceEnded ==
  /\ handled # NULL /\ handled.what = "end" /\ handled' = NULL /\ ~aborted
  /\ IF handled.source \in mEOSReceived
       THEN aborted' = TRUE /\ UNCHANGED <<mEOSReceived, mNumSourcesDone>>
       ELSE /\ mEOSReceived' = mEOSReceived \cup {handled.source}
            /\ mNumSourcesDone' = OneMore(mNumSourcesDone)
            /\ UNCHANGED aborted
  /\ UNCHANGED <<written, sourceVars, ownerVars, inbox, notes>>

(* kNotifyBuffer: the unit is written, and the source may read on.         *)
NoReadMore(s) == UNCHANGED inbox      \* mutant of ReadMore: the source is not told
ReadMore(s) == Post(s, "read")

WriteAccessUnit ==
  /\ handled # NULL /\ handled.what = "buffer" /\ handled' = NULL /\ ~aborted
  /\ LET s == handled.source IN
       /\ written' = [written EXCEPT ![s] = Append(@, mBuffer[s][handled.buffer])]
       /\ ReadMore(s)
  /\ UNCHANGED <<mNumSourcesDone, mEOSReceived, aborted, sourceVars, ownerVars, notes>>
----------------------------------------------------------------------------
(* The owner *)

Calls(call) == owner = Idle /\ ~aborted /\ owner' = [call |-> call, at |-> 1]
NextSource == owner' = [owner EXCEPT !.at = @ + 1]
At(call, s) == owner = [call |-> call, at |-> s] /\ ~aborted

Start ==
  /\ Calls("start") /\ ~mStarted /\ starts < MaxStarts
  /\ mStarted' = TRUE /\ mNumSourcesDone' = 0 /\ starts' = starts + 1
  /\ UNCHANGED <<mID, running, mEOSReceived, handled, written, aborted, sourceVars, inbox, notes>>

(* SourceInfo::start(): a fresh id, and the message that starts the source. *)
StartNext(s) ==
  /\ At("start", s) /\ NextSource
  /\ mID' = [mID EXCEPT ![s] = starts] /\ running' = running \cup {s}
  /\ inbox' = [inbox EXCEPT ![s] = Append(@, [what |-> "start", target |-> starts])]
  /\ UNCHANGED <<mStarted, starts, writerVars, sourceVars, notes>>

Reset ==
  /\ Calls("reset") /\ mStarted
  /\ UNCHANGED <<mStarted, mID, running, starts, writerVars, sourceVars, inbox, notes>>

(* The last reference goes, which the writer's thread does not hold.       *)
Free ==
  /\ Calls("free") /\ handled = NULL
  /\ UNCHANGED <<mStarted, mID, running, starts, writerVars, sourceVars, inbox, notes>>

(* SourceInfo::stop(): unregister, ...                                     *)
Unregister(s) ==
  /\ \/ At("reset", s)
     \/ At("free", s) /\ mStarted
  /\ mID[s] # 0 /\ mID' = [mID EXCEPT ![s] = 0]
  /\ UNCHANGED <<mStarted, running, owner, starts, writerVars, sourceVars, inbox, notes>>

(* ... stop the looper, whose thread returns from what it handles first,   *)
(* and then the source.                                                    *)
StopsAnyway(s) == TRUE      \* mutant of ThreadLeft: mLooper->stop() does not join
ThreadLeft(s) == handles[s] = NULL

StopNext(s) ==
  /\ \/ At("reset", s)
     \/ At("free", s) /\ mStarted
  /\ mID[s] = 0 /\ ThreadLeft(s) /\ NextSource
  /\ running' = running \ {s} /\ media' = [media EXCEPT ![s] = "stopped"]
  /\ UNCHANGED <<mStarted, mID, starts, writerVars, inbox, notes, mBuffer, primed,
                 handles, frames, changed, misused>>

Returns ==
  /\ owner.call \in {"start", "reset"} /\ owner.at > NumSources
  /\ owner' = Idle /\ mStarted' = (owner.call = "start")
  /\ UNCHANGED <<mID, running, starts, writerVars, sourceVars, inbox, notes>>

Freed ==
  /\ owner.call = "free" /\ (owner.at > NumSources \/ ~mStarted)
  /\ owner' = [call |-> "freed", at |-> 0] /\ mStarted' = FALSE
  /\ UNCHANGED <<mID, running, starts, writerVars, sourceVars, inbox, notes>>
----------------------------------------------------------------------------
Source(s) ==
  \/ SourceTakes(s) \/ StartSource(s)
  \/ ReadEnds(s) \/ ReadChangesFormat(s) \/ ReadNothing(s) \/ ReadFrame(s)
Writer == WriterTakes \/ SourceEnded \/ WriteAccessUnit
Proceed == (\E s \in Sources : StartNext(s) \/ Unregister(s) \/ StopNext(s)) \/ Returns \/ Freed
Owner == Start \/ Reset \/ Free

Next == (\E s \in Sources : Source(s)) \/ Writer \/ Proceed \/ Owner

Spec == Init /\ [][Next]_vars

(* The threads are scheduled, reads return, and a stream that is read on   *)
(* and on comes to its end.                                                *)
FairSpec ==
  /\ Spec /\ WF_vars(Writer) /\ WF_vars(Proceed)
  /\ \A s \in Sources : WF_vars(Source(s)) /\ SF_vars(ReadEnds(s))
----------------------------------------------------------------------------
(* Properties *)

Note == [what : {"buffer", "end"}, source : Sources, buffer : Nat]
Ask == [what : {"start", "read"}, target : 1 .. MaxStarts]

(* Every variable stays in its domain.                                     *)
TypeOK ==
  /\ {mStarted, aborted} \subseteq BOOLEAN /\ mNumSourcesDone \in 0 .. NumSources
  /\ mEOSReceived \cup primed \cup running \cup changed \cup misused \subseteq Sources
  /\ mID \in [Sources -> 0 .. MaxStarts]
  /\ {mBuffer, written} \subseteq [Sources -> Seq(1 .. MaxFrames)]
  /\ inbox \in [Sources -> Seq(Ask)] /\ handles \in [Sources -> {NULL, "start", "read"}]
  /\ notes \in Seq(Note) /\ handled \in Note \cup {NULL}
  /\ owner.call \in {"none", "start", "reset", "free", "freed"}
  /\ owner.at \in 0 .. NumSources + 1
  /\ media \in [Sources -> {"new", "started", "stopped"}]
  /\ starts \in 0 .. MaxStarts /\ frames \in [Sources -> 0 .. MaxFrames]

(* What is written of a source are its access units, each once, whole and  *)
(* in order, although they all pass through one buffer.                    *)
FramesIntact == \A s \in Sources : written[s] = [i \in 1 .. Len(written[s]) |-> i]

ReachedEOS == mStarted /\ mNumSourcesDone = NumSources

(* When a started writer's reachedEOS() says so, every source has ended    *)
(* and every access unit it delivered has been written.                    *)
EOSMeansWritten ==
  ReachedEOS => \A s \in Sources : s \in mEOSReceived /\ Len(written[s]) = frames[s]

(* "It is an error to call any methods other than start after this call    *)
(* [stop()] returns": no source is read before its start or after its stop. *)
ReadsWhenStarted == misused = {}

(* Each source of a started writer reaches its end, unless the writer is   *)
(* reset or the source changes its format: the reads and the notifications *)
(* that answer each other never die out.                                   *)
SourcesEnd ==
  \A s \in Sources : mStarted ~> (s \in mEOSReceived \/ s \in changed \/ ~mStarted)

(* setEOSReceived(): "CHECK(!mEOSReceived)".  No source reports its end    *)
(* twice, which takes two reads under way at once.                         *)
EndsOnce == ~aborted
----------------------------------------------------------------------------
(* The inductive invariant behind FramesIntact, EOSMeansWritten,           *)
(* ReadsWhenStarted and EndsOnce *)

(* A writer is started once: started again it does not forget which of its *)
(* sources have ended.                                                     *)
StartedOnce ==
  /\ NumSources \in Nat /\ MaxStarts \in {0, 1}
  /\ NULL \notin {"start", "read"} \cup Note

Message == [what : {"start", "read"}, target : {1}]

(* The types that do not follow from anything else.                        *)
Domains ==
  /\ mEOSReceived \subseteq Sources /\ running \subseteq Sources
  /\ mID \in [Sources -> {0, 1}] /\ starts \in {0, 1}
  /\ mBuffer \in [Sources -> Seq(Nat)] /\ written \in [Sources -> Seq(Nat)]
  /\ frames \in [Sources -> Nat] /\ media \in [Sources -> {"new", "started", "stopped"}]
  /\ inbox \in [Sources -> Seq(Message)]
  /\ handles \in [Sources -> {NULL, "start", "read"}]
  /\ notes \in Seq(Note) /\ handled \in Note \cup {NULL}
  /\ owner \in [call : {"none", "start", "reset", "free", "freed"}, at : Nat]

Asked(s) == inbox[s] # <<>> \/ handles[s] # NULL
Reading(s) == s \in running => media[s] = "started"

(* What a source that is asked to start or to read is at: all it delivered *)
(* is written.                                                             *)
AskingAt(s) ==
  /\ Asked(s) => s \notin mEOSReceived /\ Len(written[s]) = frames[s]
  /\ Len(inbox[s]) <= 1 /\ (inbox[s] = <<>> \/ handles[s] = NULL)
  /\ inbox[s] # <<>> /\ Head(inbox[s]).what = "read" => Reading(s)
  /\ handles[s] = "read" => Reading(s)
  /\ handles[s] # NULL \/ mID[s] # 0 => s \in running
  /\ s \in mEOSReceived => Len(written[s]) = frames[s]
Asking == \A s \in Sources : AskingAt(s)

(* What the source of a notification is at: it is not asked for more until *)
(* the writer has handled it, and its last unit is in the buffer.          *)
Told(n) ==
  /\ ~Asked(n.source) /\ n.source \notin mEOSReceived
  /\ n.what = "end" => Len(written[n.source]) = frames[n.source]
  /\ n.what = "buffer" =>
       /\ Len(written[n.source]) + 1 = frames[n.source] /\ Reading(n.source)
       /\ n.buffer \in 1 .. Len(mBuffer[n.source])
       /\ mBuffer[n.source][n.buffer] = frames[n.source]

Telling ==
  /\ \A i \in 1 .. Len(notes) : Told(notes[i])
  /\ \A i, j \in 1 .. Len(notes) : notes[i].source = notes[j].source => i = j
  /\ handled # NULL =>
       Told(handled) /\ \A i \in 1 .. Len(notes) : notes[i].source # handled.source

(* A source that start() has not come to yet has done nothing.             *)
Fresh(s) == starts = 0 \/ (owner.call = "start" /\ owner.at <= s)

Untouched(s) ==
  /\ mID[s] = 0 /\ s \notin running /\ media[s] = "new" /\ ~Asked(s)
  /\ frames[s] = 0 /\ written[s] = <<>> /\ s \notin mEOSReceived
  /\ \A i \in 1 .. Len(notes) : notes[i].source # s
  /\ handled # NULL => handled.source # s
FreshIsUntouched == \A s \in Sources : Fresh(s) => Untouched(s)

Begun ==
  /\ mStarted \/ owner.call \in {"start", "reset"} => starts = 1
  /\ owner.call = "start" => owner.at > 0

EndsAreCounted == mNumSourcesDone = Cardinality(mEOSReceived)

IInv ==
  /\ Domains /\ Asking /\ Telling /\ FreshIsUntouched /\ Begun /\ EndsAreCounted
  /\ FramesIntact /\ ReadsWhenStarted /\ EndsOnce
=============================================================================
