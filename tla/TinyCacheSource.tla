-------------------------- MODULE TinyCacheSource --------------------------
(***************************************************************************)
(* A file, or a part of one, read through a small cache.  readAt() looks   *)
(* at the cache, then reads the file into the cache or past it, and says   *)
(* at last what the cache holds; FileSource has a lock around its part of  *)
(* that and TinyCacheSource has none, so that the steps of FileReaders, if *)
(* there are two at once, mix.                                             *)
(***************************************************************************)
EXTENDS Integers, SequencesExt, TLC

CONSTANTS
  FileReaders,    \* threads that read at once
  Bytes,          \* of the file, in their order
  FileSources,    \* where in the file a source begins, and its length
  kCacheSize,
  Requests        \* records of an offset and a size

VARIABLES
  source, mCache, mCachedOffset, mCachedSize,
  reads           \* of each reader: what it is at, what it has, and the answer

vars == <<source, mCache, mCachedOffset, mCachedSize, reads>>

Less(a, b) == IF a <= b THEN a ELSE b
Nothing == <<>>
NotRead == -1

Init ==
  /\ source \in FileSources
  /\ mCache = [i \in 1 .. kCacheSize |-> NotRead] /\ mCachedOffset = 0 /\ mCachedSize = 0
  /\ reads = [r \in FileReaders |-> [pc |-> "idle"]]
----------------------------------------------------------------------------
(* FileSource::readAt(): the file may be shorter than the source is said   *)
(* to be, and mLength is -1 when it could not be found out.                *)
FileRead(offset, size) ==
  LET most == IF source.mLength < 0 THEN size ELSE Less(size, source.mLength - offset)
      from == source.mOffset + offset
  IN  IF source.mLength >= 0 /\ offset >= source.mLength THEN Nothing
      ELSE SubSeq(Bytes, from + 1, Less(from + most, Len(Bytes)))

CacheEnd == mCachedOffset + mCachedSize
\* mutant of Cached: from the front of the cache
CachedFront(offset, size) == SubSeq(mCache, 1, size)
Cached(offset, size) == SubSeq(mCache, offset - mCachedOffset + 1, offset - mCachedOffset + size)

Asks(r, pc, offset, size, data) ==
  reads' = [reads EXCEPT ![r] = [pc |-> pc, offset |-> offset, size |-> size, data |-> data,
                                 at |-> offset + Len(data), rest |-> size - Len(data)]]

(* The first look.  A read that the cache satisfies in part goes on behind *)
(* the cache, where it is not satisfied again.                             *)
ReadAt(r, offset, size) ==
  LET hit  == mCachedOffset <= offset /\ offset < CacheEnd
      data == IF hit THEN Cached(offset, Less(size, CacheEnd - offset)) ELSE Nothing
  IN  /\ reads[r].pc \in {"idle", "done", "failed"}
      /\ Asks(r, IF hit /\ Len(data) = size THEN "done"
                 ELSE IF size - Len(data) >= kCacheSize THEN "past" ELSE "fill", offset, size, data)
      /\ UNCHANGED <<source, mCache, mCachedOffset, mCachedSize>>

(* A large read leaves the cache alone.                                    *)
ReadPast(r) ==
  /\ reads[r].pc = "past"
  /\ \/ reads' = [reads EXCEPT ![r].pc = "done", ![r].data = @ \o FileRead(reads[r].at, reads[r].rest)]
     \/ reads' = [reads EXCEPT ![r].pc = "failed"]
  /\ UNCHANGED <<source, mCache, mCachedOffset, mCachedSize>>

Fill(r) ==
  /\ reads[r].pc = "fill"
  /\ \/ LET new == FileRead(reads[r].at, kCacheSize) IN
        /\ mCache' = new \o SubSeq(mCache, Len(new) + 1, kCacheSize)
        /\ reads' = [reads EXCEPT ![r].pc = IF new = Nothing THEN "flush" ELSE "filled",
                                  ![r] = @ @@ [numRead |-> Len(new)]]
     \/ reads' = [reads EXCEPT ![r].pc = "error"] /\ UNCHANGED mCache
  /\ UNCHANGED <<source, mCachedOffset, mCachedSize>>

(* Flush the cache on an error, and at the end of the file.                *)
Flush(r) ==
  /\ reads[r].pc \in {"flush", "error"}
  /\ mCachedSize' = 0 /\ mCachedOffset' = 0
  /\ reads' = [reads EXCEPT ![r].pc = IF @ = "flush" THEN "done" ELSE "failed"]
  /\ UNCHANGED <<source, mCache>>

Filled(r) ==
  /\ reads[r].pc = "filled"
  /\ mCachedSize' = reads[r].numRead /\ mCachedOffset' = reads[r].at
  /\ reads' = [reads EXCEPT ![r].pc = "done",
                            ![r].data = @ \o SubSeq(mCache, 1, Less(reads[r].rest, reads[r].numRead))]
  /\ UNCHANGED <<source, mCache>>

Next ==
  \E r \in FileReaders :
    \/ \E request \in Requests : ReadAt(r, request.offset, request.size)
    \/ ReadPast(r) \/ Fill(r) \/ Flush(r) \/ Filled(r)

Spec == Init /\ [][Next]_vars
----------------------------------------------------------------------------
(* A read that does not fail gives the bytes of the source from its        *)
(* offset, as many as were asked for or as there are, whatever was read    *)
(* and failed before (TinyCacheSource::readAt()).                          *)
There(i) ==
  /\ source.mOffset + i < Len(Bytes)
  /\ source.mLength < 0 \/ i < source.mLength
ReadsAreOfTheFile ==
  \A r \in FileReaders : reads[r].pc = "done" =>
    /\ \A i \in 1 .. Len(reads[r].data) :
         reads[r].data[i] = Bytes[source.mOffset + reads[r].offset + i]
    /\ \A i \in 0 .. reads[r].size - 1 :
         There(reads[r].offset + i) <=> i < Len(reads[r].data)
    /\ Len(reads[r].data) <= reads[r].size
=============================================================================
