----------------------------- MODULE SampleTable -----------------------------
(***************************************************************************)
(* The sample tables of a track and the cursors that read them:            *)
(* SampleTable and SampleIterator of src/libstagefright.  The tables stay  *)
(* in the file; lookups move the iterator, the composition offset cursor   *)
(* and the sync sample cursor, all of them shared by every source of the   *)
(* track and used under the table's mLock, so that each lookup is atomic.  *)
(*                                                                         *)
(* A box of a table is [at, size, hdr, version, count, entries]: its place *)
(* in the file, its header's bytes, and what it says and holds.  Sample    *)
(* and chunk indices count from 0, as in the code.                         *)
(***************************************************************************)
EXTENDS Integers, Sequences, SequencesExt

CONSTANTS
  Forever,        \* 0xffffffff, the end of the last run of chunks
  Word,           \* 2^32: the modulus of 32 bit products and offsets
  SizeT           \* bytes read for one 32 bit sample size: sizeof(size_t)

DataSize(box) == box.size - box.hdr
(* Are the first n bytes of the box's data in a file of the given length?  *)
Has(fileSize, box, n) == box.at + box.hdr + n <= fileSize

(* A table that is not there is <<>>.  "set" holds the boxes as found; the *)
(* rest are the cursors.                                                   *)
NoTables == [stco |-> <<>>, stsc |-> <<>>, stsz |-> <<>>, stts |-> <<>>, ctts |-> <<>>, stss |-> <<>>]

Unread ==
  [mInitialized |-> FALSE, current |-> 0,
   chunkIx |-> 0, firstChunk |-> 0, firstSample |-> 0, stopChunk |-> 0, stopSample |-> 0, perChunk |-> 0,
   chunk |-> 0, chunkOffset |-> 0, sizes |-> <<>>, offset |-> 0, size |-> 0,
   ttsIx |-> 0, ttsSample |-> 0, ttsTime |-> 0, ttsCount |-> 0, ttsDuration |-> 0, time |-> 0]

NewTable(fileSize) ==
  [fileSize |-> fileSize, set |-> NoTables, it |-> Unread,
   deltaIx |-> 0, deltaSample |-> 0, lastSync |-> 0, entries |-> <<>>]

Entries(st, name) == st.set[name][1].entries
Missing(st, name) == st.set[name] = <<>>
NumSamples(st) == IF Missing(st, "stsz") THEN 0 ELSE st.set.stsz[1].count

isValid(st) == \A name \in {"stco", "stsc", "stsz", "stts"} : ~Missing(st, name)
----------------------------------------------------------------------------
(* The boxes of the tables: setChunkOffsetParams() and its like.  A second *)
(* box of a kind, one that is too small for its header or its entries, one *)
(* the file ends in, and one of an unknown version are refused.            *)

TableError(st, name, box, header, whole) ==
  IF ~Missing(st, name) \/ DataSize(box) < header THEN "MALFORMED"
  ELSE IF ~Has(st.fileSize, box, header) THEN "IO"
  ELSE IF box.version # 0 \/ ~whole THEN "MALFORMED"
  ELSE "OK"

Set(st, name, box, err) ==
  [st |-> IF err = "OK" THEN [st EXCEPT !.set[name] = <<box>>] ELSE st, err |-> err]

Read(st, box, bytes, err) == IF err = "OK" /\ ~Has(st.fileSize, box, bytes) THEN "IO" ELSE err

setChunkOffsetParams(st, box) ==
  LET width == IF box.type = "stco" THEN 4 ELSE 8
  IN  Set(st, "stco", box, TableError(st, "stco", box, 8, DataSize(box) >= 8 + width * box.count))

setSampleToChunkParams(st, box) ==
  Set(st, "stsc", box,
      Read(st, box, 8 + 12 * box.count,
           TableError(st, "stsc", box, 8, DataSize(box) >= 8 + 12 * box.count)))

(* One size for all, or sizes of 32 bits, or of the bits the box says.     *)
setSampleSizeParams(st, box) ==
  LET whole == IF box.type = "stsz"
                 THEN box.default # 0 \/ DataSize(box) >= 12 + 4 * box.count
                 ELSE /\ box.bits \in {4, 8, 16}
                      /\ DataSize(box) >= 12 + (box.count * box.bits + 4) \div 8
  IN  Set(st, "stsz", box, TableError(st, "stsz", box, 12, whole))

setTimeToSampleParams(st, box) ==
  Set(st, "stts", box, Read(st, box, 8 + 8 * box.count, TableError(st, "stts", box, 8, TRUE)))

setCompositionTimeToSampleParams(st, box) ==
  Set(st, "ctts", box,
      Read(st, box, 8 + 8 * box.count,
           TableError(st, "ctts", box, 8, DataSize(box) = 8 * (box.count + 1))))

setSyncSampleParams(st, box) ==
  Set(st, "stss", box, Read(st, box, 8 + 4 * box.count, TableError(st, "stss", box, 8, TRUE)))
----------------------------------------------------------------------------
(* The sizes                                                               *)

SizeBytes(box, i) ==
  IF box.type = "stsz" THEN 12 + 4 * i + SizeT
  ELSE CASE box.bits = 16 -> 12 + 2 * i + 2
         [] box.bits = 8  -> 12 + i + 1
         [] box.bits = 4  -> 12 + i \div 2 + 1

(* getSampleSizeDirect()                                                   *)
SampleSize(st, i) ==
  LET box == st.set.stsz[1]
  IN  IF i >= box.count THEN [size |-> 0, err |-> "OUT_OF_RANGE"]
      ELSE IF box.type = "stsz" /\ box.default > 0 THEN [size |-> box.default, err |-> "OK"]
      ELSE IF ~Has(st.fileSize, box, SizeBytes(box, i)) THEN [size |-> 0, err |-> "IO"]
      ELSE [size |-> box.entries[i + 1], err |-> "OK"]

Larger(most, one) ==
  IF most.err # "OK" \/ one.err # "OK" THEN [most EXCEPT !.err = IF @ = "OK" THEN one.err ELSE @]
  ELSE IF one.size > most.size THEN one ELSE most

getMaxSampleSize(st) ==
  FoldLeft(LAMBDA most, i : Larger(most, SampleSize(st, i - 1)), [size |-> 0, err |-> "OK"],
           [i \in 1 .. NumSamples(st) |-> i])
----------------------------------------------------------------------------
(* CompositionDeltaLookup::getCompositionTimeOffset(): the cursor starts   *)
(* over when it is asked for an earlier sample than its entry's.  Entries  *)
(* have their offsets with a sign.                                         *)

Start(st, k) ==
  IF k < st.deltaSample THEN [st EXCEPT !.deltaIx = 0, !.deltaSample = 0] ELSE st

CursorAt(st, k) ==
  FoldLeft(LAMBDA s, entry :
             IF s.deltaIx < Len(Entries(st, "ctts")) /\ k >= s.deltaSample + Entries(st, "ctts")[s.deltaIx + 1].n
               THEN [s EXCEPT !.deltaSample = @ + Entries(st, "ctts")[s.deltaIx + 1].n, !.deltaIx = @ + 1]
               ELSE s,
           Start(st, k), Entries(st, "ctts"))

DeltaLookup(st, k) == IF Missing(st, "ctts") THEN st ELSE CursorAt(st, k)

DeltaAt(st) ==
  IF Missing(st, "ctts") \/ st.deltaIx >= Len(Entries(st, "ctts")) THEN 0
  ELSE Entries(st, "ctts")[st.deltaIx + 1].value
----------------------------------------------------------------------------
(* SampleIterator::seekTo(): the run of chunks, the chunk, the offset of   *)
(* the sample in it, and its time.  A step that fails leaves what the ones *)
(* before it have changed.                                                 *)

Result(st, err) == [st |-> st, err |-> err]
Then(r, F(_)) == IF r.err = "OK" THEN F(r.st) ELSE r

Reset(it) ==
  [it EXCEPT !.chunkIx = 0, !.firstChunk = 0, !.firstSample = 0, !.stopChunk = 0,
             !.stopSample = 0, !.perChunk = 0]

(* one round of findChunkRange()                                           *)
NextRun(it, stsc) ==
  LET entry == stsc[it.chunkIx + 1]
      last  == it.chunkIx + 1 >= Len(stsc)
      stop  == IF last THEN Forever ELSE stsc[it.chunkIx + 2].startChunk
  IN  [it EXCEPT !.firstSample = it.stopSample, !.firstChunk = entry.startChunk,
                 !.perChunk = entry.perChunk, !.stopChunk = stop,
                 !.stopSample = IF last THEN Forever
                                ELSE @ + (stop - entry.startChunk) * entry.perChunk,
                 !.chunkIx = @ + 1]

findChunkRange(st, k) ==
  LET stsc == Entries(st, "stsc")
      it   == FoldLeft(LAMBDA i, entry : IF k >= i.stopSample /\ i.chunkIx < Len(stsc)
                                           THEN NextRun(i, stsc) ELSE i,
                       st.it, stsc)
  IN  Result([st EXCEPT !.it = it], IF k < it.stopSample THEN "OK" ELSE "OUT_OF_RANGE")

OffsetWidth(st) == IF st.set.stco[1].type = "stco" THEN 4 ELSE 8
getChunkOffset(st, chunk) ==
  IF chunk >= st.set.stco[1].count THEN "OUT_OF_RANGE"
  ELSE IF ~Has(st.fileSize, st.set.stco[1], 8 + OffsetWidth(st) * (chunk + 1)) THEN "IO"
  ELSE "OK"

SizesFrom(st, first, n) ==
  LET sizes == [i \in 1 .. n |-> SampleSize(st, first + i - 1)]
      bad   == {i \in 1 .. n : sizes[i].err # "OK"}
      kept  == IF bad = {} THEN n ELSE Min(bad) - 1
  IN  Result([st EXCEPT !.it.sizes = [i \in 1 .. kept |-> sizes[i].size]],
             IF bad = {} THEN "OK" ELSE sizes[Min(bad)].err)

LoadSizes(st, first) == SizesFrom(st, first, Max({0, Min({st.it.perChunk, NumSamples(st) - first})}))

LoadChunk(st, chunk) ==
  LET here == [st EXCEPT !.it.chunk = chunk]
      err  == getChunkOffset(st, chunk)
  IN  IF err # "OK" THEN Result([here EXCEPT !.it.chunkOffset = 0], err)
      ELSE LoadSizes([here EXCEPT !.it.chunkOffset = Entries(st, "stco")[chunk + 1]],
                     st.it.firstSample + st.it.perChunk * (chunk - st.it.firstChunk))

InChunk(st, k) ==
  LET chunk == (k - st.it.firstSample) \div st.it.perChunk + st.it.firstChunk
  IN  IF ~st.it.mInitialized \/ chunk # st.it.chunk THEN LoadChunk(st, chunk) ELSE Result(st, "OK")

SumTo(s, n) == FoldLeft(LAMBDA sum, a : sum + a, 0, SubSeq(s, 1, n))

Placed(st, k) ==
  LET i == (k - st.it.firstSample) % st.it.perChunk
  IN  Result([st EXCEPT !.it.offset = st.it.chunkOffset + SumTo(st.it.sizes, i),
                        !.it.size = st.it.sizes[i + 1],
                        !.it.ttsIx       = IF k < st.it.ttsSample THEN 0 ELSE @,
                        !.it.ttsSample   = IF k < st.it.ttsSample THEN 0 ELSE @,
                        !.it.ttsTime     = IF k < st.it.ttsSample THEN 0 ELSE @,
                        !.it.ttsCount    = IF k < st.it.ttsSample THEN 0 ELSE @,
                        !.it.ttsDuration = IF k < st.it.ttsSample THEN 0 ELSE @], "OK")

(* one round of findSampleTime(): the product has 32 bits                  *)
NextTime(it, stts) ==
  [it EXCEPT !.ttsSample = @ + it.ttsCount, !.ttsTime = @ + ((it.ttsCount * it.ttsDuration) % Word),
             !.ttsCount = stts[it.ttsIx + 1].n, !.ttsDuration = stts[it.ttsIx + 1].value,
             !.ttsIx = @ + 1]

Timed(st, k) ==
  [st EXCEPT !.it.time = st.it.ttsDuration * (k - st.it.ttsSample) + st.it.ttsTime + DeltaAt(st)]

findSampleTime(st, k) ==
  LET stts == Entries(st, "stts")
      it   == FoldLeft(LAMBDA i, entry : IF k >= i.ttsSample + i.ttsCount /\ i.ttsIx < Len(stts)
                                           THEN NextTime(i, stts) ELSE i,
                       st.it, stts)
  IN  IF k >= it.ttsSample + it.ttsCount THEN Result([st EXCEPT !.it = it], "OUT_OF_RANGE")
      ELSE Result(Timed(DeltaLookup([st EXCEPT !.it = it], k), k), "OK")

Reached(st, k) == Result([st EXCEPT !.it.current = k, !.it.mInitialized = TRUE], "OK")

InRun(st, k) ==
  LET here == IF ~st.it.mInitialized \/ k < st.it.firstSample THEN [st EXCEPT !.it = Reset(@)] ELSE st
  IN  IF k >= here.it.stopSample THEN findChunkRange(here, k) ELSE Result(here, "OK")

seekTo(st, k) ==
  IF k >= NumSamples(st) THEN Result(st, "EOS")
  ELSE IF Missing(st, "stsc") \/ Missing(st, "stco") \/ Missing(st, "stts") THEN Result(st, "MALFORMED")
  ELSE IF st.set.stts[1].count = 0 THEN Result(st, "MALFORMED")
  ELSE IF st.it.mInitialized /\ st.it.current = k THEN Result(st, "OK")
  ELSE LET In(s)    == InChunk(s, k)
           Place(s) == Placed(s, k)
           Time(s)  == findSampleTime(s, k)
           Reach(s) == Reached(s, k)
       IN  Then(Then(Then(Then(InRun(st, k), In), Place), Time), Reach)
----------------------------------------------------------------------------
(* getMetaDataForSample(): the sync samples are looked up from where the   *)
(* last lookup stopped, unless that is past the sample.                    *)

\* mutant of SyncCursor: the lookup never starts over
CursorStays(stss, last, k) ==
  LET past == {i \in 1 .. Len(stss) : i > last /\ stss[i] >= k}
  IN  IF past = {} THEN Len(stss) ELSE Min(past) - 1
SyncCursor(stss, last, k) ==
  LET from == IF last < Len(stss) /\ stss[last + 1] <= k THEN last ELSE 0
      past == {i \in 1 .. Len(stss) : i > from /\ stss[i] >= k}
  IN  IF past = {} THEN Len(stss) ELSE Min(past) - 1

IsSync(st, stss, k) == st.lastSync < Len(stss) /\ stss[st.lastSync + 1] = k

Looked(st, k) ==
  IF Missing(st, "stss") THEN st
  ELSE [st EXCEPT !.lastSync = SyncCursor(Entries(st, "stss"), @, k)]

Described(st, k) ==
  [st |-> st, err |-> "OK", offset |-> st.it.offset, size |-> st.it.size, time |-> st.it.time,
   sync |-> Missing(st, "stss") \/ IsSync(st, Entries(st, "stss"), k)]

getMetaDataForSample(st, k) ==
  LET Describe(s) == Described(Looked(s, k), k)
  IN  Then(seekTo(st, k), Describe)

(* findThumbnailSample(): the largest of the first sync samples            *)
ThumbnailScan == 20
findThumbnailSample(st) ==
  IF Missing(st, "stss") THEN [k |-> 0, err |-> "OK"]
  ELSE FoldLeft(LAMBDA best, k :
                  LET one == SampleSize(st, k)
                  IN  IF best.err # "OK" THEN best
                      ELSE IF one.err # "OK" THEN [best EXCEPT !.err = one.err]
                      ELSE IF one.size > best.size THEN [k |-> k, size |-> one.size, err |-> "OK"]
                      ELSE best,
                [k |-> 0, size |-> -1, err |-> "OK"],
                SubSeq(Entries(st, "stss"), 1, Min({ThumbnailScan, Len(Entries(st, "stss"))})))
----------------------------------------------------------------------------
(* buildSampleEntriesTable(): the samples in the order of their times      *)

DecodeTime(stts, k) ==
  FoldLeft(LAMBDA run, entry :
             [time  |-> run.time + Min({entry.n, run.left}) * entry.value,
              left  |-> run.left - Min({entry.n, run.left})],
           [time |-> 0, left |-> k], stts).time

(* The offset is added as it is stored, without a sign, and not as         *)
(* findSampleTime() adds it.                                               *)
CompositionTime(st, k) == DecodeTime(Entries(st, "stts"), k) + (DeltaAt(DeltaLookup(st, k)) % Word)

buildSampleEntriesTable(st) ==
  IF st.entries # <<>> THEN st
  ELSE [DeltaLookup(st, NumSamples(st) - 1) EXCEPT
          !.entries = SortSeq([i \in 1 .. NumSamples(st) |->
                                 [k |-> i - 1, time |-> CompositionTime(st, i - 1)]],
                              LAMBDA a, b : a.time < b.time)]

Abs(a, b) == IF a > b THEN a - b ELSE b - a

(* The binary searches end at the first index that is not before what they *)
(* look for.                                                               *)
FirstFrom(n, NotBefore(_)) ==
  IF \E i \in 1 .. n : NotBefore(i) THEN Min({i \in 1 .. n : NotBefore(i)}) ELSE n + 1

NearestEntry(entries, i, time, flag) ==
  CASE flag = "Before"  -> Max({1} \cup {j \in 1 .. i : entries[j].time <= time})
    [] flag = "After"   -> i
    [] flag = "Closest" -> IF i > 1 /\ Abs(entries[i].time, time) > Abs(entries[i - 1].time, time)
                             THEN i - 1 ELSE i

(* findSampleAtTime(), of tables that are built                            *)
findSampleAtTime(st, time, flag) ==
  LET n  == Len(st.entries)
      NotBefore(i) == st.entries[i].time >= time
      at == FirstFrom(n, NotBefore)
  IN  IF at = n + 1 /\ flag = "After" THEN [err |-> "OUT_OF_RANGE"]
      ELSE [k |-> st.entries[NearestEntry(st.entries, Min({at, n}), time, flag)].k, err |-> "OK"]
----------------------------------------------------------------------------
(* findSyncSampleNear(): the sync sample at or before the sample, or the   *)
(* next one when that is nearer in time; the flags then correct a choice   *)
(* on the wrong side.  No sync sample before the first one: CHECK fails.   *)

Sync(st, k, err) == [st |-> st, k |-> k, err |-> err]

\* mutant of OnSide: a nearer sync sample after the one asked for is taken
EitherSide(st, stss, i, k, flag) == Sync(st, stss[i], "OK")
OnSide(st, stss, i, k, flag) ==
  CASE flag = "Before" /\ stss[i] > k ->
         IF i = 1 THEN Sync(st, 0, "ABORT")
         ELSE IF stss[i - 1] > k THEN Sync(st, 0, "MALFORMED") ELSE Sync(st, stss[i - 1], "OK")
    [] flag = "After" /\ stss[i] < k ->
         IF i = Len(stss) THEN Sync(st, 0, "OUT_OF_RANGE")
         ELSE IF stss[i + 1] < k THEN Sync(st, 0, "MALFORMED") ELSE Sync(st, stss[i + 1], "OK")
    [] OTHER -> Sync(st, stss[i], "OK")

(* the times of the sample and of the two sync samples around it           *)
TimesOf(st, ks) ==
  FoldLeft(LAMBDA r, k : IF r.err # "OK" THEN r
                         ELSE CHOOSE next \in {[st |-> s.st, err |-> s.err,
                                                times |-> Append(r.times, s.st.it.time)] :
                                               s \in {seekTo(r.st, k)}} : TRUE,
           [st |-> st, err |-> "OK", times |-> <<>>], ks)

Nearer(r, stss, i, k, flag) ==
  IF r.err # "OK" THEN Sync(r.st, 0, r.err)
  ELSE OnSide(r.st, stss,
              IF Abs(r.times[2], r.times[1]) > Abs(r.times[3], r.times[1]) THEN i + 1 ELSE i, k, flag)

Around(st, stss, i, k, flag) ==
  IF i < Len(stss) THEN Nearer(TimesOf(st, <<k, stss[i], stss[i + 1]>>), stss, i, k, flag)
                   ELSE OnSide(st, stss, i, k, flag)

findSyncSampleNear(st, k, flag) ==
  IF Missing(st, "stss") THEN Sync(st, k, "OK")
  ELSE IF Entries(st, "stss") = <<>> THEN Sync(st, 0, "OK")
  ELSE LET stss == Entries(st, "stss")
           NotBefore(i) == stss[i] >= k
           at   == FirstFrom(Len(stss), NotBefore)
       IN  IF at = Len(stss) + 1
             THEN IF flag = "After" THEN Sync(st, 0, "OUT_OF_RANGE")
                  ELSE Around(st, stss, at - 1, k, flag)
           ELSE Around(st, stss, IF at > 1 /\ k < stss[at] /\ k > stss[at - 1] THEN at - 1 ELSE at, k, flag)
==============================================================================
