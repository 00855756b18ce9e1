------------------------------ MODULE MP4Boxes ------------------------------
(***************************************************************************)
(* The boxes MPEG4Writer writes at the end of a recording: beginBox(),     *)
(* write() and endBox() of src/libstagefright/MPEG4Writer.cpp, which send  *)
(* the movie box to memory until it outgrows the space reserved for it and *)
(* to the end of the file from then on, and the movie box they are given.  *)
(* A box is its name, the bytes of its own fields and the boxes inside it; *)
(* fields are written as one run of bytes, whatever their number.          *)
(***************************************************************************)
EXTENDS Integers, Sequences

\* what is written: a sequence of these
Begin(name, bytes) == <<[begins |-> TRUE, name |-> name, bytes |-> bytes]>>
End == <<[begins |-> FALSE]>>

Box(name, bytes, inner) == Begin(name, bytes) \o inner \o End
Leaf(name, bytes) == Box(name, bytes, <<>>)

\* mutant of Shift
NoShift(boxes, by) == boxes

(* The addresses in mBoxes become addresses in the file.                   *)
Shift(boxes, by) == [i \in DOMAIN boxes |-> boxes[i] + by]

(* write(): in memory while it fits; the write that does not fit sends the *)
(* memory and itself to the end of the file.                               *)
Write(w, bytes) ==
  CASE ~w.mWriteMoovBoxToMemory -> [w EXCEPT !.mOffset = @ + bytes]
    [] w.mWriteMoovBoxToMemory /\ 8 + w.mMoovBoxBufferOffset + bytes <= w.mEstimatedMoovBoxSize ->
         [w EXCEPT !.mMoovBoxBufferOffset = @ + bytes]
    [] OTHER ->
         [w EXCEPT !.mWriteMoovBoxToMemory = FALSE,
                   !.mBoxes = Shift(@, w.mOffset),
                   !.found = [i \in DOMAIN @ |-> [@[i] EXCEPT !.at = @ + w.mOffset]],
                   !.mOffset = @ + w.mMoovBoxBufferOffset + bytes]

Here(w) == IF w.mWriteMoovBoxToMemory THEN w.mMoovBoxBufferOffset ELSE w.mOffset

(* beginBox() with the box's own fields, which follow its header.          *)
BeginBox(w, name, bytes) ==
  Write([w EXCEPT !.mBoxes = Append(@, Here(w)),
                  !.found = Append(@, [name |-> name, at |-> Here(w), size |-> 0])], 8 + bytes)

(* endBox(): the size goes where the last open box began.                  *)
EndBox(w) ==
  LET at == w.mBoxes[Len(w.mBoxes)]
  IN  [w EXCEPT !.mBoxes = SubSeq(@, 1, Len(@) - 1),
                !.found = [i \in DOMAIN @ |->
                             IF @[i].at = at THEN [@[i] EXCEPT !.size = Here(w) - at] ELSE @[i]]]

Step(w, s) == IF s.begins THEN BeginBox(w, s.name, s.bytes) ELSE EndBox(w)

(* The writer after a sequence of writes; the singletons make TLC evaluate *)
(* one step before the next.                                               *)
WriteAll(w, steps) ==
  LET After[i \in 0 .. Len(steps)] ==
        IF i = 0 THEN w
        ELSE CHOOSE next \in {Step(last, steps[i]) : last \in {After[i - 1]}} : TRUE
  IN  After[Len(steps)]

(***************************************************************************)
(* The movie box.  A track is [audio, codec, csd, stts, ctts, stss, stsz,  *)
(* stsc, stco]: its kind, the bytes of its codec specific data, and the    *)
(* number of entries of each table (ctts 0 when the box is left out).      *)
(***************************************************************************)
CompositionMatrix == 36
MvhdBox == Leaf("mvhd", 64 + CompositionMatrix)
UdtaBox == Box("udta", 0, Leaf("xyz", 4 + 8 + 9 + 1))
TkhdBox == Leaf("tkhd", 48 + CompositionMatrix)
MdhdBox == Leaf("mdhd", 36)
HdlrBox == Leaf("hdlr", 36)
SmhdBox == Leaf("smhd", 8)
VmhdBox == Leaf("vmhd", 12)
DinfBox == Box("dinf", 0, Box("dref", 8, Leaf("url ", 4)))
PaspBox == Leaf("pasp", 8)

EsdsBox(csd) == Leaf("esds", 29 + csd)

AudioFourCCBox(track) ==
  IF track.codec = "mp4a" THEN Box("mp4a", 28, EsdsBox(track.csd))
                          ELSE Box("samr", 28, Leaf("damr", 9))

VideoFourCCBox(track) ==
  LET inner == CASE track.codec = "mp4v" -> EsdsBox(track.csd)
                 [] track.codec = "s263" -> Leaf("d263", 7)
                 [] track.codec = "avc1" -> Leaf("avcC", track.csd)
  IN  Box(track.codec, 78, inner \o PaspBox)

StblBox(track, use32BitOffset) ==
  Box("stbl", 0,
      Box("stsd", 8, IF track.audio THEN AudioFourCCBox(track) ELSE VideoFourCCBox(track))
      \o Leaf("stts", 8 + 8 * track.stts)
      \o (IF track.ctts > 0 THEN Leaf("ctts", 8 + 8 * track.ctts) ELSE <<>>)
      \o (IF track.audio THEN <<>> ELSE Leaf("stss", 8 + 4 * track.stss))
      \o Leaf("stsz", 12 + 4 * track.stsz)
      \o Leaf("stsc", 8 + 12 * track.stsc)
      \o Leaf("stco", 8 + (IF use32BitOffset THEN 4 ELSE 8) * track.stco))

TrakBox(track, use32BitOffset) ==
  Box("trak", 0, TkhdBox \o
      Box("mdia", 0, MdhdBox \o HdlrBox \o
          Box("minf", 0, (IF track.audio THEN SmhdBox ELSE VmhdBox) \o DinfBox
                         \o StblBox(track, use32BitOffset))))

MoovBox(tracks, geo, use32BitOffset) ==
  LET Traks[i \in 0 .. Len(tracks)] ==
        IF i = 0 THEN <<>> ELSE Traks[i - 1] \o TrakBox(tracks[i], use32BitOffset)
  IN  Box("moov", 0, MvhdBox \o (IF geo THEN UdtaBox ELSE <<>>) \o Traks[Len(tracks)])
----------------------------------------------------------------------------
(* ListTableEntries: the table of entries of a fixed number of values      *)
(* behind each sample table box, kept as a list of elements of             *)
(* ElementCapacity entries that never move.                                *)

CONSTANT ElementCapacity    \* 1000 in the code

ASSUME ListTableAssumption == ElementCapacity \in Nat /\ ElementCapacity >= 3

EmptyTable(width) == [width |-> width, elements |-> <<>>, total |-> 0, part |-> 0]

(* add(): one value; a new element is allocated at the first value of its  *)
(* first entry.                                                            *)
Add(table, value) ==
  LET fresh == table.total % ElementCapacity = 0 /\ table.part % table.width = 0
      list  == IF fresh THEN Append(table.elements, <<>>) ELSE table.elements
      last  == Len(list)
      whole == (table.part + 1) % table.width = 0
  IN  [table EXCEPT !.elements = [list EXCEPT ![last] = Append(@, value)],
                    !.total = IF whole THEN @ + 1 ELSE @,
                    !.part  = IF whole THEN 0 ELSE @ + 1]

Count(table) == table.total

(* get() and set(): the value at a position, counted from 0 over all       *)
(* elements.                                                               *)
Element(table, pos) == 1 + (pos \div (ElementCapacity * table.width))
Place(table, pos)   == 1 + (pos % (ElementCapacity * table.width))

Get(table, pos) == table.elements[Element(table, pos)][Place(table, pos)]
SetAt(table, pos, value) ==
  [table EXCEPT !.elements[Element(table, pos)][Place(table, pos)] = value]

(* write(): full elements whole, the last one as far as entries are left.  *)
Written(table) ==
  LET Out[i \in 0 .. Len(table.elements)] ==
        IF i = 0 THEN <<>>
        ELSE LET left == table.total - (i - 1) * ElementCapacity
                 some == IF left >= ElementCapacity THEN ElementCapacity ELSE left
             IN  Out[i - 1] \o SubSeq(table.elements[i], 1, some * table.width)
  IN  Out[Len(table.elements)]
=============================================================================
