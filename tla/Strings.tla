------------------------------ MODULE Strings ------------------------------
(***************************************************************************)
(* String8 and String16: strings in shared buffers, whose length is the    *)
(* size of the buffer less the terminator, so that every operation must    *)
(* leave a buffer of the right size.  The conversions are those of         *)
(* Unicode.  An operation is one step: what threads that share a buffer    *)
(* may do to its count is the subject of VectorImpl.  Memory does not run  *)
(* out.                                                                    *)
(***************************************************************************)
EXTENDS Integers, FiniteSets, SequencesExt

(* Unicode.cpp: a text is a sequence of code points; in UTF-8 it is a      *)
(* sequence of bytes, in UTF-16 one of 16-bit units.  What reads UTF-8 is  *)
(* given well-formed UTF-8, as its callers do.                             *)
kUnicodeSurrogates == 55296 .. 57343
kFirstByteMark == <<0, 192, 224, 240>>

utf32_codepoint_utf8_length(c) ==
  CASE c < 128 -> 1
    [] c \in 128 .. 2047 -> 2
    [] c \in 2048 .. 65535 -> IF c \in kUnicodeSurrogates THEN 0 ELSE 3
    [] c \in 65536 .. 1114111 -> 4
    [] c > 1114111 -> 0

(* Six bits of the code point in each byte, from the last one; the first   *)
(* has the mark that tells how many there are.                             *)
utf32_codepoint_to_utf8(c, bytes) ==
  [i \in 1 .. bytes |->
     IF i > 1 THEN 128 + ((c \div 64 ^ (bytes - i)) % 64)
     ELSE kFirstByteMark[bytes] + (c \div 64 ^ (bytes - 1))]

Total(lengths) == FoldLeft(+, 0, lengths)

utf32_to_utf8_length(src) ==
  Total([i \in DOMAIN src |-> utf32_codepoint_utf8_length(src[i])])

utf32_to_utf8(src) ==
  FlattenSeq([i \in DOMAIN src |->
                utf32_codepoint_to_utf8(src[i], utf32_codepoint_utf8_length(src[i]))])

(* The code points met by going through a string: At(i) is the one at i    *)
(* with the number of units it takes.                                      *)
Through(src, At(_)) ==
  LET from[i \in 1 .. Len(src) + 4] ==
        IF i > Len(src) THEN <<>> ELSE <<At(i).code>> \o from[i + At(i).n]
  IN  from[1]

LeadingOnes(byte) == CHOOSE n \in 1 .. 6 : byte \in 256 - 2 ^ (8 - n) .. 255 - 2 ^ (7 - n)
Bits(src, i, n) == Total([k \in 1 .. n |-> (src[i + k] % 64) * 64 ^ (n - k)])

utf32_at_internal(src, i) ==
  IF src[i] < 128 THEN [code |-> src[i], n |-> 1]
  ELSE LET n == LeadingOnes(src[i]) IN
       [code |-> (src[i] % (2 ^ (7 - n))) * 64 ^ (n - 1) + Bits(src, i, n - 1), n |-> n]

(* The code point at an index, counted from zero, and the index of the     *)
(* next one.                                                               *)
utf32_from_utf8_at(src, index) ==
  IF index >= Len(src) THEN [code |-> -1, next |-> index]
  ELSE LET at == utf32_at_internal(src, index + 1) IN [code |-> at.code, next |-> index + at.n]

utf8_to_utf32(src) == Through(src, LAMBDA i : utf32_at_internal(src, i))

utf8_to_utf32_length(src) ==
  Len(Through(src, LAMBDA i : [code |-> 0, n |-> IF src[i] < 128 THEN 1 ELSE LeadingOnes(src[i])]))

(* The number of bytes of a string, -1 if some of them are not UTF-8.      *)
utf8_length(src) ==
  LET At(i) ==
        IF src[i] < 128 THEN [ok |-> TRUE, n |-> 1]
        ELSE LET n == IF src[i] \div 64 = 2 THEN 1 ELSE LeadingOnes(src[i]) IN
             [ok |-> n \in 2 .. 4 /\ i + n - 1 <= Len(src)
                     /\ \A k \in 1 .. n - 1 : src[i + k] \div 64 = 2
                     /\ utf32_at_internal(src, i).code <= 1114111,
              n |-> n]
      from[i \in 1 .. Len(src) + 4] ==
        IF i > Len(src) THEN 0
        ELSE LET at == At(i)
                 rest == IF at.ok THEN from[i + at.n] ELSE -1
             IN  IF rest = -1 THEN -1 ELSE at.n + rest
  IN  from[1]
----------------------------------------------------------------------------
(* UTF-16 *)

(* Two bits of 0xe5 for each value of the upper half of a byte over 11.    *)
utf8_codepoint_len(ch) ==
  LET upper == ch \div 16 IN IF upper < 12 THEN 1 ELSE ((229 \div 4 ^ (upper - 12)) % 4) + 1

utf8_to_utf32_codepoint(src, i, n) ==
  IF n = 1 THEN src[i]
  ELSE (src[i] % (2 ^ (7 - n))) * 64 ^ (n - 1) + Bits(src, i, n - 1)

CodePoints(src) ==
  Through(src, LAMBDA i : [code |-> utf8_to_utf32_codepoint(src, i, utf8_codepoint_len(src[i])),
                           n |-> utf8_codepoint_len(src[i])])

Units(c) ==
  IF c <= 65535 THEN <<c>> ELSE <<55296 + ((c - 65536) \div 1024), 56320 + (c % 1024)>>

utf8_to_utf16_length(src) ==
  LET codes == CodePoints(src) IN
  Len(codes) + Len(SelectSeq(codes, LAMBDA c : c > 65535))

utf8_to_utf16(src) ==
  LET codes == CodePoints(src) IN FlattenSeq([i \in DOMAIN codes |-> Units(codes[i])])

(* As many units as fit in n, where half of a pair does not count.         *)
(* mutant of utf8_to_utf16_n: the half that fits counts                    *)
HalvesCount(src, n) ==
  LET all == utf8_to_utf16(src) IN SubSeq(all, 1, IF n < Len(all) THEN n ELSE Len(all))
utf8_to_utf16_n(src, n) ==
  LET codes == CodePoints(src)
      Fit(dst, c) ==
        IF dst.full \/ Len(dst.units) + Len(Units(c)) > n THEN [dst EXCEPT !.full = TRUE]
        ELSE [dst EXCEPT !.units = @ \o Units(c)]
  IN  FoldLeft(Fit, [units |-> <<>>, full |-> FALSE], codes).units

IsHigh(unit) == unit \div 1024 = 54
IsLow(unit) == unit \div 1024 = 55

utf16_to_utf8_length(src) ==
  LET from[i \in 1 .. Len(src) + 1] ==
        IF i > Len(src) THEN 0
        ELSE IF IsHigh(src[i]) /\ i < Len(src)
               THEN IF IsLow(src[i + 1]) THEN 4 + from[i + 2]
                    ELSE utf32_codepoint_utf8_length(src[i + 1]) + from[i + 2]
               ELSE utf32_codepoint_utf8_length(src[i]) + from[i + 1]
  IN  from[1]

utf16_to_utf8(src) ==
  utf32_to_utf8(Through(src, LAMBDA i :
    IF IsHigh(src[i])
      THEN [code |-> 65536 + (src[i] - 55296) * 1024 + (src[i + 1] - 56320), n |-> 2]
      ELSE [code |-> src[i], n |-> 1]))

(* The sign of a comparison: the first units that differ, or the lengths.  *)
strzcmp16(s, t) ==
  LET differ == {i \in DOMAIN s \cap DOMAIN t : s[i] # t[i]} IN
  IF differ # {} THEN LET i == CHOOSE i \in differ : \A j \in differ : i <= j IN s[i] - t[i]
  ELSE IF Len(s) < Len(t) THEN -t[Len(s) + 1]
  ELSE IF Len(s) > Len(t) THEN s[Len(t) + 1]
  ELSE 0
----------------------------------------------------------------------------
CONSTANTS
  Names8, Names16,      \* the String8s and the String16s
  Texts,                \* what callers hand in
  Beginnings,           \* records of a text, the String8s that begin with it, and
                        \* a text the String16s begin with
  Buffers,              \* bound: more than strings, with the two empty ones
  MaxLength,            \* bound: code points in a string
  MaxOps                \* bound: operations

Names == Names8 \cup Names16

VARIABLES
  str,     \* the buffer mString points into
  heap,    \* each buffer's count and units
  meant,   \* the text each string should be, by what was done with it
  ops      \* operations done

vars == <<str, heap, meant, ops>>

OS_PATH_SEPARATOR == 47
Dot == 46
Unset == -1

Free == [refs |-> 0, units |-> <<>>]
Empty(s) == IF s \in Names8 THEN 1 ELSE 2        \* gEmptyStringBuf

now == [str |-> str, heap |-> heap]
Chars(s) == Front(heap[str[s]].units)
size(s) == Len(heap[str[s]].units) - 1

Init ==
  \E given \in Beginnings :
    /\ str = [s \in Names |-> IF s \in given.sharers THEN 3
                              ELSE IF s \in Names16 /\ given.wide # <<>> THEN 4 ELSE Empty(s)]
    /\ heap = [b \in Buffers |->
                CASE b = 1 -> [refs |-> 1 + Cardinality(Names8 \ given.sharers), units |-> <<0>>]
                  [] b = 2 -> [refs |-> IF given.wide = <<>> THEN 1 + Cardinality(Names16) ELSE 1,
                               units |-> <<0>>]
                  [] b = 3 -> IF given.sharers = {} THEN Free
                              ELSE [refs |-> Cardinality(given.sharers),
                                    units |-> utf32_to_utf8(given.text) \o <<0>>]
                  [] b = 4 -> IF given.wide = <<>> THEN Free
                              ELSE [refs |-> Cardinality(Names16),
                                    units |-> utf8_to_utf16(utf32_to_utf8(given.wide)) \o <<0>>]
                  [] b > 4 -> Free]
    /\ meant = [s \in Names |-> IF s \in given.sharers THEN given.text
                                ELSE IF s \in Names16 THEN given.wide ELSE <<>>]
    /\ ops = 0
----------------------------------------------------------------------------
(* Buffers.  What changes them takes the strings and the heap as they are  *)
(* and answers how they become.                                            *)

Acquire(h, b) == [h EXCEPT ![b].refs = @ + 1]
Release(h, b) == IF h[b].refs = 1 THEN [h EXCEPT ![b] = Free] ELSE [h EXCEPT ![b].refs = @ - 1]

(* mString points into a buffer that is counted already; the old one is    *)
(* released.                                                               *)
Into(m, s, h, b) == [str |-> [m.str EXCEPT ![s] = b], heap |-> Release(h, m.str[s])]

Shared(m, s, b) == Into(m, s, Acquire(m.heap, b), b)

New(m, s, units) ==
  LET b == CHOOSE b \in Buffers : m.heap[b] = Free IN
  Into(m, s, [m.heap EXCEPT ![b] = [refs |-> 1, units |-> units]], b)

(* A buffer of a length that was computed, with what was then written.     *)
Room(length, chars) ==
  LET all == Append(chars, 0) IN
  [i \in 1 .. length + 1 |-> IF i <= Len(all) THEN all[i] ELSE Unset]

(* The string constructors: allocFromUTF8() and its kind.                  *)
Taken(m, s, length, chars) ==
  IF chars = <<>> THEN Shared(m, s, Empty(s)) ELSE New(m, s, Room(length, chars))

(* editResize(), and what is then written into the buffer.                 *)
Resized(units, n) == [i \in 1 .. n |-> IF i <= Len(units) THEN units[i] ELSE Unset]
Written(units, at, chars) ==
  [i \in DOMAIN units |-> IF i \in at + 1 .. at + Len(chars) THEN chars[i - at] ELSE units[i]]

Edited(m, s, units) ==
  IF m.heap[m.str[s]].refs = 1 THEN [m EXCEPT !.heap[m.str[s]].units = units]
  ELSE New(m, s, units)

Becomes(m) == str' = m.str /\ heap' = m.heap

Op(s, text) ==
  /\ ops < MaxOps /\ Len(text) <= MaxLength
  /\ meant' = [meant EXCEPT ![s] = text] /\ ops' = ops + 1

(* What of a string counts, in its buffer's units or in its code points.   *)
Unlocked(units, n) ==
  IF n = Len(units) - 1 THEN units ELSE Written(Resized(units, n + 1), n, <<0>>)
----------------------------------------------------------------------------
(* String8 *)

SetTo(s, t) == Op(s, meant[t]) /\ Becomes(Shared(now, s, str[t]))

SetToChars(s, text) ==
  LET chars == utf32_to_utf8(text) IN
  Op(s, text) /\ Becomes(Taken(now, s, Len(chars), chars))

Clear(s) == Op(s, <<>>) /\ Becomes(Shared(now, s, Empty(s)))

Appended(s, chars) ==
  Edited(now, s, Written(Resized(heap[str[s]].units, size(s) + Len(chars) + 1),
                         size(s), Append(chars, 0)))

(* s.append(s) may read the memory it has just given back: see README.     *)
AppendString(s, t) ==
  /\ s # t /\ Op(s, meant[s] \o meant[t])
  /\ IF size(s) = 0 THEN Becomes(Shared(now, s, str[t]))
     ELSE IF size(t) = 0 THEN UNCHANGED <<str, heap>>
     ELSE Becomes(Appended(s, Chars(t)))

AppendChars(s, text) ==
  LET chars == IF s \in Names8 THEN utf32_to_utf8(text) ELSE utf8_to_utf16(utf32_to_utf8(text)) IN
  /\ Op(s, meant[s] \o text)
  /\ IF size(s) = 0
       THEN Becomes(IF s \in Names8 THEN Taken(now, s, Len(chars), chars)
                    ELSE Edited(now, s, Append(chars, 0)))
     ELSE IF chars = <<>> THEN UNCHANGED <<str, heap>>
     ELSE Becomes(Appended(s, chars))

(* appendFormat(), of a format that prints the text.                       *)
AppendFormat(s, text) ==
  /\ Op(s, meant[s] \o text)
  /\ IF text = <<>> THEN UNCHANGED <<str, heap>>
     ELSE Becomes(Appended(s, utf32_to_utf8(text)))

tolower(c) == IF c \in 65 .. 90 THEN c + 32 ELSE c
toupper(c) == IF c \in 97 .. 122 THEN c - 32 ELSE c

(* From a place on, so many characters; one byte each unless it is all.    *)
ChangeCase(s, start, length, To(_)) ==
  LET Case(chars) == [i \in DOMAIN chars |->
                        IF i \in start + 1 .. start + length THEN To(chars[i]) ELSE chars[i]]
  IN  /\ \/ start = 0 /\ length >= size(s)
         \/ \A i \in DOMAIN meant[s] : meant[s][i] < 128
      /\ Op(s, Case(meant[s]))
      /\ IF start >= size(s) THEN UNCHANGED <<str, heap>>
         ELSE Becomes(Edited(now, s, Unlocked(Case(heap[str[s]].units), size(s))))

ToLower(s, start, length) == ChangeCase(s, start, length, tolower)
ToUpper(s, start, length) == ChangeCase(s, start, length, toupper)
----------------------------------------------------------------------------
(* Paths: in the code a search for the last or first separator of the      *)
(* bytes, in what is meant the components of the text.                     *)

Last0(set) == IF set = {} THEN 0 ELSE CHOOSE i \in set : \A j \in set : j <= i
First0(set) == IF set = {} THEN 0 ELSE CHOOSE i \in set : \A j \in set : i <= j
At(chars, c) == {i \in DOMAIN chars : chars[i] = c}
strrchr(chars, c) == Last0(At(chars, c))
strchr(chars, c) == First0(At(chars, c))
From(chars, i) == SubSeq(chars, i, Len(chars))
UpTo(chars, i) == SubSeq(chars, 1, i)

Split(text, c) ==
  LET Step(parts, x) == IF x = c THEN Append(parts, <<>>)
                        ELSE [parts EXCEPT ![Len(parts)] = Append(@, x)]
  IN  FoldLeft(Step, <<<<>>>>, text)
Joined(parts, c) ==
  IF parts = <<>> THEN <<>>
  ELSE FoldLeft(LAMBDA text, part : text \o <<c>> \o part, parts[1], Tail(parts))

Parts(s) == Split(meant[s], OS_PATH_SEPARATOR)
DirOf(s) == Joined(Front(Parts(s)), OS_PATH_SEPARATOR)
DotsOf(s) == Split(Last(Parts(s)), Dot)
(* String8.h (191) says that "foo." has no extension; find_extension()     *)
(* gives it the dot.  That name is the exception here.                     *)
TrailingDot(s) == Len(DotsOf(s)) > 1 /\ Last(DotsOf(s)) = <<>>
Documented(s) ==
  IF Len(DotsOf(s)) = 1 \/ Last(DotsOf(s)) = <<>> THEN <<>> ELSE <<Dot>> \o Last(DotsOf(s))
ExtensionOf(s) == IF TrailingDot(s) THEN <<Dot>> ELSE Documented(s)
BaseOf(s) == UpTo(meant[s], Len(meant[s]) - Len(ExtensionOf(s)))
Walk(s) == IF Len(Parts(s)) > 1 /\ Parts(s)[1] = <<>> THEN Tail(Parts(s)) ELSE Parts(s)

(* A string that was made anew is assigned to t.                           *)
Result(m, t, chars) == Taken(m, t, Len(chars), chars)

GetPathLeaf(s, t) ==
  LET cp == strrchr(Chars(s), OS_PATH_SEPARATOR) IN
  /\ Op(t, Last(Parts(s)))
  /\ Becomes(IF cp = 0 THEN Shared(now, t, str[s]) ELSE Result(now, t, From(Chars(s), cp + 1)))

GetPathDir(s, t) ==
  LET cp == strrchr(Chars(s), OS_PATH_SEPARATOR) IN
  /\ Op(t, DirOf(s))
  /\ Becomes(IF cp = 0 THEN Shared(now, t, Empty(t)) ELSE Result(now, t, UpTo(Chars(s), cp - 1)))

find_extension(s) ==
  LET dot == strrchr(Chars(s), Dot) IN
  IF dot > strrchr(Chars(s), OS_PATH_SEPARATOR) THEN dot ELSE 0

GetPathExtension(s, t) ==
  LET ext == find_extension(s) IN
  /\ Op(t, ExtensionOf(s))
  /\ Becomes(IF ext = 0 THEN Shared(now, t, Empty(t)) ELSE Result(now, t, From(Chars(s), ext)))

GetBasePath(s, t) ==
  LET ext == find_extension(s) IN
  /\ Op(t, BaseOf(s))
  /\ Becomes(IF ext = 0 THEN Shared(now, t, str[s]) ELSE Result(now, t, UpTo(Chars(s), ext - 1)))

WalkPath(s, t, u) ==
  LET skip == IF strchr(Chars(s), OS_PATH_SEPARATOR) = 1 THEN 1 ELSE 0
      buf  == From(Chars(s), skip + 1)
      cp   == strchr(buf, OS_PATH_SEPARATOR)
      m    == IF cp > 0 THEN Result(now, t, UpTo(buf, cp - 1))
              ELSE IF skip = 1 THEN Result(now, t, buf) ELSE Shared(now, t, str[s])
  IN  /\ t # u /\ ops < MaxOps /\ ops' = ops + 1
      /\ meant' = [meant EXCEPT ![t] = Walk(s)[1], ![u] = Joined(Tail(Walk(s)), OS_PATH_SEPARATOR)]
      /\ Becomes(IF cp = 0 THEN Shared(m, u, Empty(u)) ELSE Result(m, u, From(buf, cp + 1)))

Trimmed(text) ==
  IF text # <<>> /\ Last(text) = OS_PATH_SEPARATOR THEN Front(text) ELSE text

(* mutant of PathName: the buffer keeps the length of the name             *)
PathNameLeft(s, text) ==
  LET name   == utf32_to_utf8(text)
      locked == Written(Resized(heap[str[s]].units, Len(name) + 1), 0, name)
      n      == Len(Trimmed(name))
  IN  Written(locked, n, <<0>>)
PathName(s, text) ==
  LET name   == utf32_to_utf8(text)
      locked == Written(Resized(heap[str[s]].units, Len(name) + 1), 0, name)
      n      == Len(Trimmed(name))
  IN  Unlocked(Written(locked, n, <<0>>), n)

SetPathName(s, text) == Op(s, Trimmed(text)) /\ Becomes(Edited(now, s, PathName(s, text)))

(* A name that begins with a separator replaces the path.                  *)
AppendPath(s, text) ==
  LET name == utf32_to_utf8(text)
      room == Resized(heap[str[s]].units, size(s) + 1 + Len(name) + 1)
      need == Last(Chars(s)) # OS_PATH_SEPARATOR
      slashed == IF need THEN Written(room, size(s), <<OS_PATH_SEPARATOR>>) ELSE room
      len == IF need THEN size(s) + 1 ELSE size(s)
  IN  IF text = <<>> THEN Op(s, meant[s]) /\ UNCHANGED <<str, heap>>
      ELSE IF text[1] = OS_PATH_SEPARATOR \/ size(s) = 0 THEN SetPathName(s, text)
      ELSE /\ Op(s, Joined(<<Trimmed(meant[s]), text>>, OS_PATH_SEPARATOR))
           /\ Becomes(Edited(now, s, Unlocked(Written(slashed, len, Append(name, 0)),
                                              len + Len(name))))
----------------------------------------------------------------------------
(* Conversions *)

From16(s, w) ==
  Op(s, meant[w]) /\ Becomes(Taken(now, s, utf16_to_utf8_length(Chars(w)), utf16_to_utf8(Chars(w))))

FromChars32(s, text) ==
  Op(s, text) /\ Becomes(Taken(now, s, utf32_to_utf8_length(text), utf32_to_utf8(text)))

From8(w, s) ==
  Op(w, meant[s]) /\ Becomes(Taken(now, w, utf8_to_utf16_length(Chars(s)), utf8_to_utf16(Chars(s))))
----------------------------------------------------------------------------
(* String16.  A place is between characters, never within a pair.          *)

SetToUnits(w, text) ==
  Op(w, text) /\ Becomes(Edited(now, w, Append(utf8_to_utf16(utf32_to_utf8(text)), 0)))

Width(text) == Len(utf8_to_utf16(utf32_to_utf8(text)))
Place(s, i) == Width(UpTo(meant[s], i))

SetPart(w, x, first, last) ==
  LET begin == Place(x, first - 1) IN LET len == Place(x, last) - begin IN
  /\ w # x /\ Op(w, SubSeq(meant[x], first, last))
  /\ Becomes(IF begin >= size(x) THEN Shared(now, w, Empty(w))
             ELSE IF begin = 0 /\ len = size(x) THEN Shared(now, w, str[x])
             ELSE Edited(now, w, Append(SubSeq(Chars(x), begin + 1, begin + len), 0)))

Insert(w, place, text) ==
  LET chars == utf8_to_utf16(utf32_to_utf8(text))
      pos   == Place(w, place)
      units == heap[str[w]].units
      wide  == Resized(units, size(w) + Len(chars) + 1)
      moved == Written(wide, pos + Len(chars), SubSeq(units, pos + 1, size(w)))
  IN  /\ Op(w, UpTo(meant[w], place) \o text \o From(meant[w], place + 1))
      /\ IF size(w) = 0 THEN Becomes(Edited(now, w, Append(chars, 0)))
         ELSE IF chars = <<>> THEN UNCHANGED <<str, heap>>
         ELSE Becomes(Edited(now, w, Written(Written(moved, pos, chars),
                                             size(w) + Len(chars), <<0>>)))

Mapped(chars, To(_)) == [i \in DOMAIN chars |-> To(chars[i])]

(* makeLower() and replaceAll() edit the buffer when something is found.   *)
Replaced(w, To(_)) ==
  /\ Op(w, Mapped(meant[w], To))
  /\ IF Mapped(Chars(w), To) = Chars(w) THEN UNCHANGED <<str, heap>>
     ELSE Becomes(Edited(now, w, Append(Mapped(Chars(w), To), 0)))

MakeLower(w) == Replaced(w, tolower)
ReplaceUnits(w, this, that) == Replaced(w, LAMBDA c : IF c = this THEN that ELSE c)

(* remove() keeps a part and drops the rest.                               *)
RemoveUnits(w, first, last) ==
  LET begin == Place(w, first - 1) IN LET len == Place(w, last) - begin IN
  LET units == heap[str[w]].units
      moved == IF begin > 0 THEN Written(units, 0, From(units, begin + 1)) ELSE units
  IN  /\ Op(w, SubSeq(meant[w], first, last))
      /\ IF begin >= size(w) THEN Becomes(Shared(now, w, Empty(w)))
         ELSE IF begin = 0 /\ len = size(w) THEN UNCHANGED <<str, heap>>
         ELSE Becomes(Edited(now, w, Written(Resized(moved, len + 1), len, <<0>>)))
----------------------------------------------------------------------------
Next ==
  \/ \E s \in Names8, t \in Names8 :
       \/ SetTo(s, t) \/ AppendString(s, t)
       \/ GetPathLeaf(s, t) \/ GetPathDir(s, t) \/ GetPathExtension(s, t) \/ GetBasePath(s, t)
       \/ \E u \in Names8 : WalkPath(s, t, u)
  \/ \E s \in Names8, text \in Texts :
       \/ SetToChars(s, text) \/ AppendFormat(s, text)
       \/ SetPathName(s, text) \/ AppendPath(s, text) \/ FromChars32(s, text)
  \/ \E s \in Names, text \in Texts : AppendChars(s, text)
  \/ \E s \in Names8 : Clear(s)
  \/ \E w \in Names16, text \in Texts : SetToUnits(w, text)
  \/ \E s \in Names8, start \in 0 .. 1, length \in {1, 4 * MaxLength} :
       ToLower(s, start, length) \/ ToUpper(s, start, length)
  \/ \E s \in Names8, w \in Names16 : From16(s, w) \/ From8(w, s)
  \/ \E w \in Names16, x \in Names16 :
       \/ SetTo(w, x) \/ AppendString(w, x)
       \/ \E first \in 1 .. MaxLength : \E last \in first .. MaxLength :
            last <= Len(meant[x]) /\ SetPart(w, x, first, last)
  \/ \E w \in Names16 :
       \/ MakeLower(w) \/ ReplaceUnits(w, OS_PATH_SEPARATOR, Dot)
       \/ \E text \in Texts, place \in 0 .. MaxLength :
            place <= Len(meant[w]) /\ Insert(w, place, text)
       \/ \E first \in 1 .. MaxLength : \E last \in first .. MaxLength :
            last <= Len(meant[w]) /\ RemoveUnits(w, first, last)

Spec == Init /\ [][Next]_vars
----------------------------------------------------------------------------
(* Properties *)

(* The encodings, as the Unicode standard tabulates them.                  *)
Tail6(c, n) == 128 + ((c \div 64 ^ n) % 64)
UTF8(c) ==
  IF c < 128 THEN <<c>>
  ELSE IF c < 2048 THEN <<192 + c \div 64, Tail6(c, 0)>>
  ELSE IF c < 65536 THEN <<224 + c \div 4096, Tail6(c, 1), Tail6(c, 0)>>
  ELSE <<240 + c \div 262144, Tail6(c, 2), Tail6(c, 1), Tail6(c, 0)>>
UTF16(c) ==
  IF c < 65536 THEN <<c>>
  ELSE <<55296 + (c - 65536) \div 1024, 56320 + (c % 1024)>>
Encoded(s, text) ==
  FlattenSeq([i \in DOMAIN text |-> IF s \in Names8 THEN UTF8(text[i]) ELSE UTF16(text[i])])

(* The buffer of a string is what it should say and the terminator, and    *)
(* nothing else, whatever was done with strings that share the buffer.     *)
SaysWhatIsMeant ==
  \A s \in Names : heap[str[s]].units = Append(Encoded(s, meant[s]), 0)

(* A buffer's count is the strings that use it, and the library itself for *)
(* the empty ones, which stay empty.                                       *)
StringBuffersCounted ==
  /\ \A b \in Buffers :
       heap[b].refs = Cardinality({s \in Names : str[s] = b}) + (IF b \in {1, 2} THEN 1 ELSE 0)
  /\ heap[1].units = <<0>> /\ heap[2].units = <<0>>

Codes(chars) ==
  LET from[i \in 0 .. Len(chars) + 4] ==
        LET at == utf32_from_utf8_at(chars, i) IN
        IF at.code = -1 THEN <<>> ELSE <<at.code>> \o from[at.next]
  IN  from[0]

(* The ways to go through a string, measure it, cut it to a length and     *)
(* compare it agree with the text: no character is met twice or left out,  *)
(* or cut in two.                                                          *)
Agree(chars, text) ==
  LET prefixes == {[units |-> utf8_to_utf16(utf32_to_utf8(UpTo(text, i))),
                    room  |-> IF i < Len(text) THEN Width(UpTo(text, i + 1)) ELSE Len(chars) + 1] :
                     i \in 0 .. Len(text)}
  IN
  /\ Codes(chars) = text /\ utf8_to_utf32(chars) = text
  /\ utf8_to_utf32_length(chars) = Len(text) /\ utf8_length(chars) = Len(chars)
  /\ \A n \in 0 .. Len(chars) :
       LET units == utf8_to_utf16_n(chars, n) IN
       \E cut \in prefixes : cut.units = units /\ cut.room > n

WaysAgree ==
  /\ \A way \in {<<Chars(s), meant[s]>> : s \in Names8} : Agree(way[1], way[2])
  /\ \A w, x \in Names16 : strzcmp16(Chars(w), Chars(x)) = 0 <=> meant[w] = meant[x]
=============================================================================
