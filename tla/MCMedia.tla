----------------------------- MODULE MCMedia -----------------------------
(***************************************************************************)
(* What is read from a file and what is made of it, in parts that do not   *)
(* call each other: the MP4 files of MCMPEG4Source and the parts of        *)
(* MCPayloads.  A behaviour is one of one part; in another there is no     *)
(* film.                                                                   *)
(***************************************************************************)
EXTENDS MCMPEG4Source

VARIABLES part, v1, v2, v3, v4, v5, v6, v7
payload == <<v1, v2, v3, v4, v5, v6, v7>>

Payloads == INSTANCE MCPayloads

NoFilm == file = [size |-> 0, boxes |-> <<>>] /\ x = Extractor /\ source = <<>> /\ seeks = 0

MCInit ==
  \/ part = "film" /\ Init /\ Payloads!PayloadsOff
  \/ part \in Payloads!PayloadParts /\ NoFilm /\ Payloads!PayloadsInit(part)

PlayFilm == part = "film" /\ Next /\ UNCHANGED <<part, payload>>
PlayPayloads == Payloads!PayloadsNext(part) /\ UNCHANGED <<part, vars>>

MCSpec == MCInit /\ [][PlayFilm \/ PlayPayloads]_<<part, vars, payload>>

(* StoresAreRight: what is shared is counted, kept while it is used, and   *)
(* apart where it was copied: the buffers of String8 and String16, the     *)
(* items, buffers and objects of an AMessage and of its deep copies, and   *)
(* the memory of the values of MetaData (String8, AMessage, MetaData).     *)
(* Reads through TinyCacheSource give the bytes of the file, whatever      *)
(* window the reads before left, and MediaExtractor::Create() takes the    *)
(* most confident sniffer, whichever thread registered them.               *)
StoresAreRight == Payloads!Shared(part) /\ Payloads!Found(part)

(* FormatsAreRead: a conversion says what its source says.  Strings say    *)
(* what they should to the last unit, but that "foo." has the extension    *)
(* "." (String8.h:191 says it has none); base64, formats and messages come *)
(* back; headers, bits and descriptors are read as written, but that a     *)
(* descriptor with a URL may be refused and that bytes after one that says *)
(* less than its flags need may be read; NAL units are found whole, but    *)
(* that a last one of a single byte is lost (ESDS, avc_utils, Utils).      *)
FormatsAreRead == Payloads!Converted(part)
=============================================================================
