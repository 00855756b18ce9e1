--------------------------- MODULE MediaExtractor ---------------------------
(***************************************************************************)
(* How the extractor of a file is found.  The sniffers are registered once *)
(* and under a lock; a thread that creates an extractor looks under the    *)
(* lock whether they are, and asks one after the other without it, as does *)
(* another thread at the same time.  What a sniffer says of a file is the  *)
(* subject of the modules of the extractors.                               *)
(***************************************************************************)
EXTENDS Integers, SequencesExt, TLC

CONSTANTS
  Makers,       \* threads
  Opinions      \* functions from some of the sniffers to a type and a confidence

VARIABLES
  gSniffersRegistered, gSniffers,
  opinion,      \* of the file each thread has
  makes         \* of each thread: the sniffer it is at, the best until now, the extractor

vars == <<gSniffersRegistered, gSniffers, opinion, makes>>

Default == <<"SniffMPEG4", "SniffMPEG2TS", "SniffMPEG2PS">>
NoMime == ""
Extractors ==
  [mime \in {"video/mp4", "audio/mp4"} |-> "MPEG4Extractor"]
    @@ ("video/mp2ts" :> "MPEG2TSExtractor") @@ ("video/mp2p" :> "MPEG2PSExtractor")

Idle == [pc |-> "idle"]

Init ==
  /\ gSniffersRegistered = FALSE /\ gSniffers = <<>>
  /\ opinion \in [Makers -> Opinions] /\ makes = [t \in Makers |-> Idle]
----------------------------------------------------------------------------
RegisterSniffer_l(sniffers, func) == IF Contains(sniffers, func) THEN sniffers ELSE Append(sniffers, func)

(* RegisterDefaultSniffers() *)
Register(t) ==
  /\ makes[t].pc \in {"idle", "made"}
  /\ IF gSniffersRegistered THEN UNCHANGED <<gSniffers, gSniffersRegistered>>
     ELSE gSniffers' = FoldLeft(RegisterSniffer_l, gSniffers, Default) /\ gSniffersRegistered' = TRUE
  /\ UNCHANGED <<opinion, makes>>

(* Create(): the extractor of a type, if there is one.                     *)
Make(t, mime, sniffed) ==
  makes' = [makes EXCEPT ![t] =
    [pc |-> "made", sniffed |-> sniffed, got |-> IF mime \in DOMAIN Extractors THEN <<Extractors[mime]>> ELSE <<>>]]

CreateAs(t, mime) ==
  makes[t].pc = "idle" /\ Make(t, mime, FALSE) /\ UNCHANGED <<gSniffersRegistered, gSniffers, opinion>>

(* sniff(): is anything registered?                                        *)
Create(t) ==
  /\ makes[t].pc = "idle"
  /\ IF gSniffersRegistered
     THEN makes' = [makes EXCEPT ![t] = [pc |-> "sniff", it |-> 1, mimeType |-> NoMime, confidence |-> 0]]
     ELSE Make(t, NoMime, FALSE)
  /\ UNCHANGED <<gSniffersRegistered, gSniffers, opinion>>

\* mutant of Better: the later of two that are as confident
AsGood(t, func) ==
  func \in DOMAIN opinion[t] /\ opinion[t][func].confidence >= makes[t].confidence
Better(t, func) ==
  func \in DOMAIN opinion[t] /\ opinion[t][func].confidence > makes[t].confidence

Sniff(t) ==
  /\ makes[t].pc = "sniff" /\ makes[t].it <= Len(gSniffers)
  /\ LET func == gSniffers[makes[t].it] IN
     makes' = [makes EXCEPT ![t].it = @ + 1,
                 ![t].mimeType = IF Better(t, func) THEN opinion[t][func].mimeType ELSE @,
                 ![t].confidence = IF Better(t, func) THEN opinion[t][func].confidence ELSE @]
  /\ UNCHANGED <<gSniffersRegistered, gSniffers, opinion>>

Sniffed(t) ==
  /\ makes[t].pc = "sniff" /\ makes[t].it > Len(gSniffers)
  /\ Make(t, IF makes[t].confidence > 0 THEN makes[t].mimeType ELSE NoMime, TRUE)
  /\ UNCHANGED <<gSniffersRegistered, gSniffers, opinion>>

Next ==
  \E t \in Makers :
    \/ Register(t) \/ Create(t) \/ Sniff(t) \/ Sniffed(t)
    \/ \E mime \in DOMAIN Extractors : CreateAs(t, mime)

Spec == Init /\ [][Next]_vars
----------------------------------------------------------------------------
(* A thread that sniffs meets every sniffer and takes the most confident   *)
(* one, the earlier of two that are as confident, although others register *)
(* and sniff meanwhile: the list does not change once it is looked at      *)
(* (DataSource::sniff(), RegisterDefaultSniffers()).                       *)
Confidence(t, i) == IF Default[i] \in DOMAIN opinion[t] THEN opinion[t][Default[i]].confidence ELSE 0
MostConfident(t) ==
  CHOOSE i \in DOMAIN Default : \A j \in DOMAIN Default :
    Confidence(t, j) < Confidence(t, i) \/ (Confidence(t, j) = Confidence(t, i) /\ i <= j)
BestIsTaken ==
  \A t \in Makers :
    /\ makes[t].pc = "sniff" => gSniffers = Default
    /\ makes[t].pc = "made" /\ makes[t].sniffed =>
         makes[t].got = IF Confidence(t, MostConfident(t)) = 0 THEN <<>>
                        ELSE <<Extractors[opinion[t][Default[MostConfident(t)]].mimeType]>>
=============================================================================
