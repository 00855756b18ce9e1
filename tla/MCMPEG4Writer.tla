--------------------------- MODULE MCMPEG4Writer ---------------------------
(* Two tracks with a few frames each: a frame every two microseconds, of   *)
(* different lengths, a second of SecondUs = 3 microseconds so that        *)
(* durations round, elements of three entries, and five settings.          *)
EXTENDS MPEG4Writer

MCTracks == <<"video", "audio">>

Frame_(us, dts, sync, len) == [us |-> us, dts |-> dts, sync |-> sync, len |-> len, config |-> FALSE]
MCSource ==
  [video |-> <<[Frame_(2, 2, FALSE, 7) EXCEPT !.config = TRUE],
               Frame_(4, 4, TRUE, 3), Frame_(6, 6, FALSE, 5), Frame_(8, 8, TRUE, 5),
               Frame_(11, 10, TRUE, 5), Frame_(12, 12, TRUE, 4)>>,
   audio |-> <<Frame_(5, 5, TRUE, 2), Frame_(7, 7, TRUE, 2), Frame_(9, 9, TRUE, 0)>>]
MCScale == [video |-> 2, audio |-> 5]
MCCodec == [video |-> "avc1", audio |-> "mp4a"]
MCCsd   == [video |-> 0, audio |-> 5]

Setting(realTime, interleave, est, streamable, use32) ==
  [realTime |-> realTime, interleave |-> interleave, limit |-> 0, est |-> est,
   streamable |-> streamable, use32 |-> use32, nal |-> 4, geo |-> ~streamable, drop |-> 100,
   calls |-> 0, starts |-> 1, frames |-> [video |-> 4, audio |-> 3]]

Restarted(realTime) ==
  [Setting(realTime, 1, 1000, TRUE, TRUE) EXCEPT !.starts = 3, !.calls = 1,
                                                 !.frames = [video |-> 2, audio |-> 1]]

\* paused and resumed; a movie box that outgrows its space, and a limit on
\* the size; a movie box at the end, and more video than the file takes; started
\* again after a start that failed, and paused in between
MCConfs ==
  {[Setting(TRUE, 1, 2000, TRUE, TRUE) EXCEPT !.calls = 2, !.frames.audio = 2],
   [Setting(FALSE, 0, 1000, TRUE, TRUE) EXCEPT !.limit = 1080],
   [Setting(TRUE, 1, 3000, FALSE, FALSE) EXCEPT !.drop = 12, !.frames.video = 6],
   Restarted(FALSE), Restarted(TRUE)}
==============================================================================
