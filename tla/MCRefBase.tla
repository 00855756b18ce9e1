---------------------------- MODULE MCRefBase ----------------------------
(* Three threads that share one object.  The threads other than the *)
(* creator are interchangeable.                                            *)
EXTENDS RefBase, TLC

CONSTANTS creator, other, third

MCThreads3 == {creator, other, third}

MCBeginnings == {{"strong"}, {"weak"}}
MCBothFromRaw == {{"strong", "weak"}}

Others == Permutations(MCThreads3 \ {creator})
=============================================================================
