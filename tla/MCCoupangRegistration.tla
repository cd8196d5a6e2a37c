------------------------ MODULE MCCoupangRegistration ------------------------
(* Two lookups of one track with coalescing, of two tracks without: the     *)
(* flights are per track, without them lookups of one track only repeat     *)
(* each other's work.                                                       *)
EXTENDS CoupangRegistration, TLC
CONSTANTS l1, l2, t1, t2
MCLookups == {l1, l2}
MCTracks == {t1, t2}
SameTrack == [l \in MCLookups |-> t1]
TwoTracks == [l \in MCLookups |-> IF l = l1 THEN t1 ELSE t2]
MCSettings == {<<TRUE, SameTrack>>, <<FALSE, TwoTracks>>}
DeferredSettings == {<<TRUE, TwoTracks>>}
==============================================================================
