--------------------------- MODULE MCCoupangRefresh ---------------------------
(* Two lookups of one product, their background refreshes and the sweep.    *)
(* Other products share nothing with it but the budget, which is a choice,  *)
(* and the errgroup: their refreshes appear as the slots they hold.         *)
EXTENDS CoupangRefresh, TLC
CONSTANTS l1, l2, t1
MCLookups == {l1, l2}
MCTracks == {t1}
==============================================================================
