--------------------------- MODULE MCSportsPoller ---------------------------
(* The program starts at 09:00 or 23:00 in Korea.  Matches start at 10:00,  *)
(* at midnight and 09:30 of the next day, which two UTC dates share, and a  *)
(* day later.                                                               *)
EXTENDS SportsPoller, TLC
MCStarts == {50, 78, 97, 130}
MCBoots == {48, 76}
MCSymmetry == Permutations(Fixtures)
==============================================================================
