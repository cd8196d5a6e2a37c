------------------------------- MODULE MCLotto -------------------------------
(* One user in two rooms: every request may overlap another of the user.    *)
(* Three weeks with the close of sales and the publication of two draws; a  *)
(* recommendation of two lines, messages with one set of numbers or invalid *)
(* ones.                                                                    *)
EXTENDS Lotto, TLC
CONSTANTS c1, c2, u1
MCSymmetry == Permutations(Rooms)
==============================================================================
