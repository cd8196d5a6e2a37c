--------------------------- MODULE MCAccessControl ---------------------------
(* Two rooms, the bootstrap admin and another user, one intent.  The        *)
(* database is new, or the other user has become admin of the other room    *)
(* and the bootstrap admin is gone from it.                                 *)
EXTENDS AccessControl, TLC
CONSTANTS r1, r2, u1, u2, i1, c1, c2
MCConfig == {Room(r1)}
MCStored == {{}, {Room(r2), AdminRoom(r2), AdminUser(u2)}}
MCSymmetry == Permutations(Commands)
==============================================================================
