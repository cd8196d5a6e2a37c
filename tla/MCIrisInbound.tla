---------------------------- MODULE MCIrisInbound ----------------------------
(* Two rooms, one text, room_worker_count misconfigured (0), 1 or 2.        *)
EXTENDS IrisInbound, TLC
CONSTANTS r1, r2, t1

MCRooms == {r1, r2}
MCTexts == {t1}
MCWorkerCounts == {0, 2}
==============================================================================
