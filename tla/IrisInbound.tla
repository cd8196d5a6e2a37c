----------------------------- MODULE IrisInbound -----------------------------
(***************************************************************************)
(* The inbound half of the Iris adapter (internal/transport/iris):         *)
(* Client.Start dials the websocket, readLoop reads frames, suppresses     *)
(* re-emitted ones and hands the others to an inboundDispatcher, which     *)
(* runs one worker goroutine per chat room behind a semaphore.  Every      *)
(* connection gets a dispatcher of its own, so the dispatcher's state is   *)
(* indexed by the connection that made it.                                 *)
(*                                                                         *)
(* A frame is its arrival number.  Frames carry the dispatch key of their  *)
(* room (roomDispatchKey) and a text.  Time is the age of the dedup        *)
(* entries; entries past the window and absent entries are the same thing  *)
(* to isDuplicate, so evict() needs no action.                             *)
(***************************************************************************)
EXTENDS Integers, Sequences, FiniteSets

CONSTANTS
  Rooms,         \* dispatch keys (chat ids)
  Texts,         \* message texts, as far as the dedup key tells them apart
  WorkerCounts,  \* values iris.room_worker_count may be configured to
  BufCap,        \* capacity of a room's channel (64 in the code)
  DedupWindow,   \* dedup window in ticks (10 s in the code)
  MaxFrames,     \* bound: frames the server ever sends
  MaxConns       \* bound: connections ever established

ASSUME IrisAssumption ==
  /\ WorkerCounts \subseteq Int
  /\ BufCap \in Nat \ {0}
  /\ DedupWindow \in Nat
  /\ MaxFrames \in Nat
  /\ MaxConns \in Nat

Frames == 1 .. MaxFrames
Conns  == 1 .. MaxConns

VARIABLES
  roomWorkerEnabled, \* Client.roomWorkerEnabled, never changes
  roomWorkerCount,   \* Client.roomWorkerCount, never changes
  cancelled,         \* the context given to Start is done
  client,            \* where the Start goroutine is
  conn,              \* number of the latest connection, 0 before the first
  seen,              \* messageDedup.seen: ticks an entry still suppresses
  arrived,           \* frames read so far
  pending,           \* frame the reader is dispatching, with its room
  worker,            \* worker[c][r]: the goroutine runRoomWorker(r) of c
  queue,             \* queue[c][r]: the channel of r's worker, kept after it exits
  current,           \* current[c][r]: frame the worker handles or handled last
  closedChans,       \* closedChans[c]: rooms whose channel close() closed
  sem,               \* sem[c]: rooms whose worker holds a token of dispatcher.sem
  accepted,          \* history: frames that passed the dedup check
  started,           \* history: frames whose handler was called
  dropped,           \* history: frames counted by droppedMessages
  last               \* history: last[r] is the latest frame of r handed to a handler

cfgVars == <<roomWorkerEnabled, roomWorkerCount>>
dispVars == <<worker, queue, current, closedChans, sem>>
histVars == <<accepted, started, dropped, last>>
vars == <<cfgVars, cancelled, client, conn, seen, arrived, pending, dispVars, histVars>>

ClientStates == {"dialing", "reading", "enqueue", "inline", "closing", "backoff", "stopped"}
WorkerStates == {"none", "waiting", "idle", "handling"}
NoFrame == [frame |-> 0, room |-> "none"]
Pendings == {NoFrame} \cup [frame : Frames, room : Rooms]

------------------------------------------------------------------------------
(* newInboundDispatcher turns a count that is not positive into one worker. *)
MaxRoomWorker == IF roomWorkerCount <= 0 THEN 1 ELSE roomWorkerCount

NoDedup == [k \in Rooms \X Texts |-> 0]

Init ==
  /\ roomWorkerEnabled \in BOOLEAN
  /\ roomWorkerCount \in WorkerCounts
  /\ cancelled = FALSE
  /\ client = "dialing"
  /\ conn = 0
  /\ seen = NoDedup
  /\ arrived = 0
  /\ pending = NoFrame
  /\ worker = [c \in Conns |-> [r \in Rooms |-> "none"]]
  /\ queue = [c \in Conns |-> [r \in Rooms |-> <<>>]]
  /\ current = [c \in Conns |-> [r \in Rooms |-> 0]]
  /\ closedChans = [c \in Conns |-> {}]
  /\ sem = [c \in Conns |-> {}]
  /\ accepted = {}
  /\ started = {}
  /\ dropped = {}
  /\ last = [r \in Rooms |-> 0]

------------------------------------------------------------------------------
(* The Start goroutine: connect, read, close the dispatcher, back off.      *)

(* DialContext succeeds; readLoop makes a fresh dispatcher and a fresh      *)
(* messageDedup.                                                            *)
Connect ==
  /\ client = "dialing" /\ ~cancelled
  /\ conn < MaxConns
  /\ client' = "reading"
  /\ conn' = conn + 1
  /\ seen' = NoDedup
  /\ UNCHANGED <<cfgVars, cancelled, arrived, pending, dispVars, histVars>>

(* DialContext fails, as it always does under a done context.               *)
ConnectFails ==
  /\ client = "dialing"
  /\ client' = "backoff"
  /\ UNCHANGED <<cfgVars, cancelled, conn, seen, arrived, pending, dispVars, histVars>>

(* sleepContext's timer fires, and the loop tests ctx.Err() again.          *)
BackoffElapses ==
  /\ client = "backoff" /\ ~cancelled
  /\ client' = "dialing"
  /\ UNCHANGED <<cfgVars, cancelled, conn, seen, arrived, pending, dispVars, histVars>>

(* sleepContext or the loop's condition sees the done context.              *)
Stop ==
  /\ client = "backoff" /\ cancelled
  /\ client' = "stopped"
  /\ UNCHANGED <<cfgVars, cancelled, conn, seen, arrived, pending, dispVars, histVars>>

(* ReadMessage fails: the peer closed, or the read deadline passed because  *)
(* no pong came (none comes once the ping goroutine saw the done context).  *)
(* The deferred dispatcher.close() closes the channels of the rooms it has. *)
ReadFails ==
  /\ client = "reading"
  /\ client' = "closing"
  /\ closedChans' = [closedChans EXCEPT ![conn] = {r \in Rooms : worker[conn][r] # "none"}]
  /\ UNCHANGED <<cfgVars, cancelled, conn, seen, arrived, pending,
                 worker, queue, current, sem, histVars>>

(* Defect: close() does not wait for its workers.                           *)
MutCloseReturns ==
  /\ client = "closing"
  /\ client' = "backoff"
  /\ UNCHANGED <<cfgVars, cancelled, conn, seen, arrived, pending, dispVars, histVars>>

(* close() returns from wg.Wait(): every worker it started has returned.    *)
CloseReturns ==
  /\ client = "closing"
  /\ \A r \in Rooms : worker[conn][r] = "none"
  /\ client' = "backoff"
  /\ UNCHANGED <<cfgVars, cancelled, conn, seen, arrived, pending, dispVars, histVars>>

------------------------------------------------------------------------------
(* One frame, from ReadMessage to the end of dispatch().                    *)

(* The frame does not decode, or it is the bot's own echo.                  *)
SkipFrame ==
  /\ client = "reading" /\ arrived < MaxFrames
  /\ arrived' = arrived + 1
  /\ UNCHANGED <<cfgVars, cancelled, client, conn, seen, pending, dispVars, histVars>>

IsDuplicate(r, t) == seen[<<r, t>>] > 0

SuppressDuplicate(r, t) ==
  /\ client = "reading" /\ arrived < MaxFrames
  /\ IsDuplicate(r, t)
  /\ arrived' = arrived + 1
  /\ UNCHANGED <<cfgVars, cancelled, client, conn, seen, pending, dispVars, histVars>>

(* The frame is fresh: isDuplicate records it and the reader dispatches it. *)
AcceptFrame(r, t) ==
  /\ client = "reading" /\ arrived < MaxFrames
  /\ ~IsDuplicate(r, t)
  /\ arrived' = arrived + 1
  /\ seen' = [seen EXCEPT ![<<r, t>>] = DedupWindow]
  /\ pending' = [frame |-> arrived + 1, room |-> r]
  /\ accepted' = accepted \cup {arrived + 1}

(* dispatch() without room workers calls the handler on the read loop.      *)
DispatchInline(r, t) ==
  /\ ~roomWorkerEnabled
  /\ AcceptFrame(r, t)
  /\ client' = "inline"
  /\ started' = started \cup {arrived + 1}
  /\ last' = [last EXCEPT ![r] = arrived + 1]
  /\ UNCHANGED <<cfgVars, cancelled, conn, dispVars, dropped>>

InlineReturns ==
  /\ client = "inline"
  /\ client' = "reading"
  /\ pending' = NoFrame
  /\ UNCHANGED <<cfgVars, cancelled, conn, seen, arrived, dispVars, histVars>>

(* dispatch() with room workers: ensureRoomWorker finds the room's channel, *)
(* or makes one and starts its worker.                                      *)
EnsureRoomWorker(r, t) ==
  /\ roomWorkerEnabled
  /\ AcceptFrame(r, t)
  /\ client' = "enqueue"
  /\ IF worker[conn][r] = "none"
     THEN /\ worker' = [worker EXCEPT ![conn][r] = "waiting"]
          /\ queue' = [queue EXCEPT ![conn][r] = <<>>]
     ELSE UNCHANGED <<worker, queue>>
  /\ UNCHANGED <<cfgVars, cancelled, conn, current, closedChans, sem, started, dropped, last>>

(* The non-blocking send: the channel takes the frame, or dispatch() counts *)
(* it as dropped.  The worker may have exited meanwhile (done context): the *)
(* reader then feeds a channel nobody reads.                                *)
EnqueueOrDrop ==
  LET r == pending.room
      n == pending.frame
  IN
  /\ client = "enqueue"
  /\ client' = "reading"
  /\ pending' = NoFrame
  /\ IF Len(queue[conn][r]) < BufCap
     THEN /\ queue' = [queue EXCEPT ![conn][r] = Append(@, n)]
          /\ UNCHANGED dropped
     ELSE /\ dropped' = dropped \cup {n}
          /\ UNCHANGED queue
  /\ UNCHANGED <<cfgVars, cancelled, conn, seen, arrived,
                 worker, current, closedChans, sem, accepted, started, last>>

------------------------------------------------------------------------------
(* runRoomWorker.                                                           *)

(* Defect: the semaphore is made one token short.                           *)
MutSemTooNarrow(c, r) ==
  /\ worker[c][r] = "waiting"
  /\ Cardinality(sem[c]) < MaxRoomWorker - 1
  /\ sem' = [sem EXCEPT ![c] = @ \cup {r}]
  /\ worker' = [worker EXCEPT ![c][r] = "idle"]
  /\ UNCHANGED <<cfgVars, cancelled, client, conn, seen, arrived, pending,
                 queue, current, closedChans, histVars>>

AcquireSem(c, r) ==
  /\ worker[c][r] = "waiting"
  /\ Cardinality(sem[c]) < MaxRoomWorker
  /\ sem' = [sem EXCEPT ![c] = @ \cup {r}]
  /\ worker' = [worker EXCEPT ![c][r] = "idle"]
  /\ UNCHANGED <<cfgVars, cancelled, client, conn, seen, arrived, pending,
                 queue, current, closedChans, histVars>>

(* select picks the channel (it may even when the context is done) and the  *)
(* handler is called.                                                       *)
StartHandler(c, r) ==
  /\ worker[c][r] = "idle"
  /\ queue[c][r] # <<>>
  /\ worker' = [worker EXCEPT ![c][r] = "handling"]
  /\ queue' = [queue EXCEPT ![c][r] = Tail(@)]
  /\ current' = [current EXCEPT ![c][r] = Head(queue[c][r])]
  /\ started' = started \cup {Head(queue[c][r])}
  /\ last' = [last EXCEPT ![r] = Head(queue[c][r])]
  /\ UNCHANGED <<cfgVars, cancelled, client, conn, seen, arrived, pending,
                 closedChans, sem, accepted, dropped>>

HandlerReturns(c, r) ==
  /\ worker[c][r] = "handling"
  /\ worker' = [worker EXCEPT ![c][r] = "idle"]
  /\ UNCHANGED <<cfgVars, cancelled, client, conn, seen, arrived, pending,
                 queue, current, closedChans, sem, histVars>>

(* Defect: a closed channel ends the worker with frames still in it.        *)
MutWorkerExits(c, r) ==
  /\ worker[c][r] = "idle"
  /\ cancelled \/ r \in closedChans[c]
  /\ worker' = [worker EXCEPT ![c][r] = "none"]
  /\ sem' = [sem EXCEPT ![c] = @ \ {r}]
  /\ UNCHANGED <<cfgVars, cancelled, client, conn, seen, arrived, pending,
                 queue, current, closedChans, histVars>>

(* Defect: a worker that returns keeps its token.                           *)
MutTokenLeaks(c, r) ==
  /\ worker[c][r] = "idle"
  /\ cancelled \/ (r \in closedChans[c] /\ queue[c][r] = <<>>)
  /\ worker' = [worker EXCEPT ![c][r] = "none"]
  /\ UNCHANGED <<cfgVars, cancelled, client, conn, seen, arrived, pending,
                 queue, current, closedChans, sem, histVars>>

(* The worker returns on a done context, or when its channel is closed and  *)
(* drained; its deferred calls forget the room, release the token and leave *)
(* the wait group.                                                          *)
WorkerExits(c, r) ==
  /\ worker[c][r] = "idle"
  /\ cancelled \/ (r \in closedChans[c] /\ queue[c][r] = <<>>)
  /\ worker' = [worker EXCEPT ![c][r] = "none"]
  /\ sem' = [sem EXCEPT ![c] = @ \ {r}]
  /\ UNCHANGED <<cfgVars, cancelled, client, conn, seen, arrived, pending,
                 queue, current, closedChans, histVars>>

------------------------------------------------------------------------------
(* The environment.                                                         *)

Cancel ==
  /\ ~cancelled
  /\ cancelled' = TRUE
  /\ UNCHANGED <<cfgVars, client, conn, seen, arrived, pending, dispVars, histVars>>

(* A tick of the clock ages the dedup entries.                              *)
Tick ==
  /\ \E k \in DOMAIN seen : seen[k] > 0
  /\ seen' = [k \in DOMAIN seen |-> IF seen[k] > 0 THEN seen[k] - 1 ELSE 0]
  /\ UNCHANGED <<cfgVars, cancelled, client, conn, arrived, pending, dispVars, histVars>>

(* Start has returned: nothing is left to do.                               *)
Stopped == client = "stopped" /\ UNCHANGED vars

ClientStep ==
  \/ Connect \/ ConnectFails \/ BackoffElapses \/ Stop
  \/ ReadFails \/ CloseReturns \/ InlineReturns \/ EnqueueOrDrop \/ SkipFrame
  \/ \E r \in Rooms, t \in Texts :
       SuppressDuplicate(r, t) \/ DispatchInline(r, t) \/ EnsureRoomWorker(r, t)

WorkerStep(c, r) ==
  AcquireSem(c, r) \/ StartHandler(c, r) \/ HandlerReturns(c, r) \/ WorkerExits(c, r)

Next ==
  \/ ClientStep
  \/ \E c \in Conns, r \in Rooms : WorkerStep(c, r)
  \/ Cancel \/ Tick \/ Stopped

(* Goroutines run: a worker that can go on does, handlers return, the read  *)
(* loop's own steps happen.  The server need send nothing and a healthy     *)
(* connection need never fail; but once the context is done the pings stop  *)
(* and the read deadline ends the read.                                     *)
Fairness ==
  /\ \A c \in Conns, r \in Rooms : WF_vars(WorkerStep(c, r))
  /\ WF_vars(ConnectFails \/ BackoffElapses \/ Stop \/ CloseReturns \/ InlineReturns \/ EnqueueOrDrop)
  /\ WF_vars(cancelled /\ ReadFails)

Spec == Init /\ [][Next]_vars
FairSpec == Spec /\ Fairness
------------------------------------------------------------------------------
(* Types of the variables above.                                            *)
TypeOK ==
  /\ roomWorkerEnabled \in BOOLEAN
  /\ roomWorkerCount \in WorkerCounts
  /\ cancelled \in BOOLEAN
  /\ client \in ClientStates
  /\ conn \in 0 .. MaxConns
  /\ seen \in [Rooms \X Texts -> 0 .. DedupWindow]
  /\ arrived \in 0 .. MaxFrames
  /\ pending \in Pendings
  /\ worker \in [Conns -> [Rooms -> WorkerStates]]
  /\ queue \in [Conns -> [Rooms -> Seq(Frames)]]
  /\ current \in [Conns -> [Rooms -> 0 .. MaxFrames]]
  /\ closedChans \in [Conns -> SUBSET Rooms]
  /\ sem \in [Conns -> SUBSET Rooms]
  /\ accepted \subseteq Frames
  /\ started \subseteq Frames
  /\ dropped \subseteq Frames
  /\ last \in [Rooms -> 0 .. MaxFrames]

------------------------------------------------------------------------------
(* Rooms that have a worker goroutine, and the frames such rooms queue.     *)
OpenRooms(c) == {r \in Rooms : worker[c][r] # "none"}
Elements(s) == {s[i] : i \in 1 .. Len(s)}
Queued == UNION {UNION {Elements(queue[c][r]) : r \in OpenRooms(c)} : c \in Conns}
Crowded == \E c \in Conns : Cardinality(OpenRooms(c)) > MaxRoomWorker

(* The handlers of one room never overlap: not two workers of it, not the   *)
(* workers of two connections around a reconnect, not a worker and the read *)
(* loop.  close() earns this by waiting for its workers before the client   *)
(* dials again.                                                             *)
SerialPerRoom ==
  \A r \in Rooms :
    LET handling == {c \in Conns : worker[c][r] = "handling"}
    IN  /\ \A c, d \in handling : c = d
        /\ (client = "inline" /\ pending.room = r) => handling = {}

(* Handlers of a room are called in the order its frames arrived, each      *)
(* frame at most once, across reconnects and across the workers a room has  *)
(* one after the other.                                                     *)
InRoomOrder ==
  [][/\ \A c \in Conns, r \in Rooms :
          (worker[c][r] # "handling" /\ worker'[c][r] = "handling")
             => current'[c][r] > last[r]
     /\ \A r \in Rooms : last'[r] >= last[r]]_vars

(* As long as the bot is not shutting down, a frame that passed the dedup   *)
(* check is never lost without a trace: its handler was called, or it is on *)
(* its way to one, or droppedMessages counts it.  In particular a reconnect *)
(* handles everything the old connection had queued.                        *)
NoSilentLoss ==
  ~cancelled =>
     accepted = started \cup dropped \cup Queued \cup ({pending.frame} \ {0})

(* A queued frame is eventually handed to its handler, unless the bot shuts *)
(* down or more rooms are open than there are workers.                      *)
QueuedStarts ==
  \A n \in Frames : (n \in Queued) ~> (n \in started \/ cancelled \/ Crowded)

(* What the README promises of the room workers: rooms are handled in       *)
(* parallel, room_worker_count bounds how many are handled at once, so a    *)
(* queued frame has only to wait for a handler.  The code does not keep it: *)
(* a worker has its token until its connection ends, idle or not.           *)
EveryQueuedFrameStarts ==
  \A n \in Frames : (n \in Queued) ~> (n \in started \/ cancelled)

(* Once the context is done, Start returns, whatever was queued.            *)
ShutdownCompletes == cancelled ~> client = "stopped"

(* What the proofs need beside the types.  The reader is on a connection    *)
(* and holds a frame when its step says so; a worker that is not done       *)
(* belongs to the latest connection, and to a reader that has not left it;  *)
(* without room workers there are none.                                     *)
PhaseOK ==
  /\ client \in {"reading", "enqueue", "inline", "closing"} => conn \in Conns
  /\ client \in {"enqueue", "inline"} => pending \in [frame : Frames, room : Rooms]
  /\ client \in {"dialing", "backoff", "stopped"} =>
       \A c \in Conns, r \in Rooms : worker[c][r] = "none"
  /\ \A c \in Conns, r \in Rooms : worker[c][r] # "none" => c = conn
  /\ ~roomWorkerEnabled => \A c \in Conns, r \in Rooms : worker[c][r] = "none"
  /\ client = "inline" => ~roomWorkerEnabled

(* The frames a room still has to handle are younger than the ones it has   *)
(* handled, and they are queued oldest first; the frame the reader holds is *)
(* the youngest of all.                                                     *)
OrderOK ==
  /\ \A r \in Rooms : last[r] <= arrived
  /\ \A c \in Conns, r \in Rooms :
       /\ \A i \in 1 .. Len(queue[c][r]) : queue[c][r][i] <= arrived
       /\ worker[c][r] # "none" =>
            /\ \A i \in 1 .. Len(queue[c][r]) : queue[c][r][i] > last[r]
            /\ \A i, j \in 1 .. Len(queue[c][r]) : i < j => queue[c][r][i] < queue[c][r][j]
  /\ client = "enqueue" =>
       /\ pending.frame = arrived
       /\ last[pending.room] < arrived
       /\ \A i \in 1 .. Len(queue[conn][pending.room]) : queue[conn][pending.room][i] < arrived

(* No accepted frame is lost: the reader holds one only between isDuplicate *)
(* and the end of dispatch(), for a room whose worker is still there,       *)
(* because channels are closed by the reader itself and after its last      *)
(* frame; a worker leaves such a channel only on a done context.            *)
LossOK ==
  /\ client \notin {"enqueue", "inline"} => pending = NoFrame
  /\ client = "inline" => pending.frame \in started
  /\ (client = "enqueue" /\ ~cancelled) => worker[conn][pending.room] # "none"
  /\ \A c \in Conns : c > conn => closedChans[c] = {}
  /\ client \in {"reading", "enqueue", "inline"} => closedChans[conn] = {}
  /\ NoSilentLoss

(* The inductive invariant behind SerialPerRoom, InRoomOrder and            *)
(* NoSilentLoss.                                                            *)
IInv == TypeOK /\ PhaseOK /\ OrderOK /\ LossOK

==============================================================================
