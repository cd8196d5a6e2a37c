------------------------- MODULE IrisInboundProofs -------------------------
(***************************************************************************)
(* What holds of the Iris client and its dispatcher for any rooms, any     *)
(* worker count, any channel capacity and any number of connections.       *)
(***************************************************************************)
EXTENDS IrisInbound, TLAPS

(* Setting one entry of a two-level table leaves the others alone. *)
LEMMA Update2 ==
  ASSUME NEW S, NEW T, NEW V, NEW f \in [S -> [T -> V]],
         NEW a \in S, NEW b \in T, NEW v \in V
  PROVE  /\ [f EXCEPT ![a][b] = v] \in [S -> [T -> V]]
         /\ \A x \in S, y \in T :
              [f EXCEPT ![a][b] = v][x][y] = IF x = a /\ y = b THEN v ELSE f[x][y]
OBVIOUS

(* The two halves of a channel that is not empty. *)
LEMMA HeadTailType ==
  ASSUME NEW S, NEW q \in Seq(S), q # <<>>
  PROVE  Head(q) \in S /\ Tail(q) \in Seq(S)
OBVIOUS

(* The initial state has the types. *)
LEMMA TypeInit == Init => TypeOK
<1> USE IrisAssumption
<1> SUFFICES ASSUME Init PROVE TypeOK
  OBVIOUS
<1>1. seen \in [Rooms \X Texts -> 0 .. DedupWindow]
  BY DEF Init, NoDedup
<1>2. <<>> \in Seq(Frames)
  OBVIOUS
<1>3. /\ worker \in [Conns -> [Rooms -> WorkerStates]]
      /\ queue \in [Conns -> [Rooms -> Seq(Frames)]]
      /\ current \in [Conns -> [Rooms -> 0 .. MaxFrames]]
      /\ closedChans \in [Conns -> SUBSET Rooms]
      /\ sem \in [Conns -> SUBSET Rooms]
      /\ last \in [Rooms -> 0 .. MaxFrames]
  BY <1>2 DEF Init, WorkerStates
<1>4. /\ conn \in 0 .. MaxConns
      /\ arrived \in 0 .. MaxFrames
      /\ pending \in Pendings
      /\ client \in ClientStates
  BY DEF Init, Pendings, ClientStates
<1> QED
  BY <1>1, <1>3, <1>4 DEF Init, TypeOK

(* What a fresh frame brings is well typed. *)
LEMMA TypeAccept ==
  ASSUME TypeOK, NEW r \in Rooms, NEW t \in Texts, AcceptFrame(r, t)
  PROVE  /\ arrived + 1 \in Frames
         /\ arrived' \in 0 .. MaxFrames
         /\ seen' \in [Rooms \X Texts -> 0 .. DedupWindow]
         /\ pending' \in Pendings
         /\ accepted' \subseteq Frames
<1> USE IrisAssumption
<1>1. arrived + 1 \in Frames /\ arrived' \in 0 .. MaxFrames
  BY DEF AcceptFrame, Frames, TypeOK
<1>2. seen' \in [Rooms \X Texts -> 0 .. DedupWindow]
  BY DEF AcceptFrame, TypeOK
<1> QED
  BY <1>1, <1>2 DEF AcceptFrame, Pendings, TypeOK

(* The client's steps keep the types. *)
LEMMA TypeClient ==
  ASSUME TypeOK, PhaseOK, ClientStep
  PROVE  TypeOK'
<1> USE IrisAssumption DEF TypeOK, cfgVars, dispVars, histVars
<1>1. CASE Connect
  BY <1>1 DEF Connect, NoDedup, ClientStates
<1>2. CASE ConnectFails
  BY <1>2 DEF ConnectFails, ClientStates
<1>3. CASE BackoffElapses
  BY <1>3 DEF BackoffElapses, ClientStates
<1>4. CASE Stop
  BY <1>4 DEF Stop, ClientStates
<1>5. CASE ReadFails
  BY <1>5 DEF ReadFails, ClientStates
<1>6. CASE CloseReturns
  BY <1>6 DEF CloseReturns, ClientStates
<1>7. CASE InlineReturns
  BY <1>7 DEF InlineReturns, ClientStates, Pendings
<1>8. CASE EnqueueOrDrop
  <2>1. pending.room \in Rooms /\ pending.frame \in Frames /\ conn \in Conns
    BY <1>8 DEF EnqueueOrDrop, PhaseOK
  <2>2. Append(queue[conn][pending.room], pending.frame) \in Seq(Frames)
    BY <2>1
  <2>3. /\ queue' \in [Conns -> [Rooms -> Seq(Frames)]]
        /\ dropped' \subseteq Frames
    <3>1. CASE Len(queue[conn][pending.room]) < BufCap
      <4>1. queue' = [queue EXCEPT ![conn][pending.room] =
                        Append(queue[conn][pending.room], pending.frame)]
        BY <1>8, <3>1 DEF EnqueueOrDrop
      <4>2. dropped' = dropped
        BY <1>8, <3>1 DEF EnqueueOrDrop
      <4> QED
        BY <2>1, <2>2, <4>1, <4>2, Update2
    <3>2. CASE ~(Len(queue[conn][pending.room]) < BufCap)
      BY <1>8, <2>1, <3>2 DEF EnqueueOrDrop
    <3> QED
      BY <3>1, <3>2
  <2> QED
    BY <1>8, <2>3 DEF EnqueueOrDrop, ClientStates, Pendings
<1>9. CASE SkipFrame
  BY <1>9 DEF SkipFrame
<1>10. ASSUME NEW r \in Rooms, NEW t \in Texts, SuppressDuplicate(r, t)
       PROVE  TypeOK'
  BY <1>10 DEF SuppressDuplicate
<1>11. ASSUME NEW r \in Rooms, NEW t \in Texts, DispatchInline(r, t)
       PROVE  TypeOK'
  <2>1. AcceptFrame(r, t)
    BY <1>11 DEF DispatchInline
  <2>2. started' \subseteq Frames /\ last' \in [Rooms -> 0 .. MaxFrames]
    BY <1>11, <2>1, TypeAccept DEF DispatchInline, Frames
  <2>3. client' \in ClientStates
    BY <1>11 DEF DispatchInline, ClientStates
  <2> QED
    BY <1>11, <2>1, <2>2, <2>3, TypeAccept DEF DispatchInline
<1>12. ASSUME NEW r \in Rooms, NEW t \in Texts, EnsureRoomWorker(r, t)
       PROVE  TypeOK'
  <2>1. AcceptFrame(r, t)
    BY <1>12 DEF EnsureRoomWorker
  <2>2. conn \in Conns
    BY <2>1 DEF AcceptFrame, PhaseOK
  <2>3. <<>> \in Seq(Frames) /\ "waiting" \in WorkerStates
    BY DEF WorkerStates
  <2>4. /\ worker' \in [Conns -> [Rooms -> WorkerStates]]
        /\ queue' \in [Conns -> [Rooms -> Seq(Frames)]]
    <3>1. CASE worker[conn][r] = "none"
      <4>1. /\ worker' = [worker EXCEPT ![conn][r] = "waiting"]
            /\ queue' = [queue EXCEPT ![conn][r] = <<>>]
        BY <1>12, <3>1 DEF EnsureRoomWorker
      <4> QED
        BY <2>2, <2>3, <4>1, Update2
    <3>2. CASE worker[conn][r] # "none"
      BY <1>12, <3>2 DEF EnsureRoomWorker
    <3> QED
      BY <3>1, <3>2
  <2>5. client' \in ClientStates
    BY <1>12 DEF EnsureRoomWorker, ClientStates
  <2> QED
    BY <1>12, <2>1, <2>4, <2>5, TypeAccept DEF EnsureRoomWorker
<1> QED
  BY <1>1, <1>2, <1>3, <1>4, <1>5, <1>6, <1>7, <1>8, <1>9, <1>10, <1>11, <1>12
     DEF ClientStep

(* A worker's steps keep the types. *)
LEMMA TypeWorker ==
  ASSUME TypeOK, NEW c \in Conns, NEW r \in Rooms, WorkerStep(c, r)
  PROVE  TypeOK'
<1> USE IrisAssumption DEF TypeOK, cfgVars, dispVars, histVars
<1>1. CASE AcquireSem(c, r)
  BY <1>1 DEF AcquireSem, WorkerStates
<1>2. CASE StartHandler(c, r)
  <2>1. queue[c][r] \in Seq(Frames) /\ queue[c][r] # <<>>
    BY <1>2 DEF StartHandler
  <2>2. Head(queue[c][r]) \in Frames /\ Tail(queue[c][r]) \in Seq(Frames)
    BY <2>1, HeadTailType
  <2>3. Head(queue[c][r]) \in 0 .. MaxFrames
    BY <2>2 DEF Frames
  <2>4. queue' \in [Conns -> [Rooms -> Seq(Frames)]]
    <3>1. queue' = [queue EXCEPT ![c][r] = Tail(queue[c][r])]
      BY <1>2 DEF StartHandler
    <3> QED
      BY <2>2, <3>1, Update2
  <2>5. /\ current' \in [Conns -> [Rooms -> 0 .. MaxFrames]]
        /\ last' \in [Rooms -> 0 .. MaxFrames]
        /\ started' \subseteq Frames
        /\ worker' \in [Conns -> [Rooms -> WorkerStates]]
    BY <1>2, <2>2, <2>3, Update2 DEF StartHandler, WorkerStates
  <2> QED
    BY <1>2, <2>4, <2>5 DEF StartHandler
<1>3. CASE HandlerReturns(c, r)
  BY <1>3 DEF HandlerReturns, WorkerStates
<1>4. CASE WorkerExits(c, r)
  BY <1>4 DEF WorkerExits, WorkerStates
<1> QED
  BY <1>1, <1>2, <1>3, <1>4 DEF WorkerStep

(* Cancel, Tick and stuttering keep the types. *)
LEMMA TypeRest ==
  ASSUME TypeOK, Cancel \/ Tick \/ UNCHANGED vars
  PROVE  TypeOK'
<1> USE IrisAssumption DEF TypeOK, cfgVars, dispVars, histVars
<1>1. CASE Cancel
  BY <1>1 DEF Cancel
<1>2. CASE Tick
  BY <1>2 DEF Tick
<1>3. CASE UNCHANGED vars
  BY <1>3 DEF vars
<1> QED
  BY <1>1, <1>2, <1>3

------------------------------------------------------------------------------
(* The phases of the client and its workers. *)
LEMMA PhaseInit == Init => PhaseOK
BY DEF Init, PhaseOK

(* The client's steps keep the phases. *)
LEMMA PhaseClient ==
  ASSUME TypeOK, PhaseOK, ClientStep
  PROVE  PhaseOK'
<1> USE IrisAssumption DEF cfgVars, dispVars, histVars
<1>1. CASE Connect
  <2>1. conn' \in Conns
    BY <1>1 DEF Connect, TypeOK, Conns
  <2> QED
    BY <1>1, <2>1 DEF Connect, PhaseOK
<1>2. CASE ConnectFails \/ BackoffElapses \/ Stop \/ ReadFails \/ InlineReturns
  BY <1>2 DEF ConnectFails, BackoffElapses, Stop, ReadFails, InlineReturns, PhaseOK
<1>3. CASE CloseReturns
  BY <1>3 DEF CloseReturns, PhaseOK
<1>4. CASE EnqueueOrDrop
  BY <1>4 DEF EnqueueOrDrop, PhaseOK
<1>5. CASE SkipFrame
  BY <1>5 DEF SkipFrame, PhaseOK
<1>6. ASSUME NEW r \in Rooms, NEW t \in Texts, SuppressDuplicate(r, t)
      PROVE  PhaseOK'
  BY <1>6 DEF SuppressDuplicate, PhaseOK
<1>7. ASSUME NEW r \in Rooms, NEW t \in Texts, AcceptFrame(r, t)
      PROVE  conn \in Conns /\ pending' \in [frame : Frames, room : Rooms]
  BY <1>7, TypeAccept DEF AcceptFrame, PhaseOK
<1>8. ASSUME NEW r \in Rooms, NEW t \in Texts, DispatchInline(r, t)
      PROVE  PhaseOK'
  BY <1>7, <1>8 DEF DispatchInline, PhaseOK
<1>9. ASSUME NEW r \in Rooms, NEW t \in Texts, EnsureRoomWorker(r, t)
      PROVE  PhaseOK'
  <2>1. AcceptFrame(r, t) /\ roomWorkerEnabled
    BY <1>9 DEF EnsureRoomWorker
  <2>2. \A c \in Conns, x \in Rooms : worker'[c][x] # "none" => c = conn
    <3>1. CASE worker[conn][r] = "none"
      <4>1. worker' = [worker EXCEPT ![conn][r] = "waiting"]
        BY <1>9, <3>1 DEF EnsureRoomWorker
      <4>2. "waiting" \in WorkerStates /\ worker \in [Conns -> [Rooms -> WorkerStates]]
        BY DEF WorkerStates, TypeOK
      <4> QED
        BY <1>7, <2>1, <4>1, <4>2, Update2 DEF PhaseOK
    <3>2. CASE worker[conn][r] # "none"
      BY <1>9, <3>2 DEF EnsureRoomWorker, PhaseOK
    <3> QED
      BY <3>1, <3>2
  <2> QED
    BY <1>7, <1>9, <2>1, <2>2 DEF EnsureRoomWorker, PhaseOK
<1> QED
  BY <1>1, <1>2, <1>3, <1>4, <1>5, <1>6, <1>8, <1>9 DEF ClientStep

(* A worker's steps keep the phases: only a live worker steps. *)
LEMMA PhaseWorker ==
  ASSUME TypeOK, PhaseOK, NEW c \in Conns, NEW r \in Rooms, WorkerStep(c, r)
  PROVE  PhaseOK'
<1>1. worker[c][r] # "none"
  BY DEF WorkerStep, AcquireSem, StartHandler, HandlerReturns, WorkerExits
<1>2. \E s \in WorkerStates : worker' = [worker EXCEPT ![c][r] = s]
  BY DEF WorkerStep, AcquireSem, StartHandler, HandlerReturns, WorkerExits, WorkerStates
<1>3. \A d \in Conns, x \in Rooms : worker'[d][x] # "none" => worker[d][x] # "none"
  BY <1>1, <1>2, Update2 DEF TypeOK
<1>4. UNCHANGED <<client, conn, pending, roomWorkerEnabled>>
  BY DEF WorkerStep, AcquireSem, StartHandler, HandlerReturns, WorkerExits, cfgVars
<1> QED
  BY <1>3, <1>4 DEF PhaseOK

(* Cancel, Tick and stuttering keep the phases. *)
LEMMA PhaseRest ==
  ASSUME PhaseOK, Cancel \/ Tick \/ UNCHANGED vars
  PROVE  PhaseOK'
<1>1. UNCHANGED <<client, conn, pending, worker, roomWorkerEnabled>>
  BY DEF Cancel, Tick, vars, cfgVars, dispVars
<1> QED
  BY <1>1 DEF PhaseOK

------------------------------------------------------------------------------
(* The order of the frames of a room. *)
LEMMA OrderInit == Init => OrderOK
BY IrisAssumption DEF Init, OrderOK

(* A step that takes no frame in, hands none over and queues none. *)
LEMMA OrderIdle ==
  ASSUME OrderOK, TypeOK,
         UNCHANGED <<queue, last, pending, conn>>,
         arrived' \in Nat, arrived' >= arrived,
         client' = "enqueue" => client = "enqueue" /\ arrived' = arrived,
         \A c \in Conns, r \in Rooms : worker'[c][r] # "none" => worker[c][r] # "none"
  PROVE  OrderOK'
<1> USE IrisAssumption
<1>1. \A r \in Rooms : last'[r] <= arrived'
  BY DEF OrderOK, TypeOK
<1>2. ASSUME NEW c \in Conns, NEW r \in Rooms
      PROVE  /\ \A i \in 1 .. Len(queue'[c][r]) : queue'[c][r][i] <= arrived'
             /\ worker'[c][r] # "none" =>
                  /\ \A i \in 1 .. Len(queue'[c][r]) : queue'[c][r][i] > last'[r]
                  /\ \A i, j \in 1 .. Len(queue'[c][r]) : i < j => queue'[c][r][i] < queue'[c][r][j]
  <2>1. queue[c][r] \in Seq(Frames)
    BY DEF TypeOK
  <2>2. \A i \in 1 .. Len(queue[c][r]) : queue[c][r][i] \in Int
    BY <2>1 DEF Frames
  <2>3. \A i \in 1 .. Len(queue[c][r]) : queue[c][r][i] <= arrived
    BY DEF OrderOK
  <2>4. \A i \in 1 .. Len(queue[c][r]) : queue[c][r][i] <= arrived'
    BY <2>2, <2>3 DEF TypeOK
  <2> QED
    BY <2>4 DEF OrderOK
<1> QED
  BY <1>1, <1>2 DEF OrderOK

(* The client's steps keep the order. *)
LEMMA OrderClient ==
  ASSUME TypeOK, PhaseOK, OrderOK, ClientStep
  PROVE  OrderOK'
<1> USE IrisAssumption DEF cfgVars, dispVars, histVars
<1>1. CASE Connect \/ ConnectFails \/ BackoffElapses \/ Stop \/ ReadFails \/ CloseReturns
  <2>1. /\ UNCHANGED <<queue, last, pending, arrived, worker>>
        /\ client' # "enqueue"
    BY <1>1 DEF Connect, ConnectFails, BackoffElapses, Stop, ReadFails, CloseReturns
  <2> QED
    BY <2>1 DEF OrderOK
<1>2. CASE InlineReturns
  BY <1>2 DEF InlineReturns, OrderOK
<1>3. CASE SkipFrame
  <2>1. arrived' \in Nat /\ arrived' >= arrived
    BY <1>3 DEF SkipFrame, TypeOK
  <2> QED
    BY <1>3, <2>1, OrderIdle DEF SkipFrame
<1>4. ASSUME NEW r \in Rooms, NEW t \in Texts, SuppressDuplicate(r, t)
      PROVE  OrderOK'
  <2>1. arrived' \in Nat /\ arrived' >= arrived
    BY <1>4 DEF SuppressDuplicate, TypeOK
  <2> QED
    BY <1>4, <2>1, OrderIdle DEF SuppressDuplicate
<1>5. CASE EnqueueOrDrop
  <2> DEFINE p == pending.room
             q == queue[conn][p]
  <2>1. p \in Rooms /\ conn \in Conns /\ pending.frame \in Frames
    BY <1>5 DEF EnqueueOrDrop, PhaseOK
  <2>2. /\ pending.frame = arrived
        /\ last[p] < arrived
        /\ \A i \in 1 .. Len(q) : q[i] < arrived
    BY <1>5 DEF EnqueueOrDrop, OrderOK
  <2>3. /\ UNCHANGED <<conn, arrived, worker, last>>
        /\ client' # "enqueue"
    BY <1>5 DEF EnqueueOrDrop
  <2>4. CASE UNCHANGED queue
    BY <2>3, <2>4 DEF OrderOK
  <2>5. CASE queue' = [queue EXCEPT ![conn][p] = Append(q, arrived)]
    <3>1. q \in Seq(Frames) /\ arrived \in Frames
      BY <2>1, <2>2 DEF TypeOK
    <3>2. Append(q, arrived) \in Seq(Frames)
      BY <3>1
    <3>3. \A c \in Conns, r \in Rooms :
            queue'[c][r] = IF c = conn /\ r = p THEN Append(q, arrived) ELSE queue[c][r]
      <4> DEFINE after == Append(q, arrived)
      <4>1. queue \in [Conns -> [Rooms -> Seq(Frames)]] /\ after \in Seq(Frames)
        BY <3>2 DEF TypeOK
      <4>2. conn \in Conns /\ p \in Rooms /\ queue' = [queue EXCEPT ![conn][p] = after]
        BY <2>1, <2>5
      <4> HIDE DEF p, q, after
      <4>3. \A c \in Conns, r \in Rooms :
              queue'[c][r] = IF c = conn /\ r = p THEN after ELSE queue[c][r]
        BY <4>1, <4>2, Update2
      <4> QED
        BY <4>3 DEF after
    <3>4. /\ Len(Append(q, arrived)) = Len(q) + 1
          /\ \A i \in 1 .. Len(q) : Append(q, arrived)[i] = q[i]
          /\ Append(q, arrived)[Len(q) + 1] = arrived
          /\ Len(q) \in Nat
      BY <3>1
    <3>5. \A i \in 1 .. Len(q) : q[i] \in Nat
      BY <3>1 DEF Frames
    <3>6. last[p] \in Nat /\ arrived \in Nat
      BY <2>1 DEF TypeOK
    <3>7. ASSUME NEW c \in Conns, NEW r \in Rooms
          PROVE  /\ \A i \in 1 .. Len(queue'[c][r]) : queue'[c][r][i] <= arrived'
                 /\ worker'[c][r] # "none" =>
                      /\ \A i \in 1 .. Len(queue'[c][r]) : queue'[c][r][i] > last'[r]
                      /\ \A i, j \in 1 .. Len(queue'[c][r]) :
                           i < j => queue'[c][r][i] < queue'[c][r][j]
      <4>1. CASE c = conn /\ r = p
        <5>1. queue'[c][r] = Append(q, arrived)
          BY <3>3, <4>1
        <5>2. \A i \in 1 .. Len(queue'[c][r]) : i \in 1 .. Len(q) \/ i = Len(q) + 1
          BY <3>4, <5>1
        <5>3. \A i \in 1 .. Len(queue'[c][r]) : queue'[c][r][i] <= arrived'
          BY <2>2, <2>3, <3>4, <3>5, <3>6, <5>1, <5>2
        <5>4. ASSUME worker'[c][r] # "none"
              PROVE  \A i \in 1 .. Len(queue'[c][r]) : queue'[c][r][i] > last'[r]
          <6>1. \A i \in 1 .. Len(q) : q[i] > last[p]
            BY <2>1, <2>3, <4>1, <5>4 DEF OrderOK
          <6> QED
            BY <2>2, <2>3, <3>4, <3>5, <3>6, <4>1, <5>1, <5>2, <6>1
        <5>5. ASSUME worker'[c][r] # "none"
              PROVE  \A i, j \in 1 .. Len(queue'[c][r]) :
                       i < j => queue'[c][r][i] < queue'[c][r][j]
          <6>1. \A i, j \in 1 .. Len(q) : i < j => q[i] < q[j]
            BY <2>1, <2>3, <4>1, <5>5 DEF OrderOK
          <6>2. ASSUME NEW i \in 1 .. Len(queue'[c][r]), NEW j \in 1 .. Len(queue'[c][r]), i < j
                PROVE  queue'[c][r][i] < queue'[c][r][j]
            <7>1. i \in 1 .. Len(q)
              BY <3>4, <5>1, <5>2, <6>2
            <7>2. CASE j \in 1 .. Len(q)
              BY <3>4, <5>1, <6>1, <6>2, <7>1, <7>2
            <7>3. CASE j = Len(q) + 1
              BY <2>2, <3>4, <5>1, <7>1, <7>3
            <7> QED
              BY <5>2, <7>2, <7>3
          <6> QED
            BY <6>2
        <5> QED
          BY <5>3, <5>4, <5>5
      <4>2. CASE ~(c = conn /\ r = p)
        <5>1. queue'[c][r] = queue[c][r]
          BY <3>3, <4>2
        <5> QED
          BY <2>3, <5>1 DEF OrderOK
      <4> QED
        BY <4>1, <4>2
    <3> QED
      BY <2>3, <3>7 DEF OrderOK
  <2> QED
    BY <1>5, <2>2, <2>4, <2>5 DEF EnqueueOrDrop
<1>6. ASSUME NEW r \in Rooms, NEW t \in Texts, DispatchInline(r, t)
      PROVE  OrderOK'
  <2>1. AcceptFrame(r, t) /\ ~roomWorkerEnabled
    BY <1>6 DEF DispatchInline
  <2>2. /\ UNCHANGED <<queue, worker, conn>>
        /\ last' = [last EXCEPT ![r] = arrived + 1]
        /\ arrived' = arrived + 1
        /\ client' # "enqueue"
    BY <1>6 DEF DispatchInline, AcceptFrame
  <2>3. \A x \in Rooms : last'[x] <= arrived'
    BY <2>2 DEF OrderOK, TypeOK
  <2>4. \A c \in Conns, x \in Rooms : worker'[c][x] = "none"
    BY <2>1, <2>2 DEF PhaseOK
  <2>5. ASSUME NEW c \in Conns, NEW x \in Rooms
        PROVE  \A i \in 1 .. Len(queue'[c][x]) : queue'[c][x][i] <= arrived'
    <3>1. \A i \in 1 .. Len(queue[c][x]) : queue[c][x][i] \in Nat
      BY DEF TypeOK, Frames
    <3> QED
      BY <2>2, <3>1 DEF OrderOK, TypeOK
  <2> QED
    BY <2>2, <2>3, <2>4, <2>5 DEF OrderOK
<1>7. ASSUME NEW r \in Rooms, NEW t \in Texts, EnsureRoomWorker(r, t)
      PROVE  OrderOK'
  <2>1. AcceptFrame(r, t)
    BY <1>7 DEF EnsureRoomWorker
  <2>2. /\ UNCHANGED <<last, conn>>
        /\ arrived' = arrived + 1
        /\ pending' = [frame |-> arrived + 1, room |-> r]
    BY <1>7, <2>1 DEF EnsureRoomWorker, AcceptFrame
  <2>3. conn \in Conns
    BY <2>1 DEF AcceptFrame, PhaseOK
  <2>4. \A x \in Rooms : last'[x] < arrived' /\ last'[x] <= arrived'
    BY <2>2 DEF OrderOK, TypeOK
  <2>5. ASSUME NEW c \in Conns, NEW x \in Rooms
        PROVE  /\ \A i \in 1 .. Len(queue'[c][x]) :
                    queue'[c][x][i] < arrived' /\ queue'[c][x][i] <= arrived'
               /\ worker'[c][x] # "none" =>
                    /\ \A i \in 1 .. Len(queue'[c][x]) : queue'[c][x][i] > last'[x]
                    /\ \A i, j \in 1 .. Len(queue'[c][x]) :
                         i < j => queue'[c][x][i] < queue'[c][x][j]
    <3>1. CASE queue'[c][x] = <<>>
      BY <3>1
    <3>2. CASE queue'[c][x] = queue[c][x] /\ worker'[c][x] = worker[c][x]
      <4>1. \A i \in 1 .. Len(queue[c][x]) : queue[c][x][i] \in Nat
        BY DEF TypeOK, Frames
      <4>2. \A i \in 1 .. Len(queue[c][x]) : queue[c][x][i] <= arrived
        BY DEF OrderOK
      <4>3. \A i \in 1 .. Len(queue'[c][x]) :
              queue'[c][x][i] < arrived' /\ queue'[c][x][i] <= arrived'
        BY <2>2, <3>2, <4>1, <4>2 DEF TypeOK
      <4> QED
        BY <2>2, <3>2, <4>3 DEF OrderOK
    <3>3. queue'[c][x] = <<>> \/ (queue'[c][x] = queue[c][x] /\ worker'[c][x] = worker[c][x])
      <4>1. CASE worker[conn][r] = "none"
        <5>1. /\ worker' = [worker EXCEPT ![conn][r] = "waiting"]
              /\ queue' = [queue EXCEPT ![conn][r] = <<>>]
          BY <1>7, <4>1 DEF EnsureRoomWorker
        <5>2. "waiting" \in WorkerStates /\ <<>> \in Seq(Frames)
          BY DEF WorkerStates
        <5> QED
          BY <2>3, <5>1, <5>2, Update2 DEF TypeOK
      <4>2. CASE worker[conn][r] # "none"
        BY <1>7, <4>2 DEF EnsureRoomWorker
      <4> QED
        BY <4>1, <4>2
    <3> QED
      BY <3>1, <3>2, <3>3
  <2> QED
    BY <2>2, <2>3, <2>4, <2>5 DEF OrderOK
<1> QED
  BY <1>1, <1>2, <1>3, <1>4, <1>5, <1>6, <1>7 DEF ClientStep

(* Taking the oldest frame of a room: what it says about the frame and the  *)
(* frames behind it.                                                        *)
LEMMA TakeOldest ==
  ASSUME TypeOK, OrderOK, NEW c \in Conns, NEW r \in Rooms, StartHandler(c, r)
  PROVE  /\ Head(queue[c][r]) > last[r]
         /\ Head(queue[c][r]) <= arrived
         /\ \A i \in 1 .. Len(Tail(queue[c][r])) :
              Tail(queue[c][r])[i] > Head(queue[c][r]) /\ Tail(queue[c][r])[i] <= arrived
         /\ \A i, j \in 1 .. Len(Tail(queue[c][r])) :
              i < j => Tail(queue[c][r])[i] < Tail(queue[c][r])[j]
<1> DEFINE q == queue[c][r]
<1>1. q \in Seq(Frames) /\ q # <<>> /\ worker[c][r] # "none"
  BY DEF TypeOK, StartHandler
<1>2. /\ \A i \in 1 .. Len(q) : q[i] > last[r] /\ q[i] <= arrived
      /\ \A i, j \in 1 .. Len(q) : i < j => q[i] < q[j]
  BY <1>1 DEF OrderOK
<1>3. Len(q) \in Nat /\ Len(q) >= 1 /\ Head(q) = q[1] /\ 1 \in 1 .. Len(q)
  BY <1>1
<1>4. /\ Len(Tail(q)) = Len(q) - 1
      /\ \A i \in 1 .. Len(Tail(q)) : Tail(q)[i] = q[i + 1] /\ i + 1 \in 1 .. Len(q) /\ 1 < i + 1
  BY <1>1
<1>5. \A i, j \in 1 .. Len(Tail(q)) : i < j => i + 1 < j + 1
  BY <1>3, <1>4
<1>6. \A i \in 1 .. Len(q) : q[i] \in Int
  <2>1. \A i \in 1 .. Len(q) : q[i] \in Frames
    BY <1>1
  <2> QED
    BY <2>1, IrisAssumption DEF Frames
<1>7. \A i \in 1 .. Len(Tail(q)) : Tail(q)[i] > Head(q) /\ Tail(q)[i] <= arrived
  BY <1>2, <1>3, <1>4, <1>6
<1>8. \A i, j \in 1 .. Len(Tail(q)) : i < j => Tail(q)[i] < Tail(q)[j]
  BY <1>2, <1>4, <1>5
<1> QED
  BY <1>2, <1>3, <1>7, <1>8

(* A worker's steps keep the order. *)
LEMMA OrderWorker ==
  ASSUME TypeOK, PhaseOK, OrderOK, NEW c \in Conns, NEW r \in Rooms, WorkerStep(c, r)
  PROVE  OrderOK'
<1> USE IrisAssumption DEF cfgVars, dispVars, histVars
<1>1. CASE AcquireSem(c, r) \/ HandlerReturns(c, r) \/ WorkerExits(c, r)
  <2>1. worker[c][r] # "none"
    BY <1>1 DEF AcquireSem, HandlerReturns, WorkerExits
  <2>2. \E s \in WorkerStates : worker' = [worker EXCEPT ![c][r] = s]
    BY <1>1 DEF AcquireSem, HandlerReturns, WorkerExits, WorkerStates
  <2>3. \A d \in Conns, x \in Rooms : worker'[d][x] # "none" => worker[d][x] # "none"
    BY <2>1, <2>2, Update2 DEF TypeOK
  <2>4. UNCHANGED <<queue, last, pending, conn, arrived, client>>
    BY <1>1 DEF AcquireSem, HandlerReturns, WorkerExits
  <2> QED
    BY <2>3, <2>4, OrderIdle DEF TypeOK
<1>2. CASE StartHandler(c, r)
  <2> DEFINE h == Head(queue[c][r])
             q == Tail(queue[c][r])
  <2>1. h \in Frames /\ q \in Seq(Frames) /\ h \in 0 .. MaxFrames
    <3>1. queue[c][r] \in Seq(Frames) /\ queue[c][r] # <<>>
      BY <1>2 DEF StartHandler, TypeOK
    <3>2. h \in Frames /\ q \in Seq(Frames)
      BY <3>1, HeadTailType
    <3> QED
      BY <3>2 DEF Frames
  <2>2. /\ UNCHANGED <<client, conn, arrived, pending>>
        /\ queue' = [queue EXCEPT ![c][r] = q]
        /\ worker' = [worker EXCEPT ![c][r] = "handling"]
        /\ last' = [last EXCEPT ![r] = h]
        /\ worker[c][r] = "idle"
    BY <1>2 DEF StartHandler
  <2>3. \A d \in Conns, x \in Rooms :
          /\ queue'[d][x] = IF d = c /\ x = r THEN q ELSE queue[d][x]
          /\ worker'[d][x] = IF d = c /\ x = r THEN "handling" ELSE worker[d][x]
    BY <2>1, <2>2, Update2 DEF TypeOK, WorkerStates
  <2>4. \A x \in Rooms : last'[x] = IF x = r THEN h ELSE last[x]
    BY <2>2 DEF TypeOK
  <2>5. c = conn /\ \A d \in Conns, x \in Rooms : worker[d][x] # "none" => d = c
    BY <2>2 DEF PhaseOK
  <2>6. h <= arrived /\ \A i \in 1 .. Len(q) : q[i] > h /\ q[i] <= arrived
    BY <1>2, TakeOldest
  <2>7. \A x \in Rooms : last'[x] <= arrived'
    BY <2>2, <2>4, <2>6 DEF OrderOK
  <2>8. ASSUME NEW d \in Conns, NEW x \in Rooms
        PROVE  /\ \A i \in 1 .. Len(queue'[d][x]) : queue'[d][x][i] <= arrived'
               /\ worker'[d][x] # "none" =>
                    /\ \A i \in 1 .. Len(queue'[d][x]) : queue'[d][x][i] > last'[x]
                    /\ \A i, j \in 1 .. Len(queue'[d][x]) :
                         i < j => queue'[d][x][i] < queue'[d][x][j]
    <3>1. CASE d = c /\ x = r
      <4>1. queue'[d][x] = q /\ last'[x] = h
        BY <2>3, <2>4, <3>1
      <4> QED
        BY <1>2, <2>2, <2>6, <4>1, TakeOldest
    <3>2. CASE d = c /\ x # r
      BY <2>2, <2>3, <2>4, <3>2 DEF OrderOK
    <3>3. CASE d # c
      <4>1. worker'[d][x] = "none" /\ queue'[d][x] = queue[d][x]
        BY <2>3, <2>5, <3>3
      <4> QED
        BY <2>2, <4>1 DEF OrderOK
    <3> QED
      BY <3>1, <3>2, <3>3
  <2>9. ASSUME client' = "enqueue"
        PROVE  /\ pending'.frame = arrived'
               /\ last'[pending'.room] < arrived'
               /\ \A i \in 1 .. Len(queue'[conn'][pending'.room]) :
                    queue'[conn'][pending'.room][i] < arrived'
    <3>1. client = "enqueue" /\ pending.room \in Rooms /\ conn \in Conns
      BY <2>2, <2>9 DEF PhaseOK
    <3>2. /\ pending.frame = arrived
          /\ last[pending.room] < arrived
          /\ \A i \in 1 .. Len(queue[conn][pending.room]) : queue[conn][pending.room][i] < arrived
      BY <3>1 DEF OrderOK
    <3>3. CASE pending.room = r
      <4>1. queue[c][r] \in Seq(Frames) /\ queue[c][r] # <<>>
        BY <1>2 DEF StartHandler, TypeOK
      <4>2. h = queue[c][r][1] /\ 1 \in 1 .. Len(queue[c][r])
        BY <4>1
      <4>3. \A i \in 1 .. Len(q) : q[i] = queue[c][r][i + 1] /\ i + 1 \in 1 .. Len(queue[c][r])
        BY <4>1
      <4> QED
        BY <2>2, <2>3, <2>4, <2>5, <3>1, <3>2, <3>3, <4>2, <4>3
    <3>4. CASE pending.room # r
      BY <2>2, <2>3, <2>4, <3>1, <3>2, <3>4
    <3> QED
      BY <3>3, <3>4
  <2> QED
    BY <2>7, <2>8, <2>9 DEF OrderOK
<1> QED
  BY <1>1, <1>2 DEF WorkerStep

(* Cancel, Tick and stuttering keep the order. *)
LEMMA OrderRest ==
  ASSUME TypeOK, OrderOK, Cancel \/ Tick \/ UNCHANGED vars
  PROVE  OrderOK'
<1>1. UNCHANGED <<queue, last, pending, conn, arrived, client, worker>>
  BY DEF Cancel, Tick, vars, dispVars, histVars
<1> QED
  BY <1>1 DEF OrderOK

------------------------------------------------------------------------------
(* The frames a room still has to handle: none without a worker. *)
Waiting(c, r) == IF worker[c][r] # "none" THEN Elements(queue[c][r]) ELSE {}

(* The queued frames are those the rooms have to handle, before and after a *)
(* step.                                                                    *)
LEMMA QueuedWait ==
  /\ \A n : n \in Queued <=> \E c \in Conns, r \in Rooms : n \in Waiting(c, r)
  /\ \A n : n \in Queued' <=> \E c \in Conns, r \in Rooms : n \in Waiting(c, r)'
BY DEF Queued, OpenRooms, Waiting

(* A channel that is empty, that takes a frame and that gives its oldest. *)
LEMMA ElementsOf ==
  ASSUME NEW q \in Seq(Frames)
  PROVE  /\ Elements(<<>>) = {}
         /\ \A n \in Frames : Elements(Append(q, n)) = Elements(q) \cup {n}
         /\ q # <<>> => Elements(q) = Elements(Tail(q)) \cup {Head(q)}
<1>1. Elements(<<>>) = {}
  BY DEF Elements
<1>2. ASSUME NEW n \in Frames PROVE Elements(Append(q, n)) = Elements(q) \cup {n}
  <2>1. /\ Len(Append(q, n)) = Len(q) + 1 /\ Len(q) \in Nat
        /\ \A i \in 1 .. Len(q) : Append(q, n)[i] = q[i]
        /\ Append(q, n)[Len(q) + 1] = n
    OBVIOUS
  <2>2. \A i : i \in 1 .. Len(q) + 1 <=> i \in 1 .. Len(q) \/ i = Len(q) + 1
    BY <2>1
  <2> QED
    BY <2>1, <2>2 DEF Elements
<1>3. ASSUME q # <<>> PROVE Elements(q) = Elements(Tail(q)) \cup {Head(q)}
  <2>1. /\ Len(Tail(q)) = Len(q) - 1 /\ Len(q) \in Nat \ {0} /\ Head(q) = q[1]
        /\ \A i \in 1 .. Len(Tail(q)) : Tail(q)[i] = q[i + 1]
    BY <1>3
  <2>2. \A i \in 1 .. Len(q) : i = 1 \/ (i - 1 \in 1 .. Len(Tail(q)) /\ (i - 1) + 1 = i)
    BY <2>1
  <2>3. \A i \in 1 .. Len(Tail(q)) : i + 1 \in 1 .. Len(q)
    BY <2>1
  <2>4. 1 \in 1 .. Len(q)
    BY <2>1
  <2>5. ASSUME NEW x \in Elements(q) PROVE x \in Elements(Tail(q)) \cup {Head(q)}
    <3>1. PICK i \in 1 .. Len(q) : x = q[i]
      BY DEF Elements
    <3>2. CASE i = 1
      BY <2>1, <3>1, <3>2
    <3>3. CASE i # 1
      <4>1. i - 1 \in 1 .. Len(Tail(q)) /\ q[i] = Tail(q)[i - 1]
        BY <2>1, <2>2, <3>3
      <4> QED
        BY <3>1, <4>1 DEF Elements
    <3> QED
      BY <3>2, <3>3
  <2>6. ASSUME NEW x \in Elements(Tail(q)) PROVE x \in Elements(q)
    BY <2>1, <2>3 DEF Elements
  <2>7. Head(q) \in Elements(q)
    BY <2>1, <2>4 DEF Elements
  <2> QED
    BY <2>5, <2>6, <2>7
<1> QED
  BY <1>1, <1>2, <1>3

(* The initial state has lost nothing. *)
LEMMA LossInit == Init => LossOK
<1> SUFFICES ASSUME Init PROVE LossOK
  OBVIOUS
<1>1. \A c \in Conns, r \in Rooms : Waiting(c, r) = {}
  BY DEF Init, Waiting
<1>2. Queued = {}
  BY <1>1, QueuedWait
<1> QED
  BY <1>2 DEF Init, LossOK, NoSilentLoss, NoFrame

(* A step that leaves every frame where it is. *)
LEMMA LossIdle ==
  ASSUME NoSilentLoss, ~cancelled' => ~cancelled,
         UNCHANGED <<pending, accepted, started, dropped>>,
         ~cancelled' => \A c \in Conns, r \in Rooms : Waiting(c, r)' = Waiting(c, r)
  PROVE  NoSilentLoss'
<1>1. ASSUME ~cancelled' PROVE Queued' = Queued
  <2>1. \A c \in Conns, r \in Rooms : Waiting(c, r)' = Waiting(c, r)
    BY <1>1
  <2>2. \A n : n \in Queued' <=> n \in Queued
    BY <2>1, QueuedWait
  <2> QED
    BY <2>2
<1> QED
  BY <1>1 DEF NoSilentLoss

(* The client's steps lose nothing. *)
LEMMA LossClient ==
  ASSUME TypeOK, TypeOK', PhaseOK, PhaseOK', LossOK, ClientStep
  PROVE  LossOK'
<1> USE IrisAssumption DEF cfgVars, dispVars, histVars
<1>1. CASE Connect \/ ConnectFails \/ BackoffElapses \/ Stop \/ CloseReturns \/ SkipFrame
           \/ \E r \in Rooms, t \in Texts : SuppressDuplicate(r, t)
  <2>1. /\ UNCHANGED <<pending, accepted, started, dropped, worker, queue, cancelled, closedChans>>
        /\ client' \notin {"enqueue", "inline"} /\ pending = NoFrame
        /\ \/ UNCHANGED conn /\ (client' = "reading" => client = "reading")
           \/ conn' = conn + 1 /\ conn \in Nat
    BY <1>1 DEF Connect, ConnectFails, BackoffElapses, Stop, CloseReturns, SkipFrame,
       SuppressDuplicate, LossOK, TypeOK
  <2>2. NoSilentLoss'
    BY <2>1, LossIdle DEF LossOK, TypeOK, Waiting
  <2>3. \A c \in Conns : c > conn' => closedChans'[c] = {}
    BY <2>1 DEF LossOK, Conns, TypeOK
  <2>4. client' = "reading" => closedChans'[conn'] = {}
    <3>1. (conn' = conn + 1 /\ conn \in Nat /\ client' = "reading") => (conn' \in Conns /\ conn' > conn)
      BY DEF PhaseOK
    <3> QED
      BY <2>1, <3>1 DEF LossOK
  <2> QED
    BY <2>1, <2>2, <2>3, <2>4 DEF LossOK
<1>2. CASE ReadFails
  <2>1. NoSilentLoss'
    BY <1>2, LossIdle DEF ReadFails, LossOK, TypeOK, Waiting
  <2>2. \A c \in Conns : c > conn => closedChans'[c] = {}
    BY <1>2 DEF ReadFails, LossOK, TypeOK
  <2> QED
    BY <1>2, <2>1, <2>2 DEF ReadFails, LossOK
<1>3. CASE InlineReturns
  <2>1. UNCHANGED <<worker, queue, conn, cancelled, closedChans, accepted, started, dropped>>
        /\ client = "inline" /\ client' = "reading" /\ pending' = NoFrame
    BY <1>3 DEF InlineReturns
  <2>2. NoSilentLoss'
    <3>1. Queued' = Queued
      BY <2>1, QueuedWait DEF Waiting
    <3> QED
      BY <2>1, <3>1 DEF LossOK, NoSilentLoss, NoFrame
  <2> QED
    BY <2>1, <2>2 DEF LossOK
<1>4. CASE EnqueueOrDrop
  <2> DEFINE p == pending.room
             n == pending.frame
             q == queue[conn][p]
  <2>1. p \in Rooms /\ n \in Frames /\ n # 0 /\ conn \in Conns /\ q \in Seq(Frames)
    BY <1>4 DEF EnqueueOrDrop, PhaseOK, TypeOK, Frames
  <2>2. UNCHANGED <<worker, conn, cancelled, closedChans, accepted, started>>
        /\ client = "enqueue" /\ client' = "reading" /\ pending' = NoFrame
    BY <1>4 DEF EnqueueOrDrop
  <2>3. NoSilentLoss'
    <3> SUFFICES ASSUME ~cancelled
                 PROVE  accepted = started \cup dropped' \cup Queued' \cup ({0} \ {0})
      BY <2>2 DEF NoSilentLoss, NoFrame
    <3>1. accepted = started \cup dropped \cup Queued \cup {n} /\ worker[conn][p] # "none"
      BY <2>1, <2>2 DEF LossOK, NoSilentLoss
    <3>2. CASE queue' = [queue EXCEPT ![conn][p] = Append(q, n)] /\ dropped' = dropped
      <4> DEFINE after == Append(q, n)
      <4>1. after \in Seq(Frames) /\ queue \in [Conns -> [Rooms -> Seq(Frames)]]
        BY <2>1 DEF TypeOK
      <4>2. Elements(after) = Elements(q) \cup {n}
        BY <2>1, ElementsOf
      <4>3. queue' = [queue EXCEPT ![conn][p] = after]
        BY <3>2
      <4> HIDE DEF p, n, after
      <4>4. \A c \in Conns, r \in Rooms :
              queue'[c][r] = IF c = conn /\ r = p THEN after ELSE queue[c][r]
        BY <2>1, <4>1, <4>3, Update2
      <4>5. \A c \in Conns, r \in Rooms :
              Waiting(c, r)' = IF c = conn /\ r = p THEN Waiting(c, r) \cup {n} ELSE Waiting(c, r)
        BY <2>2, <3>1, <4>2, <4>4 DEF Waiting
      <4>6. Queued' = Queued \cup {n}
        BY <2>1, <4>5, QueuedWait
      <4> QED
        BY <3>1, <3>2, <4>6
    <3>3. CASE UNCHANGED queue /\ dropped' = dropped \cup {n}
      <4>1. Queued' = Queued
        BY <2>2, <3>3, QueuedWait DEF Waiting
      <4> QED
        BY <3>1, <3>3, <4>1
    <3> QED
      BY <1>4, <3>2, <3>3 DEF EnqueueOrDrop
  <2> QED
    BY <2>2, <2>3 DEF LossOK
<1>5. ASSUME NEW r \in Rooms, NEW t \in Texts, DispatchInline(r, t)
      PROVE  LossOK'
  <2>1. UNCHANGED <<worker, queue, conn, cancelled, closedChans, dropped>>
        /\ client = "reading" /\ client' = "inline" /\ pending = NoFrame
        /\ pending' = [frame |-> arrived + 1, room |-> r]
        /\ accepted' = accepted \cup {arrived + 1} /\ started' = started \cup {arrived + 1}
    BY <1>5 DEF DispatchInline, AcceptFrame, LossOK
  <2>2. NoSilentLoss'
    <3>1. Queued' = Queued
      BY <2>1, QueuedWait DEF Waiting
    <3> QED
      BY <2>1, <3>1 DEF LossOK, NoSilentLoss, NoFrame
  <2> QED
    BY <2>1, <2>2 DEF LossOK
<1>6. ASSUME NEW r \in Rooms, NEW t \in Texts, EnsureRoomWorker(r, t)
      PROVE  LossOK'
  <2>1. UNCHANGED <<conn, cancelled, closedChans, started, dropped>>
        /\ client = "reading" /\ client' = "enqueue" /\ pending = NoFrame
        /\ pending' = [frame |-> arrived + 1, room |-> r]
        /\ accepted' = accepted \cup {arrived + 1} /\ arrived \in Nat /\ conn \in Conns
    BY <1>6 DEF EnsureRoomWorker, AcceptFrame, LossOK, TypeOK, PhaseOK
  <2>2. /\ \A c \in Conns, x \in Rooms : Waiting(c, x)' = Waiting(c, x)
        /\ worker'[conn][r] # "none"
    <3>1. CASE worker[conn][r] = "none"
      <4>1. /\ worker' = [worker EXCEPT ![conn][r] = "waiting"]
            /\ queue' = [queue EXCEPT ![conn][r] = <<>>]
        BY <1>6, <3>1 DEF EnsureRoomWorker
      <4>2. /\ "waiting" \in WorkerStates /\ <<>> \in Seq(Frames) /\ conn \in Conns
            /\ worker \in [Conns -> [Rooms -> WorkerStates]]
            /\ queue \in [Conns -> [Rooms -> Seq(Frames)]]
        BY <2>1 DEF WorkerStates, TypeOK
      <4>3. \A c \in Conns, x \in Rooms :
              worker'[c][x] = IF c = conn /\ x = r THEN "waiting" ELSE worker[c][x]
        BY <4>1, <4>2, Update2
      <4>4. \A c \in Conns, x \in Rooms :
              queue'[c][x] = IF c = conn /\ x = r THEN <<>> ELSE queue[c][x]
        BY <4>1, <4>2, Update2
      <4>5. Elements(<<>>) = {}
        BY DEF Elements
      <4> QED
        BY <2>1, <3>1, <4>3, <4>4, <4>5 DEF Waiting
    <3>2. CASE worker[conn][r] # "none"
      BY <1>6, <3>2 DEF EnsureRoomWorker, Waiting
    <3> QED
      BY <3>1, <3>2
  <2>3. Queued' = Queued
    BY <2>2, QueuedWait
  <2>4. NoSilentLoss'
    BY <2>1, <2>3 DEF LossOK, NoSilentLoss, NoFrame
  <2> QED
    BY <2>1, <2>2, <2>4 DEF LossOK
<1> QED
  BY <1>1, <1>2, <1>3, <1>4, <1>5, <1>6 DEF ClientStep

(* A worker's steps lose nothing: it hands its oldest frame over, and it    *)
(* goes with frames in its channel only on a done context.                  *)
LEMMA LossWorker ==
  ASSUME TypeOK, PhaseOK, LossOK, NEW c \in Conns, NEW r \in Rooms, WorkerStep(c, r)
  PROVE  LossOK'
<1> USE IrisAssumption DEF cfgVars, dispVars, histVars
<1>1. UNCHANGED <<cancelled, client, conn, pending, accepted, dropped, closedChans>>
      /\ worker[c][r] # "none" /\ cancelled \in BOOLEAN
  BY DEF WorkerStep, AcquireSem, StartHandler, HandlerReturns, WorkerExits, TypeOK
<1>2. c = conn
  BY <1>1 DEF PhaseOK
<1>3. PICK s \in WorkerStates : /\ worker' = [worker EXCEPT ![c][r] = s]
                                /\ s = "none" => WorkerExits(c, r)
  BY DEF WorkerStep, AcquireSem, StartHandler, HandlerReturns, WorkerExits, WorkerStates
<1>4. \A d \in Conns, x \in Rooms : worker'[d][x] = IF d = c /\ x = r THEN s ELSE worker[d][x]
  BY <1>3, Update2 DEF TypeOK
<1>5. CASE StartHandler(c, r)
  <2> DEFINE h == Head(queue[c][r])
             q == Tail(queue[c][r])
  <2>1. queue[c][r] \in Seq(Frames) /\ queue[c][r] # <<>>
    BY <1>5 DEF StartHandler, TypeOK
  <2>2. h \in Frames /\ q \in Seq(Frames) /\ Elements(queue[c][r]) = Elements(q) \cup {h}
    BY <2>1, HeadTailType, ElementsOf
  <2>3. queue' = [queue EXCEPT ![c][r] = q] /\ started' = started \cup {h}
    BY <1>5 DEF StartHandler
  <2>4. \A d \in Conns, x \in Rooms : queue'[d][x] = IF d = c /\ x = r THEN q ELSE queue[d][x]
    BY <2>2, <2>3, Update2 DEF TypeOK
  <2>5. s # "none"
    BY <1>3, <1>5 DEF StartHandler, WorkerExits, TypeOK, WorkerStates
  <2> HIDE DEF h, q
  <2>6. /\ Waiting(c, r) = Waiting(c, r)' \cup {h}
        /\ \A d \in Conns, x \in Rooms : ~(d = c /\ x = r) => Waiting(d, x)' = Waiting(d, x)
    BY <1>1, <1>4, <2>2, <2>4, <2>5 DEF Waiting
  <2>7. Queued = Queued' \cup {h} \/ Queued = Queued'
    BY <2>6, QueuedWait
  <2>8. h \in Queued
    BY <2>6, QueuedWait
  <2>9. NoSilentLoss'
    BY <1>1, <2>3, <2>7, <2>8 DEF LossOK, NoSilentLoss
  <2>10. client = "enqueue" /\ ~cancelled => worker'[conn][pending.room] # "none"
    BY <1>4, <2>5, <1>2 DEF LossOK, PhaseOK
  <2> QED
    BY <1>1, <2>3, <2>9, <2>10 DEF LossOK
<1>6. CASE AcquireSem(c, r) \/ HandlerReturns(c, r) \/ WorkerExits(c, r)
  <2>1. UNCHANGED <<queue, started>>
    BY <1>6 DEF AcquireSem, HandlerReturns, WorkerExits
  <2>2. s = "none" /\ ~cancelled => r \in closedChans[conn] /\ queue[c][r] = <<>>
    BY <1>2, <1>3 DEF WorkerExits
  <2>3. ~cancelled => \A d \in Conns, x \in Rooms : Waiting(d, x)' = Waiting(d, x)
    <3> SUFFICES ASSUME ~cancelled, NEW d \in Conns, NEW x \in Rooms
                 PROVE  Waiting(d, x)' = Waiting(d, x)
      OBVIOUS
    <3>1. CASE ~(d = c /\ x = r)
      BY <1>4, <2>1, <3>1 DEF Waiting
    <3>2. CASE d = c /\ x = r
      <4>1. s = "none" => Elements(queue[c][r]) = {}
        BY <2>2 DEF Elements
      <4> QED
        BY <1>1, <1>4, <2>1, <3>2, <4>1 DEF Waiting
    <3> QED
      BY <3>1, <3>2
  <2>4. NoSilentLoss'
    BY <1>1, <2>1, <2>3, LossIdle DEF LossOK
  <2>5. client = "enqueue" /\ ~cancelled => worker'[conn][pending.room] # "none"
    BY <1>2, <1>4, <2>2 DEF LossOK, PhaseOK
  <2> QED
    BY <1>1, <2>1, <2>4, <2>5 DEF LossOK
<1> QED
  BY <1>5, <1>6 DEF WorkerStep

(* Cancel, Tick and stuttering lose nothing. *)
LEMMA LossRest ==
  ASSUME TypeOK, LossOK, Cancel \/ Tick \/ UNCHANGED vars
  PROVE  LossOK'
<1>1. /\ UNCHANGED <<queue, worker, pending, conn, client, accepted, started, dropped, closedChans>>
      /\ cancelled' = cancelled \/ cancelled'
  BY DEF Cancel, Tick, vars, dispVars, histVars
<1>2. Queued' = Queued
  BY <1>1, QueuedWait DEF Waiting
<1> QED
  BY <1>1, <1>2 DEF LossOK, NoSilentLoss

------------------------------------------------------------------------------
(* IInv holds at first and every step keeps it. *)
THEOREM Inductive == Spec => []IInv
<1>1. Init => IInv
  BY TypeInit, PhaseInit, OrderInit, LossInit DEF IInv
<1>2. IInv /\ [Next]_vars => IInv'
  <2> SUFFICES ASSUME IInv, [Next]_vars PROVE IInv'
    OBVIOUS
  <2>1. TypeOK /\ PhaseOK /\ OrderOK /\ LossOK
    BY DEF IInv
  <2>2. CASE ClientStep
    <3>1. TypeOK' /\ PhaseOK'
      BY <2>1, <2>2, TypeClient, PhaseClient
    <3> QED
      BY <2>1, <2>2, <3>1, OrderClient, LossClient DEF IInv
  <2>3. ASSUME NEW c \in Conns, NEW r \in Rooms, WorkerStep(c, r)
        PROVE  IInv'
    BY <2>1, <2>3, TypeWorker, PhaseWorker, OrderWorker, LossWorker DEF IInv
  <2>4. CASE Cancel \/ Tick \/ UNCHANGED vars
    BY <2>1, <2>4, TypeRest, PhaseRest, OrderRest, LossRest DEF IInv
  <2> QED
    BY <2>2, <2>3, <2>4 DEF Next, Stopped
<1> QED
  BY <1>1, <1>2, PTL DEF Spec

(* The variables keep their types, whatever the configuration. *)
THEOREM TypeCorrect == Spec => []TypeOK
<1>1. IInv => TypeOK
  BY DEF IInv
<1> QED
  BY <1>1, Inductive, PTL

(* Handlers of one room never overlap: a live worker belongs to the latest  *)
(* connection, because close() waits before the client dials again, and a   *)
(* client that handles inline has no workers.                               *)
THEOREM RoomsAreSerial == Spec => []SerialPerRoom
<1>1. IInv => SerialPerRoom
  <2> SUFFICES ASSUME IInv PROVE SerialPerRoom
    OBVIOUS
  <2>1. \A c \in Conns, r \in Rooms : worker[c][r] = "handling" => c = conn
    BY DEF IInv, PhaseOK
  <2>2. client = "inline" => \A c \in Conns, r \in Rooms : worker[c][r] # "handling"
    BY DEF IInv, PhaseOK
  <2> QED
    BY <2>1, <2>2 DEF SerialPerRoom
<1> QED
  BY <1>1, Inductive, PTL

(* A handler of a room is called with a frame younger than every frame the  *)
(* room's handlers were called with before: arrival order, at most once.    *)
THEOREM RoomsAreOrdered == Spec => InRoomOrder
<1> DEFINE A == /\ \A c \in Conns, r \in Rooms :
                     (worker[c][r] # "handling" /\ worker'[c][r] = "handling")
                        => current'[c][r] > last[r]
                /\ \A r \in Rooms : last'[r] >= last[r]
<1>1. IInv /\ [Next]_vars => [A]_vars
  <2> SUFFICES ASSUME IInv, Next PROVE A
    OBVIOUS
  <2> USE IrisAssumption DEF cfgVars, dispVars, histVars
  <2>1. TypeOK /\ PhaseOK /\ OrderOK
    BY DEF IInv
  <2>2. \A r \in Rooms : last[r] \in Nat /\ last[r] <= arrived
    BY <2>1 DEF TypeOK, OrderOK
  <2>3. ASSUME UNCHANGED <<worker, last>> PROVE A
    BY <2>2, <2>3
  <2>4. ASSUME NEW r \in Rooms, NEW t \in Texts, DispatchInline(r, t) PROVE A
    <3>1. UNCHANGED worker /\ last' = [last EXCEPT ![r] = arrived + 1] /\ arrived \in Nat
      BY <2>1, <2>4 DEF DispatchInline, TypeOK
    <3> QED
      BY <2>1, <2>2, <3>1 DEF TypeOK
  <2>5. ASSUME NEW r \in Rooms, NEW t \in Texts, EnsureRoomWorker(r, t) PROVE A
    <3>1. UNCHANGED last
      BY <2>5 DEF EnsureRoomWorker
    <3>2. conn \in Conns /\ "waiting" \in WorkerStates
      BY <2>1, <2>5 DEF EnsureRoomWorker, AcceptFrame, PhaseOK, WorkerStates
    <3>3. UNCHANGED worker \/ worker' = [worker EXCEPT ![conn][r] = "waiting"]
      BY <2>5 DEF EnsureRoomWorker
    <3>4. \A c \in Conns, x \in Rooms : worker'[c][x] = "handling" => worker[c][x] = "handling"
      <4>1. worker \in [Conns -> [Rooms -> WorkerStates]]
        BY <2>1 DEF TypeOK
      <4>2. CASE worker' = [worker EXCEPT ![conn][r] = "waiting"]
        BY <3>2, <4>1, <4>2, Update2
      <4> QED
        BY <3>3, <4>2
    <3>5. \A x \in Rooms : last'[x] >= last[x]
      BY <2>2, <3>1
    <3>6. \A c \in Conns, x \in Rooms :
            ~(worker[c][x] # "handling" /\ worker'[c][x] = "handling")
      BY <3>4
    <3> QED
      BY <3>5, <3>6
  <2>6. CASE ClientStep
    <3>1. CASE \/ Connect \/ ConnectFails \/ BackoffElapses \/ Stop
               \/ ReadFails \/ CloseReturns \/ InlineReturns \/ EnqueueOrDrop \/ SkipFrame
      BY <2>3, <3>1 DEF Connect, ConnectFails, BackoffElapses, Stop, ReadFails,
                       CloseReturns, InlineReturns, EnqueueOrDrop, SkipFrame
    <3>2. ASSUME NEW r \in Rooms, NEW t \in Texts, SuppressDuplicate(r, t) PROVE A
      BY <2>3, <3>2 DEF SuppressDuplicate
    <3> QED
      BY <2>4, <2>5, <2>6, <3>1, <3>2 DEF ClientStep
  <2>7. ASSUME NEW c \in Conns, NEW r \in Rooms, WorkerStep(c, r) PROVE A
    <3>1. CASE StartHandler(c, r)
      <4> DEFINE h == Head(queue[c][r])
      <4>1. h > last[r]
        BY <2>1, <3>1, TakeOldest
      <4>2. h \in Frames /\ h \in 0 .. MaxFrames
        <5>1. queue[c][r] \in Seq(Frames) /\ queue[c][r] # <<>>
          BY <2>1, <3>1 DEF StartHandler, TypeOK
        <5>2. h \in Frames
          BY <5>1, HeadTailType
        <5> QED
          BY <5>2 DEF Frames
      <4>3. /\ worker' = [worker EXCEPT ![c][r] = "handling"]
            /\ current' = [current EXCEPT ![c][r] = h]
            /\ last' = [last EXCEPT ![r] = h]
        BY <3>1 DEF StartHandler
      <4>4. \A d \in Conns, x \in Rooms :
              /\ worker'[d][x] = IF d = c /\ x = r THEN "handling" ELSE worker[d][x]
              /\ current'[d][x] = IF d = c /\ x = r THEN h ELSE current[d][x]
        BY <2>1, <4>2, <4>3, Update2 DEF TypeOK, WorkerStates
      <4>5. \A x \in Rooms : last'[x] = IF x = r THEN h ELSE last[x]
        BY <2>1, <4>3 DEF TypeOK
      <4>6. \A x \in Rooms : last'[x] >= last[x]
        BY <2>2, <4>1, <4>2, <4>5
      <4> QED
        <5> SUFFICES ASSUME NEW d \in Conns, NEW x \in Rooms,
                            worker[d][x] # "handling", worker'[d][x] = "handling"
                     PROVE  current'[d][x] > last[x]
          BY <4>6
        <5>1. d = c /\ x = r
          BY <4>4
        <5> QED
          BY <4>1, <4>4, <5>1
    <3>2. CASE AcquireSem(c, r) \/ HandlerReturns(c, r) \/ WorkerExits(c, r)
      <4>1. UNCHANGED last
        BY <3>2 DEF AcquireSem, HandlerReturns, WorkerExits
      <4>2. \E s \in {"idle", "none"} : worker' = [worker EXCEPT ![c][r] = s]
        BY <3>2 DEF AcquireSem, HandlerReturns, WorkerExits
      <4>3. \A d \in Conns, x \in Rooms : worker'[d][x] = "handling" => worker[d][x] = "handling"
        BY <2>1, <4>2, Update2 DEF TypeOK, WorkerStates
      <4> QED
        BY <2>2, <4>1, <4>3
    <3> QED
      BY <2>7, <3>1, <3>2 DEF WorkerStep
  <2>8. CASE Cancel \/ Tick \/ Stopped
    BY <2>3, <2>8 DEF Cancel, Tick, Stopped, vars
  <2> QED
    BY <2>6, <2>7, <2>8 DEF Next
<1>2. InRoomOrder <=> [][A]_vars
  BY DEF InRoomOrder
<1>3. Spec => [][A]_vars
  BY <1>1, Inductive, PTL DEF Spec
<1> QED
  BY <1>2, <1>3

(* While the bot is not shutting down, every frame that passed the dedup    *)
(* check was handed to its handler, is queued for a room with a worker, is  *)
(* with the reader, or was counted as dropped: also those of connections    *)
(* that are gone, for any rooms, channel capacity and worker count.         *)
THEOREM NothingIsLost == Spec => []NoSilentLoss
<1>1. IInv => NoSilentLoss
  BY DEF IInv, LossOK
<1> QED
  BY <1>1, Inductive, PTL

==============================================================================
