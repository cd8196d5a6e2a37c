------------------------- MODULE AccessControlProofs -------------------------
(***************************************************************************)
(* What holds of the access control runtime for any rooms, users and       *)
(* intents, any configuration and any number of concurrent commands.       *)
(***************************************************************************)
EXTENDS AccessControl, TLAPS

(* The shapes of rows. *)
LEMMA EntryShape ==
  /\ \A r \in Rooms : Room(r) \in Entries /\ Room(r)[1] = "room" /\ Room(r)[2] = r
  /\ \A e \in Entries : e[1] \in Tables
  /\ \A e \in Entries : e[1] = "grant" => e[2] \in Rooms
  /\ \A e \in Entries : e[1] = "room" => e[2] \in Rooms /\ e = Room(e[2])
  /\ \A p \in Principals : p[1] \in {"adminRoom", "adminUser"}
  /\ Principals \subseteq Entries
<1> USE AccessAssumption DEF Entries, RoomRows, GrantRows, AdminRows, Room, Grant, AdminRoom, AdminUser
<1>1. \A r \in Rooms : Room(r) \in Entries /\ Room(r)[1] = "room" /\ Room(r)[2] = r
  OBVIOUS
<1>2. \A e \in Entries : e[1] \in Tables
  BY DEF Tables
<1>3. \A e \in Entries : e[1] = "grant" => e[2] \in Rooms
  OBVIOUS
<1>4. \A e \in Entries : e[1] = "room" => e[2] \in Rooms /\ e = Room(e[2])
  OBVIOUS
<1>5. /\ \A p \in Principals : p[1] \in {"adminRoom", "adminUser"}
      /\ Principals \subseteq Entries
  BY DEF Principals
<1> QED
  BY <1>1, <1>2, <1>3, <1>4, <1>5

(* The shapes of changes. *)
LEMMA ChangeShape ==
  /\ \A ch \in Changes : ch[1] \in {"add", "remove"} /\ ch[2] \in Entries /\ ch = <<ch[1], ch[2]>>
  /\ {"add"} \X Principals \subseteq Changes
  /\ NoChange \notin Changes
BY EntryShape DEF Changes, NoChange

(* What a change does to the tables: it affects the rows it says, and keeps *)
(* the foreign key.                                                         *)
LEMMA ChangeEffect ==
  ASSUME db \subseteq Entries, GrantsHaveRoom(db), NEW ch \in Changes,
         ch[1] = "add" /\ ch[2][1] = "grant" => Room(ch[2][2]) \in db
  PROVE  /\ After(ch) \subseteq Entries
         /\ Affected(ch) \subseteq Entries
         /\ GrantsHaveRoom(After(ch))
         /\ \A e : e \notin Affected(ch) => (e \in After(ch) <=> e \in db)
<1>1. ch[1] \in {"add", "remove"} /\ ch[2] \in Entries
  BY ChangeShape
<1>2. CASE ch[1] = "add"
  <2>1. After(ch) = db \cup {ch[2]} /\ Affected(ch) = {ch[2]} \ db
    BY <1>2 DEF After, Affected
  <2> QED
    BY <1>1, <1>2, <2>1 DEF GrantsHaveRoom
<1>3. CASE ch[1] = "remove"
  <2> DEFINE e == ch[2]
  <2>1. /\ Affected(ch) = {x \in db : x = e \/ (e[1] = "room" /\ x[1] = "grant" /\ x[2] = e[2])}
        /\ After(ch) = db \ Affected(ch)
    BY <1>3 DEF After, Affected
  <2>2. ASSUME NEW g \in After(ch), g[1] = "grant"
        PROVE  Room(g[2]) \in After(ch)
    <3>1. g \in db /\ g \in Entries /\ Room(g[2]) \in db
      BY <2>1, <2>2 DEF GrantsHaveRoom
    <3>2. g[2] \in Rooms /\ Room(g[2])[1] = "room" /\ Room(g[2])[2] = g[2]
      BY <2>2, <3>1, EntryShape
    <3>3. Room(g[2]) # e
      BY <2>1, <2>2, <3>1, <3>2
    <3> QED
      BY <2>1, <3>1, <3>2, <3>3
  <2> QED
    BY <1>1, <2>1, <2>2 DEF GrantsHaveRoom
<1> QED
  BY <1>1, <1>2, <1>3

(* A query reads exactly the rows of its table that have their room. *)
LEMMA QueryShape ==
  ASSUME TypeOK, NEW a \in Actors, Query(a)
  PROVE  /\ at[a] \in Tables
         /\ at' = [at EXCEPT ![a] = Then[at[a]]]
         /\ at'[a] \in Tables \cup {"apply"}
         /\ Queried[at'[a]] = Queried[at[a]] \cup {at[a]}
         /\ at[a] \notin Queried[at[a]]
         /\ at'[a] = "grant" => at[a] = "room"
         /\ read' = [read EXCEPT ![a] = @ \cup {e \in db : e[1] = at[a] /\ (e[1] = "grant" => Room(e[2]) \in read[a])}]
         /\ db' = db /\ mem' = mem /\ todo' = todo /\ doing' = doing
         /\ touched' = touched /\ unlogged' = unlogged
         /\ issued' = issued /\ restarts' = restarts
<1>1. at[a] \in Tables /\ at' = [at EXCEPT ![a] = Then[at[a]]]
  BY DEF Query
<1>2. at'[a] = Then[at[a]]
  BY <1>1 DEF TypeOK
<1>3. CASE at[a] = "room"
  BY <1>1, <1>2, <1>3 DEF Query, Then, Queried, Tables
<1>4. CASE at[a] = "grant"
  BY <1>1, <1>2, <1>4 DEF Query, Then, Queried, Tables
<1>5. CASE at[a] = "adminRoom"
  BY <1>1, <1>2, <1>5 DEF Query, Then, Queried, Tables
<1>6. CASE at[a] = "adminUser"
  BY <1>1, <1>2, <1>6 DEF Query, Then, Queried, Tables
<1> QED
  BY <1>1, <1>3, <1>4, <1>5, <1>6 DEF Tables

(* The initial states have the types. *)
LEMMA TypeInit == Init => TypeOK
<1> SUFFICES ASSUME Init PROVE TypeOK
  OBVIOUS
<1> USE AccessAssumption
<1>1. Config \subseteq Entries /\ db \subseteq Entries /\ GrantsHaveRoom(db)
  BY DEF Init, Entries
<1>2. /\ at \in [Actors -> Places]
      /\ todo \in [Actors -> SUBSET Changes]
      /\ doing \in [Actors -> Changes \cup {NoChange}]
      /\ read \in [Actors -> SUBSET Entries]
      /\ touched \in [Actors -> SUBSET Entries]
  BY DEF Init, Places
<1>3. issued \in 0 .. MaxIssued /\ restarts \in 0 .. MaxRestarts
  BY DEF Init
<1> QED
  BY <1>1, <1>2, <1>3 DEF Init, TypeOK

(* What a command asks for are changes. *)
LEMMA RequestType ==
  ASSUME mem \subseteq Entries, NEW r \in Rooms, NEW u \in Users,
         NEW request \in RoomRequests(r)
                           \cup IF IsBootstrapSuperAdmin(r, u) THEN PrincipalRequests ELSE {}
  PROVE  request \in SUBSET Changes
<1> USE DEF Changes
<1>1. /\ \A t \in Rooms : Room(t) \in Entries
      /\ \A t \in Rooms, i \in Intents : Grant(t, i) \in Entries
      /\ AdminRows \subseteq Entries
  BY DEF Entries, RoomRows, GrantRows
<1>2. \A e \in Entries : Toggle(e) \in {"add", "remove"} \X Entries
  BY DEF Toggle
<1>3. CASE request \in PrincipalRequests
  BY <1>1, <1>2, <1>3 DEF PrincipalRequests
<1>4. CASE request = {<<"add", Room(r)>>}
  BY <1>1, <1>4
<1>5. ASSUME NEW t \in ListedRooms,
             \/ request = {<<"remove", Room(t)>>}
             \/ request = {<<"add", Grant(t, i)>> : i \in Intents}
             \/ request = {<<"remove", e>> : e \in {Grant(t, i) : i \in Intents} \cap mem}
             \/ request \in {{Toggle(Grant(t, i))} : i \in Intents}
      PROVE  request \in SUBSET Changes
  <2>1. t \in Rooms
    BY DEF ListedRooms
  <2>2. CASE request = {<<"remove", Room(t)>>}
    BY <1>1, <2>1, <2>2
  <2>3. CASE request = {<<"add", Grant(t, i)>> : i \in Intents}
    BY <1>1, <2>1, <2>3
  <2>4. CASE request = {<<"remove", e>> : e \in {Grant(t, i) : i \in Intents} \cap mem}
    BY <2>4
  <2>5. CASE request \in {{Toggle(Grant(t, i))} : i \in Intents}
    BY <1>1, <1>2, <2>1, <2>5
  <2> QED
    BY <1>5, <2>2, <2>3, <2>4, <2>5
<1>6. \/ request \in PrincipalRequests
      \/ request = {<<"add", Room(r)>>}
      \/ \E t \in ListedRooms :
           \/ request = {<<"remove", Room(t)>>}
           \/ request = {<<"add", Grant(t, i)>> : i \in Intents}
           \/ request = {<<"remove", e>> : e \in {Grant(t, i) : i \in Intents} \cap mem}
           \/ request \in {{Toggle(Grant(t, i))} : i \in Intents}
  BY DEF RoomRequests
<1> QED
  BY <1>3, <1>4, <1>5, <1>6

(* Every step keeps the types. *)
LEMMA TypeNext ==
  ASSUME TypeOK, Next
  PROVE  TypeOK'
<1> USE AccessAssumption DEF TypeOK
<1> Boot \in Actors /\ Commands \subseteq Actors
  BY DEF Actors
<1>1. ASSUME NEW a \in Actors, NEW ch \in Changes, Mutate(a, ch)
      PROVE  TypeOK'
  <2>1. /\ db' \subseteq Entries /\ GrantsHaveRoom(db') /\ Affected(ch) \subseteq Entries
    BY <1>1, ChangeEffect DEF Mutate
  <2>2. touched' \in [Actors -> SUBSET Entries]
    BY <1>1, <2>1 DEF Mutate
  <2>3. at' \in [Actors -> Places] /\ todo' \in [Actors -> SUBSET Changes]
    BY <1>1 DEF Mutate, Places
  <2>4. /\ doing' \in [Actors -> Changes \cup {NoChange}]
        /\ \A b \in Actors : at'[b] = "audit" => doing'[b] # NoChange
    BY <1>1, ChangeShape DEF Mutate
  <2> QED
    BY <1>1, <2>1, <2>2, <2>3, <2>4 DEF Mutate
<1>2. ASSUME NEW a \in Actors, NEW ch \in Changes, MutateNothing(a, ch)
      PROVE  TypeOK'
  BY <1>2 DEF MutateNothing, Places, Tables, GrantsHaveRoom
<1>3. ASSUME NEW a \in Actors, Audit(a)
      PROVE  TypeOK'
  BY <1>3 DEF Audit, Places, Tables, GrantsHaveRoom
<1>4. ASSUME NEW a \in Actors, Query(a)
      PROVE  TypeOK'
  <2>1. read' \in [Actors -> SUBSET Entries]
    BY <1>4, QueryShape
  <2>2. at' \in [Actors -> Places]
    BY <1>4, QueryShape DEF Places
  <2>3. \A b \in Actors : at'[b] = "audit" => at[b] = "audit"
    BY <1>4, QueryShape DEF Tables
  <2> QED
    BY <1>4, <2>1, <2>2, <2>3, QueryShape DEF GrantsHaveRoom
<1>5. ASSUME NEW a \in Actors, Apply(a)
      PROVE  TypeOK'
  BY <1>5 DEF Apply, Places, GrantsHaveRoom
<1>6. ASSUME NEW c \in Commands, Issue(c)
      PROVE  TypeOK'
  <2>1. PICK request : request \in SUBSET Changes /\ todo' = [todo EXCEPT ![c] = request]
    BY <1>6, RequestType DEF Issue
  <2> QED
    BY <1>6, <2>1 DEF Issue, Places, GrantsHaveRoom
<1>7. ASSUME NEW c \in Commands, Fail(c)
      PROVE  TypeOK'
  <2>1. unlogged' \subseteq Changes
    <3>1. CASE at[c] = "audit"
      BY <1>7, <3>1 DEF Fail
    <3> QED
      BY <1>7, <3>1 DEF Fail
  <2> QED
    BY <1>7, <2>1 DEF Fail, Places, GrantsHaveRoom
<1>8. CASE Seed
  <2>1. db' \subseteq Entries
    BY <1>8, EntryShape DEF Seed, Entries
  <2>2. GrantsHaveRoom(db')
    BY <1>8, EntryShape DEF Seed, GrantsHaveRoom
  <2>3. todo' \in [Actors -> SUBSET Changes]
    BY <1>8, ChangeShape DEF Seed
  <2> QED
    BY <1>8, <2>1, <2>2, <2>3 DEF Seed, Places
<1>9. CASE Restart
  <2>1. unlogged' \subseteq Changes
    BY <1>9 DEF Restart
  <2>2. /\ at' \in [Actors -> Places]
        /\ todo' \in [Actors -> SUBSET Changes]
        /\ doing' \in [Actors -> Changes \cup {NoChange}]
        /\ read' \in [Actors -> SUBSET Entries]
        /\ touched' \in [Actors -> SUBSET Entries]
        /\ \A a \in Actors : at'[a] # "audit"
    BY <1>9 DEF Restart, Places
  <2>3. mem' \subseteq Entries /\ restarts' \in 0 .. MaxRestarts
    BY <1>9 DEF Restart, Entries
  <2> QED
    BY <1>9, <2>1, <2>2, <2>3 DEF Restart, GrantsHaveRoom
<1>10. CASE Rest
  BY <1>10 DEF Rest, vars, taskVars, GrantsHaveRoom
<1> QED
  BY <1>1, <1>2, <1>3, <1>4, <1>5, <1>6, <1>7, <1>8, <1>9, <1>10 DEF Next, Step

(* The initial states have the rest of the invariant. *)
LEMMA RestInit == Init => SnapshotOK /\ StartupOK
<1> USE AccessAssumption DEF Init, Actors, Reading, Tables
<1>1. Init => SnapshotOK
  BY DEF SnapshotOK, GrantsHaveRoom
<1>2. Init => StartupOK
  BY DEF StartupOK
<1> QED
  BY <1>1, <1>2

(* A change by another actor keeps a snapshot in the making right, because  *)
(* it touches the rows it affects.                                          *)
LEMMA SnapshotMutate ==
  ASSUME TypeOK, SnapshotOK, NEW a \in Actors, NEW ch \in Changes, Mutate(a, ch)
  PROVE  SnapshotOK'
<1> USE DEF TypeOK
<1>1. /\ db' = After(ch) /\ mem' = mem /\ read' = read
      /\ at' = [at EXCEPT ![a] = "audit"] /\ at[a] = "mutate"
      /\ touched' = [b \in Actors |-> IF Reading(b) THEN touched[b] \cup Affected(ch) ELSE {}]
  BY DEF Mutate, NextChange
<1>2. \A e : e \notin Affected(ch) => (e \in db' <=> e \in db)
  BY <1>1, ChangeEffect DEF Mutate
<1>3. ~Reading(a) /\ ~Reading(a)'
  BY <1>1 DEF Reading, Tables
<1>4. GrantsHaveRoom(mem')
  BY <1>1 DEF SnapshotOK, GrantsHaveRoom
<1>5. ASSUME NEW b \in Actors
      PROVE  /\ GrantsHaveRoom(read'[b])
             /\ ~Reading(b)' => read'[b] = {} /\ touched'[b] = {}
             /\ Reading(b)' =>
                  /\ \A e \in read'[b] : e[1] \in Queried[at'[b]]
                  /\ \A e \in Entries \ touched'[b] :
                       e[1] \in Queried[at'[b]] => (e \in read'[b] <=> e \in db')
             /\ at'[b] = "grant" =>
                  \A e \in db' \ touched'[b] : e[1] = "grant" => Room(e[2]) \in read'[b]
  <2>1. CASE b = a
    BY <1>1, <1>3, <2>1 DEF SnapshotOK, GrantsHaveRoom
  <2>2. CASE b # a
    <3>1. at'[b] = at[b] /\ (Reading(b)' <=> Reading(b))
      BY <1>1, <2>2 DEF Reading
    <3>2. Reading(b) => touched'[b] = touched[b] \cup Affected(ch)
      BY <1>1
    <3>3. ~Reading(b) => touched'[b] = {}
      BY <1>1
    <3>4. at[b] = "grant" => Reading(b)
      BY DEF Reading, Tables
    <3> QED
      BY <1>1, <1>2, <3>1, <3>2, <3>3, <3>4 DEF SnapshotOK, GrantsHaveRoom
  <2> QED
    BY <2>1, <2>2
<1> QED
  BY <1>4, <1>5 DEF SnapshotOK

(* A query keeps its own snapshot right. *)
LEMMA SnapshotQuery ==
  ASSUME TypeOK, SnapshotOK, NEW a \in Actors, Query(a)
  PROVE  SnapshotOK'
<1> USE DEF TypeOK
<1> DEFINE new == {e \in db : e[1] = at[a] /\ (e[1] = "grant" => Room(e[2]) \in read[a])}
<1>1. Reading(a) /\ Reading(a)' /\ read'[a] = read[a] \cup new
  BY QueryShape DEF Reading
<1>2. GrantsHaveRoom(read'[a])
  BY <1>1 DEF SnapshotOK, GrantsHaveRoom
<1>3. \A e \in read'[a] : e[1] \in Queried[at'[a]]
  BY <1>1, QueryShape DEF SnapshotOK
<1>4. ASSUME NEW e \in Entries \ touched[a], e[1] \in Queried[at'[a]]
      PROVE  e \in read'[a] <=> e \in db
  <2>1. CASE e[1] \in Queried[at[a]]
    BY <1>1, <2>1, QueryShape DEF SnapshotOK
  <2>2. CASE e[1] = at[a]
    <3>1. e \notin read[a]
      BY <1>1, <2>2, QueryShape DEF SnapshotOK
    <3>2. e \in db /\ e[1] = "grant" => Room(e[2]) \in read[a]
      BY <2>2, <1>4 DEF SnapshotOK
    <3> QED
      BY <1>1, <2>2, <3>1, <3>2
  <2> QED
    BY <1>4, <2>1, <2>2, QueryShape
<1>5. ASSUME at'[a] = "grant", NEW e \in db \ touched[a], e[1] = "grant"
      PROVE  Room(e[2]) \in read'[a]
  <2>1. at[a] = "room"
    BY <1>5, QueryShape
  <2>2. Room(e[2]) \in db /\ Room(e[2])[1] = "room"
    BY <1>5, EntryShape DEF GrantsHaveRoom
  <2> QED
    BY <1>1, <2>1, <2>2
<1>6. ASSUME NEW b \in Actors
      PROVE  /\ GrantsHaveRoom(read'[b])
             /\ ~Reading(b)' => read'[b] = {} /\ touched'[b] = {}
             /\ Reading(b)' =>
                  /\ \A e \in read'[b] : e[1] \in Queried[at'[b]]
                  /\ \A e \in Entries \ touched'[b] :
                       e[1] \in Queried[at'[b]] => (e \in read'[b] <=> e \in db')
             /\ at'[b] = "grant" =>
                  \A e \in db' \ touched'[b] : e[1] = "grant" => Room(e[2]) \in read'[b]
  <2>1. CASE b = a
    BY <1>1, <1>2, <1>3, <1>4, <1>5, <2>1, QueryShape
  <2>2. CASE b # a
    <3>1. at'[b] = at[b] /\ read'[b] = read[b] /\ (Reading(b)' <=> Reading(b))
      BY <2>2, QueryShape DEF Reading
    <3> QED
      BY <3>1, QueryShape DEF SnapshotOK, GrantsHaveRoom
  <2> QED
    BY <2>1, <2>2
<1>7. GrantsHaveRoom(mem')
  BY QueryShape DEF SnapshotOK, GrantsHaveRoom
<1> QED
  BY <1>6, <1>7 DEF SnapshotOK

(* The other steps keep every snapshot in the making, or drop it. *)
LEMMA SnapshotNext ==
  ASSUME TypeOK, SnapshotOK, StartupOK, Next
  PROVE  SnapshotOK'
<1> USE AccessAssumption DEF TypeOK
<1> Boot \in Actors /\ Commands \subseteq Actors
  BY DEF Actors
<1>1. ASSUME NEW a \in Actors, NEW ch \in Changes, Mutate(a, ch)
      PROVE  SnapshotOK'
  BY <1>1, SnapshotMutate
<1>2. ASSUME NEW a \in Actors, Query(a)
      PROVE  SnapshotOK'
  BY <1>2, SnapshotQuery
(* A step of one actor that leaves the tables, the copy in memory and what  *)
(* is read alone, to a place where the actor starts to read or does not.    *)
<1>3. ASSUME NEW a \in Actors, NEW place \in {"mutate", "room", "idle", "up"},
             at' = [at EXCEPT ![a] = place], ~Reading(a),
             db' = db, mem' = mem, read' = read, touched' = touched
      PROVE  SnapshotOK'
  <2>1. Queried["room"] = {}
    BY DEF Queried
  <2>2. read[a] = {} /\ touched[a] = {}
    BY <1>3 DEF SnapshotOK
  <2>3. ASSUME NEW b \in Actors
        PROVE  /\ GrantsHaveRoom(read'[b])
               /\ ~Reading(b)' => read'[b] = {} /\ touched'[b] = {}
               /\ Reading(b)' =>
                    /\ \A e \in read'[b] : e[1] \in Queried[at'[b]]
                    /\ \A e \in Entries \ touched'[b] :
                         e[1] \in Queried[at'[b]] => (e \in read'[b] <=> e \in db')
               /\ at'[b] = "grant" =>
                    \A e \in db' \ touched'[b] : e[1] = "grant" => Room(e[2]) \in read'[b]
    <3>1. CASE b = a
      <4>1. at'[b] = place
        BY <1>3, <3>1
      <4>2. Reading(b)' => place = "room"
        BY <4>1 DEF Reading, Tables
      <4> QED
        BY <1>3, <2>1, <2>2, <3>1, <4>1, <4>2 DEF GrantsHaveRoom
    <3>2. CASE b # a
      <4>1. at'[b] = at[b] /\ (Reading(b)' <=> Reading(b))
        BY <1>3, <3>2 DEF Reading
      <4> QED
        BY <1>3, <4>1 DEF SnapshotOK, GrantsHaveRoom
    <3> QED
      BY <3>1, <3>2
  <2> QED
    BY <1>3, <2>3 DEF SnapshotOK, GrantsHaveRoom
<1>4. ASSUME NEW a \in Actors, NEW ch \in Changes, MutateNothing(a, ch)
      PROVE  SnapshotOK'
  <2>1. PICK place \in {"mutate", "room", "idle"} : at' = [at EXCEPT ![a] = place]
    BY <1>4 DEF MutateNothing
  <2>2. ~Reading(a)
    BY <1>4 DEF MutateNothing, NextChange, Reading, Tables
  <2> QED
    BY <1>3, <1>4, <2>1, <2>2 DEF MutateNothing
<1>5. ASSUME NEW a \in Actors, Audit(a)
      PROVE  SnapshotOK'
  <2>1. PICK place \in {"mutate", "room"} : at' = [at EXCEPT ![a] = place]
    BY <1>5 DEF Audit
  <2>2. ~Reading(a)
    BY <1>5 DEF Audit, Reading, Tables
  <2> QED
    BY <1>3, <1>5, <2>1, <2>2 DEF Audit
<1>6. ASSUME NEW c \in Commands, Issue(c)
      PROVE  SnapshotOK'
  <2>1. ~Reading(c) /\ at' = [at EXCEPT ![c] = "mutate"]
    BY <1>6 DEF Issue, Reading, Tables
  <2> QED
    BY <1>3, <1>6, <2>1 DEF Issue
(* A step after which its actor does not read.                              *)
<1>7. ASSUME NEW a \in Actors, NEW place \in {"mutate", "idle", "up"},
             at' = [at EXCEPT ![a] = place], db' = db, GrantsHaveRoom(mem'),
             read' = [read EXCEPT ![a] = {}], touched' = [touched EXCEPT ![a] = {}]
      PROVE  SnapshotOK'
  <2>1. ASSUME NEW b \in Actors
        PROVE  /\ GrantsHaveRoom(read'[b])
               /\ ~Reading(b)' => read'[b] = {} /\ touched'[b] = {}
               /\ Reading(b)' =>
                    /\ \A e \in read'[b] : e[1] \in Queried[at'[b]]
                    /\ \A e \in Entries \ touched'[b] :
                         e[1] \in Queried[at'[b]] => (e \in read'[b] <=> e \in db')
               /\ at'[b] = "grant" =>
                    \A e \in db' \ touched'[b] : e[1] = "grant" => Room(e[2]) \in read'[b]
    <3>1. CASE b = a
      <4>1. at'[b] = place /\ read'[b] = {} /\ touched'[b] = {}
        BY <1>7, <3>1
      <4>2. ~Reading(b)'
        BY <4>1 DEF Reading, Tables
      <4> QED
        BY <4>1, <4>2 DEF GrantsHaveRoom
    <3>2. CASE b # a
      <4>1. /\ at'[b] = at[b] /\ (Reading(b)' <=> Reading(b))
            /\ read'[b] = read[b] /\ touched'[b] = touched[b]
        BY <1>7, <3>2 DEF Reading
      <4> QED
        BY <1>7, <4>1 DEF SnapshotOK, GrantsHaveRoom
    <3> QED
      BY <3>1, <3>2
  <2> QED
    BY <1>7, <2>1 DEF SnapshotOK
<1>8. ASSUME NEW a \in Actors, Apply(a)
      PROVE  SnapshotOK'
  <2>1. PICK place \in {"mutate", "idle", "up"} : at' = [at EXCEPT ![a] = place]
    BY <1>8 DEF Apply
  <2>2. GrantsHaveRoom(mem')
    BY <1>8 DEF Apply, SnapshotOK, GrantsHaveRoom
  <2> QED
    BY <1>7, <1>8, <2>1, <2>2 DEF Apply
<1>9. ASSUME NEW c \in Commands, Fail(c)
      PROVE  SnapshotOK'
  BY <1>7, <1>9 DEF Fail, SnapshotOK, GrantsHaveRoom
<1>10. CASE Seed
  <2>1. ~Reading(Boot) /\ at' = [at EXCEPT ![Boot] = "mutate"]
    BY <1>10 DEF Seed, Reading, Tables
  <2>2. ASSUME NEW b \in Actors PROVE ~Reading(b)'
    BY <1>10, <2>1 DEF Seed, StartupOK, Reading, Tables, Actors
  <2>3. ASSUME NEW b \in Actors PROVE ~Reading(b)
    BY <1>10, <2>1 DEF Seed, StartupOK, Reading, Tables, Actors
  <2>4. ASSUME NEW b \in Actors PROVE at'[b] # "grant"
    BY <2>2 DEF Reading, Tables
  <2> QED
    BY <1>10, <2>2, <2>3, <2>4 DEF Seed, SnapshotOK, GrantsHaveRoom
<1>11. CASE Restart
  <2>1. ASSUME NEW b \in Actors
        PROVE  ~Reading(b)' /\ at'[b] # "grant" /\ read'[b] = {} /\ touched'[b] = {}
    BY <1>11 DEF Restart, Reading, Tables
  <2>2. GrantsHaveRoom(mem')
    BY <1>11 DEF Restart
  <2> QED
    BY <2>1, <2>2 DEF SnapshotOK, GrantsHaveRoom
<1>12. CASE Rest
  BY <1>12 DEF Rest, vars, taskVars, SnapshotOK, GrantsHaveRoom, Reading
<1> QED
  BY <1>1, <1>2, <1>4, <1>5, <1>6, <1>8, <1>9, <1>10, <1>11, <1>12 DEF Next, Step

(* Every step keeps the startup alone with the tables until it is done, and *)
(* each principal in them or still to add.                                  *)
LEMMA StartupNext ==
  ASSUME TypeOK, StartupOK, Next
  PROVE  StartupOK'
<1> USE AccessAssumption DEF TypeOK
<1> Boot \in Actors /\ Commands \subseteq Actors
  BY DEF Actors
(* A step of a command, which is on its way only when the bot is up.        *)
<1>1. ASSUME NEW c \in Commands, at[Boot] = "up",
             NEW place \in {"idle", "mutate", "audit", "apply"} \cup Tables,
             at' = [at EXCEPT ![c] = place],
             NEW S, todo' = [todo EXCEPT ![c] = S]
      PROVE  StartupOK'
  <2>1. at'[Boot] = "up" /\ todo'[Boot] = {}
    BY <1>1 DEF StartupOK
  <2>2. place \notin {"seed", "up"}
    BY DEF Tables
  <2>3. \A d \in Commands : at'[d] \notin {"seed", "up"}
    BY <1>1, <2>2 DEF StartupOK
  <2> QED
    BY <2>1, <2>3 DEF StartupOK, Reading
<1>2. ASSUME NEW c \in Commands, at[c] # "idle"
      PROVE  at[Boot] = "up"
  BY <1>2 DEF StartupOK
<1>3. ASSUME NEW c \in Commands, Step(c)
      PROVE  StartupOK'
  <2>1. at[c] # "idle" /\ c # Boot
    BY <1>3 DEF Step, Mutate, MutateNothing, NextChange, Audit, Query, Apply, Tables
  <2>2. at[Boot] = "up"
    BY <1>2, <2>1
  <2>3. CASE \E ch \in Changes : Mutate(c, ch)
    <3>1. PICK ch \in Changes : Mutate(c, ch)
      BY <2>3
    <3>2. /\ at' = [at EXCEPT ![c] = "audit"]
          /\ todo' = [todo EXCEPT ![c] = todo[c] \ {ch}]
      BY <3>1 DEF Mutate
    <3> QED
      BY <1>1, <2>2, <3>2
  <2>4. CASE \E ch \in Changes : MutateNothing(c, ch)
    <3>1. PICK ch \in Changes : MutateNothing(c, ch)
      BY <2>4
    <3>2. PICK place \in {"idle", "mutate"} : at' = [at EXCEPT ![c] = place]
      BY <2>1, <3>1 DEF MutateNothing
    <3>3. todo' = [todo EXCEPT ![c] = todo[c] \ {ch}]
      BY <3>1 DEF MutateNothing
    <3> QED
      BY <1>1, <2>2, <3>2, <3>3
  <2>5. CASE Audit(c)
    <3>1. at' = [at EXCEPT ![c] = "room"] /\ todo' = [todo EXCEPT ![c] = todo[c]]
      BY <2>1, <2>5 DEF Audit
    <3> QED
      BY <1>1, <2>2, <3>1 DEF Tables
  <2>6. CASE Query(c)
    <3>1. at' = [at EXCEPT ![c] = at'[c]] /\ at'[c] \in Tables \cup {"apply"}
      BY <2>6, QueryShape
    <3>2. todo' = [todo EXCEPT ![c] = todo[c]]
      BY <2>6, QueryShape
    <3> QED
      BY <1>1, <2>2, <3>1, <3>2
  <2>7. CASE Apply(c)
    <3>1. PICK place \in {"idle", "mutate"} : at' = [at EXCEPT ![c] = place]
      BY <2>1, <2>7 DEF Apply
    <3>2. todo' = [todo EXCEPT ![c] = todo[c]]
      BY <2>7 DEF Apply
    <3> QED
      BY <1>1, <2>2, <3>1, <3>2
  <2> QED
    BY <1>3, <2>3, <2>4, <2>5, <2>6, <2>7 DEF Step
<1>4. ASSUME NEW c \in Commands, Issue(c)
      PROVE  StartupOK'
  <2>1. PICK request : todo' = [todo EXCEPT ![c] = request]
    BY <1>4 DEF Issue
  <2> QED
    BY <1>1, <1>4, <2>1 DEF Issue
<1>5. ASSUME NEW c \in Commands, Fail(c)
      PROVE  StartupOK'
  <2>1. at[Boot] = "up"
    BY <1>2, <1>5 DEF Fail, Tables
  <2>2. at' = [at EXCEPT ![c] = "idle"] /\ todo' = [todo EXCEPT ![c] = {}]
    BY <1>5 DEF Fail
  <2> QED
    BY <1>1, <2>1, <2>2
(* A step of the startup between seeding and the last query.                *)
<1>6. ASSUME at[Boot] \notin {"seed", "up"},
             NEW place \in {"mutate", "audit", "apply"} \cup Tables,
             at' = [at EXCEPT ![Boot] = place],
             todo'[Boot] \subseteq todo[Boot],
             \A p \in Principals : p \in db' \/ <<"add", p>> \in todo'[Boot],
             place = "mutate" <=> todo'[Boot] # {} /\ place # "audit",
             touched'[Boot] = {}
      PROVE  StartupOK'
  <2>1. at'[Boot] = place /\ place \notin {"idle", "seed", "up"}
    BY <1>6 DEF Tables
  <2>2. \A c \in Commands : at'[c] = "idle"
    BY <1>6 DEF StartupOK
  <2>3. todo'[Boot] \subseteq {"add"} \X Principals
    BY <1>6 DEF StartupOK
  <2>4. place \in Tables \cup {"apply"} => todo'[Boot] = {}
    BY <1>6 DEF Tables
  <2> QED
    BY <1>6, <2>1, <2>2, <2>3, <2>4 DEF StartupOK, Reading
<1>7. ASSUME NEW ch \in Changes, NextChange(Boot, ch)
      PROVE  /\ at[Boot] = "mutate" /\ ch \in todo[Boot] /\ ~Reading(Boot)
             /\ ch[1] = "add" /\ ch[2] \in Principals /\ ch = <<ch[1], ch[2]>>
             /\ touched[Boot] = {}
  <2>1. at[Boot] = "mutate" /\ ch \in todo[Boot]
    BY <1>7 DEF NextChange
  <2>2. ch \in {"add"} \X Principals
    BY <2>1 DEF StartupOK
  <2> QED
    BY <2>1, <2>2 DEF StartupOK, Reading, Tables
<1>8. ASSUME NEW ch \in Changes, Mutate(Boot, ch)
      PROVE  StartupOK'
  <2>1. NextChange(Boot, ch)
    BY <1>8 DEF Mutate
  <2>2. /\ at' = [at EXCEPT ![Boot] = "audit"]
        /\ todo'[Boot] = todo[Boot] \ {ch}
        /\ touched'[Boot] = {}
    BY <1>7, <1>8, <2>1 DEF Mutate
  <2>3. db' = db \cup {ch[2]}
    BY <1>7, <1>8, <2>1 DEF Mutate, After
  <2>4. \A p \in Principals : p \in db' \/ <<"add", p>> \in todo'[Boot]
    <3> SUFFICES ASSUME NEW p \in Principals, p \notin db'
                 PROVE  <<"add", p>> \in todo'[Boot]
      OBVIOUS
    <3>1. p \notin db /\ p # ch[2]
      BY <2>3
    <3>2. <<"add", p>> \in todo[Boot]
      BY <1>7, <2>1, <3>1 DEF StartupOK
    <3>3. <<"add", p>> # ch
      BY <1>7, <2>1, <3>1
    <3> QED
      BY <2>2, <3>2, <3>3
  <2> HIDE DEF TypeOK
  <2> QED
    BY <1>6, <1>7, <2>1, <2>2, <2>4
<1>9. ASSUME NEW ch \in Changes, MutateNothing(Boot, ch)
      PROVE  StartupOK'
  <2>1. NextChange(Boot, ch)
    BY <1>9 DEF MutateNothing
  <2> DEFINE place == IF todo[Boot] # {ch} THEN "mutate" ELSE "room"
  <2>2. /\ at' = [at EXCEPT ![Boot] = place]
        /\ todo'[Boot] = todo[Boot] \ {ch}
        /\ touched'[Boot] = {} /\ db' = db
    BY <1>7, <1>9, <2>1 DEF MutateNothing
  <2>3. ch[2] \in db
    BY <1>7, <1>9, <2>1 DEF MutateNothing, Reports, Affected
  <2>4. \A p \in Principals : p \in db' \/ <<"add", p>> \in todo'[Boot]
    <3> SUFFICES ASSUME NEW p \in Principals, p \notin db
                 PROVE  <<"add", p>> \in todo'[Boot]
      BY <2>2
    <3>1. <<"add", p>> \in todo[Boot]
      BY <1>7, <2>1 DEF StartupOK
    <3>2. <<"add", p>> # ch
      BY <1>7, <2>1, <2>3
    <3> QED
      BY <2>2, <3>1, <3>2
  <2>5. /\ place = "mutate" <=> todo'[Boot] # {} /\ place # "audit"
        /\ place \in {"mutate", "audit", "apply"} \cup Tables
    BY <1>7, <2>1, <2>2 DEF Tables
  <2> HIDE DEF TypeOK, place
  <2> QED
    BY <1>6, <1>7, <2>1, <2>2, <2>4, <2>5
<1>10. CASE Audit(Boot)
  <2> DEFINE place == IF todo[Boot] # {} THEN "mutate" ELSE "room"
  <2>1. /\ at[Boot] = "audit" /\ at' = [at EXCEPT ![Boot] = place]
        /\ todo' = todo /\ touched' = touched /\ db' = db
    BY <1>10 DEF Audit
  <2>2. /\ touched'[Boot] = {}
        /\ \A p \in Principals : p \in db' \/ <<"add", p>> \in todo'[Boot]
    BY <2>1 DEF StartupOK
  <2>3. /\ place = "mutate" <=> todo'[Boot] # {} /\ place # "audit"
        /\ place \in {"mutate", "audit", "apply"} \cup Tables
    BY <2>1 DEF Tables
  <2> HIDE DEF TypeOK, place
  <2> QED
    BY <1>6, <2>1, <2>2, <2>3
<1>11. CASE Query(Boot)
  <2>1. /\ at[Boot] \in Tables /\ at' = [at EXCEPT ![Boot] = at'[Boot]]
        /\ at'[Boot] \in Tables \cup {"apply"}
        /\ todo' = todo /\ touched' = touched /\ db' = db
    BY <1>11, QueryShape
  <2>2. at[Boot] \notin {"seed", "up", "mutate"} /\ Reading(Boot)
    BY <2>1 DEF Tables, Reading
  <2>3. /\ touched'[Boot] = {} /\ todo'[Boot] = {}
        /\ \A p \in Principals : p \in db' \/ <<"add", p>> \in todo'[Boot]
    BY <2>1, <2>2 DEF StartupOK
  <2>4. at'[Boot] # "mutate" /\ at'[Boot] \in {"mutate", "audit", "apply"} \cup Tables
    BY <2>1 DEF Tables
  <2> HIDE DEF TypeOK
  <2> QED
    BY <1>6, <2>1, <2>2, <2>3, <2>4
<1>12. CASE Apply(Boot)
  <2>1. /\ at'[Boot] = "up" /\ todo'[Boot] = {}
        /\ \A c \in Commands : at'[c] \notin {"seed", "up"}
    BY <1>12 DEF Apply, StartupOK, Reading
  <2> QED
    BY <2>1 DEF StartupOK, Reading, Tables
<1>13. CASE Seed
  <2>1. /\ at'[Boot] = "mutate" /\ todo'[Boot] = {"add"} \X Principals
        /\ touched'[Boot] = {}
        /\ \A c \in Commands : at'[c] = "idle"
    BY <1>13 DEF Seed, StartupOK
  <2>2. \A p \in Principals : <<"add", p>> \in todo'[Boot]
    BY <2>1
  <2>3. todo'[Boot] # {}
    <3>1. AdminRoom(BootRoom) \in Principals
      BY DEF Principals
    <3> QED
      BY <2>2, <3>1
  <2>4. ~Reading(Boot)'
    BY <2>1 DEF Reading, Tables
  <2> HIDE DEF TypeOK
  <2> QED
    BY <2>1, <2>2, <2>3, <2>4 DEF StartupOK
<1>14. CASE Restart
  <2>1. /\ at'[Boot] = "seed" /\ touched'[Boot] = {}
        /\ \A c \in Commands : at'[c] = "idle"
    BY <1>14 DEF Restart
  <2> QED
    BY <2>1 DEF StartupOK, Reading, Tables
<1>15. CASE Rest
  BY <1>15 DEF Rest, vars, taskVars, StartupOK, Reading
<1> QED
  BY <1>3, <1>4, <1>5, <1>8, <1>9, <1>10, <1>11, <1>12, <1>13, <1>14, <1>15
     DEF Next, Step, Actors

(* A state that repeats keeps the invariant. *)
LEMMA InvStutter ==
  ASSUME IInv, UNCHANGED vars
  PROVE  IInv'
BY DEF IInv, TypeOK, SnapshotOK, StartupOK, Reading, GrantsHaveRoom, vars, taskVars

(* IInv is inductive: it holds of every reachable state. *)
THEOREM Inductive == Spec => []IInv
<1>1. Init => IInv
  BY TypeInit, RestInit DEF IInv
<1>2. IInv /\ [Next]_vars => IInv'
  <2> SUFFICES ASSUME IInv, [Next]_vars PROVE IInv'
    OBVIOUS
  <2>1. CASE Next
    BY <2>1, TypeNext, SnapshotNext, StartupNext DEF IInv
  <2>2. CASE UNCHANGED vars
    BY <2>2, InvStutter
  <2> QED
    BY <2>1, <2>2
<1> QED
  BY <1>1, <1>2, PTL DEF Spec

(* The state has its types, and the tables the foreign key. *)
THEOREM TypeCorrect == Spec => []TypeOK
<1>1. IInv => TypeOK
  BY DEF IInv
<1> QED
  BY <1>1, Inductive, PTL

(* A reload is right about every row nobody changed while it read. *)
THEOREM ReloadsAreCurrent == Spec => ReloadIsCurrent
<1> DEFINE A == \A a \in Actors :
                  at[a] = "apply" /\ restarts' = restarts /\ at'[a] # "apply" =>
                    \A e \in Entries \ touched[a] : e \in mem' <=> e \in db
<1>1. IInv /\ [Next]_vars => A
  <2> SUFFICES ASSUME IInv, [Next]_vars, NEW a \in Actors,
                      at[a] = "apply", restarts' = restarts, at'[a] # "apply",
                      NEW e \in Entries \ touched[a]
               PROVE  e \in mem' <=> e \in db
    OBVIOUS
  <2> USE AccessAssumption DEF IInv, TypeOK
  <2>1. e \in read[a] <=> e \in db
    <3>1. Reading(a) /\ Queried[at[a]] = Tables
      BY DEF Reading, Queried
    <3>2. e[1] \in Tables
      BY EntryShape
    <3> QED
      BY <3>1, <3>2 DEF SnapshotOK
  <2>2. \A b, place : at' = [at EXCEPT ![b] = place] => b = a
    OBVIOUS
  <2>3. ASSUME NEW b \in Actors, Step(b) PROVE e \in mem' <=> e \in db
    <3>1. b = a
      <4>1. CASE \E ch \in Changes : Mutate(b, ch) \/ MutateNothing(b, ch)
        BY <4>1, <2>2 DEF Mutate, MutateNothing
      <4>2. CASE Audit(b) \/ Query(b) \/ Apply(b)
        BY <4>2, <2>2 DEF Audit, Query, Apply
      <4> QED
        BY <2>3, <4>1, <4>2 DEF Step
    <3>2. Apply(a)
      BY <2>3, <3>1 DEF Step, Mutate, MutateNothing, NextChange, Audit, Query, Tables
    <3> QED
      BY <2>1, <3>2 DEF Apply
  <2>4. ASSUME NEW c \in Commands, Issue(c) \/ Fail(c) PROVE FALSE
    <3>1. c = a
      BY <2>2, <2>4 DEF Issue, Fail
    <3> QED
      BY <2>4, <3>1 DEF Issue, Fail, Tables
  <2>5. ~Seed
    BY <2>2 DEF Seed
  <2>6. ~Restart
    BY DEF Restart
  <2>7. ~Rest /\ ~UNCHANGED vars
    BY DEF Rest, vars, taskVars
  <2> QED
    BY <2>3, <2>4, <2>5, <2>6, <2>7 DEF Next
<1>2. ReloadIsCurrent <=> [][A]_vars
  BY DEF ReloadIsCurrent
<1>3. Spec => [][A]_vars
  BY <1>1, Inductive, PTL DEF Spec
<1> QED
  BY <1>2, <1>3

(* Every startup that completes leaves the bootstrap principals in memory. *)
THEOREM BootstrapIsRestored == Spec => BootstrapRestored
<1> DEFINE A == at[Boot] = "apply" /\ at'[Boot] = "up" => Principals \subseteq mem'
<1>1. IInv /\ [Next]_vars => A
  <2> SUFFICES ASSUME IInv, [Next]_vars, at[Boot] = "apply", at'[Boot] = "up"
               PROVE  Principals \subseteq mem'
    OBVIOUS
  <2> USE AccessAssumption DEF IInv, TypeOK
  <2> Boot \in Actors /\ Commands \subseteq Actors
    BY DEF Actors
  <2>1. Principals \subseteq read[Boot]
    <3>1. Reading(Boot) /\ Queried[at[Boot]] = Tables
      BY DEF Reading, Queried
    <3>2. touched[Boot] = {} /\ Principals \subseteq db
      BY <3>1 DEF StartupOK
    <3>3. \A p \in Principals : p \in Entries /\ p[1] \in Tables
      BY EntryShape
    <3> QED
      BY <3>1, <3>2, <3>3 DEF SnapshotOK
  <2>2. \A c \in Commands : at[c] = "idle"
    BY DEF StartupOK
  <2>3. ASSUME NEW b \in Actors, Step(b) PROVE Apply(Boot)
    <3>1. b = Boot
      BY <2>2, <2>3 DEF Step, Mutate, MutateNothing, NextChange, Audit, Query, Apply, Tables, Actors
    <3> QED
      BY <2>3, <3>1 DEF Step, Mutate, MutateNothing, NextChange, Audit, Query, Tables
  <2>4. ASSUME NEW c \in Commands, Issue(c) \/ Fail(c) PROVE FALSE
    BY <2>2, <2>4 DEF Issue, Fail, Tables
  <2>5. ~Seed /\ ~Rest /\ ~UNCHANGED vars
    BY DEF Seed, Rest, vars, taskVars
  <2>6. ~Restart
    BY DEF Restart
  <2>7. Apply(Boot)
    BY <2>3, <2>4, <2>5, <2>6 DEF Next
  <2> QED
    BY <2>1, <2>7 DEF Apply
<1>2. BootstrapRestored <=> [][A]_vars
  BY DEF BootstrapRestored
<1>3. Spec => [][A]_vars
  BY <1>1, Inductive, PTL DEF Spec
<1> QED
  BY <1>2, <1>3
==============================================================================
