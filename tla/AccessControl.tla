---------------------------- MODULE AccessControl ----------------------------
(***************************************************************************)
(* Runtime access control: the ACL tables of SQLite                        *)
(* (internal/store/access_runtime.go), the copy of them the router decides *)
(* with (AccessController), and the admin commands that change the tables, *)
(* write the audit log and reload the copy (AccessManager, AdminHandler).  *)
(* Commands of different rooms run in different goroutines and nothing     *)
(* orders them.                                                            *)
(*                                                                         *)
(* A step is one SQL statement or one critical section of the controller.  *)
(* An entry is a row of one of the four tables; aliases are left out, but  *)
(* for the registration of a room under a new one.                         *)
(***************************************************************************)
EXTENDS Naturals

CONSTANTS
  Rooms, Users, Intents,
  BootRoom, BootUser,  \* bootstrap_admin_room_chat_id, bootstrap_admin_user_id
  SuperUsers,          \* bootstrap_super_admin_users
  Config,              \* rows the access section of the configuration asks for
  Stored,              \* contents the database may be found with
  Commands,            \* goroutines that run admin commands
  Boot,                \* the startup
  MaxIssued,           \* bound: commands given
  MaxRestarts          \* bound: restarts of the process

Room(r) == <<"room", r>>
Grant(r, i) == <<"grant", r, i>>
AdminRoom(r) == <<"adminRoom", r>>
AdminUser(u) == <<"adminUser", u>>

RoomRows == {Room(r) : r \in Rooms}
GrantRows == {Grant(r, i) : r \in Rooms, i \in Intents}
AdminRows == {AdminRoom(r) : r \in Rooms} \cup {AdminUser(u) : u \in Users}
Entries == RoomRows \cup GrantRows \cup AdminRows
Changes == {"add", "remove"} \X Entries
Principals == {AdminRoom(BootRoom), AdminUser(BootUser)}

(* The foreign key of acl_room_intents.                                     *)
GrantsHaveRoom(S) == \A e \in S : e[1] = "grant" => Room(e[2]) \in S

ASSUME AccessAssumption ==
  /\ BootRoom \in Rooms /\ BootUser \in Users
  /\ Config \subseteq RoomRows \cup GrantRows /\ GrantsHaveRoom(Config)
  /\ \A S \in Stored : S \subseteq Entries /\ GrantsHaveRoom(S)
  /\ Boot \notin Commands
  /\ MaxIssued \in Nat /\ MaxRestarts \in Nat

Actors == Commands \cup {Boot}

VARIABLES
  db,        \* the rows of the ACL tables
  mem,       \* the snapshot the AccessController decides with
  at,        \* where an actor is
  todo,      \* todo[a]: changes a still has to make
  doing,     \* doing[a]: the change a has made and not yet reloaded
  read,      \* read[a]: what a's Snapshot has read so far
  issued,    \* commands given
  restarts,
  touched,   \* history: rows changed since a began its Snapshot
  unlogged   \* history: changes whose audit entry will never be written

taskVars == <<at, todo, doing, read, touched>>
vars == <<db, mem, taskVars, issued, restarts, unlogged>>

Tables == {"room", "grant", "adminRoom", "adminUser"}
Then == [room |-> "grant", grant |-> "adminRoom", adminRoom |-> "adminUser", adminUser |-> "apply"]
NoChange == <<"none", Room(BootRoom)>>
Reading(a) == at[a] \in Tables \cup {"apply"}

Init ==
  /\ db \in Stored
  /\ mem = Config
  /\ at = [a \in Actors |-> IF a = Boot THEN "seed" ELSE "idle"]
  /\ todo = [a \in Actors |-> {}]
  /\ doing = [a \in Actors |-> NoChange]
  /\ read = [a \in Actors |-> {}]
  /\ issued = 0 /\ restarts = 0
  /\ touched = [a \in Actors |-> {}]
  /\ unlogged = {}

------------------------------------------------------------------------------
(* The commands of AdminHandler, decided on the copy in memory.             *)

IsBootstrapSuperAdmin(r, u) == u \in SuperUsers \/ (r = BootRoom /\ u = BootUser)
IsRuntimeAdmin(r, u) == {AdminRoom(r), AdminUser(u)} \subseteq mem

ListedRooms == {r \in Rooms : Room(r) \in mem}
Toggle(e) == IF e \in mem THEN <<"remove", e>> ELSE <<"add", e>>

(* What a command given in room r asks for: register r; of any listed room, *)
(* r or one named by its alias: unregister it, toggle an intent, all on,    *)
(* all off.                                                                 *)
RoomRequests(r) ==
  {{<<"add", Room(r)>>}}
    \cup UNION {{{<<"remove", Room(t)>>},
                 {<<"add", Grant(t, i)>> : i \in Intents},
                 {<<"remove", e>> : e \in {Grant(t, i) : i \in Intents} \cap mem}}
                  \cup {{Toggle(Grant(t, i))} : i \in Intents} : t \in ListedRooms}

PrincipalRequests == {{Toggle(e)} : e \in AdminRows}

Issue(c) ==
  /\ at[Boot] = "up" /\ at[c] = "idle" /\ issued < MaxIssued
  /\ \E r \in Rooms, u \in Users :
       /\ IsRuntimeAdmin(r, u) \/ IsBootstrapSuperAdmin(r, u)
       /\ \E request \in RoomRequests(r)
                           \cup IF IsBootstrapSuperAdmin(r, u) THEN PrincipalRequests ELSE {} :
            /\ request # {}
            /\ todo' = [todo EXCEPT ![c] = request]
  /\ at' = [at EXCEPT ![c] = "mutate"]
  /\ issued' = issued + 1
  /\ UNCHANGED <<db, mem, doing, read, restarts, touched, unlogged>>

------------------------------------------------------------------------------
(* One change: the store's upsert or delete.                                *)

(* Deleting a room takes its grants with it.                                *)
Affected(ch) ==
  LET e == ch[2] IN
  IF ch[1] = "add" THEN {e} \ db
  ELSE {x \in db : x = e \/ (e[1] = "room" /\ x[1] = "grant" /\ x[2] = e[2])}

After(ch) == IF ch[1] = "add" THEN db \cup {ch[2]} ELSE db \ Affected(ch)

(* RowsAffected > 0: registering a listed room updates its row.             *)
Reports(ch) == Affected(ch) # {} \/ (ch[1] = "add" /\ ch[2][1] = "room")

(* The startup ensures the admin room before the admin user.                *)
NextChange(a, ch) ==
  /\ at[a] = "mutate" /\ ch \in todo[a]
  /\ a = Boot /\ ch[2] # AdminRoom(BootRoom) => todo[a] = {ch}

Mutate(a, ch) ==
  /\ NextChange(a, ch) /\ Reports(ch)
  /\ ch[1] = "add" /\ ch[2][1] = "grant" => Room(ch[2][2]) \in db
  /\ db' = After(ch)
  /\ touched' = [b \in Actors |-> IF Reading(b) THEN touched[b] \cup Affected(ch) ELSE {}]
  /\ todo' = [todo EXCEPT ![a] = @ \ {ch}]
  /\ doing' = [doing EXCEPT ![a] = ch]
  /\ at' = [at EXCEPT ![a] = "audit"]
  /\ UNCHANGED <<mem, read, issued, restarts, unlogged>>

(* changed = false: no audit entry, no reload.                              *)
MutateNothing(a, ch) ==
  /\ NextChange(a, ch) /\ ~Reports(ch)
  /\ todo' = [todo EXCEPT ![a] = @ \ {ch}]
  /\ at' = [at EXCEPT ![a] = IF todo[a] # {ch} THEN "mutate" ELSE IF a = Boot THEN "room" ELSE "idle"]
  /\ UNCHANGED <<db, mem, doing, read, issued, restarts, touched, unlogged>>

(* AppendAudit; the startup ensures all its principals before it reloads.   *)
Audit(a) ==
  /\ at[a] = "audit"
  /\ at' = [at EXCEPT ![a] = IF a = Boot /\ todo[a] # {} THEN "mutate" ELSE "room"]
  /\ UNCHANGED <<db, mem, todo, doing, read, issued, restarts, touched, unlogged>>

------------------------------------------------------------------------------
(* Reload.                                                                  *)

(* One of the four queries of SQLiteACLStore.Snapshot.  listRooms skips the *)
(* intents of a room its first query did not see.                           *)
Query(a) ==
  /\ at[a] \in Tables
  /\ read' = [read EXCEPT ![a] = @ \cup {e \in db : e[1] = at[a] /\ (e[1] = "grant" => Room(e[2]) \in read[a])}]
  /\ at' = [at EXCEPT ![a] = Then[at[a]]]
  /\ UNCHANGED <<db, mem, todo, doing, issued, restarts, touched, unlogged>>

MutApply(a) ==  \* Defect: the reload adds rows and takes none away
  /\ at[a] = "apply"
  /\ mem' = mem \cup read[a]
  /\ at' = [at EXCEPT ![a] = IF a = Boot THEN "up" ELSE IF todo[a] = {} THEN "idle" ELSE "mutate"]
  /\ read' = [read EXCEPT ![a] = {}]
  /\ touched' = [touched EXCEPT ![a] = {}]
  /\ doing' = [doing EXCEPT ![a] = NoChange]
  /\ UNCHANGED <<db, todo, issued, restarts, unlogged>>

(* LoadRuntimeSnapshot; then the next change of the command, or its reply.  *)
Apply(a) ==
  /\ at[a] = "apply"
  /\ mem' = read[a]
  /\ at' = [at EXCEPT ![a] = IF a = Boot THEN "up" ELSE IF todo[a] = {} THEN "idle" ELSE "mutate"]
  /\ read' = [read EXCEPT ![a] = {}]
  /\ touched' = [touched EXCEPT ![a] = {}]
  /\ doing' = [doing EXCEPT ![a] = NoChange]
  /\ UNCHANGED <<db, todo, issued, restarts, unlogged>>

(* A statement of a command fails: the command ends with an error.          *)
Fail(c) ==
  /\ at[c] \in {"mutate", "audit"} \cup Tables
  /\ unlogged' = IF at[c] = "audit" THEN unlogged \cup {doing[c]} ELSE unlogged
  /\ at' = [at EXCEPT ![c] = "idle"]
  /\ todo' = [todo EXCEPT ![c] = {}]
  /\ doing' = [doing EXCEPT ![c] = NoChange]
  /\ read' = [read EXCEPT ![c] = {}]
  /\ touched' = [touched EXCEPT ![c] = {}]
  /\ UNCHANGED <<db, mem, issued, restarts>>

------------------------------------------------------------------------------
(* Startup.                                                                 *)

MutSeed ==  \* Defect: the principals are only ensured in an empty database
  /\ at[Boot] = "seed"
  /\ db' = IF db = {} THEN Config \cup Principals ELSE db
  /\ todo' = [todo EXCEPT ![Boot] = {}]
  /\ at' = [at EXCEPT ![Boot] = "room"]
  /\ UNCHANGED <<mem, doing, read, issued, restarts, touched, unlogged>>

(* SeedBootstrap fills empty tables in one transaction.                     *)
Seed ==
  /\ at[Boot] = "seed"
  /\ db' = IF db = {} THEN Config \cup Principals ELSE db
  /\ todo' = [todo EXCEPT ![Boot] = {"add"} \X Principals]
  /\ at' = [at EXCEPT ![Boot] = "mutate"]
  /\ UNCHANGED <<mem, doing, read, issued, restarts, touched, unlogged>>

(* The process is killed, or its startup fails, and is started again.       *)
Restart ==
  /\ restarts < MaxRestarts
  /\ restarts' = restarts + 1
  /\ unlogged' = unlogged \cup {doing[a] : a \in {b \in Actors : at[b] = "audit"}}
  /\ mem' = Config
  /\ at' = [a \in Actors |-> IF a = Boot THEN "seed" ELSE "idle"]
  /\ todo' = [a \in Actors |-> {}]
  /\ doing' = [a \in Actors |-> NoChange]
  /\ read' = [a \in Actors |-> {}]
  /\ touched' = [a \in Actors |-> {}]
  /\ UNCHANGED <<db, issued>>

(* No command is left to give: the bound, not the system.                   *)
Rest ==
  /\ issued = MaxIssued /\ at[Boot] = "up"
  /\ \A c \in Commands : at[c] = "idle"
  /\ UNCHANGED vars

Step(a) ==
  \/ \E ch \in Changes : Mutate(a, ch) \/ MutateNothing(a, ch)
  \/ Audit(a) \/ Query(a) \/ Apply(a)

Next ==
  \/ \E a \in Actors : Step(a)
  \/ \E c \in Commands : Issue(c) \/ Fail(c)
  \/ Seed \/ Restart \/ Rest

Spec == Init /\ [][Next]_vars
------------------------------------------------------------------------------
Places == {"seed", "up", "idle", "mutate", "audit", "apply"} \cup Tables

(* The types, and the foreign key.                                          *)
TypeOK ==
  /\ db \subseteq Entries /\ GrantsHaveRoom(db)
  /\ mem \subseteq Entries
  /\ at \in [Actors -> Places]
  /\ todo \in [Actors -> SUBSET Changes]
  /\ doing \in [Actors -> Changes \cup {NoChange}]
  /\ \A a \in Actors : at[a] = "audit" => doing[a] # NoChange
  /\ read \in [Actors -> SUBSET Entries]
  /\ touched \in [Actors -> SUBSET Entries]
  /\ unlogged \subseteq Changes
  /\ issued \in 0 .. MaxIssued
  /\ restarts \in 0 .. MaxRestarts

(* What a reload brings into memory is right about every row that nobody    *)
(* changed while it read: the command's own change has its effect when the  *)
(* command is answered, and whatever an earlier failure left apart, memory  *)
(* and tables, agrees again.                                                *)
ReloadIsCurrent ==
  [][\A a \in Actors :
       at[a] = "apply" /\ restarts' = restarts /\ at'[a] # "apply" =>
         \A e \in Entries \ touched[a] : e \in mem' <=> e \in db]_vars

(* After any startup the bootstrap principals are admins again (README,     *)
(* access control notes), whatever commands did to the tables before and    *)
(* wherever an earlier startup was interrupted.                             *)
BootstrapRestored == [][at[Boot] = "apply" /\ at'[Boot] = "up" => Principals \subseteq mem']_vars

(* Every ACL write command is recorded in the runtime store and in the      *)
(* audit log (README, access control notes).                                *)
EveryWriteAudited == unlogged = {}

(* What the proofs need beside the types.  A snapshot in the making holds   *)
(* rows of the tables it has queried, and of those exactly the ones in the  *)
(* table, up to the rows touched meanwhile.                                 *)
Queried == [room |-> {}, grant |-> {"room"}, adminRoom |-> {"room", "grant"},
            adminUser |-> {"room", "grant", "adminRoom"}, apply |-> Tables]

SnapshotOK ==
  /\ GrantsHaveRoom(mem)
  /\ \A a \in Actors :
       /\ GrantsHaveRoom(read[a])
       /\ ~Reading(a) => read[a] = {} /\ touched[a] = {}
       /\ Reading(a) =>
            /\ \A e \in read[a] : e[1] \in Queried[at[a]]
            /\ \A e \in Entries \ touched[a] :
                 e[1] \in Queried[at[a]] => (e \in read[a] <=> e \in db)
       /\ at[a] = "grant" =>
            \A e \in db \ touched[a] : e[1] = "grant" => Room(e[2]) \in read[a]

(* Until the bot is up the startup is alone with the tables, and a          *)
(* principal is in them or about to be added.                               *)
StartupOK ==
  /\ at[Boot] # "idle"
  /\ \A c \in Commands : at[c] \notin {"seed", "up"}
  /\ at[Boot] # "up" => /\ \A c \in Commands : at[c] = "idle"
                        /\ touched[Boot] = {}
  /\ at[Boot] = "up" => todo[Boot] = {}
  /\ at[Boot] \notin {"seed", "up"} =>
       /\ todo[Boot] \subseteq {"add"} \X Principals
       /\ \A p \in Principals : p \in db \/ <<"add", p>> \in todo[Boot]
       /\ at[Boot] = "mutate" => todo[Boot] # {}
  /\ Reading(Boot) => todo[Boot] = {}

(* The inductive invariant behind ReloadIsCurrent and BootstrapRestored.    *)
IInv == TypeOK /\ SnapshotOK /\ StartupOK
==============================================================================
