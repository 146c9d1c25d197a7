---------------------------- MODULE Verification ----------------------------
(***************************************************************************)
(* The verification of delegations: what the world's resolvers say of each *)
(* zone is compared with its own NS records, and the outcome is kept in    *)
(* one row per zone.  A timer verifies all zones, admins verify all zones  *)
(* and prune the rows of others, users verify their own or a single one,   *)
(* and the deletion of a zone deletes its row.                             *)
(*                                                                         *)
(* All of them are sessions of PostgreSQL at READ COMMITTED: each sees     *)
(* what others have committed and its own writes, and keeps the rows it    *)
(* has written locked until it ends.  Zones are numbered in the order in   *)
(* which PowerDNS lists them.                                              *)
(***************************************************************************)
EXTENDS Integers

CONSTANTS
  N,           \* the number of zones that may exist
  Requests,    \* the threads that handle requests
  Timer,       \* the periodic task
  Names,       \* the names of name servers
  Delegations, \* what zones may have and resolvers may say
  MaxFaults,   \* bound on sessions that fail of themselves
  NoRow, Untouched

Zones == 1..N
Sessions == Requests \cup {Timer}

ASSUME VerificationAssumption ==
  /\ N \in Nat /\ MaxFaults \in Nat
  /\ Timer \notin Requests
  /\ Delegations \subseteq [configured : SUBSET Names, resolved : SUBSET Names, error : BOOLEAN]
  /\ NoRow \notin {"ok", "partial", "mismatch", "error"}
  /\ Untouched \notin {"ok", "partial", "mismatch", "error", NoRow}

VARIABLES
  exists, \* PowerDNS: its zones
  world,  \* world[z]: the NS records of z, and what resolvers say of it
  row,    \* zone_checks, as committed: row[z] is a status
  op,     \* op[s]: what session s is for
  pc,     \* pc[s]: its next step
  names,  \* names[s]: the zones it is about
  todo,   \* todo[s]: of these, the ones to check, or then to store
  result, \* result[s][z]: what it has found out about z
  at,     \* at[s]: the zone whose row it is about to write
  had,    \* had[s]: whether it has found a row of that zone
  doomed, \* doomed[s]: the rows it has read and is going to delete
  work,   \* work[s][z]: what it has made of the row of z, not committed
  faults  \* history: the number of faults

worldVars == <<exists, world>>
vars == <<worldVars, row, op, pc, names, todo, result, at, had, doomed, work, faults>>

(* of a zone that does not exist nobody has anything to say *)
Nobody == [configured |-> {}, resolved |-> {}, error |-> TRUE]

Statuses == {"ok", "partial", "mismatch", "error"}
Blank == [z \in Zones |-> Untouched]

Init ==
  /\ exists = {} /\ world = [z \in Zones |-> Nobody]
  /\ row = [z \in Zones |-> NoRow]
  /\ op = [s \in Sessions |-> "none"] /\ pc = [s \in Sessions |-> "idle"]
  /\ names = [s \in Sessions |-> {}] /\ todo = names /\ doomed = names
  /\ result = [s \in Sessions |-> Blank] /\ work = result
  /\ at = [s \in Sessions |-> 0] /\ had = [s \in Sessions |-> "none"]
  /\ faults = 0

Goto(s, l) == pc' = [pc EXCEPT ![s] = l]

(* the session is over *)
Forget(s) ==
  /\ Goto(s, "idle") /\ op' = [op EXCEPT ![s] = "none"]
  /\ names' = [names EXCEPT ![s] = {}] /\ todo' = [todo EXCEPT ![s] = {}]
  /\ result' = [result EXCEPT ![s] = Blank] /\ work' = [work EXCEPT ![s] = Blank]
  /\ at' = [at EXCEPT ![s] = 0]

-----------------------------------------------------------------------------
Begin(s, o, zs, l) ==
  /\ pc[s] = "idle"
  /\ op' = [op EXCEPT ![s] = o] /\ Goto(s, l)
  /\ names' = [names EXCEPT ![s] = zs] /\ todo' = [todo EXCEPT ![s] = zs]
  /\ UNCHANGED <<worldVars, row, result, at, had, doomed, work, faults>>

Start(s) ==
  \/ s = Timer /\ exists # {} /\ Begin(s, "sweep", exists, "check")
  \/ s # Timer /\ Begin(s, "all", exists, IF exists = {} THEN "prune" ELSE "check")
  \/ s # Timer /\ \E zs \in (SUBSET exists) \ {{}} : Begin(s, "mine", zs, "check")
  \/ s # Timer /\ \E z \in exists : Begin(s, "delete", {z}, "drop")

(* classify *)
Classify(d) ==
  IF d.error THEN "error"
  ELSE IF d.configured \cap d.resolved = {} THEN "mismatch"
  ELSE IF d.configured = d.resolved THEN "ok" ELSE "partial"

(* check_zone; the zones are checked side by side *)
Check(s) ==
  /\ pc[s] = "check"
  /\ \E z \in todo[s] :
       /\ result' = [result EXCEPT ![s][z] = Classify(world[z])]
       /\ IF todo[s] = {z}
          THEN todo' = [todo EXCEPT ![s] = names[s]] /\ Goto(s, "select")
          ELSE todo' = [todo EXCEPT ![s] = @ \ {z}] /\ UNCHANGED pc
  /\ UNCHANGED <<worldVars, row, op, names, at, had, doomed, work, faults>>

AnyOrder(s, z) == z \in todo[s]  \* a mutant: as the answers come in

(* zones in the order of the listing, or a user's zones in any order *)
IsNext(s, z) == z \in todo[s] /\ (op[s] = "mine" \/ \A y \in todo[s] : z <= y)

Found(z) == IF row[z] = NoRow THEN "none" ELSE "row"

Select(s) ==
  /\ pc[s] = "select"
  /\ \E z \in todo[s] :
       /\ IsNext(s, z)
       /\ at' = [at EXCEPT ![s] = z] /\ had' = [had EXCEPT ![s] = Found(z)]
       /\ todo' = [todo EXCEPT ![s] = @ \ {z}]
  /\ Goto(s, "flush")
  /\ UNCHANGED <<worldVars, row, op, names, result, doomed, work, faults>>

Held(s) == {z \in Zones : work[s][z] # Untouched}

(* s waits until q ends *)
WaitsFor(s, q) == s # q /\ pc[s] \in {"flush", "erase"} /\ at[s] \in Held(q)
Free(s) == \A q \in Sessions : ~WaitsFor(s, q)

(* The row that was not there is there now, or the other way round. *)
Clash(s) == had[s] = "gone" \/ (had[s] = "none" /\ row[at[s]] # NoRow)

OnlyNew(s) == IF had[s] = "none" THEN result[s][at[s]] ELSE row[at[s]]  \* a mutant

Outcome(s) == result[s][at[s]]

AlwaysMore(s) == "select"  \* a mutant: the last zone is not noticed

AfterFlush(s) ==
  IF todo[s] # {} THEN "select" ELSE IF op[s] = "all" THEN "prune" ELSE "commit"

Flush(s) ==
  /\ pc[s] = "flush" /\ Free(s) /\ ~Clash(s)
  /\ work' = [work EXCEPT ![s][at[s]] = Outcome(s)]
  /\ result' = [result EXCEPT ![s][at[s]] = Untouched]
  /\ at' = [at EXCEPT ![s] = 0] /\ had' = [had EXCEPT ![s] = "none"]
  /\ Goto(s, AfterFlush(s))
  /\ UNCHANGED <<worldVars, row, op, names, todo, doomed, faults>>

(* the rows of zones that are not on the list; the rows of the deleted zone *)
Surplus(s) ==
  {z \in Zones : row[z] # NoRow /\ (z \in names[s] <=> op[s] = "delete")}

Prune(s) ==
  /\ pc[s] = "prune"
  /\ doomed' = [doomed EXCEPT ![s] = Surplus(s)]
  /\ IF Surplus(s) = {}
     THEN Goto(s, "commit") /\ UNCHANGED at
     ELSE Goto(s, "erase") /\ \E z \in Surplus(s) : at' = [at EXCEPT ![s] = z]
  /\ UNCHANGED <<worldVars, row, op, names, todo, result, had, work, faults>>

(* a row that has gone meanwhile needs no deleting *)
Erase(s) ==
  /\ pc[s] = "erase" /\ Free(s)
  /\ work' = IF at[s] \in doomed[s] THEN [work EXCEPT ![s][at[s]] = NoRow] ELSE work
  /\ doomed' = [doomed EXCEPT ![s] = @ \ {at[s]}]
  /\ IF doomed[s] \ {at[s]} = {}
     THEN Goto(s, "commit") /\ at' = [at EXCEPT ![s] = 0]
     ELSE UNCHANGED pc /\ \E z \in doomed[s] \ {at[s]} : at' = [at EXCEPT ![s] = z]
  /\ UNCHANGED <<worldVars, row, op, names, todo, result, had, faults>>

(* zone_delete *)
Drop(s) ==
  /\ pc[s] = "drop"
  /\ exists' = exists \ names[s] /\ Goto(s, "prune")
  /\ world' = [z \in Zones |-> IF z \in names[s] THEN Nobody ELSE world[z]]
  /\ UNCHANGED <<row, op, names, todo, result, at, had, doomed, work, faults>>

Commit(s) ==
  LET new   == [z \in Zones |-> IF z \in Held(s) THEN work[s][z] ELSE row[z]]
      gone  == {z \in Zones : row[z] # NoRow /\ new[z] = NoRow}
  IN
  /\ pc[s] = "commit"
  /\ row' = new
  /\ had' = [q \in Sessions |->
               IF q = s THEN "none"
               ELSE IF had[q] = "row" /\ at[q] \in gone THEN "gone" ELSE had[q]]
  /\ doomed' = [q \in Sessions |-> IF q = s THEN {} ELSE doomed[q] \ gone]
  /\ Forget(s)
  /\ UNCHANGED <<worldVars, faults>>

Rollback(s) ==
  /\ Forget(s)
  /\ had' = [had EXCEPT ![s] = "none"]
  /\ doomed' = [doomed EXCEPT ![s] = {}]
  /\ UNCHANGED <<worldVars, row>>

(* a unique row is there already, or the row to update is not *)
Refused(s) ==
  /\ pc[s] = "flush" /\ Free(s) /\ Clash(s)
  /\ Rollback(s) /\ UNCHANGED faults

(* sessions that wait for each other in a circle; PostgreSQL picks one *)
Circle(S) ==
  /\ \A s \in S : \E q \in S : WaitsFor(s, q)
  /\ \A q \in S : \E s \in S : WaitsFor(s, q)

Deadlock(s) ==
  /\ \E S \in SUBSET Sessions : s \in S /\ Circle(S)
  /\ Rollback(s) /\ UNCHANGED faults

(* something else fails, or the process ends *)
Abort(s) ==
  /\ pc[s] # "idle" /\ faults < MaxFaults
  /\ faults' = faults + 1
  /\ Rollback(s)

-----------------------------------------------------------------------------
Create ==
  /\ \E z \in Zones \ exists, d \in Delegations :
       exists' = exists \cup {z} /\ world' = [world EXCEPT ![z] = d]
  /\ UNCHANGED <<row, op, pc, names, todo, result, at, had, doomed, work, faults>>

(* the owner changes NS records, or the registrar does, or resolvers fail *)
Redelegate ==
  /\ \E z \in exists, d \in Delegations : world' = [world EXCEPT ![z] = d]
  /\ UNCHANGED <<exists, row, op, pc, names, todo, result, at, had, doomed, work, faults>>

Step(s) ==
  \/ Check(s) \/ Select(s) \/ Flush(s) \/ Prune(s) \/ Erase(s) \/ Drop(s) \/ Commit(s)
  \/ Refused(s) \/ Deadlock(s)

Next ==
  \/ \E s \in Sessions : Start(s) \/ Step(s) \/ Abort(s)
  \/ Create \/ Redelegate

Spec == Init /\ [][Next]_vars

(* periodic_verify starts over and over, and a session that has begun goes on *)
FairSpec ==
  Spec /\ WF_vars(Start(Timer)) /\ \A s \in Sessions : WF_vars(Step(s))

-----------------------------------------------------------------------------
(* Types; in particular a session stores no result it has not got. *)
TypeOK ==
  /\ exists \subseteq Zones /\ world \in [Zones -> Delegations \cup {Nobody}]
  /\ row \in [Zones -> Statuses \cup {NoRow}]
  /\ op \in [Sessions -> {"none", "sweep", "all", "mine", "delete"}]
  /\ pc \in [Sessions -> {"idle", "check", "select", "flush", "prune", "erase", "drop", "commit"}]
  /\ names \in [Sessions -> SUBSET Zones] /\ todo \in [Sessions -> SUBSET Zones]
  /\ result \in [Sessions -> [Zones -> Statuses \cup {Untouched}]]
  /\ at \in [Sessions -> 0..N] /\ had \in [Sessions -> {"none", "row", "gone"}]
  /\ doomed \in [Sessions -> SUBSET Zones]
  /\ work \in [Sessions -> [Zones -> Statuses \cup {NoRow, Untouched}]]
  /\ faults \in Nat
  /\ \A s \in Sessions :
       /\ todo[s] \subseteq names[s]
       /\ pc[s] \in {"check", "select"} => todo[s] # {}
       /\ pc[s] = "check" => \A z \in names[s] \ todo[s] : result[s][z] # Untouched
       /\ pc[s] \in {"select", "flush"} => \A z \in todo[s] : result[s][z] # Untouched
       /\ pc[s] = "flush" => at[s] \in names[s] \ todo[s] /\ result[s][at[s]] # Untouched
       /\ pc[s] = "erase" => at[s] \in Zones

(* Sessions wait in a circle, and one of them loses all its results, only when
   one of them does not keep to the order of the listing: a user's verification
   of his zones, or the prune at the end of an admin's. *)
Disorderly(s) == op[s] = "mine" \/ (op[s] = "all" /\ pc[s] = "erase")

CirclesNeedDisorder ==
  \A S \in SUBSET Sessions : S # {} /\ Circle(S) => \E s \in S : Disorderly(s)

(* When zones, delegations and requests come to rest, every zone has its row
   in the end, with what resolvers say of it, whatever older results have been
   stored over newer ones, lost in a rollback, or pruned by an old list. *)
AtRest ==
  <>[][UNCHANGED worldVars]_vars /\ <>[](\A r \in Requests : pc[r] = "idle")

StatusesSettle ==
  AtRest => <>[](\A z \in exists : row[z] = Classify(world[z]))

=============================================================================
