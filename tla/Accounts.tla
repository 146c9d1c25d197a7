------------------------------ MODULE Accounts ------------------------------
(***************************************************************************)
(* The accounts of the panel and who may manage which zone: the admin's    *)
(* user pages (routers/users.py), login and password change                *)
(* (routers/auth.py, routers/account.py) and the access page of a zone     *)
(* (routers/zones.py), with the guards of deps.py.                         *)
(*                                                                         *)
(* A request runs in one database session.  It loads rows, decides on      *)
(* them, and writes when its session is flushed and committed; PostgreSQL  *)
(* isolates it no further than READ COMMITTED, so the rows may have moved  *)
(* in between.  SQLAlchemy then writes                                     *)
(*   - of a changed row, only the columns that differ from what was loaded *)
(*     and the row must still be there (StaleDataError);                   *)
(*   - of a deleted row, DELETE by key, which a missing row does not stop. *)
(* Each request that changes something also logs it under its user's id,   *)
(* a foreign key: it fails when that user is gone.                         *)
(*                                                                         *)
(* Ids are never used twice.  A user stands for an id and its login.       *)
(* The rows of a zone's creation and deletion are in ZoneAdmin.            *)
(***************************************************************************)
EXTENDS Naturals

CONSTANTS
  Users, Zones,
  First,        \* the admin that bootstrap creates
  Requests,     \* the threads that serve requests
  MaxRequests   \* bound on the number of requests

ASSUME AccountsAssumption ==
  /\ First \in Users
  /\ Users \cap Zones = {}
  /\ MaxRequests \in Nat

VARIABLES
  account,  \* account[u]: the row of u in app_users
  access,   \* access[z][u]: the row of zone_access
  pc,       \* pc[r]: what r does next
  job,      \* job[r]: what r was asked for
  seen,     \* seen[r]: the rows r has loaded
  raced,    \* history: accounts and zones two requests have overlapped on
  asked     \* history: the number of requests

vars == <<account, access, pc, job, seen, raced, asked>>

Grant == {"none", "editor", "owner"}

(* app_users: pwd is the password as it was hashed when it was set: by the
   migration with the old scheme, by a login that upgraded that hash, by an
   admin, by its user. *)
Row == [is : {"unborn", "live", "deleted"}, admin : BOOLEAN, enabled : BOOLEAN,
        must : BOOLEAN, pwd : {"legacy", "migrated", "temp", "own"}]

Unborn == [is |-> "unborn", admin |-> FALSE, enabled |-> FALSE,
           must |-> FALSE, pwd |-> "own"]

(* an account of bootstrap, or of the script that migrates old users *)
Settled(admin, pwd) ==
  [is |-> "live", admin |-> admin, enabled |-> TRUE, must |-> FALSE, pwd |-> pwd]

Job ==
  [op : {"create"}, by : Users, user : Users, admin : BOOLEAN, enabled : BOOLEAN]
    \cup [op : {"update"}, by : Users, user : Users, admin : BOOLEAN, enabled : BOOLEAN, reset : BOOLEAN]
    \cup [op : {"delete", "login", "password"}, by : Users, user : Users]
    \cup [op : {"owner", "toggle"}, by : Users, user : Users, zone : Zones]

AdminOps == {"create", "update", "delete", "owner"}
ZoneOps == {"owner", "toggle"}
RowOps == {"update", "login", "password"}

Target(j) == IF j.op \in ZoneOps THEN j.zone ELSE j.user

Live(u) == account[u].is = "live"
Owners(g) == {u \in Users : g[u] = "owner"}
AtMostOne(S) == \A u, v \in S : u = v
NoGrants == [u \in Users |-> "none"]

NoJob == [op |-> "none"]
NothingSeen == [me |-> Unborn, user |-> Unborn, grants |-> NoGrants]

Init ==
  /\ account \in [Users -> {Unborn} \cup {Settled(a, "legacy") : a \in BOOLEAN}
                             \cup {Settled(TRUE, "own")}]
  /\ \A u \in Users : account[u].pwd = "own" /\ Live(u) <=> u = First
  /\ access \in [Zones -> [Users -> Grant]]
  /\ \A z \in Zones : /\ AtMostOne(Owners(access[z]))
                      /\ \A u \in Users : access[z][u] # "none" => Live(u)
  /\ pc = [r \in Requests |-> "idle"]
  /\ job = [r \in Requests |-> NoJob]
  /\ seen = [r \in Requests |-> NothingSeen]
  /\ raced = {} /\ asked = 0

Goto(r, l) == pc' = [pc EXCEPT ![r] = l]

(* the session is closed *)
Finish(r) ==
  /\ Goto(r, "idle")
  /\ job' = [job EXCEPT ![r] = NoJob]
  /\ seen' = [seen EXCEPT ![r] = NothingSeen]

(* A password past its maximal age refuses more requests; a request that is
   refused is no step. *)
NeedsPasswordChange(a) == a.must

(* current_user and require_admin; login checks the same of the account *)
Admitted(j) ==
  LET a == account[j.by] IN
  /\ a.is = "live" /\ a.enabled
  /\ j.op \in AdminOps => a.admin
  /\ NeedsPasswordChange(a) => j.op \in {"login", "password"}
  /\ j.op \in {"login", "password"} => j.user = j.by
  /\ j.op = "create" => account[j.user].is = "unborn"

Overlaps(j) == \E r \in Requests : pc[r] # "idle" /\ Target(job[r]) = Target(j)

Start(r) ==
  /\ pc[r] = "idle" /\ asked < MaxRequests
  /\ asked' = asked + 1
  /\ \E j \in Job :
       /\ Admitted(j)
       /\ job' = [job EXCEPT ![r] = j]
       /\ seen' = [seen EXCEPT ![r].me = account[j.by]]
       /\ Goto(r, IF j.op = "toggle" THEN "guard" ELSE "load")
       /\ raced' = IF Overlaps(j) THEN raced \cup {Target(j)} ELSE raced
  /\ UNCHANGED <<account, access>>

(* zone_guard and is_zone_owner: only the owner or an admin goes on *)
MayDelegate(me, grant) == me.admin \/ grant = "owner"

Guard(r) ==
  LET j == job[r] IN
  /\ pc[r] = "guard"
  /\ MayDelegate(seen[r].me, access[j.zone][j.by])
  /\ Goto(r, "load")
  /\ UNCHANGED <<account, access, job, seen, raced, asked>>

MayDeleteAnyone(j) == TRUE  \* a mutant

(* the self-check of user_delete *)
MayDelete(j) == j.user # j.by

(* The row of the target, which the session may hold already, and the rows of
   the zone: what is needed of them further on. *)
Load(r) ==
  LET j == job[r]
      row == IF j.user = j.by THEN seen[r].me ELSE account[j.user] IN
  /\ pc[r] = "load"
  /\ j.op # "create" => row.is = "live"
  /\ j.op = "delete" => MayDelete(j)
  /\ seen' = [seen EXCEPT ![r] =
       [me |-> Unborn,
        user |-> IF j.op \in RowOps THEN row ELSE Unborn,
        grants |-> IF j.op \in ZoneOps THEN access[j.zone] ELSE NoGrants]]
  /\ Goto(r, "write")
  /\ UNCHANGED <<account, access, job, raced, asked>>

(* what the column holds after the flush *)
Written(new, loaded, now) == IF new # loaded THEN new ELSE now

Create(j) ==
  /\ account[j.user].is = "unborn"
  /\ account' = [account EXCEPT ![j.user] =
                   [is |-> "live", admin |-> j.admin, enabled |-> j.enabled,
                    must |-> TRUE, pwd |-> "temp"]]
  /\ UNCHANGED access

UpdatedUnforced(j, loaded, now) ==  \* a mutant: the flag is not set
  [now EXCEPT !.admin = Written(j.admin, loaded.admin, @),
              !.enabled = Written(j.enabled, loaded.enabled, @),
              !.pwd = IF j.reset THEN "temp" ELSE @]

Updated(j, loaded, now) ==
  [now EXCEPT !.admin = Written(j.admin, loaded.admin, @),
              !.enabled = Written(j.enabled, loaded.enabled, @),
              !.must = IF j.reset THEN Written(TRUE, loaded.must, @) ELSE @,
              !.pwd = IF j.reset THEN "temp" ELSE @]

Update(j, loaded) ==
  /\ Live(j.user)
  /\ account' = [account EXCEPT ![j.user] = Updated(j, loaded, @)]
  /\ UNCHANGED access

DeleteAlone(j) ==  \* a mutant: no cascade
  /\ account' = [account EXCEPT ![j.user].is = "deleted"]
  /\ UNCHANGED access

(* the rows of zone_access go with the account: ON DELETE CASCADE *)
Delete(j) ==
  /\ account' = [account EXCEPT ![j.user].is = "deleted"]
  /\ access' = [z \in Zones |-> [access[z] EXCEPT ![j.user] = "none"]]

RehashedAlways(pwd, now) == "migrated"  \* a mutant

(* needs_rehash: what the column pwd holds after a login *)
Rehashed(pwd, now) == IF pwd = "legacy" THEN "migrated" ELSE now

Login(j, loaded) ==
  /\ account' = [account EXCEPT ![j.user].pwd = Rehashed(loaded.pwd, @)]
  /\ UNCHANGED access

Changed(loaded, now) ==
  [now EXCEPT !.must = Written(FALSE, loaded.must, @), !.pwd = "own"]

PasswordChange(j, loaded) ==
  /\ account' = [account EXCEPT ![j.user] = Changed(loaded, @)]
  /\ UNCHANGED access

DemotedNobody(g) == {{}}  \* a mutant

(* The old owner becomes an editor and the new one the owner. The database
   would hold two owners; the code takes the first it is given. *)
Demoted(g) == IF Owners(g) = {} THEN {{}} ELSE {{u} : u \in Owners(g)}

OwnerSet(j, g) ==
  \E old \in Demoted(g) :
    /\ j.user \notin old
    /\ \A u \in old : access[j.zone][u] # "none"
    /\ g[j.user] = "none" => access[j.zone][j.user] = "none" /\ Live(j.user)
    /\ g[j.user] = "editor" => access[j.zone][j.user] # "none"
    /\ access' = [access EXCEPT ![j.zone] =
                    [u \in Users |-> IF u \in old THEN "editor"
                                     ELSE IF u = j.user /\ g[u] # "owner" THEN "owner"
                                     ELSE @[u]]]
    /\ UNCHANGED account

MayToggleAny(grant) == TRUE  \* a mutant

MayToggle(grant) == grant # "owner"

Toggled(grant) == IF grant = "none" THEN "editor" ELSE "none"

Toggle(j, grant) ==
  /\ MayToggle(grant)
  /\ grant = "none" => access[j.zone][j.user] = "none" /\ Live(j.user)
  /\ access' = [access EXCEPT ![j.zone][j.user] = Toggled(grant)]
  /\ UNCHANGED account

(* log_history flushes the session under the user's id; get_db commits it *)
Write(r) ==
  LET j == job[r] IN
  /\ pc[r] = "write"
  /\ Live(j.by)
  /\ \/ j.op = "create" /\ Create(j)
     \/ j.op = "update" /\ Update(j, seen[r].user)
     \/ j.op = "delete" /\ Delete(j)
     \/ j.op = "login" /\ Login(j, seen[r].user)
     \/ j.op = "password" /\ PasswordChange(j, seen[r].user)
     \/ j.op = "owner" /\ OwnerSet(j, seen[r].grants)
     \/ j.op = "toggle" /\ Toggle(j, seen[r].grants[j.user])
  /\ Finish(r)
  /\ UNCHANGED <<raced, asked>>

(* A guard or a constraint ends the request, or the panel stops: the
   transaction is rolled back. *)
Rollback(r) ==
  /\ pc[r] # "idle"
  /\ Finish(r)
  /\ UNCHANGED <<account, access, raced, asked>>

Next ==
  \E r \in Requests : Start(r) \/ Guard(r) \/ Load(r) \/ Write(r) \/ Rollback(r)

Spec == Init /\ [][Next]_vars

-----------------------------------------------------------------------------
Seen == [me : Row, user : Row, grants : [Users -> Grant]]

(* Types; in particular no row of a deleted account is left in a zone's
   access list. *)
TypeOK ==
  /\ account \in [Users -> Row]
  /\ access \in [Zones -> [Users -> Grant]]
  /\ \A z \in Zones, u \in Users : access[z][u] # "none" => Live(u)
  /\ pc \in [Requests -> {"idle", "guard", "load", "write"}]
  /\ job \in [Requests -> Job \cup {NoJob}]
  /\ \A r \in Requests : pc[r] # "idle" => job[r] \in Job
  /\ seen \in [Requests -> Seen]
  /\ raced \subseteq Users \cup Zones
  /\ asked \in Nat

(* Deletions never remove the last account, also when admins delete each other
   at the same time: nobody deletes himself, and the log entry of a deletion
   needs its admin to be there still. *)
NeverEmpty == \E u \in Users : Live(u)

(* A zone has one owner at most, unless two requests about it have overlapped:
   setting the owner demotes the one before (zones.py:844-853). *)
OneOwnerIfApart ==
  \A z \in Zones \ raced : AtMostOne(Owners(access[z]))

(* A zone keeps an owner: only a new owner, or the deletion of his account,
   takes it from him. *)
KeepsOwner(z) ==
  \A u \in Owners(access[z]) :
    Owners(access'[z]) # {} \/ account'[u].is = "deleted"

(* A delegated editor cannot take the owner away, and neither can a switch of
   somebody's access (zones.py:863-864), unless two requests about the zone
   have overlapped. *)
OwnerKeptIfApart == [][\A z \in Zones \ raced : KeepsOwner(z)]_vars

(* A password that an admin has set is temporary: its user is made to change
   it (users.py:99-102), unless two requests about the account have
   overlapped. *)
TemporaryIsForcedIfApart ==
  \A u \in Users \ raced : Live(u) /\ account[u].pwd = "temp" => account[u].must

(* A login that upgrades an old hash never brings an old password back
   (auth.py:53-54), unless two requests about the account have overlapped. *)
NewPasswordStaysIfApart ==
  [][\A u \in Users \ raced :
       account'[u].pwd = "migrated" => account[u].pwd \in {"legacy", "migrated"}]_vars

-----------------------------------------------------------------------------
(* What the properties rest on. Overlapping requests are noted; ... *)
Alone ==
  \A r, q \in Requests :
    /\ pc[r] # "idle" /\ pc[q] # "idle" /\ r # q
    /\ Target(job[r]) = Target(job[q])
    => Target(job[r]) \in raced

(* ... an account that one request alone is about is as it has loaded it; ... *)
RowsFresh ==
  \A r \in Requests :
    LET j == job[r] IN
    j.op \in RowOps /\ j.user \notin raced =>
      /\ pc[r] \in {"guard", "load"} /\ j.user = j.by => seen[r].me = account[j.user]
      /\ pc[r] = "write" => seen[r].user = account[j.user]

(* ... and so is a zone, but for the rows of accounts deleted since. *)
GrantsFresh ==
  \A r \in Requests :
    LET j == job[r]
        g == seen[r].grants IN
    pc[r] = "write" /\ j.op \in ZoneOps /\ j.zone \notin raced =>
      /\ AtMostOne(Owners(g))
      /\ \A u \in Users : access[j.zone][u] # g[u] =>
                            access[j.zone][u] = "none" /\ account[u].is = "deleted"

RaceInv == Alone /\ RowsFresh /\ GrantsFresh

=============================================================================
