--------------------------- MODULE Accounts_proofs ---------------------------
(***************************************************************************)
(* Proofs about the accounts and the access lists: types, that a last      *)
(* account stays whatever overlaps, and that a zone that no two requests   *)
(* have raced for has one owner at most and keeps the one it has.          *)
(***************************************************************************)
EXTENDS Accounts, TLAPS

LEMMA JobFields ==
  ASSUME NEW j \in Job
  PROVE  /\ j.by \in Users /\ j.user \in Users
         /\ j.op \in ZoneOps => j.zone \in Zones
         /\ j.op \in {"create", "update"} => j.admin \in BOOLEAN /\ j.enabled \in BOOLEAN
         /\ j.op = "update" => j.reset \in BOOLEAN
         /\ j.op # "none"
BY DEF Job, ZoneOps

LEMMA Constants ==
  /\ Unborn \in Row /\ NoGrants \in [Users -> Grant] /\ NothingSeen \in Seen
  /\ \A a \in BOOLEAN : Settled(a, "legacy") \in Row /\ Settled(a, "own") \in Row
BY DEF Unborn, Row, NoGrants, Grant, NothingSeen, Seen, Settled

LEMMA FinishType ==
  ASSUME TypeOK, NEW r \in Requests, Finish(r)
  PROVE  /\ pc' \in [Requests -> {"idle", "guard", "load", "write"}]
         /\ job' \in [Requests -> Job \cup {NoJob}]
         /\ \A q \in Requests : pc'[q] # "idle" => job'[q] \in Job
         /\ seen' \in [Requests -> Seen]
BY Constants DEF TypeOK, Finish, Goto

LEMMA UpdatedType ==
  ASSUME NEW j \in Job, j.op = "update", NEW loaded \in Row, NEW now \in Row
  PROVE  /\ Updated(j, loaded, now) \in Row
         /\ Updated(j, loaded, now).is = now.is
BY JobFields DEF Updated, Written, Row

LEMMA ChangedType ==
  ASSUME NEW loaded \in Row, NEW now \in Row
  PROVE  /\ Changed(loaded, now) \in Row
         /\ Changed(loaded, now).is = now.is
BY DEF Changed, Written, Row

(* Accounts change their rows, and only a deletion ends one. *)
LEMMA CreateStep ==
  ASSUME TypeOK, NEW j \in Job, j.op = "create", Create(j)
  PROVE  /\ account' \in [Users -> Row] /\ access' = access
         /\ \A u \in Users : u # j.user => account'[u] = account[u]
         /\ \A u \in Users : Live(u) => Live(u)'
         /\ account'[j.user].must
BY JobFields DEF TypeOK, Create, Live, Row

LEMMA UpdateStep ==
  ASSUME TypeOK, NEW j \in Job, j.op = "update", NEW loaded \in Row, Update(j, loaded)
  PROVE  /\ account' \in [Users -> Row] /\ access' = access
         /\ \A u \in Users : u # j.user => account'[u] = account[u]
         /\ account'[j.user] = Updated(j, loaded, account[j.user])
         /\ \A u \in Users : account'[u].is = account[u].is
<1>1. j.user \in Users /\ account[j.user] \in Row
  BY JobFields DEF TypeOK
<1> QED
  BY <1>1, UpdatedType DEF TypeOK, Update

LEMMA DeleteStep ==
  ASSUME TypeOK, NEW j \in Job, j.op = "delete", Delete(j)
  PROVE  /\ account' \in [Users -> Row] /\ access' \in [Zones -> [Users -> Grant]]
         /\ \A u \in Users : u # j.user => account'[u] = account[u]
         /\ account'[j.user].is = "deleted"
         /\ \A z \in Zones, u \in Users :
              access'[z][u] = IF u = j.user THEN "none" ELSE access[z][u]
<1>1. /\ j.user \in Users
      /\ account \in [Users -> Row] /\ access \in [Zones -> [Users -> Grant]]
  BY JobFields DEF TypeOK
<1>2. /\ account' = [account EXCEPT ![j.user].is = "deleted"]
      /\ access' = [z \in Zones |-> [access[z] EXCEPT ![j.user] = "none"]]
  BY DEF Delete
<1>3. /\ account' \in [Users -> Row]
      /\ \A u \in Users : u # j.user => account'[u] = account[u]
      /\ account'[j.user].is = "deleted"
  <2>1. [account[j.user] EXCEPT !.is = "deleted"] \in Row
    BY <1>1 DEF Row
  <2>2. account' = [account EXCEPT ![j.user] = [account[j.user] EXCEPT !.is = "deleted"]]
    BY <1>2
  <2>3. [account[j.user] EXCEPT !.is = "deleted"].is = "deleted"
    BY <1>1 DEF Row
  <2> QED
    BY <1>1, <2>1, <2>2, <2>3
<1>4. \A z \in Zones, u \in Users :
        access'[z][u] = IF u = j.user THEN "none" ELSE access[z][u]
  BY <1>1, <1>2
<1>5. access' \in [Zones -> [Users -> Grant]]
  BY <1>1, <1>2 DEF Grant
<1> QED
  BY <1>3, <1>4, <1>5

LEMMA LoginStep ==
  ASSUME TypeOK, NEW j \in Job, j.op = "login", NEW loaded \in Row, Login(j, loaded)
  PROVE  /\ account' \in [Users -> Row] /\ access' = access
         /\ \A u \in Users : u # j.user => account'[u] = account[u]
         /\ account'[j.user].must = account[j.user].must
         /\ account'[j.user].pwd = Rehashed(loaded.pwd, account[j.user].pwd)
         /\ \A u \in Users : account'[u].is = account[u].is
BY JobFields DEF TypeOK, Login, Rehashed, Row

LEMMA PasswordStep ==
  ASSUME TypeOK, NEW j \in Job, j.op = "password", NEW loaded \in Row, PasswordChange(j, loaded)
  PROVE  /\ account' \in [Users -> Row] /\ access' = access
         /\ \A u \in Users : u # j.user => account'[u] = account[u]
         /\ account'[j.user].pwd = "own"
         /\ \A u \in Users : account'[u].is = account[u].is
<1>1. j.user \in Users /\ account[j.user] \in Row
  BY JobFields DEF TypeOK
<1>2. Changed(loaded, account[j.user]).pwd = "own"
  BY <1>1 DEF Changed, Row
<1> QED
  BY <1>1, <1>2, ChangedType DEF TypeOK, PasswordChange

(* Access changes the rows of one zone, and gives none to a dead account. *)
LEMMA OwnerStep ==
  ASSUME TypeOK, NEW j \in Job, j.op = "owner", NEW g \in [Users -> Grant],
         NEW old \in Demoted(g),
         j.user \notin old,
         \A u \in old : access[j.zone][u] # "none",
         g[j.user] = "none" => access[j.zone][j.user] = "none" /\ Live(j.user),
         g[j.user] = "editor" => access[j.zone][j.user] # "none",
         access' = [access EXCEPT ![j.zone] =
                      [u \in Users |-> IF u \in old THEN "editor"
                                       ELSE IF u = j.user /\ g[u] # "owner" THEN "owner"
                                       ELSE @[u]]]
  PROVE  /\ access' \in [Zones -> [Users -> Grant]]
         /\ \A z \in Zones : z # j.zone => access'[z] = access[z]
         /\ \A u \in Users : access'[j.zone][u] =
              IF u \in old THEN "editor"
              ELSE IF u = j.user /\ g[u] # "owner" THEN "owner"
              ELSE access[j.zone][u]
         /\ \A u \in Users : access'[j.zone][u] # "none" => Live(u)
<1>1. j.zone \in Zones /\ j.user \in Users
  BY JobFields DEF ZoneOps
<1>2. \A u \in Users : (IF u \in old THEN "editor"
                        ELSE IF u = j.user /\ g[u] # "owner" THEN "owner"
                        ELSE access[j.zone][u]) \in Grant
  BY <1>1 DEF TypeOK, Grant
<1>3. /\ access' \in [Zones -> [Users -> Grant]]
      /\ \A z \in Zones : z # j.zone => access'[z] = access[z]
      /\ \A u \in Users : access'[j.zone][u] =
           IF u \in old THEN "editor"
           ELSE IF u = j.user /\ g[u] # "owner" THEN "owner"
           ELSE access[j.zone][u]
  BY <1>1, <1>2 DEF TypeOK
<1>4. ASSUME NEW u \in Users, access'[j.zone][u] # "none"
      PROVE  Live(u)
  <2>1. CASE u \in old
    BY <1>1, <2>1 DEF TypeOK
  <2>2. CASE u \notin old /\ u = j.user /\ g[u] # "owner"
    BY <1>1, <2>2 DEF TypeOK, Grant
  <2>3. CASE u \notin old /\ ~(u = j.user /\ g[u] # "owner")
    <3>1. access'[j.zone][u] = access[j.zone][u]
      BY <1>3, <2>3
    <3> QED
      BY <1>1, <1>4, <3>1 DEF TypeOK
  <2> QED
    BY <2>1, <2>2, <2>3
<1> QED
  BY <1>3, <1>4

LEMMA ToggleStep ==
  ASSUME TypeOK, NEW j \in Job, j.op = "toggle", NEW grant \in Grant, Toggle(j, grant)
  PROVE  /\ access' \in [Zones -> [Users -> Grant]]
         /\ \A z \in Zones : z # j.zone => access'[z] = access[z]
         /\ \A u \in Users : u # j.user => access'[j.zone][u] = access[j.zone][u]
         /\ access'[j.zone][j.user] \in {"none", "editor"}
         /\ access'[j.zone][j.user] # "none" => Live(j.user)
<1>1. j.zone \in Zones /\ j.user \in Users
  BY JobFields DEF ZoneOps
<1>2. Toggled(grant) \in {"none", "editor"}
  BY DEF Toggled
<1>3. /\ access' = [access EXCEPT ![j.zone][j.user] = Toggled(grant)]
      /\ Toggled(grant) # "none" => Live(j.user)
  BY DEF Toggle, Toggled
<1> QED
  BY <1>1, <1>2, <1>3 DEF TypeOK, Grant

(* What a write does to the accounts and to the rows of the zones. *)
LEMMA WriteType ==
  ASSUME TypeOK, NEW r \in Requests, Write(r)
  PROVE  /\ account' \in [Users -> Row]
         /\ access' \in [Zones -> [Users -> Grant]]
         /\ \A z \in Zones, u \in Users : access'[z][u] # "none" => Live(u)'
<1> DEFINE j == job[r]
<1>1. /\ j \in Job /\ seen[r].user \in Row /\ seen[r].grants \in [Users -> Grant]
      /\ j.user \in Users
  BY JobFields DEF TypeOK, Write, Seen
<1> HIDE DEF j
<1>2. CASE j.op = "create" /\ Create(j)
  BY <1>1, <1>2, CreateStep DEF TypeOK
<1>3. CASE j.op = "update" /\ Update(j, seen[r].user)
  BY <1>1, <1>3, UpdateStep DEF TypeOK, Live
<1>4. CASE j.op = "delete" /\ Delete(j)
  BY <1>1, <1>4, DeleteStep DEF TypeOK, Live
<1>5. CASE j.op = "login" /\ Login(j, seen[r].user)
  BY <1>1, <1>5, LoginStep DEF TypeOK, Live
<1>6. CASE j.op = "password" /\ PasswordChange(j, seen[r].user)
  BY <1>1, <1>6, PasswordStep DEF TypeOK, Live
<1>7. CASE j.op = "owner" /\ OwnerSet(j, seen[r].grants)
  <2>1. account' = account
    BY <1>7 DEF OwnerSet
  <2>2. /\ access' \in [Zones -> [Users -> Grant]]
        /\ \A z \in Zones : z # j.zone => access'[z] = access[z]
        /\ \A u \in Users : access'[j.zone][u] # "none" => Live(u)
    BY <1>1, <1>7, OwnerStep DEF OwnerSet
  <2> QED
    BY <2>1, <2>2 DEF TypeOK, Live
<1>8. CASE j.op = "toggle" /\ Toggle(j, seen[r].grants[j.user])
  <2>1. account' = account
    BY <1>8 DEF Toggle
  <2>2. seen[r].grants[j.user] \in Grant
    BY <1>1
  <2> QED
    BY <1>1, <1>8, <2>1, <2>2, ToggleStep DEF TypeOK, Live
<1> QED
  BY <1>2, <1>3, <1>4, <1>5, <1>6, <1>7, <1>8 DEF Write, j

LEMMA TypeStep == TypeOK /\ [Next]_vars => TypeOK'
<1> SUFFICES ASSUME TypeOK, [Next]_vars
             PROVE  TypeOK'
  OBVIOUS
<1>1. ASSUME NEW r \in Requests, Start(r)
      PROVE  TypeOK'
  <2>1. PICK j \in Job : /\ job' = [job EXCEPT ![r] = j]
                         /\ seen' = [seen EXCEPT ![r].me = account[j.by]]
                         /\ Goto(r, IF j.op = "toggle" THEN "guard" ELSE "load")
                         /\ raced' = IF Overlaps(j) THEN raced \cup {Target(j)} ELSE raced
    BY <1>1 DEF Start
  <2>2. Target(j) \in Users \cup Zones /\ account[j.by] \in Row
    BY JobFields DEF Target, TypeOK
  <2>3. seen' \in [Requests -> Seen]
    BY <2>1, <2>2 DEF TypeOK, Seen
  <2> QED
    BY <1>1, <2>1, <2>2, <2>3 DEF TypeOK, Start, Goto, Live
<1>2. ASSUME NEW r \in Requests, Guard(r)
      PROVE  TypeOK'
  BY <1>2 DEF TypeOK, Guard, Goto, Live
<1>3. ASSUME NEW r \in Requests, Load(r)
      PROVE  TypeOK'
  <2> DEFINE j == job[r]
             row == IF j.user = j.by THEN seen[r].me ELSE account[j.user]
             s == [me |-> Unborn,
                   user |-> IF j.op \in RowOps THEN row ELSE Unborn,
                   grants |-> IF j.op \in ZoneOps THEN access[j.zone] ELSE NoGrants]
  <2>1. j \in Job
    BY <1>3 DEF TypeOK, Load
  <2>2. row \in Row
    BY <2>1, JobFields DEF TypeOK, Seen
  <2>3. s \in Seen
    BY <2>1, <2>2, JobFields, Constants DEF TypeOK, Seen
  <2>4. seen' = [seen EXCEPT ![r] = s]
    BY <1>3 DEF Load
  <2>5. seen' \in [Requests -> Seen]
    BY <2>3, <2>4 DEF TypeOK
  <2> QED
    BY <1>3, <2>5 DEF TypeOK, Load, Goto, Live
<1>4. ASSUME NEW r \in Requests, Write(r)
      PROVE  TypeOK'
  <2>1. Finish(r) /\ UNCHANGED <<raced, asked>>
    BY <1>4 DEF Write
  <2> QED
    BY <1>4, <2>1, FinishType, WriteType DEF TypeOK
<1>5. ASSUME NEW r \in Requests, Rollback(r)
      PROVE  TypeOK'
  <2>1. Finish(r) /\ UNCHANGED <<account, access, raced, asked>>
    BY <1>5 DEF Rollback
  <2> QED
    BY <2>1, FinishType DEF TypeOK, Live
<1>6. CASE UNCHANGED vars
  BY <1>6 DEF TypeOK, vars, Live
<1> QED
  BY <1>1, <1>2, <1>3, <1>4, <1>5, <1>6 DEF Next

(* Every reachable state of the accounts is well typed, and no row of a
   deleted account stays in an access list. *)
THEOREM TypeCorrect == Spec => []TypeOK
<1>1. Init => TypeOK
  <2> SUFFICES ASSUME Init
               PROVE  TypeOK
    OBVIOUS
  <2>1. {Unborn} \cup {Settled(a, "legacy") : a \in BOOLEAN} \cup {Settled(TRUE, "own")} \subseteq Row
    BY Constants
  <2>2. account \in [Users -> Row]
    BY <2>1 DEF Init
  <2>3. seen \in [Requests -> Seen]
    BY Constants DEF Init
  <2> QED
    BY <2>2, <2>3, AccountsAssumption DEF Init, TypeOK
<1> QED
  BY <1>1, TypeStep, PTL DEF Spec

-----------------------------------------------------------------------------
(* A deletion that is about to be written spares the one who asked for it. *)
Spared ==
  \A r \in Requests : pc[r] = "write" /\ job[r].op = "delete" => job[r].user # job[r].by

LEMMA SparedStep == TypeOK /\ Spared /\ [Next]_vars => Spared'
<1> SUFFICES ASSUME TypeOK, Spared, [Next]_vars
             PROVE  Spared'
  OBVIOUS
<1>1. ASSUME NEW r \in Requests, Start(r) \/ Guard(r) \/ Rollback(r) \/ Write(r)
      PROVE  Spared'
  BY <1>1 DEF TypeOK, Spared, Start, Guard, Rollback, Write, Finish, Goto
<1>2. ASSUME NEW r \in Requests, Load(r)
      PROVE  Spared'
  BY <1>2 DEF TypeOK, Spared, Load, MayDelete, Goto
<1>3. CASE UNCHANGED vars
  BY <1>3 DEF Spared, vars
<1> QED
  BY <1>1, <1>2, <1>3 DEF Next

LEMMA NeverEmptyStep == TypeOK /\ Spared /\ NeverEmpty /\ [Next]_vars => NeverEmpty'
<1> SUFFICES ASSUME TypeOK, Spared, NeverEmpty, [Next]_vars
             PROVE  NeverEmpty'
  OBVIOUS
<1>1. PICK u \in Users : Live(u)
  BY DEF NeverEmpty
<1>2. CASE account' = account
  BY <1>1, <1>2 DEF NeverEmpty, Live
<1>3. ASSUME NEW r \in Requests, Write(r)
      PROVE  NeverEmpty'
  <2> DEFINE j == job[r]
  <2>1. /\ j \in Job /\ seen[r].user \in Row /\ pc[r] = "write" /\ Live(j.by)
        /\ j.by \in Users /\ j.user \in Users
    BY <1>3, JobFields DEF TypeOK, Write, Seen
  <2>2. j.op = "delete" => j.user # j.by
    BY <2>1 DEF Spared
  <2> HIDE DEF j
  <2>3. CASE j.op = "create" /\ Create(j)
    BY <1>1, <2>1, <2>3, CreateStep DEF NeverEmpty, Live
  <2>4. CASE j.op = "update" /\ Update(j, seen[r].user)
    BY <1>1, <2>1, <2>4, UpdateStep DEF NeverEmpty, Live
  <2>5. CASE j.op = "delete" /\ Delete(j)
    BY <2>1, <2>2, <2>5, DeleteStep DEF NeverEmpty, Live
  <2>6. CASE j.op = "login" /\ Login(j, seen[r].user)
    BY <1>1, <2>1, <2>6, LoginStep DEF NeverEmpty, Live
  <2>7. CASE j.op = "password" /\ PasswordChange(j, seen[r].user)
    BY <1>1, <2>1, <2>7, PasswordStep DEF NeverEmpty, Live
  <2>8. CASE account' = account
    BY <1>2, <2>8
  <2> QED
    BY <1>3, <2>3, <2>4, <2>5, <2>6, <2>7, <2>8 DEF Write, OwnerSet, Toggle, j
<1> QED
  BY <1>2, <1>3 DEF Next, Start, Guard, Load, Rollback, vars

(* For any number of overlapping requests, some account always stays: admins
   who delete each other at the same time cannot both succeed. *)
THEOREM AnAccountStays == Spec => []NeverEmpty
<1>1. Init => Spared /\ NeverEmpty
  BY AccountsAssumption DEF Init, Spared, NeverEmpty
<1> QED
  BY <1>1, TypeCorrect, SparedStep, NeverEmptyStep, PTL DEF Spec

-----------------------------------------------------------------------------
LEMMA AloneStep == TypeOK /\ Alone /\ [Next]_vars => Alone'
<1> SUFFICES ASSUME TypeOK, Alone, [Next]_vars
             PROVE  Alone'
  OBVIOUS
<1>1. ASSUME NEW r \in Requests, Start(r)
      PROVE  Alone'
  <2>1. PICK j \in Job : /\ job' = [job EXCEPT ![r] = j]
                         /\ Goto(r, IF j.op = "toggle" THEN "guard" ELSE "load")
                         /\ raced' = IF Overlaps(j) THEN raced \cup {Target(j)} ELSE raced
    BY <1>1 DEF Start
  <2>2. job'[r] = j /\ pc[r] = "idle"
        /\ \A q \in Requests : q # r => job'[q] = job[q] /\ pc'[q] = pc[q]
    BY <1>1, <2>1 DEF Start, Goto, TypeOK
  <2>3. ASSUME NEW q \in Requests, q # r, pc'[q] # "idle", Target(job'[q]) = Target(j)
        PROVE  Target(j) \in raced'
    BY <2>1, <2>2, <2>3 DEF Overlaps
  <2> QED
    BY <2>1, <2>2, <2>3 DEF Alone
<1>2. ASSUME NEW r \in Requests, Guard(r) \/ Load(r)
      PROVE  Alone'
  BY <1>2 DEF TypeOK, Alone, Guard, Load, Goto
<1>3. ASSUME NEW r \in Requests, Write(r) \/ Rollback(r)
      PROVE  Alone'
  <2>1. /\ raced' = raced /\ pc'[r] = "idle"
        /\ \A q \in Requests : q # r => job'[q] = job[q] /\ pc'[q] = pc[q]
    BY <1>3 DEF TypeOK, Write, Rollback, Finish, Goto
  <2> QED
    BY <2>1 DEF Alone
<1>4. CASE UNCHANGED vars
  BY <1>4 DEF Alone, vars
<1> QED
  BY <1>1, <1>2, <1>3, <1>4 DEF Next

(* A write changes no account but the one its request is about, ... *)
LEMMA WritesTarget ==
  ASSUME TypeOK, NEW r \in Requests, Write(r), NEW u \in Users,
         ~(job[r].op \notin ZoneOps /\ job[r].user = u)
  PROVE  account'[u] = account[u]
<1> DEFINE j == job[r]
<1>1. /\ j \in Job /\ seen[r].user \in Row /\ j.user \in Users
      /\ ~(j.op \notin ZoneOps /\ j.user = u)
  BY JobFields DEF TypeOK, Write, Seen
<1> HIDE DEF j
<1>2. CASE j.op = "create" /\ Create(j)
  BY <1>1, <1>2, CreateStep DEF ZoneOps
<1>3. CASE j.op = "update" /\ Update(j, seen[r].user)
  BY <1>1, <1>3, UpdateStep DEF ZoneOps
<1>4. CASE j.op = "delete" /\ Delete(j)
  BY <1>1, <1>4, DeleteStep DEF ZoneOps
<1>5. CASE j.op = "login" /\ Login(j, seen[r].user)
  BY <1>1, <1>5, LoginStep DEF ZoneOps
<1>6. CASE j.op = "password" /\ PasswordChange(j, seen[r].user)
  BY <1>1, <1>6, PasswordStep DEF ZoneOps
<1>7. CASE account' = account
  BY <1>7
<1> QED
  BY <1>2, <1>3, <1>4, <1>5, <1>6, <1>7 DEF Write, OwnerSet, Toggle, j

LEMMA RowsFreshStep == TypeOK /\ Alone /\ RowsFresh /\ [Next]_vars => RowsFresh'
<1> SUFFICES ASSUME TypeOK, Alone, RowsFresh, [Next]_vars
             PROVE  RowsFresh'
  OBVIOUS
<1>1. ASSUME NEW r \in Requests, Start(r)
      PROVE  RowsFresh'
  <2>1. PICK j \in Job : /\ job' = [job EXCEPT ![r] = j]
                         /\ seen' = [seen EXCEPT ![r].me = account[j.by]]
                         /\ Goto(r, IF j.op = "toggle" THEN "guard" ELSE "load")
                         /\ raced' = IF Overlaps(j) THEN raced \cup {Target(j)} ELSE raced
    BY <1>1 DEF Start
  <2>2. /\ job'[r] = j /\ pc'[r] \in {"guard", "load"} /\ raced \subseteq raced'
        /\ seen'[r].me = account[j.by]
        /\ \A q \in Requests : q # r => job'[q] = job[q] /\ pc'[q] = pc[q] /\ seen'[q] = seen[q]
    BY <2>1 DEF Goto, TypeOK, Seen
  <2> QED
    BY <1>1, <2>2 DEF RowsFresh, Start
<1>2. ASSUME NEW r \in Requests, Guard(r)
      PROVE  RowsFresh'
  BY <1>2 DEF RowsFresh, Guard, Goto, TypeOK
<1>3. ASSUME NEW r \in Requests, Load(r)
      PROVE  RowsFresh'
  <2>1. /\ pc'[r] = "write" /\ pc[r] = "load"
        /\ job[r].op \in RowOps => seen'[r].user = IF job[r].user = job[r].by THEN seen[r].me
                                                   ELSE account[job[r].user]
        /\ \A q \in Requests : q # r => pc'[q] = pc[q] /\ seen'[q] = seen[q]
        /\ UNCHANGED <<account, job, raced>>
    BY <1>3 DEF Load, Goto, TypeOK
  <2> QED
    BY <2>1 DEF RowsFresh
<1>4. ASSUME NEW r \in Requests, Write(r)
      PROVE  RowsFresh'
  <2>1. /\ pc'[r] = "idle" /\ job'[r] = NoJob /\ raced' = raced /\ pc[r] # "idle"
        /\ \A q \in Requests : q # r => job'[q] = job[q] /\ pc'[q] = pc[q] /\ seen'[q] = seen[q]
    BY <1>4 DEF TypeOK, Write, Finish, Goto
  <2>2. ASSUME NEW q \in Requests, q # r, pc[q] # "idle",
               job[q].op \in RowOps, job[q].user \notin raced
        PROVE  account'[job[q].user] = account[job[q].user]
    <3>1. job[q] \in Job /\ Target(job[q]) = job[q].user
      BY <2>2 DEF TypeOK, Target, RowOps, ZoneOps
    <3>2. Target(job[r]) # job[q].user
      BY <2>1, <2>2, <3>1 DEF Alone
    <3>3. ~(job[r].op \notin ZoneOps /\ job[r].user = job[q].user)
      BY <3>2 DEF Target
    <3> QED
      BY <1>4, <3>1, <3>3, WritesTarget, JobFields
  <2> QED
    BY <2>1, <2>2 DEF RowsFresh, NoJob, RowOps
<1>5. ASSUME NEW r \in Requests, Rollback(r)
      PROVE  RowsFresh'
  <2>1. /\ pc'[r] = "idle" /\ UNCHANGED <<account, raced>>
        /\ \A q \in Requests : q # r => job'[q] = job[q] /\ pc'[q] = pc[q] /\ seen'[q] = seen[q]
    BY <1>5 DEF TypeOK, Rollback, Finish, Goto
  <2> QED
    BY <2>1 DEF RowsFresh
<1>6. CASE UNCHANGED vars
  BY <1>6 DEF RowsFresh, vars
<1> QED
  BY <1>1, <1>2, <1>3, <1>4, <1>5, <1>6 DEF Next

(* Of a zone only its own requests and the deletion of an account change
   rows, and a deleted account is never created again. *)
LEMMA DeletedStays ==
  ASSUME TypeOK, NEW r \in Requests, Write(r), NEW u \in Users, account[u].is = "deleted"
  PROVE  account'[u].is = "deleted"
<1> DEFINE j == job[r]
<1>1. /\ j \in Job /\ seen[r].user \in Row /\ j.user \in Users
  BY JobFields DEF TypeOK, Write, Seen
<1> HIDE DEF j
<1>2. CASE j.op = "create" /\ Create(j)
  BY <1>1, <1>2, CreateStep DEF Create
<1>3. CASE j.op = "update" /\ Update(j, seen[r].user)
  BY <1>1, <1>3, UpdateStep
<1>4. CASE j.op = "delete" /\ Delete(j)
  BY <1>1, <1>4, DeleteStep
<1>5. CASE j.op = "login" /\ Login(j, seen[r].user)
  BY <1>1, <1>5, LoginStep
<1>6. CASE j.op = "password" /\ PasswordChange(j, seen[r].user)
  BY <1>1, <1>6, PasswordStep
<1>7. CASE account' = account
  BY <1>7
<1> QED
  BY <1>2, <1>3, <1>4, <1>5, <1>6, <1>7 DEF Write, OwnerSet, Toggle, j

LEMMA WritesZone ==
  ASSUME TypeOK, NEW r \in Requests, Write(r), NEW z \in Zones,
         ~(job[r].op \in ZoneOps /\ job[r].zone = z), NEW u \in Users
  PROVE  access'[z][u] # access[z][u] => access'[z][u] = "none" /\ account'[u].is = "deleted"
<1> DEFINE j == job[r]
<1>1. /\ j \in Job /\ seen[r].user \in Row /\ j.user \in Users
      /\ seen[r].grants \in [Users -> Grant]
      /\ ~(j.op \in ZoneOps /\ j.zone = z)
  BY JobFields DEF TypeOK, Write, Seen
<1>a. j.op \in ZoneOps => seen[r].grants[j.user] \in Grant
  BY <1>1
<1> HIDE DEF j
<1>2. CASE j.op = "delete" /\ Delete(j)
  BY <1>1, <1>2, DeleteStep
<1>3. CASE j.op = "owner" /\ OwnerSet(j, seen[r].grants)
  <2>1. access'[z] = access[z]
    BY <1>1, <1>3, OwnerStep DEF OwnerSet, ZoneOps
  <2> QED
    BY <2>1
<1>4. CASE j.op = "toggle" /\ Toggle(j, seen[r].grants[j.user])
  <2>1. access'[z] = access[z]
    BY <1>1, <1>a, <1>4, ToggleStep DEF ZoneOps
  <2> QED
    BY <2>1
<1>5. CASE access' = access
  BY <1>5
<1> QED
  BY <1>2, <1>3, <1>4, <1>5 DEF Write, Create, Update, Login, PasswordChange, j

LEMMA GrantsFreshStep ==
  TypeOK /\ Alone /\ OneOwnerIfApart /\ GrantsFresh /\ [Next]_vars => GrantsFresh'
<1> SUFFICES ASSUME TypeOK, Alone, OneOwnerIfApart, GrantsFresh, [Next]_vars
             PROVE  GrantsFresh'
  OBVIOUS
<1>1. ASSUME NEW r \in Requests, Start(r)
      PROVE  GrantsFresh'
  <2>1. /\ pc'[r] # "write" /\ raced \subseteq raced' /\ UNCHANGED <<account, access>>
        /\ \A q \in Requests : q # r => job'[q] = job[q] /\ pc'[q] = pc[q] /\ seen'[q] = seen[q]
    BY <1>1 DEF Start, Goto, TypeOK
  <2> QED
    BY <2>1 DEF GrantsFresh, AtMostOne, Owners
<1>2. ASSUME NEW r \in Requests, Guard(r)
      PROVE  GrantsFresh'
  BY <1>2 DEF GrantsFresh, AtMostOne, Owners, Guard, Goto, TypeOK
<1>3. ASSUME NEW r \in Requests, Load(r)
      PROVE  GrantsFresh'
  <2>1. /\ pc[r] = "load" /\ job[r] \in Job
        /\ job[r].op \in ZoneOps => seen'[r].grants = access[job[r].zone]
        /\ \A q \in Requests : q # r => pc'[q] = pc[q] /\ seen'[q] = seen[q]
        /\ UNCHANGED <<account, access, job, raced>>
    BY <1>3 DEF Load, Goto, TypeOK
  <2> QED
    BY <2>1, JobFields DEF GrantsFresh, OneOwnerIfApart, AtMostOne, Owners
<1>4. ASSUME NEW r \in Requests, Write(r)
      PROVE  GrantsFresh'
  <2>1. /\ pc'[r] = "idle" /\ raced' = raced /\ pc[r] # "idle"
        /\ \A q \in Requests : q # r => job'[q] = job[q] /\ pc'[q] = pc[q] /\ seen'[q] = seen[q]
    BY <1>4 DEF TypeOK, Write, Finish, Goto
  <2>2. ASSUME NEW q \in Requests, q # r, pc[q] = "write",
               job[q].op \in ZoneOps, job[q].zone \notin raced, NEW u \in Users,
               access'[job[q].zone][u] # seen[q].grants[u]
        PROVE  access'[job[q].zone][u] = "none" /\ account'[u].is = "deleted"
    <3> DEFINE z == job[q].zone
    <3>1. z \in Zones /\ Target(job[q]) = z
      BY <2>2, JobFields DEF TypeOK, Target
    <3>2. ~(job[r].op \in ZoneOps /\ job[r].zone = z)
      BY <2>1, <2>2, <3>1 DEF Alone, Target
    <3>3. access'[z][u] # access[z][u] => access'[z][u] = "none" /\ account'[u].is = "deleted"
      BY <1>4, <3>1, <3>2, WritesZone
    <3>4. CASE access'[z][u] = access[z][u]
      <4>1. access[z][u] = "none" /\ account[u].is = "deleted"
        BY <2>2, <3>4 DEF GrantsFresh
      <4> QED
        BY <1>4, <3>4, <4>1, DeletedStays
    <3> QED
      BY <2>2, <3>3, <3>4
  <2>3. \A q \in Requests : q # r /\ pc[q] = "write" /\ job[q].op \in ZoneOps
                            /\ job[q].zone \notin raced
                            => AtMostOne(Owners(seen[q].grants))
    BY DEF GrantsFresh
  <2> QED
    BY <2>1, <2>2, <2>3 DEF GrantsFresh, AtMostOne, Owners
<1>5. ASSUME NEW r \in Requests, Rollback(r)
      PROVE  GrantsFresh'
  <2>1. /\ pc'[r] = "idle" /\ UNCHANGED <<account, access, raced>>
        /\ \A q \in Requests : q # r => job'[q] = job[q] /\ pc'[q] = pc[q] /\ seen'[q] = seen[q]
    BY <1>5 DEF TypeOK, Rollback, Finish, Goto
  <2> QED
    BY <2>1 DEF GrantsFresh, AtMostOne, Owners
<1>6. CASE UNCHANGED vars
  BY <1>6 DEF GrantsFresh, AtMostOne, Owners, vars
<1> QED
  BY <1>1, <1>2, <1>3, <1>4, <1>5, <1>6 DEF Next

(* What a write does to a zone that was not raced for. *)
LEMMA ApartWrite ==
  ASSUME TypeOK, OneOwnerIfApart, GrantsFresh, NEW r \in Requests, Write(r),
         NEW z \in Zones, z \notin raced
  PROVE  AtMostOne(Owners(access'[z])) /\ KeepsOwner(z)
<1>0. /\ AtMostOne(Owners(access[z]))
      /\ job[r] \in Job /\ seen[r].grants \in [Users -> Grant]
      /\ access[z] \in [Users -> Grant]
  BY DEF OneOwnerIfApart, TypeOK, Write, Seen
<1>1. CASE ~(job[r].op \in ZoneOps /\ job[r].zone = z)
  <2>1. \A u \in Users : access'[z][u] # access[z][u] =>
                            access'[z][u] = "none" /\ account'[u].is = "deleted"
    BY <1>1, WritesZone
  <2> QED
    BY <1>0, <2>1 DEF AtMostOne, Owners, KeepsOwner
<1>2. CASE job[r].op \in ZoneOps /\ job[r].zone = z
  <2> DEFINE j == job[r]
             g == seen[r].grants
  <2>1. /\ AtMostOne(Owners(g))
        /\ \A u \in Users : access[z][u] # g[u] =>
                              access[z][u] = "none" /\ account[u].is = "deleted"
    BY <1>2 DEF GrantsFresh, Write
  <2>2. j.user \in Users /\ j.zone = z
    BY <1>0, <1>2, JobFields
  <2>3. CASE j.op = "owner" /\ OwnerSet(j, g)
    <3> HIDE DEF j, g
    <3>0. PICK old \in Demoted(g) :
            /\ j.user \notin old
            /\ \A u \in old : access[j.zone][u] # "none"
            /\ g[j.user] = "none" => access[j.zone][j.user] = "none" /\ Live(j.user)
            /\ g[j.user] = "editor" => access[j.zone][j.user] # "none"
            /\ access' = [access EXCEPT ![j.zone] =
                            [u \in Users |-> IF u \in old THEN "editor"
                                             ELSE IF u = j.user /\ g[u] # "owner" THEN "owner"
                                             ELSE @[u]]]
      BY <2>3 DEF OwnerSet
    <3>j. j \in Job /\ g \in [Users -> Grant]
      BY <1>0 DEF j, g
    <3>1. /\ j.user \notin old
          /\ \A u \in old : access[z][u] # "none"
          /\ \A u \in Users : access'[z][u] =
               IF u \in old THEN "editor"
               ELSE IF u = j.user /\ g[u] # "owner" THEN "owner"
               ELSE access[z][u]
      BY <2>2, <2>3, <3>j, <3>0, OwnerStep
    <3>2. g[j.user] # "owner"
      BY <2>1, <2>2, <3>1 DEF Demoted, Owners, AtMostOne
    <3>3. \A u \in Users : access[z][u] = "owner" => u \in old
      BY <2>1, <3>1 DEF Demoted, Owners, AtMostOne
    <3> QED
      BY <2>2, <3>1, <3>2, <3>3 DEF AtMostOne, Owners, KeepsOwner
  <2>4. CASE j.op = "toggle" /\ Toggle(j, g[j.user])
    <3>1. /\ g[j.user] # "owner" /\ g[j.user] \in Grant
          /\ access[z][j.user] # "owner"
      BY <1>0, <2>1, <2>2, <2>4 DEF Toggle, MayToggle
    <3>2. /\ \A u \in Users : u # j.user => access'[z][u] = access[z][u]
          /\ access'[z][j.user] # "owner"
      BY <1>0, <2>2, <2>4, <3>1, ToggleStep
    <3> QED
      BY <1>0, <2>2, <3>1, <3>2 DEF AtMostOne, Owners, KeepsOwner
  <2> QED
    BY <1>2, <2>3, <2>4 DEF Write, ZoneOps
<1> QED
  BY <1>1, <1>2

LEMMA OneOwnerStep ==
  TypeOK /\ GrantsFresh /\ OneOwnerIfApart /\ [Next]_vars => OneOwnerIfApart'
<1> SUFFICES ASSUME TypeOK, GrantsFresh, OneOwnerIfApart, [Next]_vars
             PROVE  OneOwnerIfApart'
  OBVIOUS
<1>1. ASSUME NEW r \in Requests, Write(r)
      PROVE  OneOwnerIfApart'
  <2>1. raced' = raced
    BY <1>1 DEF Write
  <2> QED
    BY <1>1, <2>1, ApartWrite DEF OneOwnerIfApart, AtMostOne, Owners
<1>2. CASE UNCHANGED access /\ raced \subseteq raced'
  BY <1>2 DEF OneOwnerIfApart, AtMostOne, Owners
<1> QED
  BY <1>1, <1>2 DEF Next, Start, Guard, Load, Rollback, vars

LEMMA RaceCorrect == Spec => [](Alone /\ GrantsFresh /\ OneOwnerIfApart)
<1>1. Init => Alone /\ GrantsFresh /\ OneOwnerIfApart
  BY DEF Init, Alone, GrantsFresh, OneOwnerIfApart
<1> QED
  BY <1>1, TypeCorrect, AloneStep, GrantsFreshStep, OneOwnerStep, PTL DEF Spec

(* For any number of requests on any zones: a zone that no two requests have
   raced for has one owner at most, ... *)
THEOREM ZonesHaveOneOwner == Spec => []OneOwnerIfApart
BY RaceCorrect, PTL

(* ... and loses its owner only to a new one or with his account. *)
THEOREM OwnersStay == Spec => OwnerKeptIfApart
<1>1. TypeOK /\ GrantsFresh /\ OneOwnerIfApart /\ [Next]_vars
        => [\A z \in Zones \ raced : KeepsOwner(z)]_vars
  <2> SUFFICES ASSUME TypeOK, GrantsFresh, OneOwnerIfApart, Next,
                      NEW z \in Zones \ raced
               PROVE  KeepsOwner(z)
    OBVIOUS
  <2>1. ASSUME NEW r \in Requests, Write(r)
        PROVE  KeepsOwner(z)
    BY <2>1, ApartWrite
  <2>2. CASE access' = access
    BY <2>2 DEF KeepsOwner, Owners
  <2> QED
    BY <2>1, <2>2 DEF Next, Start, Guard, Load, Rollback
<1> QED
  BY <1>1, TypeCorrect, RaceCorrect, PTL DEF Spec, OwnerKeptIfApart

-----------------------------------------------------------------------------
LEMMA TemporaryStep ==
  TypeOK /\ RowsFresh /\ TemporaryIsForcedIfApart /\ [Next]_vars => TemporaryIsForcedIfApart'
<1> SUFFICES ASSUME TypeOK, RowsFresh, TemporaryIsForcedIfApart, [Next]_vars
             PROVE  TemporaryIsForcedIfApart'
  OBVIOUS
<1>1. ASSUME NEW r \in Requests, Write(r)
      PROVE  TemporaryIsForcedIfApart'
  <2> DEFINE j == job[r]
  <2>1. /\ j \in Job /\ seen[r].user \in Row /\ j.user \in Users /\ account[j.user] \in Row
        /\ raced' = raced
        /\ j.op \in RowOps /\ j.user \notin raced => seen[r].user = account[j.user]
    BY <1>1, JobFields DEF TypeOK, Write, Seen, RowsFresh
  <2>2. ASSUME NEW u \in Users, u \notin raced, Live(u)', account'[u].pwd = "temp",
               account'[u] # account[u]
        PROVE  account'[u].must
    <3>1. u = j.user
      BY <1>1, <2>2, WritesTarget
    <3> HIDE DEF j
    <3>2. CASE j.op = "create" /\ Create(j)
      BY <2>1, <3>1, <3>2, CreateStep
    <3>3. CASE j.op = "update" /\ Update(j, seen[r].user)
      <4>1. /\ account'[u] = Updated(j, account[u], account[u])
            /\ account[u].is = account'[u].is /\ j.reset \in BOOLEAN
        BY <2>1, <2>2, <3>1, <3>3, UpdateStep, JobFields DEF RowOps
      <4>2. CASE j.reset
        BY <2>1, <3>1, <4>1, <4>2 DEF Updated, Written, Row
      <4>3. CASE ~j.reset
        <5>1. account'[u].must = account[u].must /\ account'[u].pwd = account[u].pwd
          BY <2>1, <3>1, <4>1, <4>3 DEF Updated, Row
        <5> QED
          BY <2>2, <4>1, <5>1 DEF TemporaryIsForcedIfApart, Live
      <4> QED
        BY <4>1, <4>2, <4>3
    <3>4. CASE j.op = "delete" /\ Delete(j)
      BY <2>1, <2>2, <3>1, <3>4, DeleteStep DEF Live
    <3>5. CASE j.op = "login" /\ Login(j, seen[r].user)
      <4>1. /\ account'[u].must = account[u].must
            /\ account'[u].pwd = Rehashed(seen[r].user.pwd, account[u].pwd)
            /\ account'[u].is = account[u].is
        BY <2>1, <3>1, <3>5, LoginStep
      <4> QED
        BY <2>2, <4>1 DEF Rehashed, TemporaryIsForcedIfApart, Live
    <3>6. CASE j.op = "password" /\ PasswordChange(j, seen[r].user)
      BY <2>1, <2>2, <3>1, <3>6, PasswordStep
    <3>7. CASE account' = account
      BY <2>2, <3>7
    <3> QED
      BY <1>1, <3>2, <3>3, <3>4, <3>5, <3>6, <3>7 DEF Write, OwnerSet, Toggle, j
  <2> QED
    BY <2>1, <2>2 DEF TemporaryIsForcedIfApart, Live
<1>2. CASE UNCHANGED account /\ raced \subseteq raced'
  BY <1>2 DEF TemporaryIsForcedIfApart, Live
<1> QED
  BY <1>1, <1>2 DEF Next, Start, Guard, Load, Rollback, vars

LEMMA RowsCorrect == Spec => [](Alone /\ RowsFresh)
<1>1. Init => Alone /\ RowsFresh
  BY DEF Init, Alone, RowsFresh
<1> QED
  BY <1>1, TypeCorrect, AloneStep, RowsFreshStep, PTL DEF Spec

(* For any number of requests: of an account that no two of them have raced
   for, a password that an admin has set must be changed. *)
THEOREM TemporaryPasswordsAreForced == Spec => []TemporaryIsForcedIfApart
<1>1. Init => TemporaryIsForcedIfApart
  <2> SUFFICES ASSUME Init, NEW u \in Users
               PROVE  account[u].pwd # "temp"
    BY DEF TemporaryIsForcedIfApart
  <2>1. account[u] \in {Unborn} \cup {Settled(a, "legacy") : a \in BOOLEAN}
                         \cup {Settled(TRUE, "own")}
    BY DEF Init
  <2> QED
    BY <2>1 DEF Unborn, Settled
<1> QED
  BY <1>1, TypeCorrect, RowsCorrect, TemporaryStep, PTL DEF Spec

(* And of such an account a login never brings an old password back. *)
THEOREM NewPasswordsStay == Spec => NewPasswordStaysIfApart
<1>1. TypeOK /\ RowsFresh /\ [Next]_vars =>
        [\A u \in Users \ raced :
           account'[u].pwd = "migrated" => account[u].pwd \in {"legacy", "migrated"}]_vars
  <2> SUFFICES ASSUME TypeOK, RowsFresh, Next, NEW u \in Users \ raced,
                      account'[u].pwd = "migrated"
               PROVE  account[u].pwd \in {"legacy", "migrated"}
    OBVIOUS
  <2>1. ASSUME NEW r \in Requests, Write(r)
        PROVE  account[u].pwd \in {"legacy", "migrated"}
    <3> DEFINE j == job[r]
    <3>1. /\ j \in Job /\ seen[r].user \in Row /\ j.user \in Users /\ account[j.user] \in Row
          /\ j.op \in RowOps /\ j.user \notin raced => seen[r].user = account[j.user]
      BY <2>1, JobFields DEF TypeOK, Write, Seen, RowsFresh
    <3>2. CASE account'[u] = account[u]
      BY <3>2
    <3>3. CASE account'[u] # account[u]
      <4>1. u = j.user
        BY <2>1, <3>3, WritesTarget
      <4> HIDE DEF j
      <4>2. CASE j.op = "create" /\ Create(j)
        BY <3>1, <4>1, <4>2 DEF Create, TypeOK
      <4>3. CASE j.op = "update" /\ Update(j, seen[r].user)
        <5>1. account'[u] = Updated(j, account[u], account[u]) /\ j.reset \in BOOLEAN
          BY <3>1, <4>1, <4>3, UpdateStep, JobFields DEF RowOps
        <5> QED
          BY <3>1, <4>1, <5>1 DEF Updated, Row
      <4>4. CASE j.op = "delete" /\ Delete(j)
        BY <3>1, <4>1, <4>4 DEF Delete, TypeOK, Row
      <4>5. CASE j.op = "login" /\ Login(j, seen[r].user)
        BY <3>1, <4>1, <4>5, LoginStep DEF Rehashed, RowOps
      <4>6. CASE j.op = "password" /\ PasswordChange(j, seen[r].user)
        BY <3>1, <4>1, <4>6, PasswordStep
      <4> QED
        BY <2>1, <3>3, <4>2, <4>3, <4>4, <4>5, <4>6 DEF Write, OwnerSet, Toggle, j
    <3> QED
      BY <3>2, <3>3
  <2>2. CASE account' = account
    BY <2>2
  <2> QED
    BY <2>1, <2>2 DEF Next, Start, Guard, Load, Rollback
<1> QED
  BY <1>1, TypeCorrect, RowsCorrect, PTL DEF Spec, NewPasswordStaysIfApart
=============================================================================
