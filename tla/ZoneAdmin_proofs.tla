-------------------------- MODULE ZoneAdmin_proofs --------------------------
(***************************************************************************)
(* Proofs about ZoneAdmin.  For every number of threads, zones and keys:   *)
(*                                                                         *)
(*   - type correctness, and that the start-up stamp repairs the zones of  *)
(*     the catalog, however requests and forms come;                       *)
(*   - when the requests on one zone do not overlap (Apart), whatever      *)
(*     fails: users' restrictions outlive every change of keys, and on     *)
(*     fresh pages a per-zone key exists, belongs to one zone and is       *)
(*     deleted only unused;                                                *)
(*   - under the same conditions, whatever fails: between requests every   *)
(*     zone on which no request has stopped half-way has the keys, the     *)
(*     gate, the notify list and the owner that its mode calls for, and    *)
(*     with one request at a time no key is left over but those that a     *)
(*     failed one had in hand.                                             *)
(***************************************************************************)
EXTENDS ZoneAdmin, TLAPS

(* The part of TypeOK that speaks of the requests. *)
ReqType ==
  /\ pc \in [Requests -> Labels]
  /\ job \in [Requests -> Job \cup {NoJob}]
  /\ keys \in [Requests -> SUBSET Key]
  /\ ips \in [Requests -> SUBSET Range]
  /\ former \in [Requests -> SUBSET Key]
  /\ cand \in [Requests -> Key \cup {NoKey}]
  /\ at \in [Requests -> Zone \cup {NoZone}]
  /\ todo \in [Requests -> SUBSET Zone]
  /\ JobOK

(* Returning, and going on with the clean-up loop, keep it. *)
LEMMA FinishType ==
  ASSUME NEW r \in Requests, ReqType, Finish(r)
  PROVE  ReqType'
BY DEF ReqType, JobOK, Active, Finish, Goto, Labels

LEMMA NextKeyType ==
  ASSUME NEW r \in Requests, ReqType, pc[r] # "idle", NEW k, NextKey(r, k)
  PROVE  ReqType'
BY FinishType DEF ReqType, JobOK, Active, NextKey, Goto, Labels

LEMMA LoopErrorType ==
  ASSUME NEW r \in Requests, ReqType, pc[r] # "idle", LoopError(r)
  PROVE  ReqType'
BY FinishType, NextKeyType DEF LoopError

LEMMA AccessWrittenType ==
  ASSUME NEW r \in Requests, ReqType, pc[r] # "idle", AccessWritten(r),
         UNCHANGED at
  PROVE  ReqType'
BY FinishType DEF ReqType, JobOK, Active, AccessWritten, Goto, Labels, regVars

(* The other arm of a call on a zone. *)
LEMMA NotFoundType ==
  ASSUME NEW r \in Requests, TypeOK, NotFound(r)
  PROVE  TypeOK'
BY FinishType DEF TypeOK, ReqType, NotFound, pdnsVars, bootVars, history

LEMMA HeldType ==
  ASSUME TypeOK, NEW r \in Requests
  PROVE  Held(r) \subseteq Key
<1>1. CASE Active(r)
  BY <1>1 DEF TypeOK, JobOK, Active, Job, Held, Pending
<1>2. CASE ~Active(r)
  BY <1>2 DEF TypeOK, Active, Held, Pending
<1> QED
  BY <1>1, <1>2

(* Every step of a request keeps the types. *)
LEMMA ServeType ==
  ASSUME NEW r \in Requests, TypeOK, Serve(r)
  PROVE  TypeOK'
<1> DEFINE z == job[r].zone
<1>0. pc[r] # "idle" => job[r] \in Job /\ z \in UserZone /\ z \in Zone
  BY DEF TypeOK, JobOK, Active, Job, Zone
<1>k. job[r] \in Job /\ job[r].op \in KeyOps => job[r].key \in Key
  BY DEF Job
<1>r. ReqType
  BY DEF TypeOK, ReqType
<1> USE <1>0, <1>k, <1>r, NotFoundType, FinishType
<1> USE DEF TypeOK, ReqType, JobOK, Active, pdnsVars, regVars, bootVars, history, Goto, Labels
<1>1. CASE Start(r)
  BY <1>1, ConfigAssumption, SMTT(40) DEF Start, Entry, Job, CreateOps, AddOps, KeyOps, AllOps
<1>2. CASE Create(r)
  BY <1>2 DEF Create
<1>3. CASE Uncatalog(r)
  BY <1>3 DEF Uncatalog
<1>4. CASE ReadFormer(r)
  BY <1>4 DEF ReadFormer, ForgetFormer
<1>5. CASE Join(r)
  BY <1>5 DEF Join
<1>6. CASE BackToMaster(r)
  BY <1>6 DEF BackToMaster
<1>7. CASE Unlist(r)
  BY <1>7 DEF Unlist
<1>8. CASE SetKeys(r)
  <2>1. NewKeys(r) \in SUBSET Key
    BY ConfigAssumption DEF NewKeys, Globals
  <2> QED
    BY <1>8, <2>1 DEF SetKeys
<1>9. CASE MakeKey(r)
  BY <1>9 DEF MakeKey, AddOps, KeyOps
<1>10. CASE ReadAxfr(r)
  BY <1>10 DEF ReadAxfr, KeyOps
<1>11. CASE ReadUpd(r)
  <2>1. EditedUpd(r) \in SUBSET Key
    BY <1>11 DEF EditedUpd, ReadUpd, KeyOps
  <2>2. job[r].op = "updDel" => job[r].key \in Key
    BY <1>11 DEF ReadUpd, KeyOps
  <2>3. job[r].cidrs \in SUBSET Range
    BY <1>11 DEF ReadUpd, Job
  <2> QED
    BY <1>11, <2>1, <2>2, <2>3 DEF ReadUpd, WriteBranch
<1>12. CASE ReadIps(r)
  BY <1>12 DEF ReadIps, UserIps, WriteBranch
<1>13. CASE PutUpd(r)
  BY <1>13, SMTT(40) DEF PutUpd
<1>14. CASE PutFrom(r)
  BY <1>14, AccessWrittenType, ConfigAssumption DEF PutFrom, AccessWritten
<1>15. CASE DelUpd(r)
  BY <1>15 DEF DelUpd
<1>16. CASE DelFrom(r)
  BY <1>16, AccessWrittenType DEF DelFrom, AccessWritten
<1>17. CASE ListZones(r)
  BY <1>17 DEF ListZones
<1>18. CASE ScanAxfr(r)
  BY <1>18, NextKeyType, LoopErrorType DEF ScanAxfr
<1>19. CASE ScanUpd(r)
  BY <1>19, NextKeyType DEF ScanUpd
<1>20. CASE RemoveKey(r)
  BY <1>20, NextKeyType, LoopErrorType DEF RemoveKey
<1>21. CASE ReadFormerUpd(r)
  BY <1>21 DEF ReadFormerUpd
<1>22. CASE DeleteZone(r)
  BY <1>22, SMTT(40) DEF DeleteZone
<1>23. CASE SetTargets(r)
  BY <1>23 DEF SetTargets
<1>24. CASE SetKind(r)
  BY <1>24 DEF SetKind
<1>25. CASE Commit(r)
  BY <1>25 DEF Commit, Rows
<1>26. CASE Abort(r)
  BY <1>26, HeldType DEF Abort
<1>27. CASE SkipKey(r)
  BY <1>27, NextKeyType DEF SkipKey
<1>28. CASE SkipFormer(r)
  BY <1>28 DEF SkipFormer, ForgetFormer, Refs
<1> QED
  BY <1>1, <1>2, <1>3, <1>4, <1>5, <1>6, <1>7, <1>8, <1>9, <1>10, <1>11, <1>12, <1>13,
     <1>14, <1>15, <1>16, <1>17, <1>18, <1>19, <1>20, <1>21, <1>22, <1>23, <1>24,
     <1>25, <1>26, <1>27, <1>28 DEF Serve

LEMMA InitType == Init => TypeOK
BY ConfigAssumption DEF Init, TypeOK, JobOK, Active, Globals, Labels, Zone

LEMMA TypeStep == TypeOK /\ [Next]_vars => TypeOK'
<1>1. TypeOK /\ [Next]_vars => TypeOK'
  <2> SUFFICES ASSUME TypeOK, [Next]_vars PROVE TypeOK'
    OBVIOUS
  <2>1. CASE Bootstrap
    <3>0. Globals \in SUBSET Key /\ Catalog \in Zone
      BY ConfigAssumption DEF Globals, Zone
    <3> USE <3>0 DEF TypeOK, JobOK, Active, pdnsVars, regVars, history
    <3>1. CASE EnsureCatalog
      BY <3>1 DEF EnsureCatalog
    <3>2. CASE EnsureCatalogKeys
      BY <3>2 DEF EnsureCatalogKeys
    <3>3. CASE ListToStamp
      BY <3>3 DEF ListToStamp, ToStamp
    <3>4. CASE StampZone
      BY <3>4 DEF StampZone
    <3>5. CASE BootGivesUp
      BY <3>5 DEF BootGivesUp
    <3> QED
      BY <2>1, <3>1, <3>2, <3>3, <3>4, <3>5 DEF Bootstrap
  <2>2. CASE Restart
    <3>1. (hurt \subseteq Zone)'
      BY <2>2 DEF Restart, TypeOK, JobOK, Job, Zone
    <3>2. (lost \subseteq Key)'
      BY <2>2, HeldType DEF Restart, TypeOK
    <3> QED
      BY <2>2, <3>1, <3>2 DEF Restart, TypeOK, JobOK, Active, pdnsVars, Labels
  <2>3. ASSUME NEW r \in Requests, Serve(r) PROVE TypeOK'
    BY <2>3, ServeType
  <2>4. CASE UNCHANGED vars
    BY <2>4 DEF vars, pdnsVars, regVars, bootVars, history, TypeOK, JobOK, Active
  <2> QED
    BY <2>1, <2>2, <2>3, <2>4 DEF Next
<1> QED
  BY <1>1

(* Type correctness. *)
THEOREM TypeCorrect == Spec => []TypeOK
BY InitType, TypeStep, PTL DEF Spec

-----------------------------------------------------------------------------
(* The panel serves nobody while it starts, and stamps existing zones only. *)
Booting ==
  /\ boot # "up" => \A r \in Requests : ~Active(r)
  /\ boot = "up" => stamp = {}
  /\ boot = "catalogKeys" => Catalog \in exists
  /\ stamp \subseteq exists

LEMMA BootingStep ==
  ASSUME TypeOK, Booting, [Next]_vars
  PROVE  Booting'
<1> USE DEF Booting, TypeOK, Active, pdnsVars, regVars, bootVars
<1>1. CASE Bootstrap
  BY <1>1 DEF Bootstrap, EnsureCatalog, EnsureCatalogKeys, ListToStamp, ToStamp, StampZone, BootGivesUp
<1>2. CASE Restart
  BY <1>2 DEF Restart
<1>3. ASSUME NEW r \in Requests, Serve(r) PROVE Booting'
  <2>1. boot = "up"
    <3>1. CASE Active(r)
      BY <3>1
    <3>2. CASE ~Active(r)
      BY <3>2, <1>3 DEF Serve, Start, Create, Uncatalog, ReadFormer, Join, BackToMaster,
         Unlist, SetKeys, MakeKey, ReadAxfr, ReadUpd, ReadIps, PutUpd, PutFrom, DelUpd,
         DelFrom, ListZones, ScanAxfr, ScanUpd, RemoveKey, ReadFormerUpd, DeleteZone,
         SetTargets, SetKind, Commit, Abort, SkipFormer, ForgetFormer, SkipKey
    <3> QED
      BY <3>1, <3>2
  <2>2. UNCHANGED bootVars
    BY <1>3 DEF Serve, Start, Create, Uncatalog, ReadFormer, Join, BackToMaster,
       Unlist, SetKeys, MakeKey, ReadAxfr, ReadUpd, ReadIps, PutUpd, PutFrom, DelUpd,
       DelFrom, ListZones, ScanAxfr, ScanUpd, RemoveKey, ReadFormerUpd, DeleteZone,
       SetTargets, SetKind, Commit, Abort, SkipFormer, ForgetFormer, SkipKey, NotFound
  <2> QED
    BY <2>1, <2>2
<1>4. CASE UNCHANGED vars
  BY <1>4 DEF vars
<1> QED
  BY <1>1, <1>2, <1>3, <1>4 DEF Next

LEMMA InitBooting == Init => Booting
BY DEF Init, Booting, Active

-----------------------------------------------------------------------------
(* No request is served while the panel starts. *)
LEMMA ServedWhenUp ==
  ASSUME TypeOK, Booting, NEW r \in Requests, Serve(r)
  PROVE  boot = "up" /\ UNCHANGED bootVars
<1>1. Active(r) => boot = "up"
  BY DEF Booting
<1>2. pc[r] # "idle" \/ Start(r)
  BY DEF Serve, Create, Uncatalog, ReadFormer, Join, BackToMaster,
     Unlist, SetKeys, MakeKey, ReadAxfr, ReadUpd, ReadIps, PutUpd, PutFrom, DelUpd,
     DelFrom, ListZones, ScanAxfr, ScanUpd, RemoveKey, ReadFormerUpd, DeleteZone,
     SetTargets, SetKind, Commit, Abort, SkipFormer, ForgetFormer, SkipKey, Active
<1>3. UNCHANGED bootVars
  BY DEF Serve, Start, Create, Uncatalog, ReadFormer, Join, BackToMaster,
     Unlist, SetKeys, MakeKey, ReadAxfr, ReadUpd, ReadIps, PutUpd, PutFrom, DelUpd,
     DelFrom, ListZones, ScanAxfr, ScanUpd, RemoveKey, ReadFormerUpd, DeleteZone,
     SetTargets, SetKind, Commit, Abort, SkipFormer, ForgetFormer, SkipKey, NotFound, bootVars
<1> QED
  BY <1>1, <1>2, <1>3 DEF Active, Start

(* The start-up stamp repairs what a crash has left, wherever it failed. *)
THEOREM StampRepairsZones == Spec => []StampRepairs
<1>1. TypeOK /\ Booting /\ StampRepairs /\ [Next]_vars => StampRepairs'
  <2> SUFFICES ASSUME TypeOK, Booting, StampRepairs, [Next]_vars PROVE StampRepairs'
    OBVIOUS
  <2> USE DEF StampRepairs, Custom, TypeOK
  <2>1. CASE Bootstrap
    BY <2>1 DEF Bootstrap, EnsureCatalog, EnsureCatalogKeys, ListToStamp, ToStamp, StampZone,
       BootGivesUp, pdnsVars
  <2>2. CASE Restart
    BY <2>2 DEF Restart
  <2>3. ASSUME NEW r \in Requests, Serve(r) PROVE StampRepairs'
    BY <2>3, ServedWhenUp DEF bootVars
  <2>4. CASE UNCHANGED vars
    BY <2>4 DEF vars, pdnsVars, bootVars
  <2> QED
    BY <2>1, <2>2, <2>3, <2>4 DEF Next
<1>2. Init => StampRepairs
  BY DEF Init, StampRepairs
<1>3. TypeOK /\ Booting /\ [Next]_vars => Booting'
  BY BootingStep
<1> QED
  BY <1>1, <1>2, <1>3, InitType, InitBooting, TypeStep, PTL DEF Spec

-----------------------------------------------------------------------------
(* The requests on one zone do not overlap: users wait, or there is one thread. *)
Apart == OnePerZone \/ \A r, q \in Requests : r = q

(* A step of a request that is served: it goes on with its job or returns. *)
LEMMA ServedStep ==
  ASSUME TypeOK, NEW r \in Requests, Serve(r), ~Start(r)
  PROVE  /\ Active(r)
         /\ \/ pc'[r] # "idle" /\ job' = job
            \/ pc'[r] = "idle" /\ Finish(r)
         /\ \A q \in Requests \ {r} :
              /\ pc'[q] = pc[q] /\ job'[q] = job[q] /\ keys'[q] = keys[q] /\ ips'[q] = ips[q]
              /\ former'[q] = former[q] /\ cand'[q] = cand[q] /\ at'[q] = at[q] /\ todo'[q] = todo[q]
<1> USE DEF TypeOK, Active, Goto, regVars, Labels, NotFound, ForgetFormer
<1> DEFINE Does ==
      /\ pc[r] # "idle"
      /\ \/ pc'[r] # "idle" /\ job' = job
         \/ pc'[r] = "idle" /\ Finish(r)
      /\ \A q \in Requests \ {r} :
           /\ pc'[q] = pc[q] /\ job'[q] = job[q] /\ keys'[q] = keys[q] /\ ips'[q] = ips[q]
           /\ former'[q] = former[q] /\ cand'[q] = cand[q] /\ at'[q] = at[q] /\ todo'[q] = todo[q]
<1>f. pc[r] # "idle" /\ Finish(r) => Does
  BY DEF Finish
<1>n. pc[r] # "idle" /\ NextKey(r, cand[r]) => Does
  BY <1>f DEF NextKey
<1>l. pc[r] # "idle" /\ LoopError(r) => Does
  BY <1>f, <1>n DEF LoopError
<1> HIDE DEF Does
<1>1. CASE Create(r) \/ Uncatalog(r) \/ Join(r) \/ BackToMaster(r) \/ Unlist(r)
  BY <1>1, <1>f DEF Create, Uncatalog, Join, BackToMaster, Unlist, Does
<1>2. CASE ReadFormer(r) \/ ReadFormerUpd(r) \/ SkipFormer(r)
  BY <1>2, <1>f DEF ReadFormer, ReadFormerUpd, SkipFormer, Does
<1>3. CASE SetKeys(r)
  BY <1>3, <1>f DEF SetKeys, Does
<1>4. CASE MakeKey(r) \/ ReadAxfr(r)
  BY <1>4, <1>f DEF MakeKey, ReadAxfr, Does
<1>5. CASE ReadUpd(r) \/ ReadIps(r)
  <2>1. /\ pc[r] # "idle" /\ UNCHANGED <<job, cand, at, todo>>
        /\ \E l \in {"putUpd", "delUpd", "readIps"} : pc' = [pc EXCEPT ![r] = l]
        /\ \A q \in Requests \ {r} : keys'[q] = keys[q] /\ ips'[q] = ips[q] /\ former'[q] = former[q]
    BY <1>5 DEF ReadUpd, ReadIps, WriteBranch
  <2> QED
    BY <2>1 DEF Does
<1>6. CASE PutUpd(r) \/ DelUpd(r)
  BY <1>6, <1>f DEF PutUpd, DelUpd, Does
<1>7. CASE PutFrom(r) \/ DelFrom(r)
  <2>1. pc[r] # "idle" /\ AccessWritten(r) => Does
    BY <1>f DEF AccessWritten, Does
  <2> QED
    BY <1>7, <1>f, <2>1 DEF PutFrom, DelFrom, Does
<1>8. CASE ListZones(r)
  BY <1>8 DEF ListZones, Does
<1>9. CASE ScanAxfr(r) \/ ScanUpd(r)
  BY <1>9, <1>n, <1>l DEF ScanAxfr, ScanUpd, Does
<1>10. CASE RemoveKey(r) \/ SkipKey(r)
  BY <1>10, <1>n, <1>l DEF RemoveKey, SkipKey, Does
<1>11. CASE DeleteZone(r) \/ SetTargets(r) \/ SetKind(r)
  BY <1>11, <1>f DEF DeleteZone, SetTargets, SetKind, Does
<1>12. CASE Commit(r) \/ Abort(r)
  BY <1>12, <1>f DEF Commit, Abort, Does
<1> QED
  BY <1>1, <1>2, <1>3, <1>4, <1>5, <1>6, <1>7, <1>8, <1>9, <1>10, <1>11, <1>12 DEF Serve, Does

(* Nobody else has a request on the zone that a request asks for. *)
LEMMA StartsApart ==
  ASSUME Apart, TypeOK, Exclusive, NEW r \in Requests, Start(r)
  PROVE  \E j \in Job :
           /\ j.op = "keyDel" => j.key # Primary
           /\ FreshPages => Offered(j)
           /\ job' = [job EXCEPT ![r] = j] /\ Goto(r, Entry(j.op))
           /\ \A q \in Requests : Active(q) => job[q].zone # j.zone
           /\ j.zone \in UserZone /\ j.op \in AllOps /\ pc'[r] = Entry(j.op) /\ pc'[r] # "idle"
<1>1. PICK j \in Job :
        /\ j.op = "keyDel" => j.key # Primary
        /\ FreshPages => Offered(j)
        /\ OnePerZone => \A q \in Requests : job[q].zone # j.zone
        /\ job' = [job EXCEPT ![r] = j] /\ Goto(r, Entry(j.op))
  BY DEF Start
<1>2. j.zone \in UserZone /\ j.op \in AllOps
  BY ConfigAssumption DEF Job
<1>3. Entry(j.op) # "idle"
  BY <1>2 DEF Entry, AllOps, CreateOps, AddOps, KeyOps
<1>4. \A q \in Requests : Active(q) => job[q].zone # j.zone
  BY <1>1 DEF Apart, Start, Active
<1> QED
  BY <1>1, <1>2, <1>3, <1>4 DEF Goto, TypeOK

LEMMA ExclusiveStep ==
  ASSUME Apart, TypeOK, Exclusive, [Next]_vars
  PROVE  Exclusive'
<1> USE DEF Exclusive, Active, TypeOK
<1>1. ASSUME NEW r \in Requests, Serve(r) PROVE Exclusive'
  <2>1. CASE Start(r)
    <3>1. PICK j \in Job :
            /\ job' = [job EXCEPT ![r] = j] /\ Goto(r, Entry(j.op)) /\ pc'[r] # "idle"
            /\ \A q \in Requests : pc[q] # "idle" => job[q].zone # j.zone
      BY <2>1, StartsApart
    <3> QED
      BY <2>1, <3>1 DEF Start, Goto, regVars
  <2>2. CASE ~Start(r)
    <3>1. \/ pc'[r] # "idle" /\ job' = job
          \/ /\ pc'[r] = "idle" /\ job' = [job EXCEPT ![r] = NoJob]
             /\ keys'[r] = {} /\ former'[r] = {}
      BY <1>1, <2>2, ServedStep DEF Finish
    <3>2. /\ pc[r] # "idle"
          /\ \A q \in Requests \ {r} :
               pc'[q] = pc[q] /\ job'[q] = job[q] /\ keys'[q] = keys[q] /\ former'[q] = former[q]
      BY <1>1, <2>2, ServedStep
    <3> QED
      BY <3>1, <3>2
  <2> QED
    BY <2>1, <2>2
<1>2. CASE Bootstrap
  BY <1>2 DEF Bootstrap, EnsureCatalog, EnsureCatalogKeys, ListToStamp, StampZone, BootGivesUp, regVars
<1>3. CASE Restart
  BY <1>3 DEF Restart
<1>4. CASE UNCHANGED vars
  BY <1>4 DEF vars, regVars
<1> QED
  BY <1>1, <1>2, <1>3, <1>4 DEF Next

-----------------------------------------------------------------------------
(* A step of request r touches no other request and no zone but its own. *)
OthersAlone(r) ==
  /\ \A q \in Requests \ {r} :
       /\ pc'[q] = pc[q] /\ job'[q] = job[q] /\ keys'[q] = keys[q]
       /\ former'[q] = former[q] /\ cand'[q] = cand[q]
       /\ at'[q] = at[q] /\ todo'[q] = todo[q]
  /\ \A y \in Zone \ {job[r].zone} : axfr'[y] = axfr[y] /\ upd'[y] = upd[y]
  /\ \/ pc'[r] # "idle" /\ job'[r] = job[r]
     \/ pc'[r] = "idle" /\ job'[r] = NoJob /\ keys'[r] = {} /\ former'[r] = {}

(* After the step only the keys in New belong to the zone of r newly. *)
ClaimsGrowBy(r, New) ==
  \A k \in Private :
    k \in Own(r)' \/ k \in axfr'[job[r].zone] \/ k \in upd'[job[r].zone]
      => k \in Own(r) \/ k \in Refs(job[r].zone) \/ k \in New

(* The keys in Gone have left the zone of r. *)
ClaimsLose(r, Gone) ==
  \A k \in Private \cap Gone :
    /\ k \in Own(r)
    /\ k \notin Own(r)' /\ k \notin axfr'[job[r].zone] /\ k \notin upd'[job[r].zone]

LEMMA OthersKnow ==
  ASSUME KeyInv, NEW r \in Requests, Active(r), OthersAlone(r),
         NEW q \in Requests, q # r
  PROVE  Knows(q)'
<1>1. CASE ~Active(q)
  BY <1>1 DEF KeyInv, Exclusive, Active, OthersAlone, Knows
<1>2. CASE Active(q)
  <2>1. job[q].zone # job[r].zone /\ job[q].zone \in Zone
    BY <1>2 DEF KeyInv, Exclusive, TypeOK, JobOK, Job, Zone
  <2>2. axfr'[job[q].zone] = axfr[job[q].zone] /\ upd'[job[q].zone] = upd[job[q].zone]
    BY <2>1 DEF OthersAlone
  <2>3. Refs(job[q].zone)' = Refs(job[q].zone)
    BY <2>2 DEF OthersAlone, Refs
  <2> QED
    BY <2>1, <2>2, <2>3 DEF KeyInv, OthersAlone, Knows
<1> QED
  BY <1>1, <1>2

LEMMA StaysExclusive ==
  ASSUME KeyInv, NEW r \in Requests, Active(r), OthersAlone(r)
  PROVE  Exclusive'
BY DEF KeyInv, Exclusive, Active, OthersAlone

(* A step that creates New and deletes Gone, its own keys, keeps KeyInv. *)
LEMMA StepInv ==
  ASSUME KeyInv, TypeOK', NEW r \in Requests, Active(r), OthersAlone(r),
         NEW New, NEW Gone, ClaimsGrowBy(r, New), ClaimsLose(r, Gone),
         New \cap tsigkeys = {}, tsigkeys' = (tsigkeys \cup New) \ Gone,
         New \cap Gone = {}, GoneIsBare', Knows(r)'
  PROVE  KeyInv'
<1>0. PICK z \in Zone : z = job[r].zone
  BY DEF KeyInv, TypeOK, JobOK, Job, Zone
<1>1. Exclusive'
  BY StaysExclusive
<1>2. \A q \in Requests : Knows(q)'
  BY OthersKnow
<1>3. \A q \in Requests \ {r} : Own(q)' = Own(q) /\ job'[q] = job[q]
  BY DEF OthersAlone, Own, Pending
<1>4. \A y \in Zone \ {z} : Refs(y)' = Refs(y)
  BY <1>0 DEF OthersAlone, Refs
<1>5. \A k \in Private : k \in Own(r)' \/ k \in Refs(z)'
                           => k \in Own(r) \/ k \in Refs(z) \/ k \in New
  BY <1>0 DEF ClaimsGrowBy, Refs
<1>6. job'[r].zone = z \/ Own(r)' = {}
  BY <1>0 DEF OthersAlone, Own, Pending
<1>7. \A q \in Requests \ {r} : job[q].zone # z \/ Own(q) = {}
  BY <1>0 DEF KeyInv, Exclusive, Own, Pending, Active
<1>n. \A k \in Private \cap New : /\ \A y \in Zone : k \notin Refs(y)
                                  /\ \A q \in Requests : k \notin Own(q)
  BY DEF KeyInv, BelongsAndExists
<1>8. \A k \in Private, q \in Requests \ {r} :
        ~((k \in Refs(z) \/ k \in Own(r) \/ k \in New) /\ k \in Own(q))
  BY <1>7, <1>n DEF KeyInv, BelongsToOne
<1>9. \A k \in Private, y \in Zone \ {z} :
        ~(k \in Refs(y) /\ (k \in Refs(z) \/ k \in Own(r) \/ k \in New))
  BY <1>0, <1>n DEF KeyInv, BelongsToOne
<1>11. BelongsToOne'
  <2>1. \A x, y \in Zone : x # y => Refs(x)' \cap Refs(y)' \cap Private = {}
    BY <1>4, <1>5, <1>9 DEF KeyInv, BelongsToOne
  <2>2. \A q \in Requests, y \in Zone :
           y # job'[q].zone => Refs(y)' \cap Own(q)' \cap Private = {}
    <3>1. ASSUME NEW y \in Zone, y # job'[r].zone
          PROVE  Refs(y)' \cap Own(r)' \cap Private = {}
      BY <3>1, <1>4, <1>5, <1>6, <1>9
    <3>2. ASSUME NEW q \in Requests \ {r}, NEW y \in Zone, y # job'[q].zone
          PROVE  Refs(y)' \cap Own(q)' \cap Private = {}
      BY <3>2, <1>3, <1>4, <1>5, <1>8 DEF KeyInv, BelongsToOne
    <3> QED
      BY <3>1, <3>2
  <2>3. \A p, q \in Requests : p # q => Own(p)' \cap Own(q)' \cap Private = {}
    BY <1>3, <1>5, <1>8 DEF KeyInv, BelongsToOne
  <2> QED
    BY <2>1, <2>2, <2>3 DEF BelongsToOne, Private, Globals
<1>12. BelongsAndExists'
  <2>0. \A k \in Private \cap Gone : k \in Own(r) /\ k \notin Own(r)' /\ k \notin Refs(z)'
    BY <1>0 DEF ClaimsLose, Refs
  <2>1. ASSUME NEW y \in Zone, NEW k \in Private, k \in Refs(y)'
        PROVE  k \in tsigkeys'
    BY <2>0, <2>1, <1>0, <1>4, <1>5, <1>9 DEF KeyInv, BelongsAndExists
  <2>2. ASSUME NEW q \in Requests, NEW k \in Private, k \in Own(q)'
        PROVE  k \in tsigkeys'
    BY <2>0, <2>2, <1>0, <1>3, <1>5, <1>8 DEF KeyInv, BelongsAndExists
  <2> QED
    BY <2>1, <2>2 DEF BelongsAndExists, Private, Globals
<1> QED
  BY <1>1, <1>2, <1>11, <1>12 DEF KeyInv

LEMMA QuietStep ==
  ASSUME KeyInv, TypeOK', NEW r \in Requests, Active(r), OthersAlone(r),
         ClaimsGrowBy(r, {}), UNCHANGED tsigkeys, GoneIsBare', Knows(r)'
  PROVE  KeyInv'
<1>1. ClaimsLose(r, {})
  BY DEF ClaimsLose
<1> QED
  BY <1>1, StepInv

(* A request that returns forgets its keys. *)
LEMMA FinishStep ==
  ASSUME KeyInv, TypeOK', NEW r \in Requests, Active(r), Finish(r),
         UNCHANGED <<exists, axfr, upd, tsigkeys>>
  PROVE  KeyInv'
<1> USE DEF KeyInv, TypeOK, Goto
<1>1. OthersAlone(r)
  BY DEF Finish, OthersAlone
<1>2. ClaimsGrowBy(r, {})
  BY DEF Finish, ClaimsGrowBy, Own, Pending, Refs
<1>3. Knows(r)'
  BY DEF Finish, Knows
<1>4. GoneIsBare'
  BY DEF GoneIsBare, Zone
<1> QED
  BY <1>1, <1>2, <1>3, <1>4, QuietStep
(* A step in which nothing comes to belong to the zone of r. *)
Harmless(r) ==
  /\ OthersAlone(r)
  /\ ClaimsGrowBy(r, {})
  /\ GoneIsBare'
  /\ Knows(r)'

LEMMA ServeKeyInv ==
  ASSUME Apart, FreshPages, KeyInv, NEW r \in Requests, Serve(r)
  PROVE  KeyInv'
<1>t. TypeOK'
  BY ServeType DEF KeyInv
<1>f. Active(r) /\ Finish(r) /\ UNCHANGED <<exists, axfr, upd, tsigkeys>> => KeyInv'
  BY <1>t, FinishStep
<1>h. Active(r) /\ Harmless(r) /\ UNCHANGED tsigkeys => KeyInv'
  BY <1>t, QuietStep DEF Harmless
<1>z. Active(r) => job[r] \in Job /\ job[r].zone \in Zone /\ job[r].zone \in UserZone
  BY DEF KeyInv, TypeOK, JobOK, Job, Zone
<1>k. Active(r) /\ job[r].op \in KeyOps => job[r].key \in Key /\ job[r].key # NoKey
  BY <1>z, ConfigAssumption DEF Job
<1>s. CASE Start(r)
  <2>0. PICK j \in Job :
          /\ \A q \in Requests : Active(q) => job[q].zone # j.zone
          /\ Offered(j)
          /\ job' = [job EXCEPT ![r] = j]
          /\ Goto(r, Entry(j.op))
    BY <1>s, StartsApart DEF KeyInv
  <2>1. /\ pc[r] = "idle" /\ keys[r] = {} /\ former[r] = {}
        /\ UNCHANGED <<exists, axfr, upd, tsigkeys, keys, former, cand, at, todo>>
    BY <1>s DEF Start, KeyInv, Exclusive, Active, pdnsVars, regVars
  <2>2. /\ job'[r] = j /\ pc'[r] = Entry(j.op)
        /\ j.zone \in Zone /\ j.zone \in UserZone /\ j.op \in AllOps
    BY <2>0, ConfigAssumption DEF KeyInv, TypeOK, Goto, Job, Zone
  <2>3. \A q \in Requests \ {r} : job'[q] = job[q] /\ pc'[q] = pc[q]
    BY <2>0 DEF KeyInv, TypeOK, Goto
  <2>4. /\ pc'[r] \in {"create", "uncatalog", "former", "mkkey", "readAxfr",
                       "readUpd", "targets"}
        /\ pc'[r] = "readAxfr" => j.op = "keyDel"
        /\ pc'[r] = "readUpd" => j.op \in {"updDel", "setIps"}
    BY <2>2 DEF Entry, AllOps, CreateOps, AddOps, KeyOps
  <2>5. \A k \in Private : k \in Own(r)' => k \in Refs(j.zone)
    BY <2>0, <2>1, <2>2, <2>4, ConfigAssumption
       DEF Own, Pending, Private, Offered, Refs, Job, KeyOps, CreateOps
  <2>6. \A q \in Requests \ {r} : Own(q)' = Own(q) /\ Knows(q)'
    BY <2>1, <2>3 DEF Own, Pending, KeyInv, Knows, Refs
  <2>7. \A y \in Zone : Refs(y)' = Refs(y)
    BY <2>1 DEF Refs
  <2>8. \A q \in Requests \ {r} : job[q].zone # j.zone
    BY <2>0, <2>2, ConfigAssumption DEF KeyInv, Exclusive, NoJob
  <2>9. Exclusive'
    BY <2>1, <2>2, <2>3, <2>4, <2>8 DEF KeyInv, Exclusive, Active
  <2>10. Knows(r)'
    BY <2>1, <2>4 DEF Knows
  <2>11. BelongsToOne'
    <3>1. \A q \in Requests, y \in Zone :
             y # job'[q].zone => Refs(y)' \cap Own(q)' \cap Private = {}
      BY <2>2, <2>3, <2>5, <2>6, <2>7 DEF KeyInv, BelongsToOne
    <3>2. \A p, q \in Requests : p # q => Own(p)' \cap Own(q)' \cap Private = {}
      BY <2>2, <2>3, <2>5, <2>6, <2>8 DEF KeyInv, BelongsToOne
    <3> QED
      BY <2>7, <3>1, <3>2 DEF KeyInv, BelongsToOne, Private, Globals
  <2>12. BelongsAndExists'
    BY <2>1, <2>2, <2>5, <2>6, <2>7 DEF KeyInv, BelongsAndExists, Private, Globals
  <2>13. GoneIsBare'
    BY <2>1 DEF KeyInv, GoneIsBare, Zone
  <2> QED
    BY <1>t, <2>6, <2>9, <2>10, <2>11, <2>12, <2>13 DEF KeyInv
<1>m. CASE MakeKey(r) /\ job[r].key \notin tsigkeys
  <2> DEFINE k == job[r].key
  <2> USE DEF KeyInv, TypeOK, JobOK, Active, pdnsVars, regVars, Goto
  <2>1. OthersAlone(r) /\ tsigkeys' = (tsigkeys \cup {k}) \ {}
    BY <1>m DEF MakeKey, OthersAlone
  <2>2. ClaimsGrowBy(r, {k})
    BY <1>m DEF MakeKey, ClaimsGrowBy, Own, Pending, Refs
  <2>3. GoneIsBare' /\ Knows(r)'
    BY <1>m DEF MakeKey, GoneIsBare, Knows, Zone
  <2>4. ClaimsLose(r, {})
    BY DEF ClaimsLose
  <2> QED
    BY <1>t, <1>m, <2>1, <2>2, <2>3, <2>4, StepInv DEF MakeKey
<1>d. CASE RemoveKey(r)
  <2> DEFINE k == cand[r]
  <2> USE DEF KeyInv, TypeOK, JobOK, Active, pdnsVars, regVars, Goto
  <2>0. pc[r] = "rmkey" /\ (NextKey(r, k) \/ Finish(r)) /\ tsigkeys' = (tsigkeys \cup {}) \ {k}
    BY <1>d DEF RemoveKey, LoopError
  <2>1. OthersAlone(r)
    BY <1>d, <2>0 DEF RemoveKey, OthersAlone, NextKey, Finish
  <2>2. ClaimsGrowBy(r, {})
    BY <1>d, <2>0 DEF RemoveKey, ClaimsGrowBy, Own, Pending, Refs, NextKey, Finish
  <2>3. GoneIsBare' /\ Knows(r)'
    BY <1>d, <2>0 DEF RemoveKey, GoneIsBare, Knows, Zone, NextKey, Finish
  <2>4. ClaimsLose(r, {k})
    BY <1>d, <2>0 DEF RemoveKey, ClaimsLose, Knows, Own, Pending, Refs, NextKey, Finish
  <2> QED
    BY <1>t, <2>0, <2>1, <2>2, <2>3, <2>4, StepInv
<1> USE <1>f, <1>h, <1>z DEF KeyInv, TypeOK, JobOK, Active, pdnsVars, regVars, bootVars, Goto
<1> USE DEF Harmless, OthersAlone, ClaimsGrowBy, Own, Pending, Refs, Private, Knows, GoneIsBare, NotFound
<1>1. CASE Create(r)
  BY <1>1 DEF Create
<1>2. CASE Uncatalog(r)
  BY <1>2 DEF Uncatalog
<1>3. CASE ReadFormer(r)
  BY <1>3 DEF ReadFormer, ForgetFormer
<1>4. CASE Join(r)
  BY <1>4 DEF Join
<1>5. CASE BackToMaster(r)
  BY <1>5 DEF BackToMaster
<1>6. CASE Unlist(r)
  BY <1>6 DEF Unlist
<1>7. CASE ReadAxfr(r)
  BY <1>7, <1>k, SMTT(40) DEF ReadAxfr, KeyOps
<1>8. CASE ReadUpd(r)
  BY <1>8, <1>k, SMTT(40) DEF ReadUpd, EditedUpd, WriteBranch, KeyOps
<1>9. CASE ReadIps(r)
  BY <1>9 DEF ReadIps, WriteBranch
<1>10. CASE PutUpd(r)
  BY <1>10, SMTT(40) DEF PutUpd
<1>11. CASE PutFrom(r)
  BY <1>11, SMTT(40) DEF PutFrom, AccessWritten, Finish
<1>12. CASE DelUpd(r)
  BY <1>12 DEF DelUpd
<1>13. CASE DelFrom(r)
  BY <1>13 DEF DelFrom, AccessWritten, Finish
<1>14. CASE ListZones(r)
  BY <1>14 DEF ListZones
<1>15. CASE ScanAxfr(r)
  BY <1>15, SMTT(40) DEF ScanAxfr, MayTransfer, NextKey, LoopError
<1>16. CASE ScanUpd(r)
  BY <1>16, SMTT(40) DEF ScanUpd, NextKey
<1>17. CASE ReadFormerUpd(r)
  BY <1>17 DEF ReadFormerUpd
<1>18. CASE SetTargets(r)
  BY <1>18 DEF SetTargets
<1>19. CASE SetKind(r)
  BY <1>19 DEF SetKind
<1>20. CASE SetKeys(r)
  BY <1>20, SMTT(40) DEF SetKeys, NewKeys, Globals, Finish
<1>21. CASE DeleteZone(r)
  BY <1>21, SMTT(40) DEF DeleteZone
<1>22. CASE Commit(r)
  BY <1>22 DEF Commit, Rows
<1>23. CASE Abort(r)
  BY <1>23 DEF Abort
<1>24. CASE SkipKey(r)
  BY <1>24 DEF SkipKey, NextKey
<1>25. CASE SkipFormer(r)
  BY <1>25 DEF SkipFormer, ForgetFormer
<1>o. CASE MakeKey(r) /\ job[r].key \in tsigkeys
  BY <1>o DEF MakeKey
<1> QED
  BY <1>s, <1>m, <1>o, <1>d, <1>1, <1>2, <1>3, <1>4, <1>5, <1>6, <1>7, <1>8, <1>9,
     <1>10, <1>11, <1>12, <1>13, <1>14, <1>15, <1>16, <1>17, <1>18, <1>19, <1>20,
     <1>21, <1>22, <1>23, <1>24, <1>25 DEF Serve, MakeKey

(* The start-up stamp and a restart keep KeyInv too: they write configured
   keys only, and drop every request. *)
LEMMA StartUpKeyInv ==
  ASSUME KeyInv, TypeOK', Booting, Bootstrap \/ Restart
  PROVE  KeyInv'
<1> USE DEF KeyInv, TypeOK, pdnsVars, regVars
<1>1. CASE Bootstrap
  <2> USE <1>1 DEF Bootstrap, EnsureCatalog, EnsureCatalogKeys, ListToStamp, ToStamp, StampZone, BootGivesUp
  <2>1. UNCHANGED <<upd, tsigkeys, pc, job, keys, former, cand, at, todo>> /\ exists \subseteq exists'
    OBVIOUS
  <2>2. \A z \in Zone : axfr'[z] = axfr[z] \/ (axfr'[z] = Globals /\ z \in exists')
    BY DEF Booting
  <2>3. \A z \in Zone : \A k \in Private : k \in Refs(z)' => k \in Refs(z)
    BY <2>1, <2>2 DEF Refs, Private
  <2>4. \A r \in Requests : Own(r)' = Own(r) /\ ~Active(r) /\ ~Active(r)'
    BY <2>1 DEF Own, Pending, Booting, Active
  <2>5. Exclusive'
    BY <2>1 DEF Exclusive, Active
  <2>6. BelongsToOne' /\ BelongsAndExists'
    BY <2>1, <2>3, <2>4 DEF BelongsToOne, BelongsAndExists, Private, Globals, Zone
  <2>7. GoneIsBare'
    BY <2>1, <2>2 DEF GoneIsBare, Zone
  <2>8. \A r \in Requests : Knows(r)'
    BY <2>1, <2>4 DEF Knows, Active
  <2> QED
    BY <2>5, <2>6, <2>7, <2>8
<1>2. CASE Restart
  <2>1. Exclusive' /\ GoneIsBare' /\ \A r \in Requests : Knows(r)'
    BY <1>2 DEF Restart, Exclusive, GoneIsBare, Knows, Active, Zone
  <2>2. \A r \in Requests : Own(r)' = {}
    BY <1>2 DEF Restart, Own, Pending
  <2>3. \A z \in Zone : Refs(z)' = Refs(z)
    BY <1>2 DEF Restart, Refs
  <2>4. BelongsToOne' /\ BelongsAndExists'
    BY <1>2, <2>2, <2>3 DEF Restart, BelongsToOne, BelongsAndExists, Private, Globals, Zone
  <2> QED
    BY <2>1, <2>4
<1> QED
  BY <1>1, <1>2

(* KeyInv is inductive. *)
LEMMA KeyInvStep ==
  ASSUME Apart, FreshPages, KeyInv, Booting, [Next]_vars
  PROVE  KeyInv'
<1>1. TypeOK'
  BY TypeStep DEF KeyInv
<1>2. ASSUME NEW r \in Requests, Serve(r) PROVE KeyInv'
  BY <1>2, ServeKeyInv
<1>3. CASE UNCHANGED vars
  BY <1>1, <1>3 DEF vars, pdnsVars, regVars, bootVars, KeyInv, Exclusive, Active, GoneIsBare,
     BelongsToOne, BelongsAndExists, Own, Pending, Knows, Refs, Private, Globals, Zone
<1> QED
  BY <1>1, <1>2, <1>3, StartUpKeyInv DEF Next

LEMMA InitKeyInv == Init => KeyInv /\ Booting
BY InitType DEF Init, KeyInv, Booting, Exclusive, Active, GoneIsBare, BelongsToOne,
   BelongsAndExists, Own, Pending, Knows, Refs, Private, Globals, Zone

LEMMA KeysHold ==
  ASSUME Apart, FreshPages
  PROVE  Spec => [](KeyInv /\ Booting)
<1>1. KeyInv /\ Booting /\ [Next]_vars => KeyInv' /\ Booting'
  BY KeyInvStep, BootingStep DEF KeyInv
<1> QED
  BY <1>1, InitKeyInv, PTL DEF Spec

(* When the requests on one zone do not overlap and users submit fresh pages, a
   per-zone key that a zone trusts exists, whatever the number of threads, zones
   and keys, and wherever requests fail or the panel is restarted. *)
THEOREM TrustedKeysExist ==
  ASSUME Apart, FreshPages
  PROVE  Spec => []ReferencedKeysExist
<1>1. KeyInv => ReferencedKeysExist
  BY DEF KeyInv, TypeOK, Refs, BelongsAndExists, ReferencedKeysExist, Private
<1> QED
  BY <1>1, KeysHold, PTL

(* Under the same conditions no two zones trust the same per-zone key. *)
THEOREM KeysStayWithTheirZone ==
  ASSUME Apart, FreshPages
  PROVE  Spec => []OneTrustDomain
<1>1. KeyInv => OneTrustDomain
  BY DEF KeyInv, TypeOK, Refs, BelongsToOne, OneTrustDomain, Private
<1> QED
  BY <1>1, KeysHold, PTL

-----------------------------------------------------------------------------
(* The one behind RestrictionKept: what a request writes back is what it read,
   unless it is the user's new restriction. *)
WritesBack ==
  /\ Exclusive
  /\ \A r \in Requests :
       /\ pc[r] \in {"putUpd", "putFrom"} /\ job[r].op # "setIps" => ips[r] = UserIps(job[r].zone)
       /\ pc[r] = "delFrom" => upd[job[r].zone] = {}

(* A request changes the update keys and the address gate of its zone only. *)
LEMMA OthersGates ==
  ASSUME TypeOK, Exclusive, NEW r \in Requests, Serve(r), ~Start(r),
         NEW q \in Requests, q # r, Active(q)
  PROVE  LET z == job[q].zone IN z \in Zone /\ upd'[z] = upd[z] /\ from'[z] = from[z]
<1> DEFINE z == job[q].zone
<1>1. z \in Zone /\ z # job[r].zone /\ job[r].zone \in Zone
  BY ServedStep DEF Exclusive, TypeOK, JobOK, Job, Zone
<1>2. \/ UNCHANGED <<upd, from>>
      \/ PutUpd(r) \/ PutFrom(r) \/ DelUpd(r) \/ DelFrom(r) \/ DeleteZone(r)
  BY DEF Serve, Create, Uncatalog, ReadFormer, Join, BackToMaster, Unlist, SetKeys,
     MakeKey, ReadAxfr, ReadUpd, ReadIps, ListZones, ScanAxfr, ScanUpd, RemoveKey, ReadFormerUpd,
     SetTargets, SetKind, Commit, Abort, SkipFormer, ForgetFormer, SkipKey, NotFound, pdnsVars
<1> HIDE DEF z
<1>t. upd \in [Zone -> SUBSET Key] /\ from \in [Zone -> SUBSET Range]
  BY DEF TypeOK
<1>3. PutUpd(r) \/ DelUpd(r) => upd'[z] = upd[z] /\ from'[z] = from[z]
  BY <1>1, <1>t DEF PutUpd, DelUpd, NotFound, pdnsVars
<1>4. PutFrom(r) \/ DelFrom(r) => upd'[z] = upd[z] /\ from'[z] = from[z]
  BY <1>1, <1>t DEF PutFrom, DelFrom, NotFound, pdnsVars
<1>5. DeleteZone(r) => upd'[z] = upd[z] /\ from'[z] = from[z]
  BY <1>1, <1>t DEF DeleteZone, NotFound, pdnsVars
<1> QED
  BY <1>1, <1>2, <1>3, <1>4, <1>5 DEF z

(* What r itself is about to write back. *)
WritesBackOwn(r) ==
  /\ pc[r] \in {"putUpd", "putFrom"} /\ job[r].op # "setIps" => ips[r] = UserIps(job[r].zone)
  /\ pc[r] = "delFrom" => upd[job[r].zone] = {}

LEMMA OwnWritesBack ==
  ASSUME TypeOK, NEW r \in Requests, Serve(r), ~Start(r), WritesBackOwn(r)
  PROVE  WritesBackOwn(r)'
<1>1. pc[r] # "idle" /\ job[r] \in Job /\ job[r].zone \in Zone
  BY ServedStep DEF Active, TypeOK, JobOK, Job, Zone
<1>2. CASE pc'[r] \notin {"putUpd", "putFrom", "delFrom"}
  BY <1>2 DEF WritesBackOwn
<1>3. CASE pc'[r] \in {"putUpd", "putFrom", "delFrom"}
  <2>1. ReadUpd(r) \/ ReadIps(r) \/ PutUpd(r) \/ DelUpd(r)
    BY <1>3, <1>1 DEF Serve, Create, Uncatalog, ReadFormer, Join, BackToMaster, Unlist, SetKeys,
     MakeKey, ReadAxfr, PutFrom, DelFrom, ListZones, ScanAxfr, ScanUpd, RemoveKey, ReadFormerUpd,
     DeleteZone, SetTargets, SetKind, Commit, Abort, SkipFormer, ForgetFormer, SkipKey, NotFound,
     NextKey, LoopError, AccessWritten, Finish, Goto, TypeOK
  <2>2. CASE ReadUpd(r)
    <3>1. job[r].op = "setIps" /\ pc'[r] # "delFrom" /\ job' = job
      BY <1>3, <2>2 DEF ReadUpd, WriteBranch, Goto, TypeOK
    <3> QED
      BY <3>1 DEF WritesBackOwn
  <2>3. CASE ReadIps(r)
    <3>1. ips'[r] = UserIps(job[r].zone) /\ pc'[r] # "delFrom" /\ job' = job /\ from' = from
      BY <2>3 DEF ReadIps, WriteBranch, Goto, TypeOK, pdnsVars
    <3> QED
      BY <3>1 DEF WritesBackOwn, UserIps
  <2>4. CASE PutUpd(r)
    BY <1>1, <1>3, <2>4 DEF PutUpd, NotFound, Finish, WritesBackOwn, Goto, TypeOK, UserIps, regVars
  <2>5. CASE DelUpd(r)
    BY <1>1, <2>5 DEF DelUpd, WritesBackOwn, Goto, TypeOK
  <2> QED
    BY <2>1, <2>2, <2>3, <2>4, <2>5
<1> QED
  BY <1>2, <1>3

LEMMA WritesBackStep ==
  ASSUME Apart, TypeOK, WritesBack, [Next]_vars
  PROVE  WritesBack'
<1>x. Exclusive'
  BY ExclusiveStep DEF WritesBack
<1>0. WritesBack <=> Exclusive /\ \A r \in Requests : WritesBackOwn(r)
  BY DEF WritesBack, WritesBackOwn
<1> SUFFICES \A q \in Requests : WritesBackOwn(q)'
  BY <1>x DEF WritesBack, WritesBackOwn
<1>1. ASSUME NEW r \in Requests, Serve(r), NEW q \in Requests PROVE WritesBackOwn(q)'
  <2>1. CASE Start(r)
    <3>1. UNCHANGED <<upd, from, ips>>
      BY <2>1 DEF Start, pdnsVars, regVars
    <3>2. CASE q = r
      <4>1. PICK j \in Job : j.op \in AllOps /\ pc'[r] = Entry(j.op)
        BY <1>0, <2>1, StartsApart
      <4>2. pc'[r] \notin {"putUpd", "putFrom", "delFrom"}
        BY <4>1 DEF Entry, AllOps, CreateOps, AddOps, KeyOps
      <4> QED
        BY <3>2, <4>2 DEF WritesBackOwn
    <3>3. CASE q # r
      <4>1. pc'[q] = pc[q] /\ job'[q] = job[q]
        BY <2>1, <3>3 DEF Start, Goto, TypeOK
      <4> QED
        BY <1>0, <3>1, <4>1 DEF WritesBackOwn, UserIps
    <3> QED
      BY <3>2, <3>3
  <2>2. CASE ~Start(r)
    <3>1. CASE q = r
      BY <1>0, <1>1, <2>2, <3>1, OwnWritesBack
    <3>2. CASE q # r /\ Active(q)
      <4>1. pc'[q] = pc[q] /\ job'[q] = job[q] /\ ips'[q] = ips[q]
        BY <1>1, <2>2, <3>2, ServedStep
      <4>2. upd'[job[q].zone] = upd[job[q].zone] /\ from'[job[q].zone] = from[job[q].zone]
        BY <1>0, <1>1, <2>2, <3>2, OthersGates
      <4> QED
        BY <1>0, <4>1, <4>2 DEF WritesBackOwn, UserIps
    <3>3. CASE q # r /\ ~Active(q)
      <4>1. pc'[q] = "idle"
        BY <1>1, <2>2, <3>3, ServedStep DEF Active
      <4> QED
        BY <4>1 DEF WritesBackOwn
    <3> QED
      BY <3>1, <3>2, <3>3
  <2> QED
    BY <2>1, <2>2
<1>2. CASE Bootstrap
  BY <1>0, <1>2 DEF Bootstrap, EnsureCatalog, EnsureCatalogKeys, ListToStamp, StampZone, BootGivesUp,
     regVars, pdnsVars, WritesBackOwn, UserIps
<1>3. CASE Restart
  BY <1>3 DEF Restart, WritesBackOwn
<1>4. CASE UNCHANGED vars
  BY <1>0, <1>4 DEF vars, regVars, pdnsVars, WritesBackOwn, UserIps
<1> QED
  BY <1>1, <1>2, <1>3, <1>4 DEF Next

(* A user's restriction of the update sources outlives the changes of the keys,
   whatever fails, as long as the requests on one zone do not overlap. *)
THEOREM RestrictionsOutlive ==
  ASSUME Apart
  PROVE  Spec => RestrictionKept
<1> DEFINE Kept ==
      \A z \in exists \cap exists' :
        /\ from[z] \notin {{}, AnySource}
        /\ from'[z] # from[z]
        => \/ \E r \in Requests : job[r].op = "setIps" /\ job[r].zone = z
           \/ upd'[z] = {}
<1>1. TypeOK /\ WritesBack /\ [Next]_vars => Kept
  <2> SUFFICES ASSUME TypeOK, WritesBack, [Next]_vars, NEW z \in exists \cap exists',
                      from[z] \notin {{}, AnySource}, from'[z] # from[z]
               PROVE  \/ \E r \in Requests : job[r].op = "setIps" /\ job[r].zone = z
                      \/ upd'[z] = {}
    OBVIOUS
  <2>1. PICK r \in Requests : Serve(r)
    BY DEF Next, Bootstrap, EnsureCatalog, EnsureCatalogKeys, ListToStamp, StampZone, BootGivesUp,
       Restart, vars, pdnsVars
  <2>2. PutFrom(r) \/ DelFrom(r) \/ DeleteZone(r)
    BY <2>1 DEF Serve, Start, Create, Uncatalog, ReadFormer, Join, BackToMaster, Unlist, SetKeys,
     MakeKey, ReadAxfr, ReadUpd, ReadIps, PutUpd, DelUpd, ListZones, ScanAxfr, ScanUpd, RemoveKey,
     ReadFormerUpd, SetTargets, SetKind, Commit, Abort, SkipFormer, ForgetFormer, SkipKey,
     NotFound, pdnsVars
  <2>3. z \in Zone
    BY DEF TypeOK
  <2>4. CASE PutFrom(r)
    <3>1. z = job[r].zone /\ pc[r] = "putFrom"
          /\ from'[z] = IF ips[r] # {} THEN ips[r] ELSE AnySource
      BY <2>3, <2>4 DEF PutFrom, NotFound, pdnsVars, TypeOK
    <3>2. CASE job[r].op # "setIps"
      BY <3>1, <3>2 DEF WritesBack, UserIps
    <3> QED
      BY <3>1, <3>2
  <2>5. CASE DelFrom(r)
    BY <2>3, <2>5 DEF DelFrom, WritesBack, TypeOK
  <2>6. CASE DeleteZone(r)
    BY <2>3, <2>6 DEF DeleteZone, NotFound, pdnsVars, TypeOK
  <2> QED
    BY <2>2, <2>4, <2>5, <2>6
<1>2. Init => WritesBack
  BY DEF Init, WritesBack, Exclusive, Active
<1>3. TypeOK /\ WritesBack /\ [Next]_vars => WritesBack'
  BY WritesBackStep
<1>4. Spec => [][Kept]_vars
  BY <1>1, <1>2, <1>3, InitType, TypeStep, PTL DEF Spec
<1> QED
  BY <1>4 DEF RestrictionKept

-----------------------------------------------------------------------------
(* No request is about to delete the primary key: zone_key_delete refuses it,
   and the others clean up per-zone keys only. *)
PrimaryStays ==
  \A r \in Requests :
    /\ Primary \notin former[r]
    /\ pc[r] = "readAxfr" /\ job[r].op = "keyDel" => job[r].key # Primary

(* A step of r that leaves its former keys alone. *)
GoesOn(r) ==
  /\ UNCHANGED <<former, job>>
  /\ \E l \in Labels \ {"readAxfr"} : pc' = [pc EXCEPT ![r] = l]

LEMMA GoingOnKeepsPrimary ==
  ASSUME TypeOK, PrimaryStays, NEW r \in Requests,
         Finish(r) \/ GoesOn(r) \/ NextKey(r, cand[r]) \/ ForgetFormer(r)
  PROVE  PrimaryStays'
<1> USE DEF PrimaryStays, TypeOK, Goto
<1>1. CASE Finish(r)
  BY <1>1 DEF Finish
<1>2. CASE GoesOn(r)
  BY <1>2 DEF GoesOn
<1>3. CASE NextKey(r, cand[r])
  BY <1>1, <1>3 DEF NextKey
<1>4. CASE ForgetFormer(r)
  BY <1>4 DEF ForgetFormer
<1> QED
  BY <1>1, <1>2, <1>3, <1>4

LEMMA PrimaryStep ==
  ASSUME TypeOK, PrimaryStays, [Next]_vars
  PROVE  PrimaryStays'
<1>1. ASSUME NEW r \in Requests, Serve(r) PROVE PrimaryStays'
  <2>0. CASE Finish(r) \/ GoesOn(r) \/ NextKey(r, cand[r]) \/ ForgetFormer(r)
    BY <2>0, GoingOnKeepsPrimary
  <2>1. CASE Start(r)
    <3>1. PICK j \in Job :
            /\ j.op = "keyDel" => j.key # Primary
            /\ job' = [job EXCEPT ![r] = j] /\ UNCHANGED former
            /\ pc' = [pc EXCEPT ![r] = Entry(j.op)]
      BY <2>1 DEF Start, Goto, regVars
    <3> QED
      BY <3>1 DEF PrimaryStays, TypeOK
  <2>2. CASE ReadFormer(r)
    <3>1. CASE former' = [former EXCEPT ![r] = axfr[job[r].zone] \ Globals]
               /\ job' = job /\ pc'[r] \in {"formerUpd", "join"}
               /\ \A q \in Requests : q # r => pc'[q] = pc[q]
      BY <3>1 DEF PrimaryStays, TypeOK, Globals
    <3> QED
      BY <2>0, <2>2, <3>1 DEF ReadFormer, NotFound, Goto, TypeOK
  <2>3. CASE ReadFormerUpd(r)
    BY <2>3 DEF ReadFormerUpd, PrimaryStays, TypeOK, Goto, Globals
  <2>4. CASE ReadAxfr(r)
    <3>1. CASE /\ former' = [former EXCEPT ![r] = IF job[r].op = "keyDel" THEN {job[r].key} ELSE {}]
               /\ pc[r] = "readAxfr" /\ pc' = [pc EXCEPT ![r] = "setkeys"] /\ job' = job
      BY <3>1 DEF PrimaryStays, TypeOK
    <3> QED
      BY <2>0, <2>4, <3>1 DEF ReadAxfr, NotFound, Goto
  <2>5. CASE ReadUpd(r)
    <3>1. former' = [former EXCEPT ![r] = IF job[r].op = "updDel" THEN {job[r].key} \ Globals ELSE {}]
      BY <2>5 DEF ReadUpd
    <3>2. job' = job /\ \E l \in {"putUpd", "delUpd", "readIps"} : pc' = [pc EXCEPT ![r] = l]
      BY <2>5 DEF ReadUpd, WriteBranch, Goto
    <3> QED
      BY <3>1, <3>2 DEF PrimaryStays, TypeOK, Globals
  <2>6. CASE MakeKey(r)
    <3>1. CASE /\ UNCHANGED <<former, job>> /\ pc[r] = "mkkey"
               /\ pc' = [pc EXCEPT ![r] = IF job[r].op = "keyAdd" THEN "readAxfr" ELSE "readUpd"]
      BY <3>1 DEF PrimaryStays, TypeOK
    <3> QED
      BY <2>0, <2>6, <3>1 DEF MakeKey, Goto, regVars
  <2> USE DEF GoesOn, Goto, regVars, NotFound, Labels
  <2>7. CASE Create(r) \/ Uncatalog(r) \/ Join(r) \/ BackToMaster(r) \/ Unlist(r)
    BY <2>0, <2>7 DEF Create, Uncatalog, Join, BackToMaster, Unlist
  <2>8. CASE SetKeys(r)
    BY <2>0, <2>8 DEF SetKeys
  <2>9. CASE ReadIps(r) \/ PutUpd(r) \/ PutFrom(r) \/ DelUpd(r) \/ DelFrom(r)
    BY <2>0, <2>9
    DEF ReadIps, WriteBranch, PutUpd, PutFrom, DelUpd, DelFrom, AccessWritten
  <2>10. CASE ListZones(r) \/ ScanAxfr(r) \/ ScanUpd(r) \/ RemoveKey(r)
    BY <2>0, <2>10 DEF ListZones, ScanAxfr, ScanUpd, RemoveKey, LoopError
  <2>11. CASE DeleteZone(r) \/ SetTargets(r) \/ SetKind(r) \/ Commit(r)
    BY <2>0, <2>11 DEF DeleteZone, SetTargets, SetKind, Commit
  <2>12. CASE Abort(r) \/ SkipKey(r) \/ SkipFormer(r)
    BY <2>0, <2>12 DEF Abort, SkipKey, SkipFormer
  <2> QED
    BY <1>1, <2>1, <2>2, <2>3, <2>4, <2>5, <2>6, <2>7, <2>8, <2>9, <2>10, <2>11, <2>12
    DEF Serve
<1>2. CASE Bootstrap
  BY <1>2 DEF Bootstrap, EnsureCatalog, EnsureCatalogKeys, ListToStamp, StampZone, BootGivesUp,
     PrimaryStays, regVars
<1>3. CASE Restart
  BY <1>3 DEF Restart, PrimaryStays
<1>4. CASE UNCHANGED vars
  BY <1>4 DEF vars, regVars, PrimaryStays
<1> QED
  BY <1>1, <1>2, <1>3, <1>4 DEF Next

(* Only delete_tsig_key deletes keys. *)
LEMMA OnlyRemoveKeyDeletes ==
  ASSUME [Next]_vars, NEW k \in tsigkeys \ tsigkeys'
  PROVE  \E r \in Requests : pc[r] = "rmkey" /\ k = cand[r]
<1> USE DEF pdnsVars
<1>1. ASSUME NEW r \in Requests, Serve(r) PROVE pc[r] = "rmkey" /\ k = cand[r]
  <2>1. CASE RemoveKey(r)
    BY <2>1 DEF RemoveKey
  <2>2. CASE MakeKey(r)
    BY <2>2 DEF MakeKey
  <2> QED
    BY <1>1, <2>1, <2>2
    DEF Serve, Start, Create, Uncatalog, ReadFormer, Join, BackToMaster, Unlist, SetKeys,
        ReadAxfr, ReadUpd, ReadIps, PutUpd, PutFrom, DelUpd, DelFrom, ListZones, ScanAxfr,
        ScanUpd, ReadFormerUpd, DeleteZone, SetTargets, SetKind, Commit, Abort, SkipFormer,
        ForgetFormer, SkipKey, NotFound
<1>2. CASE Bootstrap
  BY <1>2 DEF Bootstrap, EnsureCatalog, EnsureCatalogKeys, ListToStamp, StampZone, BootGivesUp
<1>3. CASE Restart
  BY <1>3 DEF Restart
<1>4. CASE UNCHANGED vars
  BY <1>4 DEF vars
<1> QED
  BY <1>1, <1>2, <1>3, <1>4 DEF Next

-----------------------------------------------------------------------------
(***************************************************************************)
(* The inductive invariant behind ModeKeys, GateUnlessHurt, NotifyScoped   *)
(* and ZonesOwned, when the requests on one zone do not overlap and forms  *)
(* are fresh: a zone that no failure has hurt is in order when nobody      *)
(* works on it, and a request leaves it out of order only where it is      *)
(* about to put it right.                                                  *)
(***************************************************************************)
WellKeyed(z) ==
  IF Custom(z) THEN axfr[z] \cap Globals = {Primary} ELSE axfr[z] = Globals

Gated(z) == from[z] # {} <=> upd[z] # {}

Scoped(z) == IF Custom(z) THEN z \in listed <=> z \in native ELSE z \notin listed \cup native

Bare(z) ==
  /\ axfr[z] = {} /\ upd[z] = {} /\ from[z] = {}
  /\ z \notin member \cup native \cup listed

InOrder(z) ==
  /\ z \in exists => WellKeyed(z) /\ Gated(z) /\ Scoped(z)
  /\ z \in owned <=> z \in exists

CleanUp == {"list", "scanAxfr", "scanUpd", "rmkey"}
Writes  == {"putUpd", "putFrom", "delUpd", "delFrom"}

(* the calls an operation makes *)
Course(op) ==
  CASE op \in CreateOps -> {"create", "setkeys", "commit"}
    [] op = "toCustom"  -> {"uncatalog", "setkeys"}
    [] op = "toCatalog" -> {"former", "join", "master", "unlist", "setkeys"} \cup CleanUp
    [] op = "keyAdd"    -> {"mkkey", "readAxfr", "setkeys"}
    [] op = "keyDel"    -> {"readAxfr", "setkeys"} \cup CleanUp
    [] op = "updAdd"    -> {"mkkey", "readUpd", "readIps"} \cup Writes
    [] op = "updDel"    -> {"readUpd", "readIps"} \cup Writes \cup CleanUp
    [] op = "setIps"    -> {"readUpd"} \cup Writes
    [] op = "delete"    -> {"former", "formerUpd", "delzone", "commit"} \cup CleanUp
    [] OTHER            -> {"targets", "kind"}

(* Where a request is, whatever its zone has been through: the calls it has
   made tell whether the zone exists and which mode it has. *)
Placed(r) ==
  LET z == job[r].zone
      op == job[r].op
  IN
  /\ pc[r] \in Course(op)
  /\ op \notin {"toCatalog", "keyDel", "updDel", "delete"} => former[r] = {}
  /\ op # "keyDel" => former[r] \cap Globals = {}
  /\ op = "keyDel" => former[r] \subseteq {job[r].key}
  /\ z \in exists <=> ~(pc[r] = "create" \/ (op = "delete" /\ pc[r] \in CleanUp \cup {"commit"}))
  /\ pc[r] \in {"mkkey", "readAxfr", "setkeys"} /\ op \in {"keyAdd", "keyDel"} => Custom(z)
  /\ pc[r] \in {"master", "unlist", "setkeys"} /\ op \notin {"keyAdd", "keyDel"} =>
       (z \in member <=> op \in {"createCatalog", "toCatalog"})

(* the transfer keys: a switch of the mode comes before the keys of the mode *)
KeysMidway(r) ==
  LET z == job[r].zone
      op == job[r].op
  IN
  /\ pc[r] = "readAxfr" => job[r].key \notin Globals
  /\ pc[r] = "setkeys" /\ op \in {"keyAdd", "keyDel"} => keys[r] \cap Globals = {Primary}
  /\ pc[r] \in {"create", "master", "unlist", "setkeys"} \/ z \notin exists \/ WellKeyed(z)

(* the update keys and their address gate: the keys are written first *)
GateMidway(r) ==
  LET z == job[r].zone IN
  /\ pc[r] \in {"putUpd", "putFrom"} => keys[r] # {}
  /\ pc[r] = "putFrom" => upd[z] = keys[r]
  /\ pc[r] = "delFrom" => upd[z] = {}
  /\ pc[r] \in {"putFrom", "delFrom"} \/ Gated(z)

(* the notify list and the kind: the list is written first *)
ListMidway(r) ==
  LET z == job[r].zone IN
  /\ pc[r] \in {"targets", "kind"} => Custom(z)
  /\ pc[r] = "kind" => (z \in listed <=> job[r].op = "setTargets")
  /\ pc[r] = "unlist" => z \notin native
  /\ pc[r] \in {"kind", "master", "unlist"} \/ z \notin exists \/ Scoped(z)

(* A request that nothing has failed on so far. *)
Midway(r) ==
  LET z == job[r].zone
      op == job[r].op
  IN
  /\ former[r] \cap Globals = {}
  /\ op \notin CreateOps \cup {"delete"} => z \in owned
  /\ KeysMidway(r) /\ GateMidway(r) /\ ListMidway(r)

(* the catalog zone itself, which only the start-up touches *)
CatalogInOrder ==
  /\ axfr[Catalog] \subseteq Globals /\ upd[Catalog] = {} /\ from[Catalog] = {}
  /\ Catalog \notin hurt => Catalog \in exists /\ axfr[Catalog] = Globals

TidyInv ==
  /\ TypeOK
  /\ Exclusive
  /\ stamp \subseteq member \cup {Catalog}
  /\ CatalogInOrder
  /\ \A z \in UserZone \ exists : Bare(z)
  /\ \A z \in UserZone \ hurt :
       (\A r \in Requests : Active(r) => job[r].zone # z) => InOrder(z)
  /\ \A r \in Requests : Active(r) => Placed(r) /\ (job[r].zone \notin hurt => Midway(r))

-----------------------------------------------------------------------------
(* Nothing of zone y changes. *)
SameZone(y) ==
  /\ axfr'[y] = axfr[y] /\ upd'[y] = upd[y] /\ from'[y] = from[y]
  /\ y \in exists' <=> y \in exists
  /\ y \in member' <=> y \in member
  /\ y \in native' <=> y \in native
  /\ y \in listed' <=> y \in listed
  /\ y \in owned' <=> y \in owned

LEMMA SameInOrder ==
  ASSUME NEW y, SameZone(y), InOrder(y)
  PROVE  InOrder(y)'
BY DEF SameZone, InOrder, WellKeyed, Gated, Scoped, Custom, Globals

LEMMA SameMidway ==
  ASSUME NEW q, SameZone(job[q].zone), Midway(q), pc'[q] = pc[q], job'[q] = job[q],
         keys'[q] = keys[q], former'[q] = former[q]
  PROVE  Midway(q)'
BY DEF SameZone, Midway, KeysMidway, GateMidway, ListMidway, WellKeyed, Gated, Scoped,
   Custom, Globals

LEMMA SamePlaced ==
  ASSUME NEW q, SameZone(job[q].zone), Placed(q), pc'[q] = pc[q], job'[q] = job[q],
         former'[q] = former[q]
  PROVE  Placed(q)'
BY DEF SameZone, Placed, Custom, Course, Globals

(* A request changes nothing of any zone but its own, and hurts no other. *)
LEMMA OtherZones ==
  ASSUME TypeOK, NEW r \in Requests, Serve(r), ~Start(r),
         NEW y \in Zone, y # job[r].zone
  PROVE  SameZone(y) /\ (y \in hurt' <=> y \in hurt)
<1>t. /\ axfr \in [Zone -> SUBSET Key] /\ upd \in [Zone -> SUBSET Key]
      /\ from \in [Zone -> SUBSET Range]
  BY DEF TypeOK
<1> USE <1>t DEF SameZone, NotFound, pdnsVars, history
<1>1. CASE Create(r) \/ Uncatalog(r) \/ Join(r) \/ BackToMaster(r)
  BY <1>1 DEF Create, Uncatalog, Join, BackToMaster
<1>2. CASE Unlist(r) \/ SetTargets(r) \/ SetKind(r) \/ Commit(r)
  BY <1>2 DEF Unlist, SetTargets, SetKind, Commit, Rows
<1>3. CASE SetKeys(r)
  BY <1>3 DEF SetKeys
<1>4. CASE PutUpd(r) \/ DelUpd(r)
  BY <1>4 DEF PutUpd, DelUpd
<1>5. CASE PutFrom(r) \/ DelFrom(r)
  BY <1>5 DEF PutFrom, DelFrom
<1>6. CASE DeleteZone(r)
  BY <1>6 DEF DeleteZone
<1>7. CASE ReadFormer(r) \/ MakeKey(r) \/ ReadAxfr(r) \/ ReadUpd(r) \/ ReadIps(r) \/ ReadFormerUpd(r)
  BY <1>7 DEF ReadFormer, MakeKey, ReadAxfr, ReadUpd, ReadIps, ReadFormerUpd, ForgetFormer
<1>8. CASE \/ ListZones(r) \/ ScanAxfr(r) \/ ScanUpd(r) \/ RemoveKey(r)
           \/ Abort(r) \/ SkipFormer(r) \/ SkipKey(r)
  BY <1>8 DEF ListZones, ScanAxfr, ScanUpd, RemoveKey, Abort, SkipFormer, SkipKey, ForgetFormer
<1> QED
  BY <1>1, <1>2, <1>3, <1>4, <1>5, <1>6, <1>7, <1>8 DEF Serve

(* The calls that put the zone of r right from scratch: a zone that is created
   or deleted is no longer hurt.  All others leave a hurt zone hurt. *)
LEMMA StaysHurt ==
  ASSUME NEW r \in Requests, Serve(r), ~Create(r), ~DeleteZone(r)
  PROVE  hurt \subseteq hurt'
BY DEF Serve, Start, Uncatalog, ReadFormer, Join, BackToMaster, Unlist, SetKeys, MakeKey, ReadAxfr,
   ReadUpd, ReadIps, PutUpd, PutFrom, DelUpd, DelFrom, ListZones, ScanAxfr, ScanUpd, RemoveKey,
   ReadFormerUpd, SetTargets, SetKind, Commit, Abort, SkipFormer, ForgetFormer, SkipKey,
   NotFound, history

-----------------------------------------------------------------------------
(* Whatever has failed on its zone, a request stays where its calls put it. *)
LEMMA NextKeyPlaced ==
  ASSUME TypeOK, NEW r \in Requests, Active(r), Placed(r), pc[r] \in CleanUp,
         NextKey(r, cand[r]), UNCHANGED <<exists, member>>
  PROVE  pc'[r] # "idle" => Placed(r)'
<1>1. job[r].op \in AllOps
  BY ConfigAssumption DEF Active, TypeOK, JobOK, Job
<1>2. job[r].op \in {"toCatalog", "keyDel", "updDel", "delete"}
  BY <1>1 DEF Placed, Course, CleanUp, Writes, CreateOps, AddOps, KeyOps, AllOps
<1>3. CASE pc'[r] # "idle"
  <2>1. /\ job' = job /\ former'[r] \subseteq former[r]
        /\ pc'[r] = "list" \/ (pc'[r] = "commit" /\ job[r].op = "delete")
    BY <1>3 DEF NextKey, Finish, Goto, TypeOK
  <2> QED
    BY <1>2, <2>1 DEF Placed, Course, CleanUp, Custom, CreateOps, Globals
<1> QED
  BY <1>3

LEMMA PlacedStep ==
  ASSUME TypeOK, NEW r \in Requests, Serve(r), ~Start(r), Placed(r),
         job[r].zone \notin exists => job[r].zone \notin member
  PROVE  pc'[r] # "idle" => Placed(r)'
<1> DEFINE op == job[r].op
           z == job[r].zone
<1> SUFFICES ASSUME pc'[r] # "idle" PROVE Placed(r)'
  OBVIOUS
<1>0. /\ op \in AllOps /\ Active(r) /\ z \in Zone /\ z # Catalog /\ pc[r] \in Course(op)
      /\ z \in exists <=> ~(pc[r] = "create" \/ (op = "delete" /\ pc[r] \in CleanUp \cup {"commit"}))
  BY ServedStep, ConfigAssumption DEF Active, TypeOK, JobOK, Job, Zone, Placed
<1>j. job' = job /\ ~Finish(r)
  <2>1. job' = job
    BY ServedStep
  <2> QED
    BY <2>1 DEF Finish, Goto, TypeOK
<1>t. /\ axfr \in [Zone -> SUBSET Key] /\ upd \in [Zone -> SUBSET Key] /\ pc \in [Requests -> Labels]
      /\ former \in [Requests -> SUBSET Key]
  BY DEF TypeOK
<1>c. op \in {"toCatalog", "keyDel", "updDel", "delete"} \/ former[r] = {}
  BY <1>0 DEF Placed, AllOps, CreateOps, AddOps, KeyOps
<1> USE <1>0, <1>j, <1>t DEF NotFound, pdnsVars, regVars, Goto, AllOps, CreateOps, AddOps, KeyOps
<1>1. CASE Create(r)
  <2>1. op \in CreateOps /\ pc[r] = "create" /\ z \notin member
    BY <1>1 DEF Create, Course, CleanUp, Writes
  <2>2. /\ pc'[r] = "setkeys" /\ former' = former /\ z \in exists'
        /\ z \in member' <=> op = "createCatalog"
    BY <1>1, <2>1 DEF Create
  <2> QED
    BY <2>1, <2>2 DEF Placed, CleanUp, Course, Globals
<1>2. CASE Uncatalog(r)
  <2>1. op = "toCustom" /\ pc[r] = "uncatalog"
    BY <1>2 DEF Uncatalog, Course, CleanUp, Writes
  <2>2. pc'[r] = "setkeys" /\ former' = former /\ z \notin member' /\ exists' = exists
    BY <1>2, <2>1 DEF Uncatalog
  <2> QED
    BY <2>1, <2>2 DEF Placed, CleanUp, Course, Globals
<1>3. CASE ReadFormer(r) \/ ReadFormerUpd(r) \/ SkipFormer(r)
  <2>1. op \in {"toCatalog", "delete"} /\ pc[r] \in {"former", "formerUpd"}
    BY <1>3 DEF ReadFormer, ReadFormerUpd, SkipFormer, Course, CleanUp, Writes
  <2>2. /\ pc'[r] \in IF op = "delete" THEN {"formerUpd", "delzone"} ELSE {"join"}
        /\ former'[r] \cap Globals = {} /\ UNCHANGED <<exists, member>>
    BY <1>3, <2>1 DEF ReadFormer, ReadFormerUpd, SkipFormer, ForgetFormer, Placed, Course, CleanUp
  <2> QED
    BY <2>1, <2>2 DEF Placed, CleanUp, Course, Globals
<1>4. CASE Join(r) \/ BackToMaster(r) \/ Unlist(r)
  <2>1. op = "toCatalog" /\ pc[r] \in {"join", "master", "unlist"}
    BY <1>4 DEF Join, BackToMaster, Unlist, Course, CleanUp, Writes
  <2>2. /\ pc'[r] \in {"master", "unlist", "setkeys"} /\ former' = former /\ exists' = exists
        /\ z \in member'
    BY <1>4, <2>1 DEF Join, BackToMaster, Unlist, Placed, CleanUp
  <2> QED
    BY <2>1, <2>2 DEF Placed, CleanUp, Course, Globals
<1>5. CASE SetKeys(r)
  <2>1. op \in CreateOps \cup {"toCustom", "toCatalog", "keyAdd", "keyDel"} /\ pc[r] = "setkeys"
    BY <1>5 DEF SetKeys, Course, CleanUp, Writes
  <2>2. /\ pc'[r] = IF op \in CreateOps THEN "commit" ELSE "list"
        /\ former' = former /\ UNCHANGED <<exists, member>> /\ (op \notin CreateOps => former[r] # {})
    BY <1>5, <2>1 DEF SetKeys, CleanUp
  <2> QED
    BY <1>c, <2>1, <2>2 DEF Placed, CleanUp, Course, Globals
<1>6. CASE MakeKey(r) \/ ReadAxfr(r)
  <2>1. \/ op \in {"keyAdd", "updAdd"} /\ pc[r] = "mkkey"
        \/ op \in {"keyAdd", "keyDel"} /\ pc[r] = "readAxfr"
    BY <1>6 DEF MakeKey, ReadAxfr, Course, CleanUp, Writes
  <2>2. /\ pc'[r] = IF pc[r] = "readAxfr" THEN "setkeys" ELSE IF op = "keyAdd" THEN "readAxfr" ELSE "readUpd"
        /\ former'[r] \subseteq IF op = "keyDel" THEN {job[r].key} ELSE {}
        /\ UNCHANGED <<exists, member>>
    BY <1>6, <2>1 DEF MakeKey, ReadAxfr, Placed, CleanUp
  <2> QED
    BY <2>1, <2>2 DEF Placed, CleanUp, Course, Globals, Custom
<1>7. CASE ReadUpd(r) \/ ReadIps(r)
  <2>1. op \in {"updAdd", "updDel", "setIps"} /\ pc[r] \in {"readUpd", "readIps"}
    BY <1>7 DEF ReadUpd, ReadIps, Course, CleanUp, Writes
  <2>2. /\ pc'[r] \in {"putUpd", "delUpd", "readIps"} /\ UNCHANGED <<exists, member>>
        /\ pc'[r] = "readIps" => op # "setIps"
        /\ former'[r] \cap Globals = {} /\ (op # "updDel" => former'[r] = {})
    BY <1>7, <2>1 DEF ReadUpd, ReadIps, WriteBranch, Placed
  <2> QED
    BY <2>1, <2>2 DEF Placed, CleanUp, Course, Globals, Writes
<1>8. CASE PutUpd(r) \/ DelUpd(r) \/ PutFrom(r) \/ DelFrom(r)
  <2>1. op \in {"updAdd", "updDel", "setIps"} /\ pc[r] \in Writes
    BY <1>8 DEF PutUpd, DelUpd, PutFrom, DelFrom, Course, CleanUp, Writes
  <2>2. /\ pc'[r] \in Writes \/ (pc'[r] = "list" /\ former[r] # {})
        /\ former' = former /\ UNCHANGED <<exists, member>>
    BY <1>8, <2>1 DEF PutUpd, DelUpd, PutFrom, DelFrom, AccessWritten, Writes, CleanUp
  <2>3. pc'[r] = "list" => op = "updDel"
    BY <1>c, <2>1, <2>2 DEF Writes
  <2> QED
    BY <2>1, <2>2, <2>3 DEF Placed, CleanUp, Course, Globals, Writes
<1>9. CASE ListZones(r) \/ ScanAxfr(r) \/ ScanUpd(r) \/ RemoveKey(r) \/ SkipKey(r)
  <2>1. /\ pc[r] \in CleanUp /\ op \in {"toCatalog", "keyDel", "updDel", "delete"}
        /\ UNCHANGED <<exists, member>>
    BY <1>9 DEF ListZones, ScanAxfr, ScanUpd, RemoveKey, SkipKey, Course, CleanUp, Writes
  <2>2. NextKey(r, cand[r]) \/ (pc'[r] \in CleanUp /\ former' = former)
    BY <1>9 DEF ListZones, ScanAxfr, ScanUpd, RemoveKey, SkipKey, LoopError, CleanUp
  <2>3. CASE pc'[r] \in CleanUp /\ former' = former
    BY <2>1, <2>3 DEF Placed, CleanUp, Course, Globals
  <2> QED
    BY <2>1, <2>2, <2>3, NextKeyPlaced
<1>10. CASE DeleteZone(r)
  <2>1. op = "delete" /\ pc[r] = "delzone"
    BY <1>10 DEF DeleteZone, Course, CleanUp, Writes
  <2>2. pc'[r] \in {"list", "commit"} /\ former' = former /\ z \notin exists'
    BY <1>10, <2>1 DEF DeleteZone, CleanUp
  <2> QED
    BY <2>1, <2>2 DEF Placed, CleanUp, Course, Globals
<1>11. CASE SetTargets(r)
  <2>1. op \in {"setTargets", "clearTargets"} /\ pc[r] = "targets"
    BY <1>11 DEF SetTargets, Course, CleanUp, Writes
  <2>2. pc'[r] = "kind" /\ former' = former /\ UNCHANGED <<exists, member>>
    BY <1>11, <2>1 DEF SetTargets
  <2> QED
    BY <2>1, <2>2 DEF Placed, CleanUp, Course, Globals
<1>12. ~(SetKind(r) \/ Commit(r) \/ Abort(r))
  BY DEF SetKind, Commit, Abort
<1> HIDE DEF NotFound, pdnsVars, regVars, Goto, AllOps, CreateOps, AddOps, KeyOps
<1> QED
  BY <1>1, <1>2, <1>3, <1>4, <1>5, <1>6, <1>7, <1>8, <1>9, <1>10, <1>11, <1>12 DEF Serve

(* A zone that is gone has left nothing behind. *)
LEMMA BareStep ==
  ASSUME TypeOK, NEW r \in Requests, Serve(r), ~Start(r), Placed(r),
         NEW z, z = job[r].zone, z \notin exists => Bare(z), z \notin exists'
  PROVE  Bare(z)'
<1>0. /\ z \in exists <=> ~(pc[r] = "create" \/ (job[r].op = "delete" /\ pc[r] \in CleanUp \cup {"commit"}))
      /\ z \in Zone
  BY ServedStep DEF Active, TypeOK, JobOK, Job, Zone, Placed
<1>1. CASE DeleteZone(r)
  <2>1. z \in exists
    BY <1>0, <1>1 DEF DeleteZone, CleanUp
  <2> QED
    BY <1>0, <1>1, <2>1 DEF DeleteZone, NotFound, Bare, TypeOK
<1>2. CASE Create(r)
  BY <1>2 DEF Create, NotFound, pdnsVars, Bare
<1>3. CASE ListZones(r) \/ ScanAxfr(r) \/ ScanUpd(r) \/ RemoveKey(r) \/ Commit(r) \/ Abort(r) \/ SkipKey(r)
  <2>1. UNCHANGED <<exists, member, native, listed, axfr, upd, from>>
    BY <1>3 DEF ListZones, ScanAxfr, ScanUpd, RemoveKey, Commit, Abort, SkipKey, pdnsVars
  <2> QED
    BY <2>1 DEF Bare
<1>4. CASE UNCHANGED exists /\ pc[r] \notin CleanUp \cup {"create", "commit"}
  BY <1>0, <1>4
<1> QED
  BY <1>1, <1>2, <1>3, <1>4
  DEF Serve, Uncatalog, ReadFormer, Join, BackToMaster, Unlist, SetKeys, MakeKey, ReadAxfr,
      ReadUpd, ReadIps, PutUpd, PutFrom, DelUpd, DelFrom, ReadFormerUpd, SetTargets, SetKind,
      SkipFormer, ForgetFormer, NotFound, pdnsVars, CleanUp

-----------------------------------------------------------------------------
(* Zone z of request r after a step: the request goes on, or has put it in order. *)
Settles(r, z) == IF pc'[r] = "idle" THEN InOrder(z)' ELSE Midway(r)'

(* The clean-up reads the zones only. *)
LEMMA CleanUpSettles ==
  ASSUME TypeOK, NEW r \in Requests, Active(r), Placed(r), Midway(r), pc[r] \in CleanUp,
         NextKey(r, cand[r]) \/ (Finish(r) /\ job[r].op # "delete"),
         NEW z \in UserZone, z = job[r].zone, SameZone(z)
  PROVE  Settles(r, z)
<1> DEFINE op == job[r].op
<1>0. op \in AllOps
  BY ConfigAssumption DEF Active, TypeOK, JobOK, Job
<1>1. op \in {"toCatalog", "keyDel", "updDel", "delete"}
  BY <1>0 DEF Placed, Course, CleanUp, Writes, CreateOps, AddOps, KeyOps, AllOps
<1>2. CASE Finish(r) /\ op # "delete"
  <2>1. InOrder(z)
    BY <1>1, <1>2 DEF Placed, Midway, KeysMidway, GateMidway, ListMidway, InOrder, CleanUp, CreateOps
  <2>2. InOrder(z)'
    BY <2>1, SameInOrder
  <2>3. pc'[r] = "idle"
    BY <1>2 DEF Finish, Goto, TypeOK
  <2> QED
    BY <2>2, <2>3 DEF Settles
<1>3. CASE NextKey(r, cand[r]) /\ ~Finish(r)
  <2>1. /\ job' = job /\ former'[r] \subseteq former[r]
        /\ pc'[r] = "list" \/ (pc'[r] = "commit" /\ op = "delete")
    BY <1>3 DEF NextKey, Goto, TypeOK
  <2>3. Midway(r)'
    <3>1. KeysMidway(r)'
      BY <1>1, <2>1 DEF Midway, KeysMidway, SameZone, WellKeyed, Custom, Globals, CleanUp
    <3>2. GateMidway(r)'
      BY <2>1 DEF Midway, GateMidway, SameZone, Gated, CleanUp
    <3>3. ListMidway(r)'
      BY <2>1 DEF Midway, ListMidway, SameZone, Scoped, Custom, CleanUp
    <3> QED
      BY <1>1, <2>1, <3>1, <3>2, <3>3 DEF Midway, SameZone, Globals, CreateOps
  <2> QED
    BY <2>1, <2>3 DEF Settles
<1>4. NextKey(r, cand[r]) /\ Finish(r) => op # "delete"
  BY DEF NextKey, Finish, Goto, TypeOK
<1> QED
  BY <1>2, <1>3, <1>4

LEMMA ServeSettles ==
  ASSUME TypeOK, NEW r \in Requests, Serve(r), ~Start(r), Placed(r),
         NEW z \in UserZone, z = job[r].zone,
         z \notin hurt => Midway(r), z \notin exists => Bare(z), z \notin hurt'
  PROVE  Settles(r, z)
<1> DEFINE op == job[r].op
<1>0. /\ op \in AllOps /\ Active(r) /\ pc[r] \in Course(op) /\ z \in Zone /\ z # Catalog
      /\ op \notin {"toCatalog", "keyDel", "updDel", "delete"} => former[r] = {}
      /\ op # "keyDel" => former[r] \cap Globals = {}
  BY ServedStep, ConfigAssumption DEF Active, TypeOK, JobOK, Job, Zone, Placed
<1>e. z \in exists <=> ~(pc[r] = "create" \/ (op = "delete" /\ pc[r] \in CleanUp \cup {"commit"}))
  BY DEF Placed
(* whoever does not start the zone from scratch has found it in order *)
<1>m. pc[r] \notin {"create", "delzone"} => Midway(r)
  BY StaysHurt DEF Create, DeleteZone
<1>t. /\ axfr \in [Zone -> SUBSET Key] /\ upd \in [Zone -> SUBSET Key]
      /\ from \in [Zone -> SUBSET Range] /\ pc \in [Requests -> Labels]
      /\ keys \in [Requests -> SUBSET Key] /\ former \in [Requests -> SUBSET Key]
      /\ cand \in [Requests -> Key \cup {NoKey}] /\ ips \in [Requests -> SUBSET Range]
  BY DEF TypeOK
<1>c. ConfigAssumption
  BY ConfigAssumption DEF ConfigAssumption
<1>f. Finish(r) => pc'[r] = "idle"
  BY <1>t DEF Finish, Goto
<1> USE <1>0, <1>e, <1>m, <1>t, <1>f
<1> USE DEF NotFound, pdnsVars, regVars, Goto, AllOps, CreateOps, AddOps, KeyOps
<1>1. CASE Create(r)
  <2>1. /\ op \in CreateOps /\ pc[r] = "create" /\ z \notin exists
    BY <1>1 DEF Create, Course, CleanUp, Writes
  <2>2. /\ pc'[r] = "setkeys" /\ job' = job /\ former' = former /\ keys' = keys
        /\ z \in exists' /\ (z \in member' <=> op = "createCatalog" \/ z \in member)
        /\ UNCHANGED <<native, listed, axfr, upd, from, owned>>
    BY <1>1, <2>1 DEF Create
  <2>b. Bare(z) /\ former[r] = {}
    BY <2>1
  <2>3. Midway(r)'
    BY <2>1, <2>2, <2>b DEF Midway, KeysMidway, GateMidway, ListMidway, Gated, Scoped, Bare,
       Custom, Globals
  <2> QED
    BY <2>2, <2>3 DEF Settles
<1>2. CASE Uncatalog(r)
  <2>1. op = "toCustom" /\ pc[r] = "uncatalog"
    BY <1>2 DEF Uncatalog, Course, CleanUp, Writes
  <2>2. z \in exists
    BY <2>1 DEF CleanUp
  <2>3. /\ pc'[r] = "setkeys" /\ job' = job /\ former' = former /\ keys' = keys
        /\ z \notin member'
        /\ UNCHANGED <<exists, native, listed, axfr, upd, from, owned>>
    BY <1>2, <2>1, <2>2 DEF Uncatalog
  <2>4. Midway(r)'
    BY <2>1, <2>2, <2>3 DEF Midway, KeysMidway, GateMidway, ListMidway, WellKeyed, Gated, Scoped,
       Custom, Globals, CleanUp, Course
  <2> QED
    BY <2>3, <2>4 DEF Settles
<1>3. CASE ReadFormer(r)
  <2>1. op \in {"toCatalog", "delete"} /\ pc[r] = "former"
    BY <1>3 DEF ReadFormer, Course, CleanUp, Writes
  <2>2. z \in exists
    BY <2>1 DEF CleanUp
  <2>3. /\ pc'[r] = IF op = "delete" THEN "formerUpd" ELSE "join"
        /\ job' = job /\ former'[r] \cap Globals = {} /\ keys' = keys
        /\ UNCHANGED <<exists, member, native, listed, axfr, upd, from, owned>>
    BY <1>3, <2>1, <2>2 DEF ReadFormer
  <2>4. Midway(r)'
    BY <2>1, <2>2, <2>3 DEF Midway, KeysMidway, GateMidway, ListMidway, WellKeyed, Gated, Scoped,
       Custom, Globals, CleanUp, Course
  <2> QED
    BY <2>1, <2>3, <2>4 DEF Settles
<1>4. CASE Join(r)
  <2>1. op = "toCatalog" /\ pc[r] = "join"
    BY <1>4 DEF Join, Course, CleanUp, Writes
  <2>2. z \in exists
    BY <2>1 DEF CleanUp
  <2>3. /\ pc'[r] = "master" /\ job' = job /\ former' = former /\ keys' = keys /\ z \in member'
        /\ UNCHANGED <<exists, native, listed, axfr, upd, from, owned>>
    BY <1>4, <2>1, <2>2 DEF Join
  <2>4. Midway(r)'
    BY <2>1, <2>2, <2>3 DEF Midway, KeysMidway, GateMidway, ListMidway, WellKeyed, Gated, Scoped,
       Custom, Globals, CleanUp, Course
  <2> QED
    BY <2>3, <2>4 DEF Settles
<1>5. CASE BackToMaster(r)
  <2>1. op = "toCatalog" /\ pc[r] = "master"
    BY <1>5 DEF BackToMaster, Course, CleanUp, Writes
  <2>2. z \in exists
    BY <2>1 DEF CleanUp
  <2>3. /\ pc'[r] = "unlist" /\ job' = job /\ former' = former /\ keys' = keys /\ z \notin native'
        /\ UNCHANGED <<exists, member, listed, axfr, upd, from, owned>>
    BY <1>5, <2>1, <2>2 DEF BackToMaster
  <2>4. Midway(r)'
    BY <2>1, <2>2, <2>3 DEF Midway, KeysMidway, GateMidway, ListMidway, WellKeyed, Gated, Scoped,
       Custom, Globals, CleanUp, Course
  <2> QED
    BY <2>3, <2>4 DEF Settles
<1>6. CASE Unlist(r)
  <2>1. op = "toCatalog" /\ pc[r] = "unlist"
    BY <1>6 DEF Unlist, Course, CleanUp, Writes
  <2>2. z \in exists
    BY <2>1 DEF CleanUp
  <2>3. /\ pc'[r] = "setkeys" /\ job' = job /\ former' = former /\ keys' = keys /\ z \notin listed'
        /\ UNCHANGED <<exists, member, native, axfr, upd, from, owned>>
    BY <1>6, <2>1 DEF Unlist
  <2>4. Midway(r)'
    BY <2>1, <2>2, <2>3 DEF Midway, KeysMidway, GateMidway, ListMidway, WellKeyed, Gated, Scoped,
       Custom, Globals, CleanUp, Course
  <2> QED
    BY <2>3, <2>4 DEF Settles
<1>7. CASE SetKeys(r)
  <2>1. /\ op \in CreateOps \cup {"toCustom", "toCatalog", "keyAdd", "keyDel"}
        /\ pc[r] = "setkeys"
    BY <1>7 DEF SetKeys, Course, CleanUp, Writes
  <2>2. z \in exists
    BY <2>1 DEF CleanUp
  <2>3. /\ axfr'[z] = NewKeys(r)
        /\ UNCHANGED <<exists, member, native, listed, upd, from, owned>>
    BY <1>7, <2>1, <2>2 DEF SetKeys
  <2>4. WellKeyed(z)'
    BY <1>c, <2>1, <2>3 DEF Placed, Midway, KeysMidway, NewKeys, WellKeyed, Custom, Globals, ConfigAssumption
  <2>5. CASE op \in CreateOps
    <3>1. pc'[r] = "commit" /\ job' = job /\ former' = former /\ keys' = keys
      BY <1>7, <2>1, <2>2, <2>5 DEF SetKeys
    <3>2. Midway(r)'
      BY <2>1, <2>2, <2>3, <2>4, <2>5, <3>1 DEF Midway, KeysMidway, GateMidway, ListMidway, Gated,
         Scoped, Custom, Globals, CleanUp, Course
    <3> QED
      BY <3>1, <3>2 DEF Settles
  <2>6. CASE op \notin CreateOps /\ former[r] # {}
    <3>1. pc'[r] = "list" /\ job' = job /\ former' = former /\ keys' = keys
      BY <1>7, <2>1, <2>2, <2>6 DEF SetKeys
    <3>2. op \in {"toCatalog", "keyDel"}
      BY <2>1, <2>6
    <3>3. Midway(r)'
      BY <2>1, <2>2, <2>3, <2>4, <3>1, <3>2 DEF Midway, KeysMidway, GateMidway, ListMidway, Gated,
         Scoped, Custom, Globals, CleanUp, Course
    <3> QED
      BY <3>1, <3>3 DEF Settles
  <2>7. CASE op \notin CreateOps /\ former[r] = {}
    <3>1. pc'[r] = "idle"
      BY <1>7, <2>1, <2>2, <2>7 DEF SetKeys
    <3>2. InOrder(z)'
      BY <2>1, <2>2, <2>3, <2>4, <2>7 DEF Midway, GateMidway, ListMidway, Gated, Scoped, Custom, InOrder,
         CleanUp
    <3> QED
      BY <3>1, <3>2 DEF Settles
  <2> QED
    BY <2>5, <2>6, <2>7
<1>8. CASE MakeKey(r)
  <2>1. op \in AddOps /\ pc[r] = "mkkey"
    BY <1>8 DEF MakeKey, Course, CleanUp, Writes
  <2>2. z \in exists /\ former[r] = {}
    BY <2>1 DEF CleanUp
  <2>3. CASE Finish(r) /\ UNCHANGED <<pdnsVars, owned>>
    <3>1. InOrder(z)
      BY <2>1, <2>2 DEF Midway, KeysMidway, GateMidway, ListMidway, InOrder
    <3>2. InOrder(z)'
      BY <2>3, <3>1, SameInOrder DEF SameZone
    <3> QED
      BY <2>3, <3>2 DEF Settles
  <2>4. CASE ~Finish(r)
    <3>1. /\ pc'[r] = IF op = "keyAdd" THEN "readAxfr" ELSE "readUpd"
          /\ job' = job /\ former' = former /\ keys' = keys /\ job[r].key \notin Globals
          /\ UNCHANGED <<exists, member, native, listed, axfr, upd, from, owned>>
      BY <1>8, <2>1, <2>4 DEF MakeKey
    <3>2. Midway(r)'
      BY <2>1, <2>2, <3>1 DEF Midway, KeysMidway, GateMidway, ListMidway, WellKeyed, Gated, Scoped,
         Custom, Globals, CleanUp, Course, Writes
    <3> QED
      BY <2>1, <3>1, <3>2 DEF Settles
  <2> QED
    BY <1>8, <2>3, <2>4 DEF MakeKey
<1>9. CASE ReadAxfr(r)
  <2>1. op \in {"keyAdd", "keyDel"} /\ pc[r] = "readAxfr"
    BY <1>9 DEF ReadAxfr, Course, CleanUp, Writes
  <2>2. z \in exists /\ job[r].key \notin Globals
    BY <2>1 DEF Midway, KeysMidway, CleanUp
  <2>3. axfr[z] \cap Globals = {Primary}
    BY <2>1, <2>2 DEF Placed, Midway, KeysMidway, WellKeyed
  <2>4. /\ pc'[r] = "setkeys" /\ job' = job
        /\ keys'[r] \cap Globals = {Primary} /\ former'[r] \cap Globals = {}
        /\ op = "keyAdd" => former'[r] = {}
        /\ UNCHANGED <<exists, member, native, listed, axfr, upd, from, owned>>
    BY <1>9, <2>1, <2>2, <2>3 DEF ReadAxfr
  <2>5. Midway(r)'
    BY <2>1, <2>2, <2>4 DEF Midway, KeysMidway, GateMidway, ListMidway, WellKeyed, Gated, Scoped,
       Custom, Globals, CleanUp, Course
  <2> QED
    BY <2>4, <2>5 DEF Settles
<1>10. CASE ReadUpd(r)
  <2>1. op \in {"updAdd", "updDel", "setIps"} /\ pc[r] = "readUpd"
    BY <1>10 DEF ReadUpd, Course, CleanUp, Writes
  <2>2. z \in exists
    BY <2>1 DEF CleanUp
  <2>3. /\ pc'[r] = IF op # "setIps" THEN "readIps" ELSE IF keys'[r] # {} THEN "putUpd" ELSE "delUpd"
        /\ job' = job /\ former'[r] \cap Globals = {}
        /\ op # "updDel" => former'[r] = {}
        /\ UNCHANGED <<exists, member, native, listed, axfr, upd, from, owned>>
    BY <1>10, <2>1 DEF ReadUpd, WriteBranch
  <2>4. Midway(r)'
    BY <2>1, <2>2, <2>3 DEF Midway, KeysMidway, GateMidway, ListMidway, WellKeyed, Gated, Scoped,
       Custom, Globals, CleanUp, Course, Writes
  <2> QED
    BY <2>3, <2>4 DEF Settles
<1>11. CASE ReadIps(r)
  <2>1. op \in {"updAdd", "updDel"} /\ pc[r] = "readIps"
    BY <1>11 DEF ReadIps, Course, CleanUp, Writes
  <2>2. z \in exists
    BY <2>1 DEF CleanUp
  <2>3. /\ pc'[r] = IF keys[r] # {} THEN "putUpd" ELSE "delUpd"
        /\ job' = job /\ former' = former /\ keys' = keys
        /\ UNCHANGED <<exists, member, native, listed, axfr, upd, from, owned>>
    BY <1>11, <2>1 DEF ReadIps, WriteBranch
  <2>4. Midway(r)'
    BY <2>1, <2>2, <2>3 DEF Midway, KeysMidway, GateMidway, ListMidway, WellKeyed, Gated, Scoped,
       Custom, Globals, CleanUp, Course, Writes
  <2> QED
    BY <2>3, <2>4 DEF Settles
<1>12. CASE PutUpd(r) \/ DelUpd(r)
  <2>1. op \in {"updAdd", "updDel", "setIps"} /\ pc[r] \in {"putUpd", "delUpd"}
    BY <1>12 DEF PutUpd, DelUpd, Course, CleanUp, Writes
  <2>2. z \in exists
    BY <2>1 DEF CleanUp
  <2>3. /\ \/ pc'[r] = "putFrom" /\ upd'[z] = keys[r] /\ pc[r] = "putUpd"
           \/ pc'[r] = "delFrom" /\ upd'[z] = {}
        /\ job' = job /\ former' = former /\ keys' = keys
        /\ UNCHANGED <<exists, member, native, listed, axfr, from, owned>>
    BY <1>12, <2>1, <2>2 DEF PutUpd, DelUpd
  <2>4. Midway(r)'
    BY <2>1, <2>2, <2>3 DEF Midway, KeysMidway, GateMidway, ListMidway, WellKeyed, Gated, Scoped,
       Custom, Globals, CleanUp, Course, Writes
  <2> QED
    BY <2>3, <2>4 DEF Settles
<1>13. CASE PutFrom(r) \/ DelFrom(r)
  <2>1. op \in {"updAdd", "updDel", "setIps"} /\ pc[r] \in {"putFrom", "delFrom"}
    BY <1>13 DEF PutFrom, DelFrom, Course, CleanUp, Writes
  <2>2. z \in exists
    BY <2>1 DEF CleanUp
  <2>3. from'[z] # {} <=> upd[z] # {}
    BY <1>c, <1>13, <2>1, <2>2 DEF PutFrom, DelFrom, Midway, GateMidway, ConfigAssumption
  <2>4. AccessWritten(r) /\ UNCHANGED <<exists, member, native, listed, axfr, upd, owned>>
    BY <1>13, <2>2 DEF PutFrom, DelFrom
  <2>5. CASE former[r] # {}
    <3>1. pc'[r] = "list" /\ job' = job /\ former' = former /\ keys' = keys
      BY <2>4, <2>5 DEF AccessWritten, regVars
    <3>2. op = "updDel"
      BY <2>1, <2>5
    <3>3. Midway(r)'
      BY <2>2, <2>3, <2>4, <3>1, <3>2 DEF Midway, KeysMidway, GateMidway, ListMidway, WellKeyed, Gated,
         Scoped, Custom, Globals, CleanUp, Course, Writes
    <3> QED
      BY <3>1, <3>3 DEF Settles
  <2>6. CASE former[r] = {}
    <3>1. pc'[r] = "idle"
      BY <2>4, <2>6 DEF AccessWritten
    <3>2. InOrder(z)'
      BY <2>1, <2>2, <2>3, <2>4 DEF Midway, KeysMidway, ListMidway, WellKeyed, Gated, Scoped, Custom,
         Globals, InOrder
    <3> QED
      BY <3>1, <3>2 DEF Settles
  <2> QED
    BY <2>5, <2>6
<1>14. CASE ListZones(r)
  <2>1. op \in {"toCatalog", "keyDel", "updDel", "delete"} /\ pc[r] = "list"
    BY <1>14 DEF ListZones, Course, CleanUp, Writes
  <2>2. /\ pc'[r] \in {"rmkey", "scanAxfr"} /\ job' = job /\ former' = former /\ keys' = keys
        /\ UNCHANGED <<exists, member, native, listed, axfr, upd, from, owned>>
    BY <1>14, <2>1 DEF ListZones
  <2>3. Midway(r)'
    BY <2>1, <2>2 DEF Midway, KeysMidway, GateMidway, ListMidway, WellKeyed, Gated,
       Scoped, Custom, Globals, CleanUp, Course
  <2> QED
    BY <2>2, <2>3 DEF Settles
<1>15. CASE ScanAxfr(r) \/ ScanUpd(r) \/ RemoveKey(r) \/ SkipKey(r)
  <2>1. pc[r] \in CleanUp /\ op \in {"toCatalog", "keyDel", "updDel", "delete"} /\ SameZone(z)
    BY <1>15 DEF ScanAxfr, ScanUpd, RemoveKey, SkipKey, Course, CleanUp, Writes, SameZone
  <2>2. CASE NextKey(r, cand[r]) \/ LoopError(r)
    BY <2>1, <2>2, CleanUpSettles DEF LoopError, CleanUp
  <2>3. CASE ~(NextKey(r, cand[r]) \/ LoopError(r))
    <3>1. /\ pc'[r] \in {"scanAxfr", "scanUpd", "rmkey"}
          /\ job' = job /\ former' = former /\ keys' = keys
      BY <1>15, <2>3 DEF ScanAxfr, ScanUpd, RemoveKey, SkipKey
    <3>3. Midway(r)'
      BY <2>1, <3>1 DEF SameZone, Midway, KeysMidway, GateMidway, ListMidway, WellKeyed, Gated,
         Scoped, Custom, Globals, CleanUp, Course
    <3> QED
      BY <3>1, <3>3 DEF Settles
  <2> QED
    BY <2>2, <2>3
<1>16. CASE ReadFormerUpd(r) \/ SkipFormer(r)
  <2>1. op = "delete" /\ pc[r] \in {"former", "formerUpd"}
    BY <1>16 DEF ReadFormerUpd, SkipFormer, Course, CleanUp, Writes
  <2>2. /\ pc'[r] = "delzone" /\ job' = job /\ former'[r] \cap Globals = {} /\ keys' = keys
        /\ UNCHANGED <<exists, member, native, listed, axfr, upd, from, owned>>
    BY <1>16, <2>1 DEF ReadFormerUpd, SkipFormer, ForgetFormer
  <2>3. Midway(r)'
    BY <2>1, <2>2 DEF Midway, KeysMidway, GateMidway, ListMidway, WellKeyed, Gated,
       Scoped, Custom, Globals, CleanUp, Course
  <2> QED
    BY <2>2, <2>3 DEF Settles
<1>17. CASE DeleteZone(r)
  <2>1. op = "delete" /\ pc[r] = "delzone"
    BY <1>17 DEF DeleteZone, Course, CleanUp, Writes
  <2>2. z \in exists
    BY <2>1 DEF CleanUp
  <2>3. /\ pc'[r] \in {"list", "commit"} /\ job' = job /\ former' = former /\ keys' = keys
        /\ axfr'[z] = {} /\ upd'[z] = {} /\ from'[z] = {} /\ owned' = owned
        /\ z \notin exists' \cup member' \cup native' \cup listed'
    BY <1>17, <2>1, <2>2 DEF DeleteZone
  <2>4. Midway(r)'
    BY <2>1, <2>2, <2>3 DEF Midway, KeysMidway, GateMidway, ListMidway, Gated, Globals
  <2> QED
    BY <2>3, <2>4 DEF Settles
<1>18. CASE SetTargets(r)
  <2>1. op \in {"setTargets", "clearTargets"} /\ pc[r] = "targets"
    BY <1>18 DEF SetTargets, Course, CleanUp, Writes
  <2>2. z \in exists
    BY <2>1 DEF CleanUp
  <2>3. /\ pc'[r] = "kind" /\ job' = job /\ former' = former /\ keys' = keys
        /\ z \in listed' <=> op = "setTargets"
        /\ UNCHANGED <<exists, member, native, axfr, upd, from, owned>>
    BY <1>18, <2>1, <2>2 DEF SetTargets
  <2>4. Midway(r)'
    BY <2>1, <2>2, <2>3 DEF Midway, KeysMidway, GateMidway, ListMidway, WellKeyed, Gated,
       Custom, Globals, CleanUp, Course
  <2> QED
    BY <2>3, <2>4 DEF Settles
<1>19. CASE SetKind(r)
  <2>1. op \in {"setTargets", "clearTargets"} /\ pc[r] = "kind"
    BY <1>19 DEF SetKind, Course, CleanUp, Writes
  <2>2. z \in exists
    BY <2>1 DEF CleanUp
  <2>3. /\ Finish(r) /\ (z \in native' <=> op = "setTargets")
        /\ UNCHANGED <<exists, member, listed, axfr, upd, from, owned>>
    BY <1>19, <2>1, <2>2 DEF SetKind
  <2>4. InOrder(z)'
    BY <2>1, <2>2, <2>3 DEF Midway, KeysMidway, GateMidway, ListMidway, WellKeyed, Gated, Scoped,
       Custom, Globals, InOrder
  <2> QED
    BY <2>3, <2>4 DEF Settles
<1>20. CASE Commit(r)
  <2>1. op \in CreateOps \cup {"delete"} /\ pc[r] = "commit"
    BY <1>20 DEF Commit, Course, CleanUp, Writes
  <2>2. /\ Finish(r) /\ (z \in owned' <=> op # "delete")
        /\ UNCHANGED <<exists, member, native, listed, axfr, upd, from>>
    BY <1>20, <2>1 DEF Commit, Rows
  <2>3. z \in exists <=> op # "delete"
    BY <2>1 DEF CleanUp
  <2>4. InOrder(z)'
    BY <2>1, <2>2, <2>3 DEF Midway, KeysMidway, GateMidway, ListMidway, WellKeyed, Gated, Scoped,
       Custom, Globals, InOrder
  <2> QED
    BY <2>2, <2>4 DEF Settles
<1>21. ~Abort(r)
  BY DEF Abort
<1> HIDE DEF NotFound, pdnsVars, regVars, Goto, AllOps, CreateOps, AddOps, KeyOps
<1> QED
  BY <1>1, <1>2, <1>3, <1>4, <1>5, <1>6, <1>7, <1>8, <1>9, <1>10, <1>11, <1>12, <1>13, <1>14,
     <1>15, <1>16, <1>17, <1>18, <1>19, <1>20, <1>21 DEF Serve

(* A request on a fresh page starts from a zone in order, or a hurt one. *)
LEMMA TidyStart ==
  ASSUME Apart, FreshPages, TidyInv, TypeOK', Exclusive', NEW r \in Requests, Start(r)
  PROVE  TidyInv'
<1>1. PICK j \in Job :
        /\ j.op = "keyDel" => j.key # Primary
        /\ Offered(j)
        /\ job' = [job EXCEPT ![r] = j] /\ Goto(r, Entry(j.op))
        /\ \A q \in Requests : Active(q) => job[q].zone # j.zone
        /\ j.zone \in UserZone /\ j.op \in AllOps /\ pc'[r] = Entry(j.op) /\ pc'[r] # "idle"
  BY StartsApart DEF TidyInv
<1> DEFINE z == j.zone
           op == j.op
<1>2. UNCHANGED <<exists, member, native, listed, axfr, upd, from, tsigkeys, owned,
                  keys, former, cand, boot, stamp, hurt>>
  BY DEF Start, pdnsVars, regVars, bootVars, history
<1>3. boot = "up" /\ ~Active(r) /\ former[r] = {} /\ job'[r] = j
  BY <1>1 DEF Start, TidyInv, Exclusive, Active, TypeOK
<1>4. /\ z # Catalog /\ z \in UserZone /\ (z \notin hurt => InOrder(z))
      /\ z \notin exists => Bare(z)
  BY <1>1, ConfigAssumption DEF TidyInv
<1>5. \A y : SameZone(y)
  BY <1>2 DEF SameZone
<1>p. Placed(r)'
  BY <1>1, <1>2, <1>3, <1>4
  DEF Placed, Course, Offered, Entry, AllOps, CreateOps, AddOps, KeyOps, Custom, Globals, CleanUp, Writes
<1>6. z \notin hurt => Midway(r)'
  <2> SUFFICES ASSUME z \notin hurt PROVE Midway(r)'
    OBVIOUS
  <2> USE <1>1, <1>2, <1>3, <1>4
      DEF Offered, Entry, AllOps, CreateOps, AddOps, KeyOps, InOrder, WellKeyed, Gated, Scoped, Bare,
          Custom, Globals, CleanUp, Writes
  <2>2. (z \in exists <=> op \notin CreateOps) /\ (op \notin CreateOps => z \in owned)
    OBVIOUS
  <2>3. KeysMidway(r)'
    BY DEF KeysMidway
  <2>4. GateMidway(r)'
    BY DEF GateMidway
  <2>5. ListMidway(r)'
    BY DEF ListMidway
  <2> QED
    BY <2>2, <2>3, <2>4, <2>5 DEF Midway
<1>7. ASSUME NEW q \in Requests, Active(q)' PROVE (Placed(q) /\ (job[q].zone \notin hurt => Midway(q)))'
  <2>1. CASE q = r
    BY <1>2, <1>3, <1>6, <1>p, <2>1
  <2>2. CASE q # r
    <3>1. /\ pc'[q] = pc[q] /\ job'[q] = job[q] /\ Active(q)
          /\ keys'[q] = keys[q] /\ former'[q] = former[q]
      BY <1>1, <1>2, <1>7, <2>2 DEF Active, Goto, TidyInv, TypeOK
    <3>2. Placed(q) /\ (job[q].zone \notin hurt => Midway(q))
      BY <3>1 DEF TidyInv
    <3>3. Placed(q)'
      BY <1>5, <3>1, <3>2, SamePlaced
    <3> QED
      BY <1>2, <1>5, <3>1, <3>2, <3>3, SameMidway
  <2> QED
    BY <2>1, <2>2
<1>8. ASSUME NEW y \in UserZone \ hurt, \A q \in Requests : Active(q)' => job'[q].zone # y
      PROVE  InOrder(y)'
  <2>1. \A q \in Requests : Active(q) => job[q].zone # y
    BY <1>1, <1>3, <1>8 DEF Active, Goto, TidyInv, TypeOK
  <2>2. InOrder(y)
    BY <2>1 DEF TidyInv
  <2> QED
    BY <1>5, <2>2, SameInOrder
<1>9. /\ CatalogInOrder' /\ (stamp \subseteq member \cup {Catalog})'
      /\ (\A y \in UserZone \ exists : Bare(y))'
  BY <1>2 DEF TidyInv, CatalogInOrder, Globals, Bare
<1> QED
  BY <1>2, <1>7, <1>8, <1>9 DEF TidyInv

(* A request that goes on leaves its own zone in order, or itself midway, unless
   it fails; and the other zones and requests alone. *)
LEMMA TidyServe ==
  ASSUME TidyInv, TypeOK', Exclusive', Booting,
         NEW r \in Requests, Serve(r), ~Start(r)
  PROVE  TidyInv'
<1>1. /\ Active(r)
      /\ \/ pc'[r] # "idle" /\ job' = job
         \/ pc'[r] = "idle" /\ Finish(r)
      /\ \A q \in Requests \ {r} :
           /\ pc'[q] = pc[q] /\ job'[q] = job[q] /\ keys'[q] = keys[q]
           /\ former'[q] = former[q]
  BY ServedStep DEF TidyInv
<1>2. stamp = {} /\ stamp' = {}
  BY <1>1, ServedWhenUp DEF TidyInv, bootVars, Booting
<1>z. PICK z \in UserZone : z = job[r].zone
  BY <1>1 DEF TidyInv, TypeOK, JobOK, Job
<1>3. /\ Placed(r) /\ (z \notin hurt => Midway(r)) /\ (z \notin exists => Bare(z))
  BY <1>1, <1>z DEF TidyInv
<1>4. z \notin hurt' => Settles(r, z)
  BY <1>3, <1>z, ServeSettles DEF TidyInv
<1>p. pc'[r] # "idle" => Placed(r)'
  BY <1>3, <1>z, PlacedStep DEF TidyInv, Bare
<1>5. \A y \in Zone : y # z => SameZone(y) /\ (y \in hurt' <=> y \in hurt)
  BY <1>z, OtherZones DEF TidyInv
<1>6. ASSUME NEW q \in Requests, Active(q)' PROVE (Placed(q) /\ (job[q].zone \notin hurt => Midway(q)))'
  <2>1. CASE q = r
    BY <1>1, <1>4, <1>6, <1>p, <1>z, <2>1 DEF Settles, Active
  <2>2. CASE q # r
    <3>1. /\ Active(q) /\ Placed(q) /\ (job[q].zone \notin hurt => Midway(q))
          /\ job[q] \in Job /\ job[q].zone # z
      BY <1>1, <1>6, <1>z, <2>2 DEF TidyInv, Active, Exclusive, TypeOK, JobOK
    <3>2. job[q].zone \in Zone
      BY <3>1 DEF Job, Zone
    <3>3. SameZone(job[q].zone) /\ (job[q].zone \in hurt' <=> job[q].zone \in hurt)
      BY <1>5, <3>1, <3>2
    <3>4. Placed(q)'
      BY <1>1, <2>2, <3>1, <3>3, SamePlaced
    <3> QED
      BY <1>1, <2>2, <3>1, <3>3, <3>4, SameMidway
  <2> QED
    BY <2>1, <2>2
<1>7. ASSUME NEW y \in UserZone \ hurt', \A q \in Requests : Active(q)' => job'[q].zone # y
      PROVE  InOrder(y)'
  <2>1. CASE y = z
    <3>1. pc'[r] = "idle"
      BY <1>1, <1>7, <1>z, <2>1 DEF Active
    <3> QED
      BY <1>4, <2>1, <3>1 DEF Settles
  <2>2. CASE y # z
    <3>1. \A q \in Requests : Active(q) => job[q].zone # y
      BY <1>1, <1>7, <1>z, <2>2 DEF Active
    <3>2. y \notin hurt /\ SameZone(y)
      BY <1>5, <2>2 DEF Zone
    <3> QED
      BY <3>1, <3>2, SameInOrder DEF TidyInv
  <2> QED
    BY <2>1, <2>2
<1>8. CatalogInOrder'
  <2>1. SameZone(Catalog) /\ (Catalog \in hurt' <=> Catalog \in hurt)
    BY <1>5, ConfigAssumption DEF Zone
  <2> QED
    BY <2>1 DEF SameZone, CatalogInOrder, TidyInv, Globals
<1>9. ASSUME NEW y \in UserZone \ exists' PROVE Bare(y)'
  <2>1. CASE y = z
    BY <1>3, <1>z, <2>1, BareStep DEF TidyInv
  <2>2. CASE y # z
    BY <1>5, <2>2 DEF TidyInv, SameZone, Bare, Zone
  <2> QED
    BY <2>1, <2>2
<1> QED
  BY <1>2, <1>6, <1>7, <1>8, <1>9 DEF TidyInv

(* The start-up writes the configured keys, to zones of the catalog only. *)
LEMMA TidyBoot ==
  ASSUME TidyInv, TypeOK', Exclusive', Booting, Bootstrap
  PROVE  TidyInv'
<1> USE DEF Bootstrap, EnsureCatalog, EnsureCatalogKeys, ListToStamp, ToStamp, StampZone,
            BootGivesUp, pdnsVars, regVars, history
<1>1. boot # "up" /\ \A r \in Requests : ~Active(r) /\ ~Active(r)'
  BY DEF Booting, Active
<1>2. (stamp \subseteq member \cup {Catalog})'
  BY DEF TidyInv, Custom
<1>3. \A y \in UserZone :
        /\ axfr'[y] = axfr[y] \/ (axfr'[y] = Globals /\ ~Custom(y) /\ y \in exists)
        /\ upd'[y] = upd[y] /\ from'[y] = from[y]
        /\ y \in exists' <=> y \in exists
        /\ y \in hurt' <=> y \in hurt
  BY ConfigAssumption DEF TidyInv, TypeOK, Booting, Custom, Zone
<1>4. UNCHANGED <<member, native, listed, owned>>
  OBVIOUS
<1>5. ASSUME NEW y \in UserZone \ hurt' PROVE InOrder(y)'
  <2>1. InOrder(y)
    BY <1>1, <1>3 DEF TidyInv
  <2> QED
    BY <1>3, <1>4, <2>1 DEF InOrder, WellKeyed, Gated, Scoped, Custom, Globals
<1>6. ASSUME NEW y \in UserZone \ exists' PROVE Bare(y)'
  BY <1>3, <1>4 DEF TidyInv, Bare
<1>7. CatalogInOrder'
  BY DEF CatalogInOrder, TidyInv, TypeOK, Booting, Zone, Globals
<1> QED
  BY <1>1, <1>2, <1>5, <1>6, <1>7 DEF TidyInv

LEMMA TidyStep ==
  ASSUME Apart, FreshPages, TidyInv, Booting, [Next]_vars
  PROVE  TidyInv'
<1>t. TypeOK' /\ Exclusive'
  BY TypeStep, ExclusiveStep DEF TidyInv
<1>1. CASE Bootstrap
  BY <1>1, <1>t, TidyBoot
<1>2. CASE Restart
  <2>1. /\ \A r \in Requests : ~Active(r)'
        /\ stamp' = {} /\ hurt \subseteq hurt'
        /\ UNCHANGED <<exists, member, native, listed, axfr, upd, from, owned>>
    BY <1>2 DEF Restart, Active, pdnsVars
  <2>2. \A y : SameZone(y)
    BY <2>1 DEF SameZone
  <2>3. ASSUME NEW y \in UserZone \ hurt' PROVE InOrder(y)'
    <3>1. \A r \in Requests : Active(r) => job[r].zone # y
      BY <1>2 DEF Restart
    <3> QED
      BY <2>1, <2>2, <3>1, SameInOrder DEF TidyInv
  <2>4. CatalogInOrder' /\ (\A y \in UserZone \ exists : Bare(y))'
    BY <2>1 DEF TidyInv, CatalogInOrder, Bare, Globals
  <2> QED
    BY <1>t, <2>1, <2>3, <2>4 DEF TidyInv
<1>3. ASSUME NEW r \in Requests, Serve(r) PROVE TidyInv'
  BY <1>3, <1>t, TidyStart, TidyServe
<1>4. CASE UNCHANGED vars
  <2> USE <1>4 DEF vars, pdnsVars, regVars, bootVars, history
  <2>1. \A y : SameZone(y)
    BY DEF SameZone
  <2>2. \A r \in Requests : Active(r)' => (Placed(r) /\ (job[r].zone \notin hurt => Midway(r)))'
    <3> SUFFICES ASSUME NEW r \in Requests, Active(r)
                 PROVE  (Placed(r) /\ (job[r].zone \notin hurt => Midway(r)))'
      BY DEF Active
    <3>1. Placed(r) /\ (job[r].zone \notin hurt => Midway(r))
      BY DEF TidyInv
    <3>2. Placed(r)'
      BY <2>1, <3>1, SamePlaced
    <3> QED
      BY <2>1, <3>1, <3>2, SameMidway
  <2>3. \A y \in UserZone : InOrder(y) => InOrder(y)'
    BY <2>1, SameInOrder
  <2>4. CatalogInOrder' /\ (\A y \in UserZone \ exists : Bare(y))'
    BY DEF TidyInv, CatalogInOrder, Bare, Globals
  <2> QED
    BY <1>t, <2>2, <2>3, <2>4 DEF TidyInv, Active
<1> QED
  BY <1>1, <1>2, <1>3, <1>4 DEF Next

LEMMA InitTidy == Init => TidyInv
<1> SUFFICES ASSUME Init PROVE TidyInv
  OBVIOUS
<1>1. TypeOK /\ Exclusive /\ CatalogInOrder
  BY InitType, InitKeyInv DEF KeyInv, Init, CatalogInOrder, Zone
<1>2. \A y \in UserZone : InOrder(y) /\ Bare(y)
  BY DEF Init, InOrder, Bare, Zone
<1> QED
  BY <1>1, <1>2 DEF Init, TidyInv, Active

LEMMA TidyHolds ==
  ASSUME Apart, FreshPages
  PROVE  Spec => [](TidyInv /\ Booting)
<1>1. TidyInv /\ Booting /\ [Next]_vars => TidyInv' /\ Booting'
  BY TidyStep, BootingStep DEF TidyInv
<1> QED
  BY <1>1, InitTidy, InitKeyInv, PTL DEF Spec

(* When nobody is served, every zone that is not hurt is in order. *)
LEMMA QuietOrder ==
  ASSUME TidyInv, Quiet, NEW z \in exists \ hurt
  PROVE  IF z = Catalog THEN /\ axfr[z] = Globals /\ upd[z] = {} /\ from[z] = {} /\ ~Custom(z)
                        ELSE z \in UserZone /\ InOrder(z)
<1>1. z \in Zone /\ \A r \in Requests : ~Active(r)
  BY DEF TidyInv, TypeOK, Quiet
<1> QED
  BY <1>1 DEF TidyInv, CatalogInOrder, Zone, Custom

(* Whatever modes a zone has been through and whatever has failed, between
   requests a member of the catalog allows exactly the configured keys, and a
   custom zone of them the panel's own only, unless a request on this very zone
   has stopped half-way. *)
THEOREM ModeDecidesKeys ==
  ASSUME Apart, FreshPages
  PROVE  Spec => []ModeKeys
<1>1. TidyInv => ModeKeys
  BY QuietOrder DEF ModeKeys, InOrder, WellKeyed
<1> QED
  BY <1>1, TidyHolds, PTL

(* Between requests no zone has an address gate without update keys, nor
   update keys without a gate, unless a request on this very zone has stopped
   half-way. *)
THEOREM GateWithKeys ==
  ASSUME Apart, FreshPages
  PROVE  Spec => []GateUnlessHurt
<1>1. TidyInv => GateUnlessHurt
  BY QuietOrder DEF GateUnlessHurt, InOrder, Gated
<1> QED
  BY <1>1, TidyHolds, PTL

(* Between requests PowerDNS notifies nobody else for a custom zone with a
   notify list, and the secondaries for every other one, under the same
   conditions. *)
THEOREM NotifyGoesToTheList ==
  ASSUME Apart, FreshPages
  PROVE  Spec => []NotifyScoped
<1>1. TidyInv => NotifyScoped
  BY QuietOrder DEF NotifyScoped, InOrder, Scoped, Custom
<1> QED
  BY <1>1, TidyHolds, PTL

(* Between requests the panel's access rows and PowerDNS agree on which zones
   there are, but for those whose own creation or deletion has failed. *)
THEOREM EveryZoneIsOwned ==
  ASSUME Apart, FreshPages
  PROVE  Spec => []ZonesOwned
<1>1. TidyInv => ZonesOwned
  BY DEF TidyInv, Quiet, InOrder, ZonesOwned
<1> QED
  BY <1>1, TidyHolds, PTL

(* A key is deleted only when no zone uses it, although tsig_key_in_use asks
   zone after zone while others are changed: whatever fails, and whatever the
   number of threads, zones and keys, as long as the requests on one zone do not
   overlap and users submit fresh pages.  Only an extra key that a failed switch
   has left in a custom zone, where it is offered for deletion, may go while
   another zone is just getting it. *)
THEOREM DeletedKeysAreUnused ==
  ASSUME Apart, FreshPages
  PROVE  Spec => DeletedUnreferenced
<1> DEFINE Deleted == \A k \in tsigkeys \ tsigkeys' :
             \/ \A z \in exists : k \notin Refs(z)
             \/ k \in Extra /\ \E r \in Requests : cand[r] = k /\ job[r].zone \in hurt
<1>1. ASSUME KeyInv, TidyInv, PrimaryStays, [Next]_vars PROVE Deleted
  <2> SUFFICES ASSUME NEW k \in tsigkeys \ tsigkeys'
               PROVE  \/ \A z \in exists : k \notin Refs(z)
                      \/ k \in Extra /\ \E r \in Requests : cand[r] = k /\ job[r].zone \in hurt
    OBVIOUS
  <2>1. PICK r \in Requests : pc[r] = "rmkey" /\ k = cand[r]
    BY <1>1, OnlyRemoveKeyDeletes
  <2>2. k \in former[r] /\ k \notin Refs(job[r].zone) /\ k \in Key
    BY <1>1, <2>1 DEF KeyInv, Knows, TypeOK
  <2>3. CASE k \in Private
    <3>1. \A z \in exists : z \in Zone
      BY <1>1 DEF KeyInv, TypeOK
    <3>2. k \in Own(r)
      BY <2>2 DEF Own
    <3> QED
      BY <1>1, <2>2, <2>3, <3>1, <3>2 DEF KeyInv, BelongsToOne
  <2>4. CASE k \in Globals
    <3>1. k \in Extra
      BY <1>1, <2>2, <2>4 DEF PrimaryStays, Globals
    <3>2. job[r].zone \in hurt
      BY <1>1, <2>1, <2>2, <2>4 DEF TidyInv, Active, Midway
    <3> QED
      BY <2>1, <3>1, <3>2
  <2> QED
    BY <2>2, <2>3, <2>4 DEF Private
<1>2. KeyInv /\ PrimaryStays /\ [Next]_vars => PrimaryStays'
  BY PrimaryStep DEF KeyInv
<1>3. Init => PrimaryStays
  BY DEF Init, PrimaryStays
<1>4. Spec => [](KeyInv /\ Booting) /\ [](TidyInv /\ Booting)
  BY KeysHold, TidyHolds
<1>5. Spec => [][Deleted]_vars
  BY <1>1, <1>2, <1>3, <1>4, PTL DEF Spec
<1> QED
  BY <1>5 DEF DeletedUnreferenced

-----------------------------------------------------------------------------
(***************************************************************************)
(* The inductive invariant behind NoLeakedKeys, with one request at a      *)
(* time: a per-zone key that no zone refers to is one the request is going *)
(* to put into its zone or to look for users of, or one that a request     *)
(* which failed had in hand.                                               *)
(***************************************************************************)
Accounted(k) ==
  \/ k \in Globals \cup lost
  \/ \E z \in exists : k \in Refs(z)
  \/ \E r \in Requests : k \in Held(r)

(* what r is about to take out of its zone is what it keeps or cleans up *)
Replaces(r) ==
  LET z == job[r].zone
      taken == keys[r] \cup former[r] \cup Globals \cup lost
  IN
  /\ pc[r] \in {"setkeys", "formerUpd", "delzone", "join", "master", "unlist"} => axfr[z] \subseteq taken
  /\ pc[r] \in {"readIps", "putUpd", "delUpd", "delzone"} => upd[z] \subseteq taken
  /\ pc[r] = "uncatalog" => z \in member

(* what r holds before it reads, while it scans and when it is done *)
Minds(r) ==
  /\ pc[r] \in {"former", "mkkey", "readAxfr", "readUpd", "commit"} => former[r] = {}
  /\ pc[r] = "formerUpd" => former[r] \subseteq axfr[job[r].zone]
  /\ pc[r] = "setkeys" /\ job[r].op \notin {"keyAdd", "keyDel"} => keys[r] = {}
  /\ pc[r] = "delUpd" => keys[r] = {}
  /\ pc[r] \in {"scanAxfr", "scanUpd"} => todo[r] \subseteq exists
  /\ pc[r] = "scanUpd" => at[r] \in exists

(* A member of the catalog keeps no key of its own, once the switch has told
   what they were: the stamp of the start-up takes none away. *)
Switching == {"master", "unlist", "setkeys"}

MembersForget ==
  \A z \in member :
    (\A r \in Requests : job[r].zone = z => pc[r] \notin Switching)
      => axfr[z] \subseteq Globals \cup lost

LeakInv ==
  /\ \A k \in tsigkeys : Accounted(k)
  /\ MembersForget
  /\ \A r \in Requests : Replaces(r) /\ Minds(r)

(* What r gives up, in its hands or in its zone, is accounted for elsewhere. *)
Carries(r) ==
  \A k \in tsigkeys' :
    \/ k \in Globals \cup lost' \/ k \in Held(r)' \/ \E z \in exists' : k \in Refs(z)'
    \/ k \in tsigkeys \ lost /\ k \notin Held(r) /\ \A z \in exists : k \notin Refs(z)

LEMMA Carried ==
  ASSUME \A p, q \in Requests : p = q, LeakInv, NEW r \in Requests, Carries(r)
  PROVE  \A k \in tsigkeys' : Accounted(k)'
<1> SUFFICES ASSUME NEW k \in tsigkeys' PROVE Accounted(k)'
  OBVIOUS
<1>1. CASE k \in Globals \cup lost' \/ k \in Held(r)' \/ \E z \in exists' : k \in Refs(z)'
  BY <1>1 DEF Accounted, Globals
<1>2. CASE k \in tsigkeys \ lost /\ k \notin Held(r) /\ \A z \in exists : k \notin Refs(z)
  <2>1. \A q \in Requests : q = r
    OBVIOUS
  <2>2. k \notin Held(r) /\ Accounted(k) /\ \A q \in Requests : k \notin Held(q)
    BY <1>2, <2>1 DEF LeakInv
  <2>3. k \in Globals
    BY <1>2, <2>2 DEF Accounted
  <2> QED
    BY <1>1, <2>3
<1> QED
  BY <1>1, <1>2 DEF Carries

LEMMA ServeLeaksNothing ==
  ASSUME \A p, q \in Requests : p = q, TidyInv, KeyInv, LeakInv, NEW r \in Requests, Serve(r), ~Start(r)
  PROVE  Carries(r) /\ Replaces(r)' /\ Minds(r)'
<1> DEFINE op == job[r].op
           Kept == Carries(r) /\ Replaces(r)' /\ Minds(r)'
<1>0. /\ Active(r) /\ op \in AllOps /\ job[r] \in Job /\ job[r].zone \in UserZone
      /\ Placed(r) /\ Replaces(r) /\ Minds(r) /\ Knows(r)
      /\ job[r].zone \notin exists => Bare(job[r].zone)
  BY ServedStep, ConfigAssumption DEF Active, TidyInv, TypeOK, JobOK, Job, KeyInv, LeakInv
<1>z. PICK z \in UserZone : z = job[r].zone
  BY <1>0
<1>t. /\ axfr \in [Zone -> SUBSET Key] /\ upd \in [Zone -> SUBSET Key]
      /\ pc \in [Requests -> Labels] /\ tsigkeys \subseteq Key /\ exists \subseteq Zone
      /\ keys \in [Requests -> SUBSET Key] /\ former \in [Requests -> SUBSET Key]
      /\ cand \in [Requests -> Key \cup {NoKey}] /\ at \in [Requests -> Zone \cup {NoZone}]
      /\ todo \in [Requests -> SUBSET Zone] /\ z \in Zone /\ pc[r] \in Course(op)
  BY <1>0, <1>z DEF TidyInv, TypeOK, Zone, Placed
<1>e. z \in exists <=> ~(pc[r] = "create" \/ (op = "delete" /\ pc[r] \in CleanUp \cup {"commit"}))
  BY <1>0, <1>z DEF Placed
<1>k. /\ op \in KeyOps => job[r].key \in Key
      /\ op \notin KeyOps => job[r].key = NoKey
      /\ NoKey \notin Key
  BY <1>0, ConfigAssumption DEF Job
<1>f. /\ Finish(r) => /\ pc' = [pc EXCEPT ![r] = "idle"] /\ pc'[r] = "idle"
                      /\ Held(r)' = {} /\ Replaces(r)' /\ Minds(r)'
  <2> SUFFICES ASSUME Finish(r)
               PROVE /\ pc' = [pc EXCEPT ![r] = "idle"] /\ pc'[r] = "idle"
                     /\ Held(r)' = {} /\ Replaces(r)' /\ Minds(r)'
    OBVIOUS
  <2>1. pc' = [pc EXCEPT ![r] = "idle"] /\ pc'[r] = "idle" /\ former'[r] = {}
    BY <1>t DEF Finish, Goto
  <2> QED
    BY <2>1 DEF Held, Pending, Replaces, Minds
<1> USE <1>t
<1> USE DEF Goto, pdnsVars, regVars, history, AllOps, CreateOps, AddOps, KeyOps
(* the steps that leave the zones and the keys of PowerDNS alone *)
<1>q. ASSUME UNCHANGED <<exists, axfr, upd, tsigkeys>>, lost \subseteq lost',
             \A k \in tsigkeys : k \in Held(r) =>
                k \in Globals \cup lost' \/ k \in Held(r)' \/ \E y \in exists : k \in Refs(y)
      PROVE  Carries(r)
  BY <1>q DEF Carries, Refs
<1>1. CASE Create(r)
  <2>1. /\ pc[r] = "create" /\ pc'[r] = "setkeys" /\ former' = former /\ keys' = keys /\ job' = job
        /\ UNCHANGED <<axfr, upd, tsigkeys, lost>> /\ exists' = exists \cup {z}
    BY <1>1, <1>e, <1>z DEF Create
  <2>2. keys[r] = {} /\ axfr[z] = {} /\ op \in CreateOps
    BY <1>0, <1>e, <1>z, <2>1 DEF Knows, Bare, Course, CleanUp, Writes
  <2>3. Carries(r)
    BY <2>1 DEF Carries, Held, Pending, Refs
  <2>4. Replaces(r)' /\ Minds(r)'
    BY <1>z, <2>1, <2>2 DEF Replaces, Minds
  <2> QED
    BY <2>3, <2>4
<1>2. CASE Uncatalog(r)
  <2>1. /\ pc[r] = "uncatalog" /\ pc'[r] = "setkeys" /\ former' = former /\ keys' = keys /\ job' = job
        /\ UNCHANGED <<exists, axfr, upd, tsigkeys, lost>>
    BY <1>2, <1>e, <1>z DEF Uncatalog, NotFound, CleanUp
  <2>2. keys[r] = {} /\ op = "toCustom" /\ z \in member
    BY <1>0, <1>z, <2>1 DEF Knows, Replaces, Course, CleanUp, Writes
  <2>5. axfr[z] \subseteq Globals \cup lost
    <3>1. \A q \in Requests : pc[q] \notin Switching
      BY <2>1 DEF Switching
    <3> QED
      BY <2>2, <3>1 DEF LeakInv, MembersForget
  <2>3. Carries(r)
    BY <1>q, <2>1 DEF Held, Pending
  <2>4. Replaces(r)' /\ Minds(r)'
    BY <1>z, <2>1, <2>2, <2>5 DEF Replaces, Minds, Globals
  <2> QED
    BY <2>3, <2>4
<1>3. CASE ReadFormer(r)
  <2>1. /\ pc[r] = "former" /\ pc'[r] = IF op = "delete" THEN "formerUpd" ELSE "join"
        /\ former'[r] = axfr[z] \ Globals /\ keys' = keys /\ job' = job
        /\ UNCHANGED <<exists, axfr, upd, tsigkeys, lost>>
    BY <1>3, <1>e, <1>z DEF ReadFormer, NotFound, CleanUp
  <2>2. keys[r] = {} /\ former[r] = {}
    BY <1>0, <2>1 DEF Knows, Minds
  <2>3. Carries(r)
    BY <1>q, <2>1, <2>2 DEF Held, Pending
  <2>4. Replaces(r)' /\ Minds(r)'
    BY <1>z, <2>1, <2>2 DEF Replaces, Minds, Globals
  <2> QED
    BY <2>3, <2>4
<1>4. CASE Join(r) \/ BackToMaster(r) \/ Unlist(r)
  <2>1. /\ pc[r] \in {"join", "master", "unlist"} /\ pc'[r] \in {"master", "unlist", "setkeys"}
        /\ former' = former /\ keys' = keys /\ job' = job
        /\ UNCHANGED <<exists, axfr, upd, tsigkeys, lost>>
    BY <1>4, <1>e, <1>z DEF Join, BackToMaster, Unlist, NotFound, CleanUp
  <2>2. keys[r] = {} /\ op = "toCatalog" /\ axfr[z] \subseteq keys[r] \cup former[r] \cup Globals \cup lost
    BY <1>0, <1>z, <2>1 DEF Knows, Replaces, Course, CleanUp, Writes
  <2>3. Carries(r)
    BY <1>q, <2>1 DEF Held, Pending
  <2>4. Replaces(r)' /\ Minds(r)'
    BY <1>z, <2>1, <2>2 DEF Replaces, Minds, Globals
  <2> QED
    BY <2>3, <2>4
<1>5. CASE SetKeys(r)
  <2>1. /\ pc[r] = "setkeys" /\ z \in exists /\ axfr' = [axfr EXCEPT ![z] = NewKeys(r)]
        /\ UNCHANGED <<exists, upd, tsigkeys, lost>>
        /\ \/ /\ pc'[r] \in {"commit", "list"} /\ former' = former /\ job' = job
              /\ pc'[r] = "commit" => op \in CreateOps
           \/ former[r] = {} /\ Finish(r)
    BY <1>5, <1>e, <1>z DEF SetKeys, NotFound, CleanUp
  <2>2. op \in CreateOps \cup {"toCustom", "toCatalog", "keyAdd", "keyDel"}
    BY <2>1 DEF Course, CleanUp, Writes
  <2>3. axfr[z] \subseteq keys[r] \cup former[r] \cup Globals \cup lost /\ keys[r] \subseteq NewKeys(r)
    BY <1>0, <1>z, <2>1, <2>2 DEF Replaces, Minds, NewKeys
  <2>4. former[r] \subseteq Held(r)'
    BY <2>1 DEF Held
  <2>5. Held(r) = former[r] \cup keys[r]
    BY <2>1 DEF Held, Pending
  <2>6. Carries(r)
    <3> SUFFICES ASSUME NEW k \in tsigkeys',
                        k \in Held(r) \/ \E y \in exists : k \in Refs(y)
                 PROVE  k \in Globals \cup lost' \/ k \in Held(r)' \/ \E y \in exists' : k \in Refs(y)'
      BY <2>1 DEF Carries
    <3>1. NewKeys(r) \subseteq Refs(z)'
      BY <2>1 DEF Refs
    <3>2. CASE k \in Held(r)
      BY <2>1, <2>3, <2>4, <2>5, <3>1, <3>2
    <3>3. CASE \E y \in exists : k \in Refs(y)
      <4>1. PICK y \in exists : k \in Refs(y)
        BY <3>3
      <4>2. CASE y # z \/ k \in upd[y]
        BY <2>1, <4>1, <4>2 DEF Refs
      <4>3. CASE y = z /\ k \in axfr[z]
        BY <2>1, <2>3, <2>4, <3>1, <4>3
      <4> QED
        BY <4>1, <4>2, <4>3 DEF Refs
    <3> QED
      BY <3>2, <3>3
  <2>7. Replaces(r)' /\ Minds(r)'
    <3>1. CASE pc'[r] \in {"commit", "list"} /\ former' = former /\ (pc'[r] = "commit" => op \in CreateOps)
      BY <1>0, <3>1 DEF Replaces, Minds, Placed
    <3> QED
      BY <1>f, <2>1, <3>1
  <2> QED
    BY <2>6, <2>7
<1>6. CASE MakeKey(r)
  <2>1. pc[r] = "mkkey" /\ op \in AddOps
    BY <1>6 DEF MakeKey, Course, CleanUp, Writes
  <2>2. former[r] = {} /\ keys[r] = {}
    BY <1>0, <2>1 DEF Minds, Knows
  <2>3. CASE Finish(r) /\ UNCHANGED <<exists, axfr, upd, tsigkeys, lost>>
    BY <1>f, <1>q, <2>1, <2>2, <2>3 DEF Held, Pending
  <2>4. CASE ~(Finish(r) /\ UNCHANGED <<exists, axfr, upd, tsigkeys, lost>>)
    <3>1. /\ pc'[r] = IF op = "keyAdd" THEN "readAxfr" ELSE "readUpd"
          /\ former' = former /\ keys' = keys /\ job' = job
          /\ UNCHANGED <<exists, axfr, upd, lost>> /\ tsigkeys' = tsigkeys \cup {job[r].key}
      BY <1>6, <2>1, <2>4 DEF MakeKey
    <3>2. job[r].key \in Held(r)' /\ Held(r) = {}
      BY <1>k, <2>1, <2>2, <3>1 DEF Held, Pending
    <3>3. Carries(r)
      BY <3>1, <3>2 DEF Carries, Refs
    <3>4. Replaces(r)' /\ Minds(r)'
      BY <2>2, <3>1 DEF Replaces, Minds
    <3> QED
      BY <3>3, <3>4
  <2> QED
    BY <2>3, <2>4
<1>7. CASE ReadAxfr(r)
  <2>1. /\ pc[r] = "readAxfr" /\ pc'[r] = "setkeys" /\ job' = job
        /\ keys'[r] = IF op = "keyAdd" THEN axfr[z] \cup {job[r].key} ELSE axfr[z] \ {job[r].key}
        /\ former'[r] = IF op = "keyDel" THEN {job[r].key} ELSE {}
        /\ UNCHANGED <<exists, axfr, upd, tsigkeys, lost>>
    BY <1>7, <1>e, <1>z DEF ReadAxfr, NotFound, CleanUp
  <2>2. former[r] = {} /\ op \in {"keyAdd", "keyDel"}
    BY <1>0, <2>1 DEF Minds, Course, CleanUp, Writes
  <2>3. Carries(r)
    BY <1>q, <2>1, <2>2 DEF Held, Pending
  <2>4. Replaces(r)' /\ Minds(r)'
    BY <1>z, <2>1, <2>2 DEF Replaces, Minds
  <2> QED
    BY <2>3, <2>4
<1>8. CASE ReadUpd(r)
  <2>1. /\ pc[r] = "readUpd" /\ job' = job
        /\ keys'[r] = EditedUpd(r) /\ former'[r] = IF op = "updDel" THEN {job[r].key} \ Globals ELSE {}
        /\ pc'[r] \in {"putUpd", "readIps", "delUpd"} /\ (pc'[r] = "delUpd" => keys'[r] = {})
        /\ op # "setIps" => pc'[r] = "readIps"
        /\ UNCHANGED <<exists, axfr, upd, tsigkeys, lost>>
    BY <1>8 DEF ReadUpd, WriteBranch
  <2>2. former[r] = {} /\ op \in {"updAdd", "updDel", "setIps"}
    BY <1>0, <2>1 DEF Minds, Course, CleanUp, Writes
  <2>3. keys'[r] = IF op = "updAdd" THEN upd[z] \cup {job[r].key}
                   ELSE IF op = "updDel" THEN upd[z] \ {job[r].key} ELSE upd[z]
    BY <1>z, <2>1, <2>2 DEF EditedUpd
  <2>4. Carries(r)
    BY <1>k, <1>q, <2>1, <2>2, <2>3 DEF Held, Pending
  <2>5. Replaces(r)' /\ Minds(r)'
    BY <1>z, <2>1, <2>2, <2>3 DEF Replaces, Minds, Globals
  <2> QED
    BY <2>4, <2>5
<1>9. CASE ReadIps(r)
  <2>1. /\ pc[r] = "readIps" /\ pc'[r] = IF keys[r] # {} THEN "putUpd" ELSE "delUpd"
        /\ former' = former /\ keys' = keys /\ job' = job
        /\ UNCHANGED <<exists, axfr, upd, tsigkeys, lost>>
    BY <1>9 DEF ReadIps, WriteBranch
  <2>2. Carries(r)
    BY <1>q, <2>1 DEF Held, Pending
  <2>3. Replaces(r)' /\ Minds(r)'
    BY <1>0, <1>z, <2>1 DEF Replaces, Minds, Globals
  <2> QED
    BY <2>2, <2>3
<1>10. CASE PutUpd(r) \/ DelUpd(r)
  <2>1. /\ pc[r] \in {"putUpd", "delUpd"} /\ pc'[r] \in {"putFrom", "delFrom"}
        /\ pc[r] = "delUpd" => keys[r] = {}
        /\ upd' = [upd EXCEPT ![z] = keys[r]] /\ z \in exists
        /\ former' = former /\ UNCHANGED <<exists, axfr, tsigkeys, lost>>
    BY <1>0, <1>10, <1>e, <1>z DEF PutUpd, DelUpd, NotFound, CleanUp, Minds
  <2>2. upd[z] \subseteq keys[r] \cup former[r] \cup Globals \cup lost
    BY <1>0, <1>z, <2>1 DEF Replaces
  <2>3. Held(r) \subseteq former[r] \cup keys[r] /\ Held(r)' = former[r] /\ keys[r] \subseteq Refs(z)'
    BY <2>1 DEF Held, Pending, Refs
  <2>4. Carries(r)
    <3> SUFFICES ASSUME NEW k \in tsigkeys',
                        k \in Held(r) \/ \E y \in exists : k \in Refs(y)
                 PROVE  k \in Globals \cup lost' \/ k \in Held(r)' \/ \E y \in exists' : k \in Refs(y)'
      BY <2>1 DEF Carries
    <3>2. CASE k \in keys[r] \cup former[r]
      BY <2>1, <2>3, <3>2
    <3>3. CASE \E y \in exists : k \in Refs(y)
      <4>1. PICK y \in exists : k \in Refs(y)
        BY <3>3
      <4>2. CASE y # z \/ k \in axfr[y]
        BY <2>1, <4>1, <4>2 DEF Refs
      <4>3. CASE y = z /\ k \in upd[z]
        BY <2>1, <2>2, <2>3, <3>2, <4>3
      <4> QED
        BY <4>1, <4>2, <4>3 DEF Refs
    <3> QED
      BY <2>3, <3>2, <3>3
  <2>5. Replaces(r)' /\ Minds(r)'
    BY <2>1 DEF Replaces, Minds
  <2> QED
    BY <2>4, <2>5
<1>11. CASE PutFrom(r) \/ DelFrom(r)
  <2>1. /\ pc[r] \in {"putFrom", "delFrom"} /\ AccessWritten(r)
        /\ UNCHANGED <<exists, axfr, upd, tsigkeys, lost>>
    BY <1>11, <1>e, <1>z DEF PutFrom, DelFrom, NotFound, CleanUp
  <2>2. Held(r) = former[r]
    BY <2>1 DEF Held, Pending
  <2>3. CASE former[r] # {}
    <3>1. pc'[r] = "list" /\ former' = former
      BY <2>1, <2>3 DEF AccessWritten
    <3>2. Carries(r)
      BY <1>q, <2>1, <2>2, <3>1 DEF Held
    <3>3. Replaces(r)' /\ Minds(r)'
      BY <3>1 DEF Replaces, Minds
    <3> QED
      BY <3>2, <3>3
  <2>4. CASE former[r] = {}
    BY <1>f, <1>q, <2>1, <2>2, <2>4 DEF AccessWritten
  <2> QED
    BY <2>3, <2>4
(* going on with the clean-up gives up the key looked for only *)
<1>n. ASSUME pc[r] \in CleanUp, NextKey(r, cand[r]), UNCHANGED <<exists, axfr, upd>>,
             tsigkeys' \subseteq tsigkeys, lost \subseteq lost' \cup {cand[r]},
             cand[r] \in tsigkeys' => cand[r] \in lost' \/ \E y \in exists : cand[r] \in Refs(y)
      PROVE  Kept
  <2>1. Held(r) = former[r]
    BY <1>n DEF Held, Pending, CleanUp
  <2>2. \/ pc'[r] = "list" /\ former'[r] = former[r] \ {cand[r]}
        \/ pc'[r] = "commit" /\ former[r] \subseteq {cand[r]} /\ former'[r] = {}
        \/ Finish(r) /\ former[r] \subseteq {cand[r]}
    BY <1>n DEF NextKey
  <2>3. \A k \in former[r] : k = cand[r] \/ k \in Held(r)'
    BY <2>2 DEF Held
  <2>4. Carries(r)
    BY <1>n, <2>1, <2>3 DEF Carries, Refs
  <2>5. Replaces(r)' /\ Minds(r)'
    BY <1>f, <2>2 DEF Replaces, Minds
  <2> QED
    BY <2>4, <2>5
<1>12. CASE ListZones(r)
  <2>1. /\ pc[r] = "list" /\ pc'[r] \in {"rmkey", "scanAxfr"} /\ todo'[r] = exists
        /\ former' = former /\ UNCHANGED <<exists, axfr, upd, tsigkeys, lost>>
    BY <1>12 DEF ListZones
  <2>2. Carries(r)
    BY <1>q, <2>1 DEF Held, Pending
  <2>3. Replaces(r)' /\ Minds(r)'
    BY <2>1 DEF Replaces, Minds
  <2> QED
    BY <2>2, <2>3
<1>13. CASE ScanAxfr(r)
  <2>1. PICK y \in todo[r] :
          \/ y \notin exists
          \/ y \in exists /\ MayTransfer(cand[r], y) /\ NextKey(r, cand[r])
          \/ /\ y \in exists /\ at'[r] = y /\ pc'[r] = "scanUpd"
             /\ former' = former /\ todo' = todo
    BY <1>13 DEF ScanAxfr
  <2>2. /\ pc[r] = "scanAxfr" /\ y \in exists /\ todo[r] \subseteq exists
        /\ UNCHANGED <<exists, axfr, upd, tsigkeys, lost>>
    BY <1>0, <1>13 DEF ScanAxfr, Minds
  <2>3. CASE MayTransfer(cand[r], y) /\ NextKey(r, cand[r])
    BY <1>n, <2>2, <2>3 DEF CleanUp, MayTransfer, Refs
  <2>4. CASE at'[r] = y /\ pc'[r] = "scanUpd" /\ former' = former /\ todo' = todo
    <3>1. Carries(r)
      BY <1>q, <2>2, <2>4 DEF Held, Pending
    <3>2. Replaces(r)' /\ Minds(r)'
      BY <2>2, <2>4 DEF Replaces, Minds
    <3> QED
      BY <3>1, <3>2
  <2> QED
    BY <2>1, <2>2, <2>3, <2>4
<1>14. CASE ScanUpd(r)
  <2>1. /\ pc[r] = "scanUpd" /\ at[r] \in exists /\ todo[r] \subseteq exists
        /\ UNCHANGED <<exists, axfr, upd, tsigkeys, lost>>
    BY <1>0, <1>14 DEF ScanUpd, Minds
  <2>2. CASE cand[r] \in upd[at[r]] /\ NextKey(r, cand[r])
    BY <1>n, <2>1, <2>2 DEF CleanUp, Refs
  <2>3. CASE /\ pc'[r] \in {"rmkey", "scanAxfr"} /\ former' = former
             /\ todo'[r] = todo[r] \ {at[r]}
    <3>1. Carries(r)
      BY <1>q, <2>1, <2>3 DEF Held, Pending
    <3>2. Replaces(r)' /\ Minds(r)'
      BY <2>1, <2>3 DEF Replaces, Minds
    <3> QED
      BY <3>1, <3>2
  <2> QED
    BY <1>14, <2>2, <2>3 DEF ScanUpd
<1>15. CASE RemoveKey(r)
  <2>1. pc[r] = "rmkey" /\ UNCHANGED <<exists, axfr, upd>>
    BY <1>15 DEF RemoveKey
  <2>2. CASE cand[r] \in tsigkeys
    BY <1>15, <1>n, <2>1, <2>2 DEF RemoveKey, CleanUp
  <2>3. CASE cand[r] \notin tsigkeys
    <3>1. LoopError(r) /\ UNCHANGED <<tsigkeys, lost>>
      BY <1>15, <2>3 DEF RemoveKey
    <3>2. CASE NextKey(r, cand[r])
      BY <1>n, <2>1, <2>3, <3>1, <3>2 DEF CleanUp
    <3>3. CASE op # "delete" /\ Finish(r)
      <4>1. cand[r] \in former[r] /\ former[r] \subseteq Key
        BY <1>0, <2>1 DEF Knows
      <4>2. cand[r] \in Globals
        BY <2>3, <4>1 DEF KeyInv, BelongsAndExists, Own, Private
      <4>3. former[r] \subseteq {cand[r]}
        BY <1>0, <4>1, <4>2 DEF Placed
      <4>4. Carries(r)
        BY <1>q, <2>1, <2>3, <3>1, <4>3 DEF Held, Pending
      <4> QED
        BY <1>f, <3>3, <4>4
    <3> QED
      BY <3>1, <3>2, <3>3 DEF LoopError
  <2> QED
    BY <2>2, <2>3
<1>16. CASE ReadFormerUpd(r)
  <2>1. /\ pc[r] = "formerUpd" /\ pc'[r] = "delzone"
        /\ former'[r] = former[r] \cup (upd[z] \ Globals) /\ keys' = keys /\ job' = job
        /\ UNCHANGED <<exists, axfr, upd, tsigkeys, lost>>
    BY <1>16, <1>z DEF ReadFormerUpd
  <2>2. Carries(r)
    BY <1>q, <2>1 DEF Held, Pending
  <2>3. Replaces(r)' /\ Minds(r)'
    BY <1>0, <1>z, <2>1 DEF Replaces, Minds, Globals
  <2> QED
    BY <2>2, <2>3
<1>17. CASE DeleteZone(r)
  <2>1. /\ pc[r] = "delzone" /\ exists' = exists \ {z} /\ former' = former
        /\ axfr' = [axfr EXCEPT ![z] = {}] /\ upd' = [upd EXCEPT ![z] = {}]
        /\ tsigkeys' = tsigkeys /\ lost' = lost
        /\ pc'[r] = IF former[r] # {} THEN "list" ELSE "commit"
    BY <1>17, <1>e, <1>z DEF DeleteZone, NotFound, CleanUp
  <2>2. keys[r] = {} /\ Refs(z) \subseteq former[r] \cup Globals \cup lost
    BY <1>0, <1>z, <2>1 DEF Knows, Replaces, Refs
  <2>3. Held(r) = former[r] /\ Held(r)' = former[r]
    BY <2>1 DEF Held, Pending
  <2>4. \A y \in exists : y # z => y \in exists' /\ Refs(y)' = Refs(y)
    BY <2>1 DEF Refs
  <2>5. Carries(r)
    BY <2>1, <2>2, <2>3, <2>4 DEF Carries
  <2>6. Replaces(r)' /\ Minds(r)'
    BY <2>1 DEF Replaces, Minds
  <2> QED
    BY <2>5, <2>6
<1>18. CASE SetTargets(r)
  <2>1. /\ pc[r] = "targets" /\ pc'[r] = "kind" /\ former' = former
        /\ UNCHANGED <<exists, axfr, upd, tsigkeys, lost>>
    BY <1>18, <1>e, <1>z DEF SetTargets, NotFound, CleanUp
  <2>2. Carries(r)
    BY <1>q, <2>1 DEF Held, Pending
  <2>3. Replaces(r)' /\ Minds(r)'
    BY <2>1 DEF Replaces, Minds
  <2> QED
    BY <2>2, <2>3
<1>19. CASE SetKind(r) \/ Commit(r)
  <2>1. Finish(r) /\ pc[r] \in {"kind", "commit"} /\ UNCHANGED <<exists, axfr, upd, tsigkeys, lost>>
    BY <1>19, <1>e, <1>z DEF SetKind, Commit, NotFound, CleanUp
  <2>2. former[r] = {}
    BY <1>0, <2>1 DEF Minds, Placed, Course, CleanUp, Writes
  <2>3. Held(r) = {}
    BY <2>1, <2>2 DEF Held, Pending
  <2> QED
    BY <1>f, <1>q, <2>1, <2>3
<1>20. CASE Abort(r)
  <2>1. Finish(r) /\ lost' = lost \cup Held(r) /\ UNCHANGED <<exists, axfr, upd, tsigkeys>>
    BY <1>20 DEF Abort
  <2> QED
    BY <1>f, <1>q, <2>1
<1>21. CASE SkipKey(r)
  <2>1. /\ pc[r] \in CleanUp /\ NextKey(r, cand[r]) /\ lost' = lost \cup {cand[r]}
        /\ UNCHANGED <<exists, axfr, upd, tsigkeys>>
    BY <1>21 DEF SkipKey, CleanUp
  <2> QED
    BY <1>n, <2>1
<1>22. CASE SkipFormer(r)
  <2>1. /\ pc[r] \in {"former", "formerUpd"} /\ pc'[r] = "delzone" /\ former'[r] = {}
        /\ keys' = keys /\ job' = job /\ lost' = lost \cup Refs(z)
        /\ UNCHANGED <<exists, axfr, upd, tsigkeys>>
    BY <1>22, <1>z DEF SkipFormer, ForgetFormer
  <2>2. former[r] \subseteq Refs(z)
    BY <1>0, <1>z, <2>1 DEF Minds, Refs
  <2>3. Carries(r)
    BY <1>q, <2>1, <2>2 DEF Held, Pending
  <2>4. Replaces(r)' /\ Minds(r)'
    BY <1>z, <2>1 DEF Replaces, Minds, Refs
  <2> QED
    BY <2>3, <2>4
<1> HIDE DEF Goto, pdnsVars, regVars, history, AllOps, CreateOps, AddOps, KeyOps
<1> QED
  BY <1>1, <1>2, <1>3, <1>4, <1>5, <1>6, <1>7, <1>8, <1>9, <1>10, <1>11, <1>12, <1>13, <1>14,
     <1>15, <1>16, <1>17, <1>18, <1>19, <1>20, <1>21, <1>22 DEF Serve

LEMMA ServeForgets ==
  ASSUME \A p, q \in Requests : p = q, TidyInv, KeyInv, LeakInv,
         NEW r \in Requests, Serve(r), ~Start(r)
  PROVE  MembersForget'
<1> DEFINE op == job[r].op
<1>0. /\ Active(r) /\ op \in AllOps /\ Placed(r) /\ Replaces(r) /\ Minds(r) /\ Knows(r)
      /\ \A q \in Requests : q = r
  BY ServedStep, ConfigAssumption DEF Active, TidyInv, TypeOK, JobOK, Job, KeyInv, LeakInv
<1>z. PICK z \in UserZone : z = job[r].zone
  BY <1>0 DEF Active, TidyInv, TypeOK, JobOK, Job
<1>t. /\ axfr \in [Zone -> SUBSET Key] /\ pc \in [Requests -> Labels] /\ z \in Zone /\ z # Catalog
      /\ member \subseteq UserZone /\ member \subseteq Zone /\ pc[r] \in Course(op)
  BY <1>0, <1>z, ConfigAssumption DEF TidyInv, TypeOK, Zone, Placed
<1>j. pc'[r] # "idle" => job' = job
  BY ServedStep DEF TidyInv
(* the other zones *)
<1>1. ASSUME NEW y \in member', y # z, lost \subseteq lost'
      PROVE  axfr'[y] \subseteq Globals \cup lost'
  <2>1. y \in Zone /\ SameZone(y)
    BY <1>1, <1>z, OtherZones, TypeStep DEF TidyInv, TypeOK, Zone, Next
  <2>2. axfr[y] \subseteq Globals \cup lost
    BY <1>0, <1>1, <1>z, <2>1 DEF SameZone, LeakInv, MembersForget
  <2> QED
    BY <1>1, <2>1, <2>2 DEF SameZone
(* the zone of the request *)
<1>2. ASSUME z \in member', pc'[r] \notin Switching, lost \subseteq lost'
      PROVE  axfr'[z] \subseteq Globals \cup lost'
  <2>1. CASE SetKeys(r)
    <3>1. z \in member /\ pc[r] = "setkeys" /\ axfr'[z] = NewKeys(r)
      BY <1>2, <1>t, <1>z, <2>1, <1>0 DEF SetKeys, NotFound, Placed, CleanUp, pdnsVars
    <3>2. op \in {"createCatalog", "toCatalog"}
      BY <1>0, <1>z, <3>1 DEF Placed, Custom
    <3> QED
      BY <3>1, <3>2 DEF NewKeys
  <2>2. CASE Abort(r)
    <3>1. lost' = lost \cup Held(r) /\ axfr' = axfr /\ z \in member
      BY <1>2, <2>2 DEF Abort, pdnsVars
    <3>2. CASE pc[r] \notin Switching
      BY <1>0, <1>z, <3>1, <3>2 DEF LeakInv, MembersForget
    <3>3. CASE pc[r] \in Switching
      <4>1. axfr[z] \subseteq keys[r] \cup former[r] \cup Globals \cup lost
        BY <1>0, <1>z, <3>3 DEF Replaces, Switching
      <4>2. keys[r] \cup former[r] \subseteq Held(r)
        BY <1>0, <3>3 DEF Switching, Held, Knows
      <4> QED
        BY <3>1, <4>1, <4>2
    <3> QED
      BY <3>2, <3>3
  <2>3. CASE pc[r] \notin Switching /\ UNCHANGED axfr /\ z \in member
    BY <1>0, <1>2, <1>z, <2>3 DEF LeakInv, MembersForget
  <2>4. CASE Create(r)
    <3>1. pc[r] = "create" /\ z \notin exists
      BY <1>0, <1>z, <2>4 DEF Create, Placed
    <3>2. axfr'[z] = {}
      BY <1>0, <1>z, <2>4, <3>1 DEF Create, TidyInv, Bare
    <3> QED
      BY <3>2
  <2>5. z \in exists \/ pc[r] \notin {"join", "master", "unlist", "uncatalog", "delzone"}
    BY <1>0, <1>z DEF Placed, CleanUp
  <2>6. ~(Join(r) \/ BackToMaster(r) \/ Unlist(r) \/ Uncatalog(r) \/ DeleteZone(r))
    BY <1>2, <1>t, <1>z, <2>5
    DEF Join, BackToMaster, Unlist, Uncatalog, DeleteZone, NotFound, Switching, Goto
  <2>7. ReadAxfr(r) => pc'[r] \in Switching \/ UNCHANGED <<axfr, member>>
    BY DEF ReadAxfr, NotFound, pdnsVars
  <2> QED
    BY <1>2, <2>1, <2>2, <2>3, <2>4, <2>6, <2>7
    DEF Serve, ReadFormer, MakeKey, ReadAxfr, ReadUpd, ReadIps, PutUpd, PutFrom, DelUpd, DelFrom,
        ListZones, ScanAxfr, ScanUpd, RemoveKey, ReadFormerUpd, SetTargets, SetKind, Commit,
        SkipFormer, ForgetFormer, SkipKey, NotFound, pdnsVars, Switching
<1>3. CASE lost \subseteq lost'
  <2>1. ASSUME NEW y \in member', \A q \in Requests : job'[q].zone = y => pc'[q] \notin Switching
        PROVE  axfr'[y] \subseteq Globals \cup lost'
    BY <1>1, <1>2, <1>3, <1>j, <1>z, <2>1 DEF Switching
  <2> QED
    BY <2>1 DEF MembersForget, Globals, Switching
(* a key that is deleted, because no zone uses it, may be lost no longer *)
<1>4. CASE RemoveKey(r)
  <2>1. /\ pc[r] = "rmkey" /\ lost \subseteq lost' \cup {cand[r]} /\ UNCHANGED <<member, axfr>>
    BY <1>4 DEF RemoveKey
  <2>2. \A y \in member : axfr[y] \subseteq Globals \cup lost
    BY <1>0, <2>1 DEF LeakInv, MembersForget, Switching
  <2>3. cand[r] \in former[r] /\ cand[r] \notin Refs(z) /\ cand[r] \in Key
    BY <1>0, <1>z, <2>1 DEF Knows, KeyInv, TypeOK
  <2>4. \A y \in member : cand[r] \in axfr[y] => cand[r] \in Globals
    <3> SUFFICES ASSUME NEW y \in member, cand[r] \in axfr[y], cand[r] \notin Globals PROVE FALSE
      OBVIOUS
    <3>1. y # z /\ cand[r] \in Private /\ cand[r] \in Own(r) /\ cand[r] \in Refs(y) /\ y \in Zone
      BY <1>t, <2>3 DEF Refs, Private, Own
    <3> QED
      BY <1>z, <3>1 DEF KeyInv, BelongsToOne
  <2> QED
    BY <2>1, <2>2, <2>4 DEF MembersForget, Globals
<1>5. RemoveKey(r) \/ lost \subseteq lost'
  BY DEF Serve, Create, Uncatalog, ReadFormer, Join, BackToMaster, Unlist, SetKeys,
     MakeKey, ReadAxfr, ReadUpd, ReadIps, PutUpd, PutFrom, DelUpd, DelFrom, ListZones, ScanAxfr,
     ScanUpd, ReadFormerUpd, DeleteZone, SetTargets, SetKind, Commit, Abort, SkipFormer,
     ForgetFormer, SkipKey, NotFound, history
<1> QED
  BY <1>3, <1>4, <1>5

LEMMA LeakStep ==
  ASSUME \A p, q \in Requests : p = q, FreshPages,
         TidyInv, KeyInv, LeakInv, Booting, [Next]_vars
  PROVE  LeakInv'
<1> USE DEF LeakInv
<1>1. ASSUME NEW r \in Requests, Serve(r) PROVE LeakInv'
  <2>1. CASE ~Start(r)
    <3>1. Carries(r) /\ Replaces(r)' /\ Minds(r)'
      BY <1>1, <2>1, ServeLeaksNothing
    <3>2. \A k \in tsigkeys' : Accounted(k)'
      BY <3>1, Carried
    <3>3. \A q \in Requests : Replaces(q)' /\ Minds(q)'
      BY <3>1
    <3>4. MembersForget'
      BY <1>1, <2>1, ServeForgets
    <3> QED
      BY <3>2, <3>3, <3>4
  <2>2. CASE Start(r)
    <3>1. PICK j \in Job :
            /\ FreshPages => Offered(j)
            /\ job' = [job EXCEPT ![r] = j] /\ pc'[r] = Entry(j.op)
            /\ j.zone \in UserZone /\ j.op \in AllOps
            /\ \A q \in Requests : Active(q) => job[q].zone # j.zone
      BY <2>2, StartsApart DEF TidyInv, Apart
    <3>2. /\ pc[r] = "idle" /\ former' = former /\ former[r] = {} /\ keys' = keys /\ keys[r] = {}
          /\ UNCHANGED <<exists, member, axfr, upd, tsigkeys, lost>> /\ job'[r] = j
      BY <2>2, <3>1 DEF Start, pdnsVars, regVars, history, TidyInv, Exclusive, Active, TypeOK
    <3>3. Carries(r)
      BY <3>2 DEF Carries, Held, Pending, Refs
    <3>4. \A k \in tsigkeys' : Accounted(k)'
      BY <3>3, Carried
    <3>5. pc'[r] \in {"create", "uncatalog", "former", "mkkey", "readAxfr", "readUpd", "targets"}
      BY <3>1 DEF Entry, AllOps, CreateOps, AddOps, KeyOps
    <3>6. pc'[r] = "uncatalog" => j.op = "toCustom"
      BY <3>1 DEF Entry, AllOps, CreateOps, AddOps, KeyOps
    <3>7. pc'[r] = "uncatalog" => j.zone \in member
      BY <3>1, <3>6, ConfigAssumption DEF Offered, CreateOps, Custom
    <3>8. Replaces(r)' /\ Minds(r)'
      BY <3>2, <3>5, <3>7 DEF Replaces, Minds, Globals
    <3>9. \A q \in Requests : Replaces(q)' /\ Minds(q)'
      BY <3>8
    <3>10. \A z \in member : axfr[z] \subseteq Globals \cup lost
      BY <3>2 DEF MembersForget, Switching
    <3> QED
      BY <3>2, <3>4, <3>9, <3>10 DEF MembersForget, Globals
  <2> QED
    BY <2>1, <2>2
<1>2. CASE Bootstrap
  <2> USE <1>2 DEF Bootstrap, EnsureCatalog, EnsureCatalogKeys, ListToStamp, StampZone, BootGivesUp,
       pdnsVars, history
  <2>1. /\ UNCHANGED <<upd, member, tsigkeys, lost>> /\ exists \subseteq exists'
        /\ \A r \in Requests : pc[r] = "idle" /\ former[r] = {} /\ pc'[r] = "idle"
    BY DEF Booting, TidyInv, Exclusive, Active
  <2>2. \A z \in member : axfr[z] \subseteq Globals \cup lost
    BY <2>1 DEF MembersForget, Switching
  <2>3. \A z \in Zone : axfr'[z] = axfr[z] \/ (axfr'[z] = Globals /\ z \in member \cup {Catalog})
    BY DEF TidyInv, TypeOK
  <2>4. \A z \in Zone : axfr[z] \subseteq axfr'[z] \cup Globals \cup lost
    BY <2>2, <2>3 DEF TidyInv, CatalogInOrder
  <2>5. ASSUME NEW k \in tsigkeys' PROVE Accounted(k)'
    <3>1. \A r \in Requests : k \notin Held(r)
      BY <2>1 DEF Held, Pending
    <3>2. CASE k \in Globals \cup lost
      BY <2>1, <3>2 DEF Accounted, Globals
    <3>3. CASE \E z \in exists : k \in Refs(z) /\ k \notin Globals \cup lost
      <4>1. PICK z \in exists : k \in Refs(z) /\ k \notin Globals \cup lost
        BY <3>3
      <4>2. z \in Zone /\ z \in exists'
        BY <2>1 DEF TidyInv, TypeOK
      <4>3. k \in axfr'[z] \cup upd'[z]
        BY <2>1, <2>4, <4>1, <4>2 DEF Refs
      <4> QED
        BY <4>2, <4>3 DEF Accounted, Refs
    <3> QED
      BY <2>1, <3>1, <3>2, <3>3 DEF Accounted
  <2>6. \A r \in Requests : Replaces(r)' /\ Minds(r)'
    BY <2>1 DEF Replaces, Minds
  <2>7. MembersForget'
    <3>1. \A z \in member' : axfr'[z] \subseteq Globals \cup lost'
      BY <2>1, <2>2, <2>3 DEF TidyInv, TypeOK, Zone
    <3> QED
      BY <3>1 DEF MembersForget, Globals
  <2> QED
    BY <2>5, <2>6, <2>7
<1>3. CASE Restart
  <2>1. /\ UNCHANGED <<exists, member, axfr, upd, tsigkeys>>
        /\ lost' = lost \cup UNION {Held(r) : r \in Requests}
        /\ \A r \in Requests : pc'[r] = "idle" /\ former'[r] = {}
    BY <1>3 DEF Restart, pdnsVars
  <2>2. ASSUME NEW k \in tsigkeys' PROVE Accounted(k)'
    BY <2>1 DEF Accounted, Refs, Globals
  <2>3. \A r \in Requests : Replaces(r)' /\ Minds(r)'
    BY <2>1 DEF Replaces, Minds
  <2>4. ASSUME NEW z \in member PROVE axfr[z] \subseteq Globals \cup lost'
    <3>1. CASE \A r \in Requests : job[r].zone = z => pc[r] \notin Switching
      BY <2>1, <2>4, <3>1 DEF MembersForget
    <3>2. CASE \E r \in Requests : job[r].zone = z /\ pc[r] \in Switching
      <4>1. PICK r \in Requests : job[r].zone = z /\ pc[r] \in Switching
        BY <3>2
      <4>2. axfr[z] \subseteq keys[r] \cup former[r] \cup Globals \cup lost
        BY <4>1 DEF Replaces, Switching
      <4>3. keys[r] \cup former[r] \subseteq Held(r)
        BY <4>1 DEF Switching, Held, Knows, KeyInv
      <4> QED
        BY <2>1, <4>2, <4>3
    <3> QED
      BY <3>1, <3>2
  <2>5. MembersForget'
    BY <2>1, <2>4 DEF MembersForget, Globals
  <2> QED
    BY <2>2, <2>3, <2>5
<1>4. CASE UNCHANGED vars
  BY <1>4 DEF vars, pdnsVars, regVars, bootVars, history, Accounted, Held, Pending, Refs, Replaces,
     Minds, Globals, MembersForget, Switching
<1> QED
  BY <1>1, <1>2, <1>3, <1>4 DEF Next

LEMMA InitLeak == Init => LeakInv
BY DEF Init, LeakInv, Accounted, Replaces, Minds, MembersForget

(* With one request at a time on fresh pages, every per-zone key that PowerDNS
   has between requests is in a zone, but for those that a request which failed
   had in hand: what the handlers create they also clean up, and the start-up
   stamp takes no key away, however many zones and keys there are. *)
THEOREM NothingIsLeaked ==
  ASSUME \A p, q \in Requests : p = q, FreshPages
  PROVE  Spec => []NoLeakedKeys
<1>1. Apart
  BY DEF Apart
<1>2. Spec => [](TidyInv /\ Booting) /\ [](KeyInv /\ Booting)
  BY <1>1, TidyHolds, KeysHold
<1>3. TidyInv /\ KeyInv /\ LeakInv /\ Booting /\ [Next]_vars => LeakInv'
  BY LeakStep
<1>4. TidyInv /\ LeakInv => NoLeakedKeys
  <2> SUFFICES ASSUME TidyInv, LeakInv, Quiet, NEW k \in tsigkeys
               PROVE  k \in Globals \cup lost \cup UNION {Refs(z) : z \in exists}
    BY DEF NoLeakedKeys
  <2>1. \A r \in Requests : pc[r] = "idle" /\ former[r] = {}
    BY DEF Quiet, TidyInv, Exclusive, Active
  <2>2. \A r \in Requests : Held(r) = {}
    BY <2>1 DEF Held, Pending
  <2>3. Accounted(k)
    BY DEF LeakInv
  <2> QED
    BY <2>2, <2>3 DEF Accounted
<1> QED
  BY <1>2, <1>3, <1>4, InitLeak, PTL DEF Spec
=============================================================================
