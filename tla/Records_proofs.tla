--------------------------- MODULE Records_proofs ---------------------------
(***************************************************************************)
(* Proofs about record editing: types, NOTIFY after every change and       *)
(* before every "unchanged" of the DDNS API, and that the handlers'        *)
(* unlocked read-modify-write of whole record sets carries out ZoneRecords *)
(* when edits of one record set do not overlap.                            *)
(***************************************************************************)
EXTENDS Records, TLAPS

LEMMA EditType == Edit \subseteq AnyEdit
<1> USE EditsAssumption DEF AnyEdit, EditOps, Rrset
<1>1. /\ One \subseteq SUBSET Content /\ None \subseteq SUBSET Content
      /\ None \cup One \subseteq SUBSET Content
  BY DEF One, None
<1>2. ASSUME NEW op \in EditOps, NEW ats \in SUBSET Rrset, NEW olds \in SUBSET SUBSET Content,
             NEW news \in SUBSET SUBSET Content, NEW ttls \in SUBSET Ttl
      PROVE  Of(op, ats, olds, news, ttls) \subseteq AnyEdit
  BY <1>2 DEF Of
<1>3. RecordCreate \subseteq AnyEdit /\ RecordUpdate \subseteq AnyEdit
  BY <1>1, <1>2 DEF RecordCreate, RecordUpdate
<1>4. RecordRename \subseteq AnyEdit
  BY <1>1 DEF RecordRename, Renames
<1>5. RecordDelete \subseteq AnyEdit /\ SpfSave \subseteq AnyEdit
  BY <1>1, <1>2 DEF RecordDelete, SpfSave
<1>6. DdnsUpdate \subseteq AnyEdit /\ DdnsDelete \subseteq AnyEdit
  BY <1>1, <1>2 DEF DdnsUpdate, DdnsDelete
<1>7. ZonePatch \subseteq AnyEdit
  BY <1>1, <1>2 DEF ZonePatch
<1>8. SoaUpdate \subseteq AnyEdit /\ BumpSerial \subseteq AnyEdit
  BY <1>1, <1>2 DEF SoaUpdate, BumpSerial
<1> QED
  BY <1>3, <1>4, <1>5, <1>6, <1>7, <1>8 DEF Edit

LEMMA ReplacedType ==
  ASSUME NEW recs \in SUBSET Content, NEW ttl \in Ttl
  PROVE  Replaced(recs, ttl) \in RecordSet
BY DEF Replaced, RecordSet, Absent

LEMMA RecordSetFields ==
  ASSUME NEW s \in RecordSet
  PROVE  s.recs \in SUBSET Content /\ s.ttl \in Ttl
BY EditsAssumption DEF RecordSet, Absent

(* Every edit makes a record set of a record set. *)
LEMMA AfterType ==
  ASSUME NEW e \in AnyEdit, NEW s \in RecordSet
  PROVE  After(e, s) \in RecordSet
<1>1. /\ e.old \in SUBSET Content /\ e.new \in SUBSET Content /\ e.ttl \in Ttl
      /\ s.recs \in SUBSET Content /\ s.ttl \in Ttl /\ Or(s.ttl, e.ttl) \in Ttl
  BY RecordSetFields DEF AnyEdit, Or
<1>2. /\ (s.recs \ e.old) \cup e.new \in SUBSET Content
      /\ s.recs \ e.old \in SUBSET Content
  BY <1>1
<1> QED
  BY <1>1, <1>2, ReplacedType DEF After

LEMMA SecondHalfType ==
  ASSUME NEW e \in AnyEdit
  PROVE  /\ SecondHalf(e) \in AnyEdit
         /\ SecondHalf(e).op = "edit" /\ SecondHalf(e).at = e.to
BY DEF SecondHalf, AnyEdit, EditOps

LEMMA InitType == Init => TypeOK
<1>1. Absent \in RecordSet
  BY DEF RecordSet
<1>2. ASSUME Init PROVE rrset \in [Rrset -> RecordSet]
  BY <1>1, <1>2 DEF Init
<1>3. ASSUME Init
      PROVE  /\ untold \subseteq Rrset /\ failed \in BOOLEAN /\ edits \in Nat
             /\ copy \in [Requests -> RecordSet]
             /\ job \in [Requests -> Edit \cup {Nothing}]
  BY <1>1, <1>3 DEF Init
<1>4. ASSUME Init PROVE \A r \in Requests : pc[r] = "idle" /\ job[r] = Nothing
  BY <1>4 DEF Init
<1>5. ASSUME Init
      PROVE  pc \in [Requests -> {"idle", "patch", "read", "write", "readTo", "writeTo", "notify"}]
  BY <1>5 DEF Init
<1> QED
  BY <1>2, <1>3, <1>4, <1>5 DEF TypeOK

LEMMA TypeStep == TypeOK /\ [Next]_vars => TypeOK'
<1> SUFFICES ASSUME TypeOK, [Next]_vars PROVE TypeOK'
  OBVIOUS
<1> USE RecordsAssumption DEF TypeOK, vars, Goto, Finish
<1>a. Absent \in RecordSet
  BY DEF RecordSet
<1>e. \A r \in Requests : job[r] # Nothing =>
        job[r] \in AnyEdit /\ job[r].at \in Rrset /\ job[r].to \in Rrset
  BY EditType DEF AnyEdit
<1>1. ASSUME NEW r \in Requests, Start(r) \/ StartNotify(r)
      PROVE  TypeOK'
  BY <1>1, EditType DEF Start, StartNotify
<1>2. ASSUME NEW r \in Requests, Patch(r)
      PROVE  TypeOK'
  BY <1>2, <1>a, <1>e, AfterType DEF Patch
<1>3. ASSUME NEW r \in Requests, NoOp(r) \/ Notify(r) \/ Abort(r)
      PROVE  TypeOK'
  BY <1>3, <1>a DEF NoOp, Notify, Abort
<1>4. ASSUME NEW r \in Requests, Read(r) \/ ReadTo(r)
      PROVE  TypeOK'
  BY <1>4, <1>e DEF Read, ReadTo
<1>5. ASSUME NEW r \in Requests, Write(r)
      PROVE  TypeOK'
  BY <1>5, <1>e, AfterType DEF Write
<1>6. ASSUME NEW r \in Requests, WriteTo(r)
      PROVE  TypeOK'
  <2>1. SecondHalf(job[r]) \in AnyEdit /\ SecondHalf(job[r]).at \in Rrset
    BY <1>6, <1>e, SecondHalfType DEF WriteTo
  <2>2. After(SecondHalf(job[r]), copy[r]) \in RecordSet
    BY <2>1, AfterType
  <2> QED
    BY <1>6, <2>1, <2>2 DEF WriteTo
<1>7. CASE UNCHANGED vars
  BY <1>7
<1> QED
  BY <1>1, <1>2, <1>3, <1>4, <1>5, <1>6, <1>7 DEF Next

(* Every reachable state is well typed. *)
THEOREM TypeCorrect == Spec => []TypeOK
BY InitType, TypeStep, PTL DEF Spec

-----------------------------------------------------------------------------
(* Whatever overlaps: after the last handler there is nothing that the
   secondaries have not been told of, as long as no call has failed. *)
LEMMA ToldStep == TypeOK /\ ToldInv /\ [Next]_vars => ToldInv'
<1> SUFFICES ASSUME TypeOK, ToldInv, [Next]_vars PROVE ToldInv'
  OBVIOUS
<1> USE DEF TypeOK, ToldInv, Telling, vars, Goto, Finish
<1>1. ASSUME NEW r \in Requests, Start(r) \/ StartNotify(r)
      PROVE  ToldInv'
  BY <1>1 DEF Start, StartNotify
<1>2. ASSUME NEW r \in Requests, Patch(r) \/ NoOp(r)
      PROVE  ToldInv'
  BY <1>2 DEF Patch, NoOp
<1>3. ASSUME NEW r \in Requests, Notify(r) \/ Abort(r)
      PROVE  ToldInv'
  BY <1>3 DEF Notify, Abort
<1>4. ASSUME NEW r \in Requests, Read(r) \/ ReadTo(r)
      PROVE  ToldInv'
  BY <1>4 DEF Read, ReadTo
<1>5. ASSUME NEW r \in Requests, Write(r) \/ WriteTo(r)
      PROVE  ToldInv'
  BY <1>5 DEF Write, WriteTo
<1>6. CASE UNCHANGED vars
  BY <1>6
<1> QED
  BY <1>1, <1>2, <1>3, <1>4, <1>5, <1>6 DEF Next

(* NOTIFY follows every change of the panel's, for any requests, overlapping
   or not, unless a call fails. *)
THEOREM EveryChangeIsTold == Spec => []ChangesAreTold
<1>1. Init => ToldInv
  BY DEF Init, ToldInv
<1>2. ToldInv => ChangesAreTold
  BY DEF ToldInv, Telling, ChangesAreTold
<1> QED
  BY <1>1, <1>2, TypeCorrect, ToldStep, PTL DEF Spec

-----------------------------------------------------------------------------
(* A copy is what PowerDNS still has when it is written back. *)
LEMMA CopiesStep ==
  ASSUME OnePerRrset, TypeOK, CopiesAreFresh, [Next]_vars
  PROVE  CopiesAreFresh'
<1> USE RecordsAssumption DEF TypeOK, CopiesAreFresh, vars, Goto, Finish
<1>d. ASSUME NEW r \in Requests, job[r] # Nothing,
             NEW q \in Requests \ {r}, job[q] # Nothing
      PROVE  /\ job[q].at \notin {job[r].at, job[r].to}
             /\ job[q].to \notin {job[r].at, job[r].to}
  BY <1>d DEF Touched
<1>j. \A r \in Requests : job[r] # Nothing => job[r].at \in Rrset /\ job[r].to \in Rrset
  BY EditType DEF AnyEdit
<1>1. ASSUME NEW r \in Requests, Start(r)
      PROVE  CopiesAreFresh'
  <2>1. PICK e \in Edit : Free(e) /\ job' = [job EXCEPT ![r] = e]
                          /\ pc'[r] \in {"patch", "read"} /\ UNCHANGED <<rrset, copy>>
                          /\ \A q \in Requests \ {r} : pc'[q] = pc[q]
    BY <1>1 DEF Start
  <2>2. e # Nothing
    BY <2>1, EditType
  <2>3. \A q \in Requests \ {r} : job'[q] = job[q]
    BY <2>1
  <2>4. job'[r] = e
    BY <2>1
  <2>5. \A q \in Requests \ {r} :
          job[q] # Nothing => Touched(job[q]) \cap Touched(e) = {}
    BY <2>1 DEF Free
  <2>6. \A p, q \in Requests :
          p # q /\ job'[p] # Nothing /\ job'[q] # Nothing
            => Touched(job'[p]) \cap Touched(job'[q]) = {}
    BY <2>3, <2>4, <2>5
  <2> QED
    BY <2>1, <2>3, <2>6 DEF Touched
<1>2. ASSUME NEW r \in Requests, StartNotify(r)
      PROVE  CopiesAreFresh'
  BY <1>2 DEF StartNotify
<1>3. ASSUME NEW r \in Requests, Patch(r)
      PROVE  CopiesAreFresh'
  <2>1. job[r] # Nothing /\ pc'[r] = "idle" /\ job'[r] = Nothing
        /\ \A q \in Requests \ {r} : pc'[q] = pc[q] /\ job'[q] = job[q] /\ copy'[q] = copy[q]
    BY <1>3 DEF Patch
  <2>2. \A m \in Rrset \ {job[r].at} : rrset'[m] = rrset[m]
    BY <1>3 DEF Patch
  <2> QED
    BY <2>1, <2>2, <1>d, <1>j
<1>4. ASSUME NEW r \in Requests, NoOp(r) \/ Notify(r) \/ Abort(r)
      PROVE  CopiesAreFresh'
  BY <1>4 DEF NoOp, Notify, Abort
<1>5. ASSUME NEW r \in Requests, Read(r) \/ ReadTo(r)
      PROVE  CopiesAreFresh'
  BY <1>5 DEF Read, ReadTo
<1>6. ASSUME NEW r \in Requests, Write(r)
      PROVE  CopiesAreFresh'
  <2>1. job[r] # Nothing /\ pc'[r] \in {"readTo", "notify"} /\ UNCHANGED <<job, copy>>
        /\ \A q \in Requests \ {r} : pc'[q] = pc[q]
    BY <1>6 DEF Write
  <2>2. \A m \in Rrset \ {job[r].at} : rrset'[m] = rrset[m]
    BY <1>6 DEF Write
  <2> QED
    BY <2>1, <2>2, <1>d, <1>j
<1>7. ASSUME NEW r \in Requests, WriteTo(r)
      PROVE  CopiesAreFresh'
  <2>1. SecondHalf(job[r]).at = job[r].to
    BY <1>7, EditType, SecondHalfType DEF WriteTo
  <2>2. job[r] # Nothing /\ pc'[r] = "notify" /\ UNCHANGED <<job, copy>>
        /\ \A q \in Requests \ {r} : pc'[q] = pc[q]
    BY <1>7 DEF WriteTo
  <2>3. \A m \in Rrset \ {job[r].to} : rrset'[m] = rrset[m]
    BY <1>7, <2>1 DEF WriteTo
  <2> QED
    BY <2>2, <2>3, <1>d, <1>j
<1>8. CASE UNCHANGED vars
  BY <1>8
<1> QED
  BY <1>1, <1>2, <1>3, <1>4, <1>5, <1>6, <1>7, <1>8 DEF Next
-----------------------------------------------------------------------------
(* Behind NoOpIsToldIfNoFailure: as long as no call has failed, whoever changed
   a record set that the secondaries have not been told of is still at it. *)
ChangersTell ==
  ~failed => \A m \in untold : \E r \in Telling : job[r] # Nothing /\ m \in Touched(job[r])

LEMMA ChangersStep == TypeOK /\ ChangersTell /\ [Next]_vars => ChangersTell'
<1> SUFFICES ASSUME TypeOK, ChangersTell, [Next]_vars PROVE ChangersTell'
  OBVIOUS
<1> USE DEF TypeOK, ChangersTell, Telling, vars, Goto, Finish
<1>1. ASSUME NEW r \in Requests, Start(r) \/ StartNotify(r)
      PROVE  ChangersTell'
  <2>1. pc[r] = "idle" /\ failed' = failed /\ untold' = untold
        /\ \A q \in Requests \ {r} : pc'[q] = pc[q] /\ job'[q] = job[q]
    BY <1>1 DEF Start, StartNotify
  <2> QED
    BY <2>1
<1>2. ASSUME NEW r \in Requests, Patch(r) \/ NoOp(r)
      PROVE  ChangersTell'
  <2>1. pc[r] \in {"patch", "read"} /\ failed' = failed /\ untold' = untold
        /\ \A q \in Requests \ {r} : pc'[q] = pc[q] /\ job'[q] = job[q]
    BY <1>2 DEF Patch, NoOp
  <2> QED
    BY <2>1
<1>3. ASSUME NEW r \in Requests, Notify(r) \/ Abort(r)
      PROVE  ChangersTell'
  BY <1>3 DEF Notify, Abort
<1>4. ASSUME NEW r \in Requests, Read(r) \/ ReadTo(r)
      PROVE  ChangersTell'
  <2>1. UNCHANGED <<failed, untold, job>> /\ (pc[r] = "readTo" => pc'[r] = "writeTo")
        /\ pc[r] \in {"read", "readTo"} /\ \A q \in Requests \ {r} : pc'[q] = pc[q]
    BY <1>4 DEF Read, ReadTo
  <2> QED
    BY <2>1
<1>5. ASSUME NEW r \in Requests, Write(r) \/ WriteTo(r)
      PROVE  ChangersTell'
  <2>1. UNCHANGED <<failed, job>> /\ job[r] # Nothing /\ pc'[r] \in {"readTo", "notify"}
        /\ \A q \in Requests \ {r} : pc'[q] = pc[q]
    BY <1>5 DEF Write, WriteTo
  <2>2. PICK m \in Touched(job[r]) : untold' = untold \cup {m}
    BY <1>5, <2>1, EditType, SecondHalfType DEF Write, WriteTo, Touched
  <2> QED
    BY <2>1, <2>2
<1>6. CASE UNCHANGED vars
  BY <1>6
<1> QED
  BY <1>1, <1>2, <1>3, <1>4, <1>5, <1>6 DEF Next

(* A DDNS client that is told "unchanged" can rely on it, for any requests, when
   edits of one record set do not overlap: whoever published its address has
   sent the NOTIFY, unless a call has failed. *)
THEOREM NoOpsAreTold == OnePerRrset => (Spec => NoOpIsToldIfNoFailure)
<1> SUFFICES ASSUME OnePerRrset PROVE Spec => NoOpIsToldIfNoFailure
  OBVIOUS
<1> DEFINE Told == \A r \in Requests : NoOp(r) /\ ~failed => job[r].at \notin untold
<1>1. TypeOK /\ CopiesAreFresh /\ ChangersTell => Told
  <2> SUFFICES ASSUME TypeOK, CopiesAreFresh, ChangersTell, ~failed,
                      NEW r \in Requests, NoOp(r), job[r].at \in untold
               PROVE  FALSE
    OBVIOUS
  <2>1. pc[r] = "read" /\ job[r] # Nothing
    BY DEF NoOp, TypeOK
  <2>2. PICK q \in Telling : job[q] # Nothing /\ job[r].at \in Touched(job[q])
    BY DEF ChangersTell
  <2>3. q \in Requests /\ q # r
    BY <2>1, <2>2 DEF Telling
  <2> QED
    BY <2>1, <2>2, <2>3 DEF CopiesAreFresh, Touched
<1>2. Init => CopiesAreFresh /\ ChangersTell
  BY DEF Init, CopiesAreFresh, ChangersTell
<1>3. TypeOK /\ CopiesAreFresh /\ [Next]_vars => CopiesAreFresh'
  BY CopiesStep
<1>4. Spec => [][Told]_vars
  BY <1>1, <1>2, <1>3, TypeCorrect, ChangersStep, PTL DEF Spec
<1> QED
  BY <1>4 DEF NoOpIsToldIfNoFailure

-----------------------------------------------------------------------------
(***************************************************************************)
(* Every step of the handlers is a step of ZoneRecords or a stutter: a     *)
(* request asks when it starts, carries its edit out when it writes, and   *)
(* gives up when a call fails first.                                       *)
(***************************************************************************)
Wants == [r \in Requests |-> Want(r)]

(* ZoneRecords speaks of the same record sets and edits. *)
LEMMA SameEdits ==
  /\ Promise!Rrset = Rrset /\ Promise!RecordSet = RecordSet /\ Promise!AnyEdit = AnyEdit
  /\ \A e, s : Promise!After(e, s) = After(e, s)
  /\ \A e : Promise!SecondHalf(e) = SecondHalf(e)
<1>1. Promise!Rrset = Rrset
  BY DEF Promise!Rrset, Rrset
<1>2. Promise!RecordSet = RecordSet
  BY DEF Promise!RecordSet, RecordSet, Promise!Absent, Absent
<1>3. Promise!AnyEdit = AnyEdit
  BY <1>1 DEF Promise!AnyEdit, AnyEdit, Promise!EditOps, EditOps
<1>4. \A recs, ttl : Promise!Replaced(recs, ttl) = Replaced(recs, ttl)
  BY DEF Promise!Replaced, Replaced, Promise!Absent, Absent
<1>5. \A t, d : Promise!Or(t, d) = Or(t, d)
  BY DEF Promise!Or, Or
<1>6. \A e, s : Promise!After(e, s) = After(e, s)
  BY <1>4, <1>5 DEF Promise!After, After
<1>7. \A e : Promise!SecondHalf(e) = SecondHalf(e)
  BY DEF Promise!SecondHalf, SecondHalf
<1> QED
  BY <1>1, <1>2, <1>3, <1>6, <1>7

LEMMA InitRefines == Init => Promise!Init
<1>1. Absent \in RecordSet
  BY DEF RecordSet
<1>2. ASSUME Init PROVE rrset \in [Rrset -> RecordSet]
  BY <1>1, <1>2 DEF Init
<1>3. ASSUME Init PROVE Wants = [r \in Requests |-> Nothing]
  BY <1>3 DEF Init, Want, Wants
<1> QED
  BY <1>2, <1>3, SameEdits DEF Promise!Init, Wants

(* the others want what they wanted *)
LEMMA WantsExcept ==
  ASSUME NEW r \in Requests, NEW w, Want(r)' = w,
         \A q \in Requests \ {r} : pc'[q] = pc[q] /\ job'[q] = job[q]
  PROVE  Wants' = [Wants EXCEPT ![r] = w]
BY DEF Want, Wants

LEMMA StepRefines ==
  ASSUME OnePerRrset, TypeOK, CopiesAreFresh, [Next]_vars
  PROVE  [Promise!Next]_<<rrset, Wants>>
<1> USE RecordsAssumption DEF TypeOK, vars, Goto, Finish
<1>t. \A r \in Requests : job[r] # Nothing => job[r] \in AnyEdit
  BY EditType
<1>p. \A r \in Requests : Promise!Ask(r) \/ Promise!Do(r) \/ Promise!GiveUp(r) => Promise!Next
  BY DEF Promise!Next
<1>1. ASSUME NEW r \in Requests, Start(r)
      PROVE  Promise!Ask(r)
  <2>1. PICK e \in Edit : job' = [job EXCEPT ![r] = e] /\ pc'[r] \in {"patch", "read"}
    BY <1>1 DEF Start
  <2>2. Want(r) = Nothing /\ Want(r)' = e
    BY <1>1, <2>1 DEF Start, Want
  <2>3. Wants' = [Wants EXCEPT ![r] = e]
    BY <1>1, <2>1, <2>2, WantsExcept DEF Start
  <2> QED
    BY <1>1, <2>1, <2>2, <2>3, EditType, SameEdits DEF Start, Promise!Ask, Wants
<1>2. ASSUME NEW r \in Requests, StartNotify(r)
      PROVE  UNCHANGED <<rrset, Wants>>
  BY <1>2 DEF StartNotify, Want, Wants
<1>3. ASSUME NEW r \in Requests, Patch(r)
      PROVE  Promise!Do(r)
  <2>1. Want(r) = job[r] /\ Want(r)' = Nothing
    BY <1>3 DEF Patch, Want
  <2>2. Wants' = [Wants EXCEPT ![r] = Nothing]
    BY <1>3, <2>1, WantsExcept DEF Patch
  <2>3. job[r].op # "rename"
    BY <1>3 DEF Patch
  <2> QED
    BY <1>3, <2>1, <2>2, <2>3, SameEdits DEF Patch, Promise!Do, Wants
<1>4. ASSUME NEW r \in Requests, NoOp(r)
      PROVE  Promise!Do(r)
  <2>1. Want(r) = job[r] /\ Want(r)' = Nothing
    BY <1>4 DEF NoOp, Want
  <2>2. Wants' = [Wants EXCEPT ![r] = Nothing]
    BY <1>4, <2>1, WantsExcept DEF NoOp
  <2>3. job[r] # Nothing /\ job[r].op = "ddns" /\ job[r].at \in Rrset
    BY <1>4, <1>t DEF NoOp, AnyEdit
  <2>4. After(job[r], rrset[job[r].at]) = rrset[job[r].at]
    BY <1>4, <2>3 DEF NoOp, IsPublished, After
  <2>5. rrset' = [rrset EXCEPT ![job[r].at] = After(job[r], @)]
    BY <1>4, <2>3, <2>4 DEF NoOp
  <2> QED
    BY <2>1, <2>2, <2>3, <2>5, SameEdits DEF Promise!Do, Wants
<1>5. ASSUME NEW r \in Requests, Read(r) \/ ReadTo(r)
      PROVE  UNCHANGED <<rrset, Wants>>
  BY <1>5 DEF Read, ReadTo, Want, Wants
<1>6. ASSUME NEW r \in Requests, Write(r)
      PROVE  Promise!Do(r)
  <2>1. job[r] # Nothing /\ copy[r] = rrset[job[r].at]
    BY <1>6 DEF Write, CopiesAreFresh
  <2>2. /\ Want(r) = job[r]
        /\ Want(r)' = IF job[r].op = "rename" THEN SecondHalf(job[r]) ELSE Nothing
    BY <1>6 DEF Write, Want
  <2>3. Wants' = [Wants EXCEPT ![r] = Want(r)']
    BY <1>6, WantsExcept DEF Write
  <2>4. rrset' = [rrset EXCEPT ![job[r].at] = After(job[r], @)]
    BY <1>6, <2>1 DEF Write
  <2> QED
    BY <2>1, <2>2, <2>3, <2>4, SameEdits DEF Promise!Do, Wants
<1>7. ASSUME NEW r \in Requests, WriteTo(r)
      PROVE  Promise!Do(r)
  <2> DEFINE e == SecondHalf(job[r])
  <2>1. job[r] # Nothing /\ copy[r] = rrset[job[r].to]
    BY <1>7 DEF WriteTo, CopiesAreFresh
  <2>2. e \in AnyEdit /\ e.op = "edit" /\ e.at = job[r].to
    BY <2>1, <1>t, SecondHalfType
  <2>3. Want(r) = e /\ Want(r)' = Nothing
    BY <1>7 DEF WriteTo, Want
  <2>4. Wants' = [Wants EXCEPT ![r] = Nothing]
    BY <1>7, <2>3, WantsExcept DEF WriteTo
  <2>5. rrset' = [rrset EXCEPT ![e.at] = After(e, @)]
    BY <1>7, <2>1, <2>2 DEF WriteTo
  <2> HIDE DEF e
  <2> QED
    BY <2>2, <2>3, <2>4, <2>5, SameEdits DEF Promise!Do, Wants
<1>8. ASSUME NEW r \in Requests, Notify(r)
      PROVE  UNCHANGED <<rrset, Wants>>
  BY <1>8 DEF Notify, Want, Wants
<1>9. ASSUME NEW r \in Requests, Abort(r)
      PROVE  Promise!GiveUp(r)
  <2>1. Want(r)' = Nothing
    BY <1>9 DEF Abort, Want
  <2>2. Wants' = [Wants EXCEPT ![r] = Nothing]
    BY <1>9, <2>1, WantsExcept DEF Abort
  <2> QED
    BY <1>9, <2>2 DEF Abort, Promise!GiveUp, Wants
<1>10. CASE UNCHANGED vars
  BY <1>10 DEF Want, Wants
<1> QED
  BY <1>p, <1>1, <1>2, <1>3, <1>4, <1>5, <1>6, <1>7, <1>8, <1>9, <1>10 DEF Next

(* When edits of one record set do not overlap, the handlers implement
   ZoneRecords: no edit undoes another, whatever fails and whatever runs
   beside it on the other record sets. *)
THEOREM HandlersKeepThePromise == OnePerRrset => (Spec => EditsAreAtomic)
<1> SUFFICES ASSUME OnePerRrset PROVE Spec => EditsAreAtomic
  OBVIOUS
<1>1. Init => CopiesAreFresh
  BY DEF Init, CopiesAreFresh
<1>2. TypeOK /\ CopiesAreFresh /\ [Next]_vars => CopiesAreFresh'
  BY CopiesStep
<1>3. TypeOK /\ CopiesAreFresh /\ [Next]_vars => [Promise!Next]_<<rrset, Wants>>
  BY StepRefines
<1> QED
  BY <1>1, <1>2, <1>3, InitRefines, TypeCorrect, PTL DEF Spec, EditsAreAtomic, Promise!Spec, Wants
=============================================================================
