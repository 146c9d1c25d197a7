-------------------------- MODULE Migration_proofs --------------------------
(***************************************************************************)
(* Proofs about migrate_legacy.py, for any old database and any number of  *)
(* runs, dry runs, failures and deaths: types, the history, and what a     *)
(* finished run leaves behind.                                             *)
(***************************************************************************)
EXTENDS Migration, TLAPS

LEMMA LegacyType ==
  ASSUME NEW i \in Domains
  PROVE  /\ Legacy[i].disabled \in BOOLEAN
         /\ Legacy[i].owner \in Users \cup {Nobody}
         /\ Legacy[i].editors \subseteq Users
         /\ Legacy[i].rows \in Seq(Rows)
         /\ ZoneOf(i) \in Zones
BY LegacyAssumption DEF LegacyDomains, Zones

LEMMA GrantedForm ==
  ASSUME TypeOK, next \in Domains, NEW g \in Granted
  PROVE  /\ g[2] \in Users /\ g[3] \in BOOLEAN /\ g = <<z, g[2], g[3]>>
         /\ g[2] = d.owner <=> g[3]
         /\ \A o \in BOOLEAN : <<z, g[2], o>> \notin access \cup session.access
<1>1. /\ d.owner \in Users \cup {Nobody} /\ d.editors \subseteq Users
  BY LegacyType DEF d
<1>2. ~HasRow(access \cup session.access, g[2])
  BY DEF Granted
<1>3. CASE d.owner # Nobody /\ g = <<z, d.owner, TRUE>>
  BY <1>1, <1>2, <1>3 DEF HasRow
<1>4. ASSUME NEW u \in d.editors \ {d.owner}, g = <<z, u, FALSE>>
      PROVE  /\ g[2] \in Users /\ g[3] \in BOOLEAN /\ g = <<z, g[2], g[3]>>
             /\ g[2] = d.owner <=> g[3]
             /\ \A o \in BOOLEAN : <<z, g[2], o>> \notin access \cup session.access
  BY <1>1, <1>2, <1>4 DEF HasRow
<1> QED
  BY <1>3, <1>4 DEF Granted

LEMMA GrantsForm ==
  ASSUME NEW g \in Grants
  PROVE  /\ g[1] \in Zones /\ g[2] \in Users /\ g[3] \in BOOLEAN
         /\ g = <<g[1], g[2], g[3]>>
BY DEF Grants

LEMMA GrantedType ==
  ASSUME TypeOK, next \in Domains
  PROVE  /\ Granted \subseteq Grants
         /\ OneRowEach(access \cup session.access \cup Granted)
<1>1. z \in Zones
  BY LegacyType DEF z
<1>2. ASSUME NEW g \in Granted PROVE g \in Grants
  BY <1>1, <1>2, GrantedForm DEF Grants
<1>3. ASSUME NEW a \in access \cup session.access \cup Granted,
             NEW b \in access \cup session.access \cup Granted,
             a[1] = b[1], a[2] = b[2]
      PROVE  a = b
  <2>0. access \cup session.access \subseteq Grants
    BY DEF TypeOK
  <2>1. CASE a \in access \cup session.access /\ b \in access \cup session.access
    BY <2>1, <1>3 DEF TypeOK, OneRowEach
  <2>2. CASE a \in access \cup session.access /\ b \in Granted
    <3>1. b[1] = z /\ \A o \in BOOLEAN : <<z, b[2], o>> \notin access \cup session.access
      BY <2>2, GrantedForm
    <3>2. a[3] \in BOOLEAN /\ a = <<a[1], a[2], a[3]>>
      BY <2>0, <2>2, GrantsForm
    <3> QED
      BY <2>2, <3>1, <3>2, <1>3
  <2>3. CASE b \in access \cup session.access /\ a \in Granted
    <3>1. a[1] = z /\ \A o \in BOOLEAN : <<z, a[2], o>> \notin access \cup session.access
      BY <2>3, GrantedForm
    <3>2. b[3] \in BOOLEAN /\ b = <<b[1], b[2], b[3]>>
      BY <2>0, <2>3, GrantsForm
    <3> QED
      BY <2>3, <3>1, <3>2, <1>3
  <2>4. CASE a \in Granted /\ b \in Granted
    <3>1. /\ a = <<z, a[2], a[3]>> /\ a[3] \in BOOLEAN /\ (a[2] = d.owner <=> a[3])
      BY <2>4, GrantedForm
    <3>2. /\ b = <<z, b[2], b[3]>> /\ b[3] \in BOOLEAN /\ (b[2] = d.owner <=> b[3])
      BY <2>4, GrantedForm
    <3>3. a[3] = b[3]
      BY <3>1, <3>2, <1>3
    <3> QED
      BY <3>1, <3>2, <3>3, <1>3
  <2> QED
    BY <1>3, <2>1, <2>2, <2>3, <2>4
<1> QED
  BY <1>2, <1>3 DEF OneRowEach

LEMMA EndsType ==
  ASSUME TypeOK, Ends
  PROVE  /\ pc' = "idle" /\ next' \in 1..(N + 1) /\ dry' \in BOOLEAN
         /\ session' = NoAdds
         /\ session' \in [users : SUBSET Users, access : SUBSET Grants, history : BOOLEAN]
         /\ failed' \subseteq Domains
<1>1. 1 \in 1..(N + 1)
  BY LegacyAssumption
<1>2. NoAdds \in [users : SUBSET Users, access : SUBSET Grants, history : BOOLEAN]
  BY DEF NoAdds
<1> QED
  BY <1>1, <1>2 DEF Ends

LEMMA StepsOn ==
  ASSUME next \in Domains, NextDomain
  PROVE  pc' = "domain" /\ next' = next + 1 /\ next' \in 1..(N + 1)
BY LegacyAssumption DEF NextDomain, Domains

(* Types are kept, and no run is ever about to give a user a second row for
   a zone, however often the script is started and wherever it stops. *)
THEOREM TypeCorrect == Spec => []TypeOK
<1> USE LegacyAssumption
<1>1. Init => TypeOK
  <2> SUFFICES ASSUME Init PROVE TypeOK
    OBVIOUS
  <2>1. PICK own \in SUBSET Zones :
          /\ served = [w \in Zones |-> IF w \in own THEN Own ELSE NoZone]
          /\ keyed = own
          /\ \E grants \in SUBSET (own \X Users) : access = {<<g[1], g[2], FALSE>> : g \in grants}
    BY DEF Init
  <2>2. served \in [Zones -> Contents]
    BY <2>1 DEF Contents
  <2>3. access \subseteq Grants /\ OneRowEach(access)
    <3>1. PICK grants \in SUBSET (own \X Users) :
            access = {<<g[1], g[2], FALSE>> : g \in grants}
      BY <2>1
    <3>2. ASSUME NEW x \in access
          PROVE  x[1] \in Zones /\ x[2] \in Users /\ x = <<x[1], x[2], FALSE>>
      <4>1. PICK g \in grants : x = <<g[1], g[2], FALSE>>
        BY <3>1
      <4>2. g[1] \in Zones /\ g[2] \in Users
        OBVIOUS
      <4> QED
        BY <4>1, <4>2
    <3>3. ASSUME NEW x \in access PROVE x \in Grants
      <4>1. <<x[1], x[2], FALSE>> \in Grants
        BY <3>2 DEF Grants
      <4> QED
        BY <3>2, <4>1
    <3>4. \A x \in access : x = <<x[1], x[2], FALSE>>
      BY <3>2
    <3> QED
      BY <3>3, <3>4 DEF OneRowEach
  <2>4. session.access = {} /\ OneRowEach(access \cup session.access)
    BY <2>3 DEF Init, NoAdds
  <2>5. imports \in Nat /\ faults \in Nat /\ next \in 1..(N + 1)
    BY DEF Init
  <2>6. session \in [users : SUBSET Users, access : SUBSET Grants, history : BOOLEAN]
    BY DEF Init, NoAdds
  <2> QED
    BY <2>1, <2>2, <2>3, <2>4, <2>5, <2>6 DEF Init, TypeOK
<1>2. TypeOK /\ [Next]_vars => TypeOK'
  <2> SUFFICES ASSUME TypeOK, [Next]_vars PROVE TypeOK'
    OBVIOUS
  <2>1. CASE Start
    <3>1. session' \in [users : SUBSET Users, access : SUBSET Grants, history : BOOLEAN]
          /\ session'.access = {}
      BY <2>1 DEF Start, NoAdds, TypeOK
    <3>2. OneRowEach(access \cup session'.access)
      BY <3>1 DEF TypeOK, OneRowEach
    <3>3. next' \in 1..(N + 1)
      BY <2>1 DEF Start
    <3> QED
      BY <2>1, <3>1, <3>2, <3>3 DEF TypeOK, Start, stores, marks
  <2>2. CASE Skip
    BY <2>2, StepsOn DEF TypeOK, Skip, At, stores, marks
  <2>3. CASE Lookup
    BY <2>3 DEF TypeOK, Lookup, At, stores, marks
  <2>4. CASE Create
    <3>1. RRsets(d.rows) \in Contents /\ z \in Zones
      BY <2>4, LegacyType DEF Create, At, Contents, SetsOf, d, z
    <3> QED
      BY <2>4, <3>1 DEF TypeOK, Create, At, marks
  <2>5. CASE Keys
    <3>1. z \in Zones
      BY <2>5, LegacyType DEF Keys, At, z
    <3> QED
      BY <2>5, <3>1 DEF TypeOK, Keys, At, marks
  <2>6. CASE Refused
    <3>1. faults' \in Nat
      BY <2>6 DEF Refused, Fails, TypeOK
    <3> QED
      BY <2>6, <3>1, StepsOn DEF TypeOK, Refused, Reported, At, stores, marks
  <2>7. CASE KeysRefused
    <3>1. faults' \in Nat
      BY <2>7 DEF KeysRefused, Fails, TypeOK
    <3>2. z \in Zones
      BY <2>7, LegacyType DEF KeysRefused, At, z
    <3> QED
      BY <2>7, <3>1, <3>2, StepsOn DEF TypeOK, KeysRefused, Reported, At, stores
  <2>8. CASE Grant
    <3>1. next \in Domains /\ session'.access = session.access \cup Granted
          /\ session'.users = session.users /\ session'.history = session.history
      BY <2>8 DEF Grant, At, TypeOK
    <3>2. session' \in [users : SUBSET Users, access : SUBSET Grants, history : BOOLEAN]
      BY <2>8, <3>1, GrantedType DEF Grant, TypeOK
    <3>3. access \cup session'.access = access \cup session.access \cup Granted
      BY <3>1
    <3>4. OneRowEach(access \cup session'.access)
      BY <3>1, <3>3, GrantedType
    <3> QED
      BY <2>8, <3>1, <3>2, <3>4, StepsOn DEF TypeOK, Grant, stores, marks
  <2>9. CASE History
    <3>1. ImportsHistory \in BOOLEAN
      BY DEF ImportsHistory
    <3>2. session' \in [users : SUBSET Users, access : SUBSET Grants, history : BOOLEAN]
          /\ session'.access = session.access
      BY <2>9, <3>1 DEF History, TypeOK
    <3> QED
      BY <2>9, <3>2 DEF TypeOK, History, stores, marks
  <2>10. CASE Commit
    <3>1. session'.access = {}
      BY <2>10, EndsType DEF Commit, NoAdds
    <3>2. OneRowEach(access' \cup session'.access)
      BY <2>10, <3>1 DEF Commit, TypeOK
    <3>3. imports' \in Nat
      BY <2>10 DEF Commit, TypeOK
    <3>4. users' \subseteq Users /\ access' \subseteq Grants
      BY <2>10 DEF Commit, TypeOK
    <3> QED
      BY <2>10, <3>2, <3>3, <3>4, EndsType DEF TypeOK, Commit
  <2>11. CASE Rollback \/ Die
    <3>1. session'.access = {} /\ UNCHANGED stores
      BY <2>11, EndsType DEF Rollback, Die, NoAdds
    <3>2. OneRowEach(access' \cup session'.access)
      BY <3>1 DEF TypeOK, OneRowEach, stores
    <3>3. faults' \in Nat
      BY <2>11 DEF Rollback, Die, Fails, TypeOK
    <3>4. bare' \subseteq Zones
      <4>1. CASE Die /\ pc = "keys"
        <5>1. z \in Zones
          BY <4>1, LegacyType DEF TypeOK, z
        <5> QED
          BY <4>1, <5>1 DEF Die, TypeOK
      <4>2. CASE ~(Die /\ pc = "keys")
        BY <4>2, <2>11 DEF Rollback, Die, marks, TypeOK
      <4> QED
        BY <4>1, <4>2
    <3> QED
      BY <2>11, <3>1, <3>2, <3>3, <3>4, EndsType DEF TypeOK, Rollback, Die, stores, marks
  <2>12. CASE UNCHANGED vars
    BY <2>12 DEF TypeOK, vars
  <2> QED
    BY <2>1, <2>2, <2>3, <2>4, <2>5, <2>6, <2>7, <2>8, <2>9, <2>10, <2>11, <2>12
    DEF Next, Step
<1> QED
  BY <1>1, <1>2, PTL DEF Spec

-----------------------------------------------------------------------------
(* A run that is about to commit imports the history just when it is not
   there. *)
HistoryInv ==
  /\ imports \in {0, 1}
  /\ finished => imports = 1
  /\ pc = "commit" /\ ~dry => (session.history <=> imports = 0)

(* The history of the old system is imported once, by the first run that comes
   to its end, and by none of the later ones. *)
THEOREM HistoryIsImportedOnce == Spec => []HistoryOnce
<1>1. Init => HistoryInv
  BY DEF Init, HistoryInv
<1>2. TypeOK /\ HistoryInv /\ [Next]_vars => HistoryInv'
  <2> SUFFICES ASSUME TypeOK, HistoryInv, [Next]_vars PROVE HistoryInv'
    OBVIOUS
  <2>1. CASE Start
    BY <2>1 DEF HistoryInv, Start, stores, marks
  <2>2. CASE Skip \/ Lookup \/ Create \/ Keys \/ Refused \/ KeysRefused \/ Grant
    <3>1. pc' # "commit" /\ UNCHANGED <<imports, finished>>
      BY <2>2 DEF Skip, Lookup, Create, Keys, Refused, KeysRefused, Grant, Reported,
                  NextDomain, stores, marks
    <3> QED
      BY <3>1 DEF HistoryInv
  <2>3. CASE History
    <3>1. session'.history = ImportsHistory
      BY <2>3 DEF History, TypeOK
    <3> QED
      BY <2>3, <3>1 DEF HistoryInv, History, ImportsHistory, stores, marks
  <2>4. CASE Commit
    <3>1. imports' = 1
      BY <2>4 DEF HistoryInv, Commit
    <3> QED
      BY <2>4, <3>1 DEF HistoryInv, Commit, Ends
  <2>5. CASE Rollback \/ Die
    BY <2>5 DEF HistoryInv, Rollback, Die, Ends, stores, marks
  <2>6. CASE UNCHANGED vars
    BY <2>6 DEF HistoryInv, vars
  <2> QED
    BY <2>1, <2>2, <2>3, <2>4, <2>5, <2>6 DEF Next, Step
<1>3. HistoryInv => HistoryOnce
  BY DEF HistoryInv, HistoryOnce
<1> QED
  BY <1>1, <1>2, <1>3, TypeCorrect, PTL DEF Spec

-----------------------------------------------------------------------------
(* The record sets of a domain are its records: whatever is not a CNAME beside
   other records is there, and nothing else. *)
LEMMA ConversionIsFaithful ==
  ASSUME NEW rows
  PROVE  Faithful(rows, RRsets(rows))
<1> DEFINE keys == {KeyOf(r) : r \in RowsOf(rows)}
           kept == {k \in keys : ~Conflicting(k, keys)}
           stays(s) == ~ (s.type = "CNAME" /\ \E o \in RowsOf(rows) :
                            Canonical[o.name] = Canonical[s.name] /\ o.type # "CNAME")
           of(k) == {conv_content(r) : r \in {s \in RowsOf(rows) : KeyOf(s) = k}}
<1>1. RRsets(rows) = {RRset(rows, k) : k \in kept}
  BY DEF RRsets
<1>2. \A k : RRset(rows, k).key = k /\ RRset(rows, k).contents = of(k)
  BY DEF RRset
<1>3. \A s \in RowsOf(rows) : KeyOf(s)[1] = Canonical[s.name] /\ KeyOf(s)[2] = s.type
  BY DEF KeyOf
<1>4. \A s \in RowsOf(rows) : stays(s) <=> KeyOf(s) \in kept
  BY <1>3 DEF Conflicting
<1>5. UNION {{<<s.key, c>> : c \in s.contents} : s \in RRsets(rows)}
        = UNION {{<<k, c>> : c \in of(k)} : k \in kept}
  <2> HIDE DEF kept, of
  <2>1. ASSUME NEW x \in UNION {{<<s.key, c>> : c \in s.contents} : s \in RRsets(rows)}
        PROVE  x \in UNION {{<<k, c>> : c \in of(k)} : k \in kept}
    <3>1. PICK s \in RRsets(rows) : x \in {<<s.key, c>> : c \in s.contents}
      OBVIOUS
    <3>2. PICK k \in kept : s = RRset(rows, k)
      BY <1>1
    <3> QED
      BY <3>1, <3>2, <1>2
  <2>2. ASSUME NEW x \in UNION {{<<k, c>> : c \in of(k)} : k \in kept}
        PROVE  x \in UNION {{<<s.key, c>> : c \in s.contents} : s \in RRsets(rows)}
    <3>1. PICK k \in kept : x \in {<<k, c>> : c \in of(k)}
      OBVIOUS
    <3>2. RRset(rows, k) \in RRsets(rows)
      BY <1>1
    <3>3. x \in {<<RRset(rows, k).key, c>> : c \in RRset(rows, k).contents}
      BY <3>1, <1>2
    <3> QED
      BY <3>2, <3>3
  <2> QED
    BY <2>1, <2>2
<1>6. UNION {{<<k, c>> : c \in of(k)} : k \in kept}
        = {<<KeyOf(r), conv_content(r)>> : r \in {s \in RowsOf(rows) : stays(s)}}
  <2> HIDE DEF kept, stays
  <2>1. ASSUME NEW x \in UNION {{<<k, c>> : c \in of(k)} : k \in kept}
        PROVE  x \in {<<KeyOf(r), conv_content(r)>> : r \in {s \in RowsOf(rows) : stays(s)}}
    <3>1. PICK k \in kept : x \in {<<k, c>> : c \in of(k)}
      OBVIOUS
    <3>2. PICK r \in RowsOf(rows) : KeyOf(r) = k /\ x = <<k, conv_content(r)>>
      BY <3>1
    <3>3. stays(r)
      BY <3>2, <1>4
    <3> QED
      BY <3>2, <3>3
  <2>2. ASSUME NEW x \in {<<KeyOf(r), conv_content(r)>> : r \in {s \in RowsOf(rows) : stays(s)}}
        PROVE  x \in UNION {{<<k, c>> : c \in of(k)} : k \in kept}
    <3>1. PICK r \in RowsOf(rows) : stays(r) /\ x = <<KeyOf(r), conv_content(r)>>
      OBVIOUS
    <3>2. KeyOf(r) \in kept /\ conv_content(r) \in of(KeyOf(r))
      BY <3>1, <1>4
    <3> QED
      BY <3>1, <3>2
  <2> QED
    BY <2>1, <2>2
<1> QED
  BY <1>5, <1>6 DEF Faithful

-----------------------------------------------------------------------------
(* What a run has done for a domain it has left behind: s, k and rows are the
   zones, the zones with keys or without their fault bare, and the rows of
   zone_access. *)
Reached(i, s, k, rows) ==
  /\ s[ZoneOf(i)] # NoZone
  /\ ZoneOf(i) \in k
  /\ \A u \in Grantees(i) : \E o \in BOOLEAN : <<ZoneOf(i), u, o>> \in rows

(* Every zone is the panel's own or one the script has made of an enabled
   domain; and it has its keys, unless they are the script's next call. *)
ServedInv ==
  \A w \in Zones :
    served[w] = NoZone \/ served[w] = Own
      \/ \E j \in Domains : ZoneOf(j) = w /\ ~Legacy[j].disabled /\ served[w] = SetsOf(j)

KeyedInv ==
  \A w \in Zones : served[w] # NoZone => w \in keyed \cup bare \/ (pc = "keys" /\ w = z)

(* Where the run stands, and what it has reached for the domains before. *)
PlaceInv ==
  /\ pc = "create" => ~Legacy[next].disabled
  /\ pc = "keys" => served[z] # NoZone
  /\ pc = "grants" => served[z] # NoZone /\ z \in keyed \cup bare
  /\ pc = "commit" => next = N + 1
  /\ pc # "idle" => Users \subseteq users \cup session.users

PassedInv ==
  pc # "idle" /\ ~dry =>
    \A i \in Domains :
      i < next /\ i \notin failed =>
        Legacy[i].disabled \/ Reached(i, served, keyed \cup bare, access \cup session.access)

DoneInv ==
  finished =>
    /\ Users \subseteq users
    /\ \A i \in Domains \ told :
         Legacy[i].disabled \/ Reached(i, served, keyed \cup bare, access)

RunInv == ServedInv /\ KeyedInv /\ PlaceInv /\ PassedInv /\ DoneInv

LEMMA ReachedGrows ==
  ASSUME NEW i, NEW s, NEW k, NEW rows, NEW s2, NEW k2, NEW rows2,
         Reached(i, s, k, rows),
         s[ZoneOf(i)] # NoZone => s2[ZoneOf(i)] # NoZone,
         k \subseteq k2, rows \subseteq rows2
  PROVE  Reached(i, s2, k2, rows2)
BY DEF Reached

(* Nothing the script has written is taken back. *)
LEMMA StoresGrow ==
  ASSUME TypeOK, [Next]_vars
  PROVE  /\ \A w \in Zones : served[w] # NoZone => served'[w] # NoZone
         /\ keyed \cup bare \subseteq keyed' \cup bare'
         /\ access \subseteq access'
         /\ users \subseteq users'
<1>1. CASE Create
  <2>1. RRsets(d.rows) # NoZone
    BY <1>1, LegacyAssumption DEF Create, At, d
  <2>2. \A w \in Zones : served[w] # NoZone => served'[w] # NoZone
    BY <1>1, <2>1 DEF Create, TypeOK
  <2> QED
    BY <1>1, <2>2 DEF Create, marks
<1>2. CASE Start \/ Skip \/ Lookup \/ Refused \/ Grant \/ History \/ Rollback \/ UNCHANGED vars
  BY <1>2 DEF Start, Skip, Lookup, Refused, Grant, History, Rollback, vars, stores, marks
<1>3. CASE Keys \/ KeysRefused \/ Commit \/ Die
  BY <1>3 DEF Keys, KeysRefused, Commit, Die, stores, marks
<1> QED
  BY <1>1, <1>2, <1>3 DEF Next, Step

(* After grant, the owner and the editors have a row each. *)
LEMMA GrantedReaches ==
  ASSUME TypeOK, next \in Domains, NEW u \in Grantees(next)
  PROVE  \E o \in BOOLEAN : <<z, u, o>> \in access \cup session.access \cup Granted
<1>1. CASE HasRow(access \cup session.access, u)
  BY <1>1 DEF HasRow
<1>2. CASE ~HasRow(access \cup session.access, u) /\ u = d.owner
  <2>1. d.owner # Nobody
    BY <1>2, LegacyType, LegacyAssumption DEF Grantees, d
  <2>2. <<z, u, TRUE>> \in Granted
    BY <1>2, <2>1 DEF Granted
  <2> QED
    BY <2>2
<1>3. CASE ~HasRow(access \cup session.access, u) /\ u # d.owner
  <2>1. u \in d.editors \ {d.owner}
    BY <1>3 DEF Grantees, d
  <2>2. <<z, u, FALSE>> \in Granted
    BY <1>3, <2>1 DEF Granted
  <2> QED
    BY <2>2
<1> QED
  BY <1>1, <1>2, <1>3

LEMMA ServedStep ==
  ASSUME TypeOK, RunInv, [Next]_vars
  PROVE  ServedInv' /\ KeyedInv'
<1>1. CASE Create
  <2>1. next \in Domains /\ ~Legacy[next].disabled /\ z \in Zones /\ z' = z
    BY <1>1, LegacyType DEF Create, At, RunInv, PlaceInv, z
  <2>2. \A w \in Zones : served'[w] = IF w = z THEN SetsOf(next) ELSE served[w]
    BY <1>1 DEF Create, TypeOK, SetsOf, d
  <2>3. ServedInv'
    BY <2>1, <2>2 DEF RunInv, ServedInv, z
  <2>4. KeyedInv'
    BY <1>1, <2>1, <2>2 DEF RunInv, KeyedInv, Create, At, marks
  <2> QED
    BY <2>3, <2>4
<1>2. CASE Keys \/ KeysRefused
  <2>1. UNCHANGED served /\ keyed' \cup bare' = keyed \cup bare \cup {z}
    BY <1>2 DEF Keys, KeysRefused, stores, marks
  <2> QED
    BY <2>1 DEF RunInv, ServedInv, KeyedInv
<1>3. CASE Die
  <2>1. UNCHANGED served /\ (pc = "keys" => z \in bare') /\ UNCHANGED keyed /\ bare \subseteq bare'
    BY <1>3 DEF Die, stores
  <2> QED
    BY <2>1 DEF RunInv, ServedInv, KeyedInv
<1>4. CASE Start \/ Skip \/ Lookup \/ Refused \/ Grant \/ History \/ Commit \/ Rollback \/ UNCHANGED vars
  <2>1. UNCHANGED <<served, keyed, bare>>
    BY <1>4 DEF Start, Skip, Lookup, Refused, Grant, History, Commit, Rollback, vars, stores, marks
  <2>2. pc # "keys" \/ UNCHANGED vars
    BY <1>4 DEF Start, Skip, Lookup, Refused, Grant, History, Commit, Rollback, At
  <2> QED
    BY <2>1, <2>2 DEF RunInv, ServedInv, KeyedInv, vars, z
<1> QED
  BY <1>1, <1>2, <1>3, <1>4 DEF Next, Step

LEMMA PlaceStep ==
  ASSUME TypeOK, RunInv, [Next]_vars
  PROVE  PlaceInv'
<1>1. CASE Start
  BY <1>1 DEF PlaceInv, Start, NoAdds, stores
<1>2. CASE Skip \/ Refused \/ KeysRefused
  <2>1. pc' = "domain" /\ pc # "idle" /\ UNCHANGED <<users, session>>
    BY <1>2 DEF Skip, Refused, KeysRefused, Reported, NextDomain, At, stores
  <2> QED
    BY <2>1 DEF RunInv, PlaceInv
<1>3. CASE Lookup
  <2>1. next \in Domains /\ ~Legacy[next].disabled /\ z' = z
    BY <1>3 DEF Lookup, At, PassesOver, z
  <2>2. z \in Zones
    BY <2>1, LegacyType DEF z
  <2>3. served[z] # NoZone => z \in keyed \cup bare
    BY <1>3, <2>2 DEF RunInv, KeyedInv, Lookup, At
  <2> QED
    BY <1>3, <2>1, <2>3 DEF RunInv, PlaceInv, Lookup, At, stores, marks
<1>4. CASE Create
  <2>1. RRsets(d.rows) # NoZone /\ z \in Zones /\ z' = z
    BY <1>4, LegacyType, LegacyAssumption DEF Create, At, d, z
  <2>2. served'[z] # NoZone
    BY <1>4, <2>1 DEF Create, TypeOK
  <2> QED
    BY <1>4, <2>1, <2>2 DEF RunInv, PlaceInv, Create, At
<1>5. CASE Keys
  BY <1>5 DEF RunInv, PlaceInv, Keys, At, marks, z
<1>6. CASE Grant
  <2>1. session'.users = session.users
    BY <1>6 DEF Grant, TypeOK
  <2> QED
    BY <1>6, <2>1 DEF RunInv, PlaceInv, Grant, At, NextDomain, stores
<1>7. CASE History
  <2>1. session'.users = session.users
    BY <1>7 DEF History, TypeOK
  <2> QED
    BY <1>7, <2>1 DEF RunInv, PlaceInv, History, stores
<1>8. CASE Commit \/ Rollback \/ Die
  BY <1>8 DEF PlaceInv, Commit, Rollback, Die, Ends
<1>9. CASE UNCHANGED vars
  BY <1>9 DEF RunInv, PlaceInv, vars, z
<1> QED
  BY <1>1, <1>2, <1>3, <1>4, <1>5, <1>6, <1>7, <1>8, <1>9 DEF Next, Step

LEMMA PassedStep ==
  ASSUME TypeOK, RunInv, [Next]_vars
  PROVE  PassedInv'
<1> USE LegacyAssumption
<1> SUFFICES ASSUME pc' # "idle", ~dry', NEW i \in Domains, i < next', i \notin failed',
                    ~Legacy[i].disabled
             PROVE  Reached(i, served', keyed' \cup bare', access' \cup session'.access)
  BY DEF PassedInv
<1>0. ZoneOf(i) \in Zones
  BY LegacyType
<1>1. CASE Start
  BY <1>1 DEF Start, Domains
<1>2. ASSUME pc # "idle", ~dry, i < next, i \notin failed, session.access \subseteq session'.access
      PROVE  Reached(i, served', keyed' \cup bare', access' \cup session'.access)
  <2>1. Reached(i, served, keyed \cup bare, access \cup session.access)
    BY <1>2 DEF RunInv, PassedInv
  <2> QED
    BY <1>0, <1>2, <2>1, StoresGrow, ReachedGrows
<1>3. CASE Skip \/ Refused \/ KeysRefused
  <2>1. next \in Domains /\ next' = next + 1 /\ pc # "idle" /\ UNCHANGED <<session, dry>>
    BY <1>3 DEF Skip, Refused, KeysRefused, Reported, NextDomain, At
  <2>2. failed \subseteq failed' /\ i # next
    BY <1>3 DEF Skip, Refused, KeysRefused, Reported, PassesOver
  <2>3. i < next
    BY <2>1, <2>2 DEF Domains
  <2> QED
    BY <1>2, <2>1, <2>2, <2>3
<1>4. CASE Lookup \/ Create \/ Keys \/ History \/ UNCHANGED vars
  <2>1. UNCHANGED <<next, failed, dry>> /\ (pc = "idle" => pc' = "idle")
    BY <1>4 DEF Lookup, Create, Keys, History, At, vars
  <2>2. session.access \subseteq session'.access
    BY <1>4 DEF Lookup, Create, Keys, History, TypeOK, vars
  <2> QED
    BY <1>2, <2>1, <2>2
<1>5. CASE Grant
  <2>1. /\ next \in Domains /\ next' = next + 1 /\ pc = "grants"
        /\ session'.access = session.access \cup Granted
        /\ UNCHANGED <<served, keyed, bare, access, failed, dry>>
    BY <1>5 DEF Grant, NextDomain, At, TypeOK, stores, marks
  <2>2. CASE i = next
    <3>1. served[ZoneOf(i)] # NoZone /\ ZoneOf(i) \in keyed \cup bare
      BY <2>1, <2>2 DEF RunInv, PlaceInv, z
    <3>2. ASSUME NEW u \in Grantees(i)
          PROVE  \E o \in BOOLEAN : <<ZoneOf(i), u, o>> \in access' \cup session'.access
      BY <2>1, <2>2, GrantedReaches DEF z
    <3> QED
      BY <2>1, <3>1, <3>2 DEF Reached
  <2>3. CASE i # next
    <3>1. i < next
      BY <2>1, <2>3 DEF Domains
    <3> QED
      BY <1>2, <2>1, <3>1
  <2> QED
    BY <2>2, <2>3
<1>6. CASE Commit \/ Rollback \/ Die
  BY <1>6 DEF Commit, Rollback, Die, Ends
<1> QED
  BY <1>1, <1>3, <1>4, <1>5, <1>6 DEF Next, Step

LEMMA DoneStep ==
  ASSUME TypeOK, RunInv, [Next]_vars
  PROVE  DoneInv'
<1> USE LegacyAssumption
<1>1. CASE Commit
  <2>1. /\ pc = "commit" /\ ~dry /\ told' = failed /\ next = N + 1
        /\ users' = users \cup session.users /\ access' = access \cup session.access
        /\ UNCHANGED <<served, keyed, bare>>
    BY <1>1 DEF Commit, RunInv, PlaceInv
  <2>2. Users \subseteq users'
    BY <2>1 DEF RunInv, PlaceInv
  <2>3. ASSUME NEW i \in Domains \ told', ~Legacy[i].disabled
        PROVE  Reached(i, served', keyed' \cup bare', access')
    <3>1. i < next
      BY <2>1 DEF Domains
    <3> QED
      BY <2>1, <2>3, <3>1 DEF RunInv, PassedInv
  <2> QED
    BY <2>2, <2>3 DEF DoneInv
<1>2. CASE ~Commit
  <2>1. UNCHANGED <<finished, told>>
    BY <1>2 DEF Next, Step, Start, Skip, Lookup, Create, Keys, Refused, KeysRefused, Grant,
                History, Rollback, Die, vars, marks
  <2> SUFFICES ASSUME finished PROVE DoneInv'
    BY <2>1 DEF DoneInv
  <2>2. Users \subseteq users'
    BY StoresGrow DEF RunInv, DoneInv
  <2>3. ASSUME NEW i \in Domains \ told, ~Legacy[i].disabled
        PROVE  Reached(i, served', keyed' \cup bare', access')
    <3>1. Reached(i, served, keyed \cup bare, access) /\ ZoneOf(i) \in Zones
      BY <2>3, LegacyType DEF RunInv, DoneInv
    <3> QED
      BY <3>1, StoresGrow, ReachedGrows
  <2> QED
    BY <2>1, <2>2, <2>3 DEF DoneInv
<1> QED
  BY <1>1, <1>2

(* Whatever failed before: a run that comes to its end has all users there,
   and every enabled domain it has not reported served as its old records
   say, with transfer keys (but for a failure of just that call) and with access
   for its owner and its editors. *)
THEOREM RunsAreComplete == Spec => []RunIsComplete
<1>1. Init => RunInv
  <2> SUFFICES ASSUME Init PROVE RunInv
    OBVIOUS
  <2>1. PICK own \in SUBSET Zones :
          served = [w \in Zones |-> IF w \in own THEN Own ELSE NoZone] /\ keyed = own
    BY DEF Init
  <2>2. ServedInv /\ KeyedInv
    BY <2>1 DEF ServedInv, KeyedInv
  <2>3. PlaceInv /\ PassedInv /\ DoneInv
    BY DEF Init, PlaceInv, PassedInv, DoneInv
  <2> QED
    BY <2>2, <2>3 DEF RunInv
<1>2. TypeOK /\ RunInv /\ [Next]_vars => RunInv'
  BY ServedStep, PlaceStep, PassedStep, DoneStep DEF RunInv
<1>3. RunInv => RunIsComplete
  <2> SUFFICES ASSUME RunInv, finished, NEW i \in Domains \ told, ~Legacy[i].disabled
               PROVE  Served(i) /\ Accessible(i) /\ ZoneOf(i) \in keyed \cup bare
    BY DEF RunInv, DoneInv, RunIsComplete
  <2>1. Reached(i, served, keyed \cup bare, access) /\ ZoneOf(i) \in Zones
    BY LegacyType DEF RunInv, DoneInv
  <2>2. CASE served[ZoneOf(i)] = Own
    BY <2>1, <2>2 DEF Reached, Served, Accessible
  <2>3. CASE served[ZoneOf(i)] # Own
    <3>1. PICK j \in Domains : /\ ZoneOf(j) = ZoneOf(i) /\ ~Legacy[j].disabled
                               /\ served[ZoneOf(i)] = SetsOf(j)
      BY <2>1, <2>3 DEF RunInv, ServedInv, Reached
    <3>2. Faithful(Legacy[j].rows, served[ZoneOf(i)])
      BY <3>1, ConversionIsFaithful DEF SetsOf
    <3>3. Served(i)
      BY <2>1, <3>1, <3>2 DEF Served, Reached
    <3> QED
      BY <2>1, <3>3 DEF Reached, Accessible
  <2> QED
    BY <2>2, <2>3
<1> QED
  BY <1>1, <1>2, <1>3, TypeCorrect, PTL DEF Spec

=============================================================================
