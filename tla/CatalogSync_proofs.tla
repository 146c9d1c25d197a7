------------------------- MODULE CatalogSync_proofs -------------------------
(***************************************************************************)
(* Proofs about nsd-catalog-sync.sh, for any number of sources, zones and  *)
(* overlapping runs: types, what the include file follows, and when NSD    *)
(* may be out of step with it.                                             *)
(***************************************************************************)
EXTENDS CatalogSync, TLAPS

LEMMA MergedType ==
  ASSUME NEW l \in Stanzas, NEW s \in Sources, NEW c
  PROVE  Merged(l, s, c) \in Stanzas
BY CatalogAssumption DEF Merged, Stanzas, Sources

LEMMA NoStanzaType == NoStanza \in Stanzas
BY CatalogAssumption DEF NoStanza, Stanzas

LEMMA ListedType == \A c : Listed(c) \subseteq Pairs
BY DEF Listed

LEMMA ExitType ==
  ASSUME TypeOK, NEW r \in Runs, Exit(r)
  PROVE  /\ pc' \in [Runs -> {"idle", "transfer", "copy", "reload"}]
         /\ next' \in [Runs -> 1..(N + 1)]
         /\ list' \in [Runs -> Stanzas]
         /\ fail' \in [Runs -> BOOLEAN]
         /\ \A q \in Runs : pc'[q] \in {"copy", "reload"} => ~fail'[q]
         /\ always' \in [Runs -> SUBSET Pairs] /\ ever' \in [Runs -> SUBSET Pairs]
BY NoStanzaType, CatalogAssumption DEF TypeOK, Exit, Goto

(* Types are kept; in particular no run writes the include file after one of
   its transfers has failed. *)
THEOREM TypeCorrect == Spec => []TypeOK
<1> USE CatalogAssumption
<1>1. Init => TypeOK
  <2> SUFFICES ASSUME Init PROVE TypeOK
    OBVIOUS
  <2>1. next \in [Runs -> 1..(N + 1)] /\ events \in Nat
    BY DEF Init
  <2>2. /\ fail \in [Runs -> BOOLEAN] /\ broken \in BOOLEAN
        /\ \A r \in Runs : pc[r] = "idle"
    BY DEF Init
  <2> QED
    BY <2>1, <2>2, NoStanzaType DEF Init, TypeOK
<1>2. TypeOK /\ [Next]_vars => TypeOK'
  <2> SUFFICES ASSUME TypeOK, [Next]_vars PROVE TypeOK'
    OBVIOUS
  <2>1. CASE Change
    <3>1. Listed(catalog') \subseteq Pairs
      BY ListedType
    <3>2. events' \in Nat
      BY <2>1 DEF TypeOK, Change, Happens
    <3>3. /\ catalog' \in [Sources -> SUBSET Zones]
          /\ always' \in [Runs -> SUBSET Pairs] /\ ever' \in [Runs -> SUBSET Pairs]
      BY <2>1, <3>1 DEF TypeOK, Change
    <3> QED
      BY <2>1, <3>2, <3>3 DEF TypeOK, Change, run
  <2>2. CASE Reach
    BY <2>2 DEF TypeOK, Reach, Happens, run
  <2>3. CASE NsdRestart
    <3>1. events' \in Nat
      BY <2>3 DEF TypeOK, NsdRestart, Happens
    <3>2. broken' \in BOOLEAN
      BY <2>3 DEF NsdRestart
    <3> QED
      BY <2>3, <3>1, <3>2 DEF TypeOK, NsdRestart, run
  <2>4. ASSUME NEW r \in Runs, Start(r) PROVE TypeOK'
    <3>1. Listed(catalog) \subseteq Pairs
      BY ListedType
    <3> QED
      BY <2>4, <3>1 DEF TypeOK, Start, Goto
  <2>5. ASSUME NEW r \in Runs, Transfer(r) PROVE TypeOK'
    <3>1. Merged(list[r], next[r], catalog[next[r]]) \in Stanzas
      BY <2>5, MergedType DEF TypeOK, Transfer
    <3>2. list' \in [Runs -> Stanzas] /\ fail' \in [Runs -> BOOLEAN]
      BY <2>5, <3>1 DEF TypeOK, Transfer
    <3>3. next[r] + 1 \in 1..(N + 1)
      BY <2>5 DEF Transfer, Sources
    <3>4. next' \in [Runs -> 1..(N + 1)]
      BY <2>5, <3>3 DEF TypeOK, Transfer
    <3>5. \A q \in Runs : pc[q] \in {"copy", "reload"} => fail'[q] = fail[q]
      BY <2>5 DEF TypeOK, Transfer
    <3> QED
      BY <2>5, <3>2, <3>4, <3>5 DEF TypeOK, Transfer
  <2>6. ASSUME NEW r \in Runs, GivesUp(r) PROVE TypeOK'
    BY <2>6, ExitType DEF TypeOK, GivesUp
  <2>7. ASSUME NEW r \in Runs, NoChange(r) PROVE TypeOK'
    BY <2>7, ExitType DEF TypeOK, NoChange
  <2>8. ASSUME NEW r \in Runs, Differs(r) PROVE TypeOK'
    BY <2>8 DEF TypeOK, Differs, Goto, GoesOn
  <2>9. ASSUME NEW r \in Runs, Copy(r) PROVE TypeOK'
    BY <2>9 DEF TypeOK, Copy, Goto
  <2>10. ASSUME NEW r \in Runs, Reload(r) PROVE TypeOK'
    BY <2>10, ExitType DEF TypeOK, Reload, Reconfigured
  <2>11. ASSUME NEW r \in Runs, ReloadFails(r) PROVE TypeOK'
    BY <2>11, ExitType DEF TypeOK, ReloadFails, Happens
  <2>12. ASSUME NEW r \in Runs, Killed(r) PROVE TypeOK'
    BY <2>12, ExitType DEF TypeOK, Killed, Happens
  <2>13. CASE UNCHANGED vars
    BY <2>13 DEF TypeOK, vars, run
  <2> QED
    BY <2>1, <2>2, <2>3, <2>4, <2>5, <2>6, <2>7, <2>8, <2>9, <2>10, <2>11, <2>12, <2>13
    DEF Next, Step
<1> QED
  BY <1>1, <1>2, PTL DEF Spec

-----------------------------------------------------------------------------
(* NSD is out of step with the include file only while a reload is still to
   come, or after a run has ended before its reload, however the runs overlap. *)
THEOREM InSync == Spec => []InSyncAtRest
<1>1. Init => InSyncAtRest
  BY DEF Init, InSyncAtRest
<1>2. TypeOK /\ InSyncAtRest /\ [Next]_vars => InSyncAtRest'
  <2> SUFFICES ASSUME TypeOK, InSyncAtRest, [Next]_vars PROVE InSyncAtRest'
    OBVIOUS
  <2>1. CASE Change \/ Reach \/ UNCHANGED vars
    BY <2>1 DEF InSyncAtRest, Change, Reach, vars, run
  <2>2. CASE NsdRestart
    BY <2>2 DEF InSyncAtRest, NsdRestart
  <2>3. ASSUME NEW r \in Runs,
               Start(r) \/ Transfer(r) \/ GivesUp(r) \/ NoChange(r) \/ Differs(r)
        PROVE  InSyncAtRest'
    <3>1. pc[r] # "reload" /\ UNCHANGED <<broken, loaded, file>>
      BY <2>3 DEF Start, Transfer, GivesUp, NoChange, Differs
    <3>2. \A q \in Runs \ {r} : pc'[q] = pc[q]
      BY <2>3 DEF TypeOK, Start, Transfer, GivesUp, NoChange, Differs, Exit, Goto
    <3> QED
      BY <3>1, <3>2 DEF InSyncAtRest
  <2>4. ASSUME NEW r \in Runs, Copy(r) PROVE InSyncAtRest'
    BY <2>4 DEF TypeOK, InSyncAtRest, Copy, Goto
  <2>5. ASSUME NEW r \in Runs, Reload(r) PROVE InSyncAtRest'
    BY <2>5 DEF InSyncAtRest, Reload, Reconfigured
  <2>6. ASSUME NEW r \in Runs, ReloadFails(r) PROVE InSyncAtRest'
    BY <2>6 DEF InSyncAtRest, ReloadFails
  <2>7. ASSUME NEW r \in Runs, Killed(r) PROVE InSyncAtRest'
    <3>1. \A q \in Runs \ {r} : pc'[q] = pc[q]
      BY <2>7 DEF TypeOK, Killed, Exit, Goto
    <3> QED
      BY <2>7, <3>1 DEF InSyncAtRest, Killed
  <2> QED
    BY <2>1, <2>2, <2>3, <2>4, <2>5, <2>6, <2>7 DEF Next, Step
<1> QED
  BY <1>1, <1>2, TypeCorrect, PTL DEF Spec

-----------------------------------------------------------------------------
(* What run r has gathered so far: the sources it has turned to come before
   next[r]; a stanza names a source that listed its zone during the run; and,
   if no transfer has failed, no zone of a source it has turned to is missing
   that was listed throughout. *)
Gathered(r) ==
  /\ pc[r] = "idle" => list[r] = NoStanza /\ next[r] = 1 /\ always[r] = {}
  /\ pc[r] \in {"copy", "reload"} => next[r] > N
  /\ pc[r] # "idle" => always[r] \subseteq Listed(catalog) /\ Listed(catalog) \subseteq ever[r]
  /\ \A z \in Zones : /\ list[r][z] < next[r]
                      /\ list[r][z] # 0 => <<list[r][z], z>> \in ever[r]
  /\ ~fail[r] => \A p \in always[r] : p[1] < next[r] => list[r][p[2]] \in 1..p[1]

GatheredInv == \A r \in Runs : Gathered(r)

LEMMA GatheredAtExit ==
  ASSUME TypeOK, GatheredInv, NEW r \in Runs, Exit(r), catalog' = catalog
  PROVE  GatheredInv'
<1> SUFFICES ASSUME NEW q \in Runs PROVE Gathered(q)'
  BY DEF GatheredInv
<1>1. CASE q = r
  <2>1. /\ pc'[q] = "idle" /\ next'[q] = 1 /\ list'[q] = NoStanza /\ always'[q] = {}
        /\ \A z \in Zones : NoStanza[z] = 0
    BY <1>1 DEF TypeOK, Exit, Goto, NoStanza
  <2> QED
    BY <2>1 DEF Gathered
<1>2. CASE q # r
  <2>1. /\ pc'[q] = pc[q] /\ next'[q] = next[q] /\ list'[q] = list[q] /\ fail'[q] = fail[q]
        /\ always'[q] = always[q] /\ ever'[q] = ever[q]
    BY <1>2 DEF TypeOK, Exit, Goto
  <2> QED
    BY <2>1 DEF GatheredInv, Gathered
<1> QED
  BY <1>1, <1>2

THEOREM GatheredHolds == Spec => []GatheredInv
<1> USE CatalogAssumption
<1>1. Init => GatheredInv
  BY DEF Init, GatheredInv, Gathered, NoStanza
<1>2. TypeOK /\ GatheredInv /\ [Next]_vars => GatheredInv'
  <2> SUFFICES ASSUME TypeOK, GatheredInv, [Next]_vars PROVE GatheredInv'
    OBVIOUS
  <2>1. CASE Change
    <3> SUFFICES ASSUME NEW q \in Runs PROVE Gathered(q)'
      BY DEF GatheredInv
    <3>1. /\ pc'[q] = pc[q] /\ next'[q] = next[q] /\ list'[q] = list[q] /\ fail'[q] = fail[q]
          /\ always'[q] = always[q] \cap Listed(catalog')
          /\ pc[q] # "idle" => ever'[q] = ever[q] \cup Listed(catalog')
      BY <2>1 DEF Change, run
    <3>2. pc[q] = "idle" => \A z \in Zones : list[q][z] = 0
      BY DEF GatheredInv, Gathered, NoStanza
    <3> QED
      BY <3>1, <3>2 DEF GatheredInv, Gathered
  <2>2. CASE Reach \/ NsdRestart \/ UNCHANGED vars
    BY <2>2 DEF GatheredInv, Gathered, Reach, NsdRestart, vars, run
  <2>3. ASSUME NEW r \in Runs, Start(r) PROVE GatheredInv'
    <3> SUFFICES ASSUME NEW q \in Runs PROVE Gathered(q)'
      BY DEF GatheredInv
    <3>1. CASE q = r
      <4>1. /\ pc'[q] = "transfer" /\ next'[q] = 1 /\ list'[q] = NoStanza /\ catalog' = catalog
            /\ always'[q] = Listed(catalog) /\ ever'[q] = Listed(catalog)
        BY <2>3, <3>1 DEF TypeOK, Start, Goto, GatheredInv, Gathered
      <4>2. /\ \A z \in Zones : NoStanza[z] = 0
            /\ \A p \in Listed(catalog) : p[1] \in Sources
        BY DEF NoStanza, Listed, Pairs
      <4> QED
        BY <4>1, <4>2 DEF Gathered, Sources
    <3>2. CASE q # r
      BY <2>3, <3>2 DEF TypeOK, Start, Goto, GatheredInv, Gathered
    <3> QED
      BY <3>1, <3>2
  <2>4. ASSUME NEW r \in Runs, Transfer(r) PROVE GatheredInv'
    <3> SUFFICES ASSUME NEW q \in Runs PROVE Gathered(q)'
      BY DEF GatheredInv
    <3>1. CASE q # r
      BY <2>4, <3>1 DEF TypeOK, Transfer, GatheredInv, Gathered
    <3>2. CASE q = r
      <4> DEFINE s == next[r]
                 m == Merged(list[r], s, catalog[s])
      <4>1. /\ s \in Sources /\ next'[r] = s + 1 /\ pc'[r] = "transfer" /\ pc[r] = "transfer"
            /\ catalog' = catalog /\ always'[r] = always[r] /\ ever'[r] = ever[r]
        BY <2>4 DEF TypeOK, Transfer
      <4>2. Gathered(r) /\ list[r] \in Stanzas
        BY DEF GatheredInv, TypeOK
      <4>3. CASE s \notin up
        <5>1. fail'[r] /\ list'[r] = list[r]
          BY <2>4, <4>3 DEF TypeOK, Transfer
        <5>2. ASSUME NEW z \in Zones PROVE list[r][z] < s + 1
          <6>1. list[r][z] \in 0..N /\ list[r][z] < s /\ s \in 1..N
            BY <4>1, <4>2 DEF Gathered, Stanzas, Sources
          <6> HIDE DEF s
          <6> QED
            BY <6>1
        <5> QED
          BY <3>2, <4>1, <4>2, <5>1, <5>2 DEF Gathered
      <4>4. CASE s \in up
        <5>1. list'[r] = m /\ fail'[r] = fail[r]
          BY <2>4, <4>4 DEF TypeOK, Transfer
        <5>2. ASSUME NEW z \in Zones
              PROVE  /\ m[z] < s + 1
                     /\ m[z] # 0 => <<m[z], z>> \in ever[r]
          <6>1. m[z] = list[r][z] \/ (m[z] = s /\ z \in catalog[s])
            BY DEF Merged
          <6>2. z \in catalog[s] => <<s, z>> \in Listed(catalog)
            BY <4>1 DEF Listed, Pairs
          <6> QED
            BY <4>1, <4>2, <6>1, <6>2 DEF Gathered, Stanzas, Sources
        <5>3. ASSUME ~fail[r], NEW p \in always[r], p[1] < s + 1
              PROVE  m[p[2]] \in 1..p[1]
          <6>1. p \in Listed(catalog)
            BY <4>1, <4>2 DEF Gathered
          <6>2. p[1] \in Sources /\ p[2] \in Zones /\ p[2] \in catalog[p[1]]
            BY <6>1 DEF Listed, Pairs
          <6>3. list[r][p[2]] \in 0..N /\ list[r][p[2]] < s
            BY <4>2, <6>2 DEF Gathered, Stanzas
          <6>4. CASE p[1] < s
            <7>1. list[r][p[2]] \in 1..p[1]
              BY <4>2, <5>3, <6>4 DEF Gathered
            <7> QED
              BY <6>2, <7>1 DEF Merged
          <6>5. CASE p[1] = s
            BY <4>1, <6>2, <6>3, <6>5 DEF Merged, Sources
          <6> QED
            BY <4>1, <5>3, <6>2, <6>4, <6>5 DEF Sources
        <5> QED
          BY <3>2, <4>1, <4>2, <5>1, <5>2, <5>3 DEF Gathered
      <4> QED
        BY <4>3, <4>4
    <3> QED
      BY <3>1, <3>2
  <2>5. ASSUME NEW r \in Runs,
               GivesUp(r) \/ NoChange(r) \/ Reload(r) \/ ReloadFails(r) \/ Killed(r)
        PROVE  GatheredInv'
    BY <2>5, GatheredAtExit DEF GivesUp, NoChange, Reload, ReloadFails, Killed
  <2>6. ASSUME NEW r \in Runs, Differs(r) \/ Copy(r) PROVE GatheredInv'
    BY <2>6 DEF TypeOK, Differs, Copy, Goto, GatheredInv, Gathered
  <2> QED
    BY <2>1, <2>2, <2>3, <2>4, <2>5, <2>6 DEF Next, Step
<1> QED
  BY <1>1, <1>2, TypeCorrect, PTL DEF Spec

(* The include file follows the catalogs: no zone listed throughout a run is
   dropped by it, and none appears that no source listed during it. *)
THEOREM FileFollowsCatalogs == Spec => FollowsCatalogs
<1> DEFINE A == \A r \in Runs : Copy(r) =>
                  /\ \A p \in always[r] : file'[p[2]] \in 1..p[1]
                  /\ \A z \in Zones : file'[z] # 0 => <<file'[z], z>> \in ever[r]
<1>1. TypeOK /\ GatheredInv /\ [Next]_vars => [A]_vars
  <2> SUFFICES ASSUME TypeOK, GatheredInv, NEW r \in Runs, Copy(r)
               PROVE  /\ \A p \in always[r] : file'[p[2]] \in 1..p[1]
                      /\ \A z \in Zones : file'[z] # 0 => <<file'[z], z>> \in ever[r]
    OBVIOUS
  <2>1. file' = list[r] /\ ~fail[r] /\ next[r] > N /\ Gathered(r)
    BY DEF TypeOK, Copy, GatheredInv, Gathered
  <2>2. \A p \in always[r] : p[1] \in 1..N /\ p[1] < next[r]
    BY <2>1, CatalogAssumption DEF TypeOK, Pairs, Sources
  <2> QED
    BY <2>1, <2>2 DEF Gathered
<1> QED
  BY <1>1, TypeCorrect, GatheredHolds, PTL DEF Spec, FollowsCatalogs

=============================================================================
