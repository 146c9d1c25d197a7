------------------------- MODULE Verification_proofs -------------------------
(***************************************************************************)
(* Proofs about Verification, for any number of zones and sessions.        *)
(***************************************************************************)
EXTENDS Verification, WellFoundedInduction, TLAPS

USE VerificationAssumption

LEMMA ClassifyType == \A d : Classify(d) \in Statuses
BY DEF Classify, Statuses

(* What Forget leaves of a session. *)
LEMMA ForgetType ==
  ASSUME TypeOK, NEW s \in Sessions, Forget(s)
  PROVE  /\ op' \in [Sessions -> {"none", "sweep", "all", "mine", "delete"}]
         /\ pc' \in [Sessions -> {"idle", "check", "select", "flush", "prune", "erase", "drop", "commit"}]
         /\ names' \in [Sessions -> SUBSET Zones] /\ todo' \in [Sessions -> SUBSET Zones]
         /\ result' \in [Sessions -> [Zones -> Statuses \cup {Untouched}]]
         /\ at' \in [Sessions -> 0..N]
         /\ work' \in [Sessions -> [Zones -> Statuses \cup {NoRow, Untouched}]]
         /\ pc'[s] = "idle" /\ todo'[s] = {}
         /\ \A q \in Sessions : q # s =>
              /\ pc'[q] = pc[q] /\ names'[q] = names[q] /\ todo'[q] = todo[q]
              /\ result'[q] = result[q] /\ at'[q] = at[q]
<1>1. Blank \in [Zones -> {Untouched}]
  BY DEF Blank
<1>2. /\ result' \in [Sessions -> [Zones -> Statuses \cup {Untouched}]]
      /\ work' \in [Sessions -> [Zones -> Statuses \cup {NoRow, Untouched}]]
  BY <1>1 DEF Forget, TypeOK
<1>3. at' \in [Sessions -> 0..N]
  BY DEF Forget, TypeOK
<1> QED
  BY <1>2, <1>3 DEF Forget, TypeOK, Goto

(* The part of TypeOK about one session. *)
SessionOK(s) ==
  /\ todo[s] \subseteq names[s]
  /\ pc[s] \in {"check", "select"} => todo[s] # {}
  /\ pc[s] = "check" => \A z \in names[s] \ todo[s] : result[s][z] # Untouched
  /\ pc[s] \in {"select", "flush"} => \A z \in todo[s] : result[s][z] # Untouched
  /\ pc[s] = "flush" => at[s] \in names[s] \ todo[s] /\ result[s][at[s]] # Untouched
  /\ pc[s] = "erase" => at[s] \in Zones

StoreOK ==
  /\ exists \subseteq Zones /\ world \in [Zones -> Delegations \cup {Nobody}]
  /\ row \in [Zones -> Statuses \cup {NoRow}]
  /\ faults \in Nat

LocalOK ==
  /\ op \in [Sessions -> {"none", "sweep", "all", "mine", "delete"}]
  /\ pc \in [Sessions -> {"idle", "check", "select", "flush", "prune", "erase", "drop", "commit"}]
  /\ names \in [Sessions -> SUBSET Zones] /\ todo \in [Sessions -> SUBSET Zones]
  /\ result \in [Sessions -> [Zones -> Statuses \cup {Untouched}]]
  /\ at \in [Sessions -> 0..N] /\ had \in [Sessions -> {"none", "row", "gone"}]
  /\ doomed \in [Sessions -> SUBSET Zones]
  /\ work \in [Sessions -> [Zones -> Statuses \cup {NoRow, Untouched}]]

LEMMA TypeParts == TypeOK <=> StoreOK /\ LocalOK /\ \A s \in Sessions : SessionOK(s)
BY DEF TypeOK, StoreOK, LocalOK, SessionOK

(* A step of one session. *)
LEMMA Frame ==
  ASSUME TypeOK, NEW s \in Sessions, StoreOK', LocalOK', SessionOK(s)',
         \A q \in Sessions : q # s =>
           /\ pc'[q] = pc[q] /\ names'[q] = names[q] /\ todo'[q] = todo[q]
           /\ result'[q] = result[q] /\ at'[q] = at[q]
  PROVE  TypeOK'
<1>1. ASSUME NEW q \in Sessions, q # s PROVE SessionOK(q)'
  BY <1>1, TypeParts DEF SessionOK
<1>2. \A q \in Sessions : SessionOK(q)'
  BY <1>1
<1> QED
  BY <1>2 DEF TypeOK, StoreOK, LocalOK, SessionOK

LEMMA StepType ==
  ASSUME TypeOK, NEW s \in Sessions, Start(s) \/ Step(s) \/ Abort(s)
  PROVE  TypeOK'
<1>0. StoreOK /\ LocalOK /\ SessionOK(s)
  BY TypeParts
<1>1. ASSUME NEW o \in {"sweep", "all", "mine", "delete"}, NEW zs \in SUBSET Zones,
             NEW l \in {"check", "prune", "drop"}, l = "check" => zs # {}, Begin(s, o, zs, l)
      PROVE  TypeOK'
  <2>1. StoreOK' /\ LocalOK'
    BY <1>0, <1>1 DEF Begin, worldVars, StoreOK, LocalOK, Goto
  <2>2. /\ pc'[s] = l /\ names'[s] = zs /\ todo'[s] = zs
        /\ \A q \in Sessions : q # s =>
             /\ pc'[q] = pc[q] /\ names'[q] = names[q] /\ todo'[q] = todo[q]
             /\ result'[q] = result[q] /\ at'[q] = at[q]
    BY <1>0, <1>1 DEF Begin, LocalOK, Goto
  <2>3. SessionOK(s)'
    BY <1>1, <2>2 DEF SessionOK
  <2> QED
    BY <2>1, <2>2, <2>3, Frame
<1>2. CASE Start(s)
  <2>0. exists \in SUBSET Zones
    BY <1>0 DEF StoreOK
  <2>1. CASE s = Timer /\ exists # {} /\ Begin(s, "sweep", exists, "check")
    BY <1>1, <2>0, <2>1
  <2>2. CASE Begin(s, "all", exists, IF exists = {} THEN "prune" ELSE "check")
    BY <1>1, <2>0, <2>2
  <2>3. ASSUME NEW zs \in (SUBSET exists) \ {{}}, Begin(s, "mine", zs, "check") PROVE TypeOK'
    BY <1>1, <2>0, <2>3
  <2>4. ASSUME NEW z \in exists, Begin(s, "delete", {z}, "drop") PROVE TypeOK'
    BY <1>1, <2>0, <2>4
  <2> QED
    BY <1>2, <2>1, <2>2, <2>3, <2>4 DEF Start
<1>3. CASE Check(s)
  <2>1. PICK z \in todo[s] :
          /\ result' = [result EXCEPT ![s][z] = Classify(world[z])]
          /\ IF todo[s] = {z}
             THEN todo' = [todo EXCEPT ![s] = names[s]] /\ pc' = [pc EXCEPT ![s] = "select"]
             ELSE todo' = [todo EXCEPT ![s] = @ \ {z}] /\ UNCHANGED pc
    BY <1>3 DEF Check, Goto
  <2>2. /\ pc[s] = "check"
        /\ UNCHANGED <<exists, world, row, op, names, at, had, doomed, work, faults>>
    BY <1>3 DEF Check, worldVars
  <2>3. result' \in [Sessions -> [Zones -> Statuses \cup {Untouched}]]
    BY <1>0, <2>1, ClassifyType DEF LocalOK
  <2>4. z \in Zones /\ z \in names[s]
    BY <1>0 DEF LocalOK, SessionOK
  <2>5. /\ \A y \in Zones : y # z => result'[s][y] = result[s][y]
        /\ result'[s][z] # Untouched
        /\ \A q \in Sessions : q # s => result'[q] = result[q]
    BY <1>0, <2>1, <2>4, ClassifyType DEF Statuses, LocalOK
  <2>6. CASE todo[s] = {z}
    <3>1. /\ todo' = [todo EXCEPT ![s] = names[s]] /\ pc' = [pc EXCEPT ![s] = "select"]
      BY <2>1, <2>6
    <3>2. StoreOK' /\ LocalOK'
      BY <1>0, <2>2, <2>3, <3>1 DEF StoreOK, LocalOK
    <3>3. /\ pc'[s] = "select" /\ todo'[s] = names[s]
          /\ \A q \in Sessions : q # s => pc'[q] = pc[q] /\ todo'[q] = todo[q]
      BY <1>0, <3>1 DEF LocalOK
    <3>4. SessionOK(s)'
      BY <1>0, <2>2, <2>4, <2>5, <2>6, <3>3 DEF SessionOK, LocalOK
    <3> QED
      BY <2>2, <2>5, <3>2, <3>3, <3>4, Frame
  <2>7. CASE todo[s] # {z}
    <3>1. todo' = [todo EXCEPT ![s] = @ \ {z}] /\ UNCHANGED pc
      BY <2>1, <2>7
    <3>2. StoreOK' /\ LocalOK'
      BY <1>0, <2>2, <2>3, <3>1 DEF StoreOK, LocalOK
    <3>3. /\ todo'[s] = todo[s] \ {z} /\ todo'[s] # {}
          /\ \A q \in Sessions : q # s => todo'[q] = todo[q]
      BY <1>0, <2>7, <3>1 DEF LocalOK
    <3>4. SessionOK(s)'
      BY <1>0, <2>2, <2>5, <3>1, <3>3 DEF SessionOK, LocalOK
    <3> QED
      BY <2>2, <2>5, <3>1, <3>2, <3>3, <3>4, Frame
  <2> QED
    BY <2>6, <2>7
<1>4. CASE Select(s)
  <2>1. PICK z \in todo[s] :
          /\ at' = [at EXCEPT ![s] = z] /\ had' = [had EXCEPT ![s] = Found(z)]
          /\ todo' = [todo EXCEPT ![s] = @ \ {z}]
    BY <1>4 DEF Select
  <2>2. /\ pc[s] = "select" /\ pc' = [pc EXCEPT ![s] = "flush"]
        /\ UNCHANGED <<exists, world, row, op, names, result, doomed, work, faults>>
    BY <1>4 DEF Select, Goto, worldVars
  <2>3. z \in names[s] /\ z \in 1..N /\ Found(z) \in {"none", "row"}
    BY <1>0 DEF LocalOK, SessionOK, Zones, Found
  <2>4. at' \in [Sessions -> 0..N]
    BY <1>0, <2>1, <2>3 DEF LocalOK
  <2>5. StoreOK' /\ LocalOK'
    BY <1>0, <2>1, <2>2, <2>3, <2>4 DEF StoreOK, LocalOK
  <2>6. /\ pc'[s] = "flush" /\ at'[s] = z /\ todo'[s] = todo[s] \ {z}
        /\ \A q \in Sessions : q # s => pc'[q] = pc[q] /\ at'[q] = at[q] /\ todo'[q] = todo[q]
    BY <1>0, <2>1, <2>2 DEF LocalOK
  <2>7. SessionOK(s)'
    BY <1>0, <2>2, <2>3, <2>6 DEF SessionOK
  <2> QED
    BY <2>2, <2>5, <2>6, <2>7, Frame
<1>5. CASE Flush(s)
  <2>1. /\ pc[s] = "flush" /\ Outcome(s) \in Statuses \cup {Untouched} /\ at[s] \in Zones
        /\ UNCHANGED <<exists, world, row, op, names, todo, doomed, faults>>
    BY <1>0, <1>5 DEF Flush, Outcome, worldVars, LocalOK, SessionOK
  <2>2. work' \in [Sessions -> [Zones -> Statuses \cup {NoRow, Untouched}]]
    BY <1>0, <1>5, <2>1 DEF Flush, LocalOK
  <2>3. /\ result' \in [Sessions -> [Zones -> Statuses \cup {Untouched}]]
        /\ \A z \in todo[s] : result'[s][z] = result[s][z]
        /\ \A q \in Sessions : q # s => result'[q] = result[q]
    BY <1>0, <1>5, <2>1 DEF Flush, LocalOK, SessionOK
  <2>4. /\ at' \in [Sessions -> 0..N] /\ had' \in [Sessions -> {"none", "row", "gone"}]
        /\ \A q \in Sessions : q # s => at'[q] = at[q]
    BY <1>0, <1>5 DEF Flush, LocalOK
  <2>5. /\ pc' = [pc EXCEPT ![s] = AfterFlush(s)]
        /\ AfterFlush(s) \in {"select", "prune", "commit"}
        /\ AfterFlush(s) = "select" => todo[s] # {}
    BY <1>5 DEF Flush, AfterFlush, Goto
  <2>6. pc'[s] = AfterFlush(s) /\ \A q \in Sessions : q # s => pc'[q] = pc[q]
    BY <1>0, <2>5 DEF LocalOK
  <2>7. StoreOK' /\ LocalOK'
    BY <1>0, <2>1, <2>2, <2>3, <2>4, <2>5 DEF StoreOK, LocalOK
  <2>8. SessionOK(s)'
    BY <1>0, <2>1, <2>3, <2>5, <2>6 DEF SessionOK
  <2> QED
    BY <2>1, <2>3, <2>4, <2>6, <2>7, <2>8, Frame
<1>6. CASE Prune(s)
  <2>1. /\ Surplus(s) \subseteq Zones /\ pc[s] = "prune"
        /\ UNCHANGED <<exists, world, row, op, names, todo, result, had, work, faults>>
        /\ doomed' = [doomed EXCEPT ![s] = Surplus(s)]
    BY <1>6 DEF Prune, Surplus, worldVars
  <2>2. CASE Surplus(s) = {}
    <3>1. pc' = [pc EXCEPT ![s] = "commit"] /\ UNCHANGED at
      BY <1>6, <2>2 DEF Prune, Goto
    <3>2. StoreOK' /\ LocalOK'
      BY <1>0, <2>1, <3>1 DEF StoreOK, LocalOK
    <3>3. pc'[s] = "commit" /\ \A q \in Sessions : q # s => pc'[q] = pc[q]
      BY <1>0, <3>1 DEF LocalOK
    <3>4. SessionOK(s)'
      BY <1>0, <2>1, <3>3 DEF SessionOK
    <3> QED
      BY <2>1, <3>1, <3>2, <3>3, <3>4, Frame
  <2>3. CASE Surplus(s) # {}
    <3>1. PICK z \in Surplus(s) : at' = [at EXCEPT ![s] = z]
      BY <1>6, <2>3 DEF Prune
    <3>2. pc' = [pc EXCEPT ![s] = "erase"] /\ z \in Zones /\ z \in 0..N
      BY <1>6, <2>1, <2>3 DEF Prune, Goto, Zones
    <3>3. StoreOK' /\ LocalOK'
      BY <1>0, <2>1, <3>1, <3>2 DEF StoreOK, LocalOK
    <3>4. /\ pc'[s] = "erase" /\ at'[s] = z
          /\ \A q \in Sessions : q # s => pc'[q] = pc[q] /\ at'[q] = at[q]
      BY <1>0, <3>1, <3>2 DEF LocalOK
    <3>5. SessionOK(s)'
      BY <1>0, <2>1, <3>2, <3>4 DEF SessionOK
    <3> QED
      BY <2>1, <3>3, <3>4, <3>5, Frame
  <2> QED
    BY <2>2, <2>3
<1>7. CASE Erase(s)
  <2>1. /\ pc[s] = "erase" /\ at[s] \in Zones
        /\ UNCHANGED <<exists, world, row, op, names, todo, result, had, faults>>
        /\ doomed' = [doomed EXCEPT ![s] = @ \ {at[s]}]
    BY <1>0, <1>7 DEF Erase, worldVars, SessionOK
  <2>2. work' \in [Sessions -> [Zones -> Statuses \cup {NoRow, Untouched}]]
    BY <1>0, <1>7, <2>1 DEF Erase, LocalOK
  <2>3. PICK z \in Zones \cup {0}, l \in {"commit", "erase"} :
          at' = [at EXCEPT ![s] = z] /\ pc' = [pc EXCEPT ![s] = l] /\ (l = "erase" => z \in Zones)
    <3>1. CASE doomed[s] \ {at[s]} = {}
      BY <1>7, <3>1 DEF Erase, Goto
    <3>2. CASE doomed[s] \ {at[s]} # {}
      <4>1. PICK z \in doomed[s] \ {at[s]} : at' = [at EXCEPT ![s] = z]
        BY <1>7, <3>2 DEF Erase
      <4>2. pc' = [pc EXCEPT ![s] = "erase"] /\ z \in Zones
        BY <1>0, <1>7, <2>1, <3>2 DEF Erase, LocalOK
      <4> QED
        BY <4>1, <4>2
    <3> QED
      BY <3>1, <3>2
  <2>4. z \in 0..N
    BY DEF Zones
  <2>5. StoreOK' /\ LocalOK'
    BY <1>0, <2>1, <2>2, <2>3, <2>4 DEF StoreOK, LocalOK
  <2>6. /\ pc'[s] = l /\ at'[s] = z
        /\ \A q \in Sessions : q # s => pc'[q] = pc[q] /\ at'[q] = at[q]
    BY <1>0, <2>3 DEF LocalOK
  <2>7. SessionOK(s)'
    BY <1>0, <2>1, <2>3, <2>6 DEF SessionOK
  <2> QED
    BY <2>1, <2>5, <2>6, <2>7, Frame
<1>8. CASE Drop(s)
  <2>1. /\ pc[s] = "drop" /\ pc' = [pc EXCEPT ![s] = "prune"]
        /\ exists' \subseteq exists
        /\ UNCHANGED <<row, op, names, todo, result, at, had, doomed, work, faults>>
        /\ world' = [z \in Zones |-> IF z \in names[s] THEN Nobody ELSE world[z]]
    BY <1>8 DEF Drop, Goto
  <2>2. StoreOK' /\ LocalOK'
    BY <1>0, <2>1 DEF StoreOK, LocalOK
  <2>3. pc'[s] = "prune" /\ \A q \in Sessions : q # s => pc'[q] = pc[q]
    BY <1>0, <2>1 DEF LocalOK
  <2>4. SessionOK(s)'
    BY <1>0, <2>1, <2>3 DEF SessionOK
  <2> QED
    BY <2>1, <2>2, <2>3, <2>4, Frame
<1>9. ASSUME Forget(s), StoreOK',
             had' \in [Sessions -> {"none", "row", "gone"}], doomed' \in [Sessions -> SUBSET Zones]
      PROVE  TypeOK'
  <2>1. LocalOK'
    BY <1>9, ForgetType DEF LocalOK
  <2>2. SessionOK(s)'
    BY <1>9, ForgetType DEF SessionOK
  <2> QED
    BY <1>9, <2>1, <2>2, ForgetType, Frame
<1>10. CASE Commit(s)
  <2>1. row' \in [Zones -> Statuses \cup {NoRow}]
    BY <1>0, <1>10 DEF Commit, Held, StoreOK, LocalOK
  <2>2. had' \in [Sessions -> {"none", "row", "gone"}]
    BY <1>0, <1>10 DEF Commit, LocalOK
  <2>3. doomed' \in [Sessions -> SUBSET Zones]
    BY <1>0, <1>10 DEF Commit, LocalOK
  <2>4. Forget(s) /\ UNCHANGED <<exists, world, faults>>
    BY <1>10 DEF Commit, worldVars
  <2>5. StoreOK'
    BY <1>0, <2>1, <2>4 DEF StoreOK
  <2> QED
    BY <1>9, <2>2, <2>3, <2>4, <2>5
<1>11. CASE Rollback(s) /\ faults' \in Nat
  <2>1. /\ had' \in [Sessions -> {"none", "row", "gone"}] /\ doomed' \in [Sessions -> SUBSET Zones]
    BY <1>0, <1>11 DEF Rollback, LocalOK
  <2>2. Forget(s) /\ StoreOK'
    BY <1>0, <1>11 DEF Rollback, worldVars, StoreOK
  <2> QED
    BY <1>9, <2>1, <2>2
<1>12. Refused(s) \/ Deadlock(s) \/ Abort(s) => Rollback(s) /\ faults' \in Nat
  BY <1>0 DEF Refused, Deadlock, Abort, StoreOK
<1> QED
  BY <1>2, <1>3, <1>4, <1>5, <1>6, <1>7, <1>8, <1>10, <1>11, <1>12 DEF Step

(* Types hold. *)
THEOREM TypeCorrect == Spec => []TypeOK
<1>1. Init => TypeOK
  BY DEF Init, TypeOK, Blank, Sessions
<1>2. TypeOK /\ [Next]_vars => TypeOK'
  <2> SUFFICES ASSUME TypeOK, [Next]_vars PROVE TypeOK'
    OBVIOUS
  <2>1. CASE Create \/ Redelegate
    BY <2>1 DEF Create, Redelegate, TypeOK
  <2>2. CASE UNCHANGED vars
    BY <2>2 DEF TypeOK, vars, worldVars
  <2> QED
    BY <2>1, <2>2, StepType DEF Next
<1> QED
  BY <1>1, <1>2, PTL DEF Spec

-----------------------------------------------------------------------------
(* A session that keeps to the order of the listing waits only for zones that
   come after all those it holds; a deletion holds nothing while it waits. *)
OrderOK(s) ==
  /\ pc[s] \in {"idle", "check", "drop"} => Held(s) = {}
  /\ pc[s] \in {"check", "select", "flush"} => op[s] \in {"sweep", "all", "mine"}
  /\ pc[s] \in {"prune", "erase"} => op[s] \in {"all", "delete"}
  /\ pc[s] = "drop" => op[s] = "delete"
  /\ pc[s] \in {"drop", "prune", "erase"} /\ op[s] # "all" =>
       Held(s) = {} /\ \E z \in Zones : names[s] = {z}
  /\ pc[s] = "erase" /\ op[s] # "all" => doomed[s] \subseteq names[s] /\ at[s] \in names[s]
  /\ pc[s] \in {"select", "flush"} /\ op[s] # "mine" =>
       \A z \in Held(s), y \in todo[s] : z < y
  /\ pc[s] = "flush" /\ op[s] # "mine" =>
       (\A z \in Held(s) : z < at[s]) /\ (\A y \in todo[s] : at[s] < y)

OrderInv == \A s \in Sessions : OrderOK(s)

LEMMA OrderFrame ==
  ASSUME OrderInv, NEW s \in Sessions, OrderOK(s)',
         \A q \in Sessions : q # s =>
           /\ pc'[q] = pc[q] /\ op'[q] = op[q] /\ names'[q] = names[q] /\ todo'[q] = todo[q]
           /\ at'[q] = at[q] /\ work'[q] = work[q] /\ doomed'[q] \subseteq doomed[q]
  PROVE  OrderInv'
<1>1. ASSUME NEW q \in Sessions, q # s PROVE OrderOK(q)'
  <2>1. Held(q)' = Held(q)
    BY <1>1 DEF Held
  <2> QED
    BY <1>1, <2>1 DEF OrderInv, OrderOK
<1> QED
  BY <1>1 DEF OrderInv

LEMMA StepOrder ==
  ASSUME TypeOK, OrderInv, NEW s \in Sessions, Start(s) \/ Step(s) \/ Abort(s)
  PROVE  OrderInv'
<1>0. LocalOK /\ StoreOK /\ SessionOK(s) /\ OrderOK(s)
  BY TypeParts DEF OrderInv
<1>1. ASSUME NEW o \in {"sweep", "all", "mine", "delete"}, NEW zs \in SUBSET Zones,
             NEW l \in {"check", "prune", "drop"}, Begin(s, o, zs, l),
             l = "check" => o # "delete", l = "prune" => o = "all",
             o = "delete" => \E z \in Zones : zs = {z},
             l = "drop" => o = "delete"
      PROVE  OrderInv'
  <2>1. /\ pc[s] = "idle" /\ pc'[s] = l /\ op'[s] = o /\ names'[s] = zs
        /\ UNCHANGED <<at, work, doomed>>
        /\ \A q \in Sessions : q # s =>
             /\ pc'[q] = pc[q] /\ op'[q] = op[q] /\ names'[q] = names[q] /\ todo'[q] = todo[q]
    BY <1>0, <1>1 DEF Begin, LocalOK, Goto
  <2>2. Held(s)' = {}
    BY <1>0, <2>1 DEF OrderOK, Held
  <2>3. OrderOK(s)'
    BY <1>1, <2>1, <2>2 DEF OrderOK
  <2> QED
    BY <2>1, <2>3, OrderFrame
<1>2. CASE Start(s)
  <2>0. exists \in SUBSET Zones
    BY <1>0 DEF StoreOK
  <2>1. CASE s = Timer /\ exists # {} /\ Begin(s, "sweep", exists, "check")
    BY <1>1, <2>0, <2>1
  <2>2. CASE Begin(s, "all", exists, IF exists = {} THEN "prune" ELSE "check")
    BY <1>1, <2>0, <2>2
  <2>3. ASSUME NEW zs \in (SUBSET exists) \ {{}}, Begin(s, "mine", zs, "check") PROVE OrderInv'
    BY <1>1, <2>0, <2>3
  <2>4. ASSUME NEW z \in exists, Begin(s, "delete", {z}, "drop") PROVE OrderInv'
    BY <1>1, <2>0, <2>4
  <2> QED
    BY <1>2, <2>1, <2>2, <2>3, <2>4 DEF Start
<1>3. CASE Check(s)
  <2>1. /\ pc[s] = "check" /\ pc'[s] \in {"check", "select"}
        /\ UNCHANGED <<op, names, at, doomed, work>>
        /\ \A q \in Sessions : q # s => pc'[q] = pc[q] /\ todo'[q] = todo[q]
    BY <1>0, <1>3 DEF Check, LocalOK, Goto
  <2>2. Held(s)' = {}
    BY <1>0, <2>1 DEF OrderOK, Held
  <2>3. OrderOK(s)'
    BY <1>0, <2>1, <2>2 DEF OrderOK
  <2> QED
    BY <2>1, <2>3, OrderFrame
<1>4. CASE Select(s)
  <2>1. PICK z \in todo[s] :
          /\ IsNext(s, z)
          /\ at' = [at EXCEPT ![s] = z] /\ todo' = [todo EXCEPT ![s] = @ \ {z}]
    BY <1>4 DEF Select
  <2>2. /\ pc[s] = "select" /\ pc' = [pc EXCEPT ![s] = "flush"]
        /\ UNCHANGED <<op, names, doomed, work>>
    BY <1>4 DEF Select, Goto
  <2>3. /\ pc'[s] = "flush" /\ at'[s] = z /\ todo'[s] = todo[s] \ {z}
        /\ \A q \in Sessions : q # s => pc'[q] = pc[q] /\ at'[q] = at[q] /\ todo'[q] = todo[q]
    BY <1>0, <2>1, <2>2 DEF LocalOK
  <2>4. Held(s)' = Held(s)
    BY <2>2 DEF Held
  <2>5. todo[s] \subseteq 1..N
    BY <1>0 DEF LocalOK, Zones
  <2>6. op[s] # "mine" => \A y \in todo[s] \ {z} : z < y
    BY <2>1, <2>5 DEF IsNext
  <2>7. OrderOK(s)'
    BY <1>0, <2>2, <2>3, <2>4, <2>6 DEF OrderOK
  <2> QED
    BY <2>2, <2>3, <2>7, OrderFrame
<1>5. CASE Flush(s)
  <2>1. /\ pc[s] = "flush" /\ UNCHANGED <<op, names, todo, doomed>>
        /\ pc' = [pc EXCEPT ![s] = AfterFlush(s)]
        /\ work' = [work EXCEPT ![s][at[s]] = Outcome(s)]
        /\ at' = [at EXCEPT ![s] = 0]
    BY <1>5 DEF Flush, Goto
  <2>2. /\ pc'[s] = AfterFlush(s)
        /\ \A q \in Sessions : q # s => pc'[q] = pc[q] /\ at'[q] = at[q] /\ work'[q] = work[q]
    BY <1>0, <2>1 DEF LocalOK
  <2>3. AfterFlush(s) \in {"select", "commit"} \/ (AfterFlush(s) = "prune" /\ op[s] = "all")
    BY DEF AfterFlush
  <2>4. Held(s)' \subseteq Held(s) \cup {at[s]}
    BY <1>0, <2>1 DEF Held, LocalOK
  <2>5. OrderOK(s)'
    BY <1>0, <2>1, <2>2, <2>3, <2>4 DEF OrderOK
  <2> QED
    BY <2>1, <2>2, <2>5, OrderFrame
<1>6. CASE Prune(s)
  <2>1. /\ pc[s] = "prune" /\ UNCHANGED <<op, names, todo, work>>
        /\ doomed' = [doomed EXCEPT ![s] = Surplus(s)]
    BY <1>6 DEF Prune
  <2>2. /\ doomed'[s] = Surplus(s)
        /\ \A q \in Sessions : q # s => doomed'[q] = doomed[q]
    BY <1>0, <2>1 DEF LocalOK
  <2>3. op[s] # "all" => Surplus(s) \subseteq names[s]
    BY <1>0, <2>1 DEF Surplus, OrderOK
  <2>4. Held(s)' = Held(s)
    BY <2>1 DEF Held
  <2>5. CASE Surplus(s) = {}
    <3>1. /\ pc'[s] = "commit" /\ UNCHANGED at
          /\ \A q \in Sessions : q # s => pc'[q] = pc[q]
      BY <1>0, <1>6, <2>5 DEF Prune, Goto, LocalOK
    <3>2. OrderOK(s)'
      BY <3>1 DEF OrderOK
    <3> QED
      BY <2>1, <2>2, <3>1, <3>2, OrderFrame
  <2>6. CASE Surplus(s) # {}
    <3>1. PICK z \in Surplus(s) : at' = [at EXCEPT ![s] = z]
      BY <1>6, <2>6 DEF Prune
    <3>2. pc' = [pc EXCEPT ![s] = "erase"]
      BY <1>6, <2>6 DEF Prune, Goto
    <3>3. /\ pc'[s] = "erase" /\ at'[s] = z
          /\ \A q \in Sessions : q # s => pc'[q] = pc[q] /\ at'[q] = at[q]
      BY <1>0, <3>1, <3>2 DEF LocalOK
    <3>4. OrderOK(s)'
      BY <1>0, <2>1, <2>2, <2>3, <2>4, <3>3 DEF OrderOK
    <3> QED
      BY <2>1, <2>2, <3>3, <3>4, OrderFrame
  <2> QED
    BY <2>5, <2>6
<1>7. CASE Erase(s)
  <2>1. /\ pc[s] = "erase" /\ UNCHANGED <<op, names, todo>>
        /\ doomed'[s] \subseteq doomed[s]
        /\ \A q \in Sessions : q # s =>
             /\ pc'[q] = pc[q] /\ at'[q] = at[q] /\ work'[q] = work[q] /\ doomed'[q] = doomed[q]
        /\ pc'[s] \in {"commit", "erase"}
        /\ doomed[s] \ {at[s]} = {} => pc'[s] = "commit"
    BY <1>0, <1>7 DEF Erase, Goto, LocalOK
  <2>2. op[s] # "all" => pc'[s] = "commit"
    <3> SUFFICES ASSUME op[s] # "all" PROVE pc'[s] = "commit"
      OBVIOUS
    <3>1. PICK z \in Zones : names[s] = {z}
      BY <1>0, <2>1 DEF OrderOK
    <3>2. doomed[s] \subseteq {z} /\ at[s] = z
      BY <1>0, <2>1, <3>1 DEF OrderOK
    <3>3. doomed[s] \ {at[s]} = {}
      BY <3>2
    <3> QED
      BY <2>1, <3>3
  <2>3. OrderOK(s)'
    BY <1>0, <2>1, <2>2 DEF OrderOK
  <2> QED
    BY <2>1, <2>3, OrderFrame
<1>8. CASE Drop(s)
  <2>1. /\ pc[s] = "drop" /\ pc'[s] = "prune"
        /\ UNCHANGED <<op, names, todo, at, doomed, work>>
        /\ \A q \in Sessions : q # s => pc'[q] = pc[q]
    BY <1>0, <1>8 DEF Drop, Goto, LocalOK
  <2>2. Held(s)' = Held(s)
    BY <2>1 DEF Held
  <2>3. op[s] = "delete"
    BY <1>0, <2>1 DEF OrderOK
  <2>4. OrderOK(s)'
    BY <1>0, <2>1, <2>2, <2>3 DEF OrderOK
  <2> QED
    BY <2>1, <2>4, OrderFrame
<1>9. CASE Commit(s) \/ Rollback(s)
  <2>1. /\ Forget(s)
        /\ \A q \in Sessions : q # s => doomed'[q] \subseteq doomed[q]
    <3>1. CASE Commit(s)
      <4>1. Forget(s)
        BY <3>1 DEF Commit
      <4>2. PICK gone : doomed' = [q \in Sessions |-> IF q = s THEN {} ELSE doomed[q] \ gone]
        BY <3>1 DEF Commit
      <4>3. \A q \in Sessions : q # s => doomed'[q] = doomed[q] \ gone
        BY <4>2
      <4> QED
        BY <4>1, <4>3
    <3>2. CASE Rollback(s)
      <4>1. doomed' = [doomed EXCEPT ![s] = {}] /\ Forget(s)
        BY <3>2 DEF Rollback
      <4>2. \A q \in Sessions : q # s => doomed'[q] = doomed[q]
        BY <1>0, <4>1 DEF LocalOK
      <4> QED
        BY <4>1, <4>2
    <3> QED
      BY <1>9, <3>1, <3>2
  <2>2. /\ pc'[s] = "idle" /\ op'[s] = "none" /\ work'[s] = Blank
        /\ \A q \in Sessions : q # s =>
             /\ pc'[q] = pc[q] /\ op'[q] = op[q] /\ names'[q] = names[q] /\ todo'[q] = todo[q]
             /\ at'[q] = at[q] /\ work'[q] = work[q]
    BY <1>0, <2>1 DEF Forget, Goto, LocalOK
  <2>3. Held(s)' = {}
    BY <2>2 DEF Held, Blank
  <2>4. OrderOK(s)'
    BY <2>2, <2>3 DEF OrderOK
  <2> QED
    BY <2>1, <2>2, <2>4, OrderFrame
<1> QED
  BY <1>2, <1>3, <1>4, <1>5, <1>6, <1>7, <1>8, <1>9
  DEF Step, Refused, Deadlock, Abort

LEMMA OrderIsKept == Spec => []OrderInv
<1>1. Init => OrderInv
  BY DEF Init, OrderInv, OrderOK, Held, Blank
<1>2. TypeOK /\ OrderInv /\ [Next]_vars => OrderInv'
  <2> SUFFICES ASSUME TypeOK, OrderInv, [Next]_vars PROVE OrderInv'
    OBVIOUS
  <2>1. CASE Create \/ Redelegate
    BY <2>1 DEF Create, Redelegate, OrderInv, OrderOK, Held
  <2>2. CASE UNCHANGED vars
    BY <2>2 DEF OrderInv, OrderOK, Held, vars
  <2> QED
    BY <2>1, <2>2, StepOrder DEF Next
<1> QED
  BY <1>1, <1>2, TypeCorrect, PTL DEF Spec

(* Of some numbers up to N, one is the largest. *)
LEMMA Largest ==
  ASSUME NEW T, T \subseteq 0..N, T # {}
  PROVE  \E m \in T : \A k \in T : k <= m
<1> DEFINE U == {N - k : k \in T}
<1>0. N \in Nat /\ \A k \in T : k \in 0..N
  BY VerificationAssumption
<1>1. U \subseteq Nat /\ U # {}
  <2>1. \A k \in T : N - k \in Nat
    BY <1>0
  <2>2. PICK k \in T : TRUE
    OBVIOUS
  <2>3. N - k \in U
    OBVIOUS
  <2> QED
    BY <2>1, <2>3
<1>2. PICK u \in U : \A v \in U : ~(<<v, u>> \in OpToRel(<, Nat))
  <2> HIDE DEF U
  <2> QED
    BY <1>1, WFMin, NatLessThanWellFounded
<1>3. \A v \in U : u <= v
  <2> SUFFICES ASSUME NEW v \in U PROVE u <= v
    OBVIOUS
  <2>1. u \in Nat /\ v \in Nat
    BY <1>1
  <2>2. ~(v < u)
    BY <1>2, <2>1 DEF OpToRel
  <2> QED
    BY <2>1, <2>2
<1>4. PICK m \in T : u = N - m
  OBVIOUS
<1>5. \A k \in T : k <= m
  <2> SUFFICES ASSUME NEW k \in T PROVE k <= m
    OBVIOUS
  <2>1. N - k \in U
    OBVIOUS
  <2>2. N - m <= N - k
    BY <1>3, <1>4, <2>1
  <2>3. N \in Nat /\ k \in 0..N /\ m \in 0..N
    BY <1>0
  <2> HIDE DEF U
  <2> QED
    BY <2>2, <2>3
<1> QED
  BY <1>5

(* Verifications in the order of the listing, and deletions, never wait for
   each other in a circle, however many of them there are. *)
THEOREM OrderPreventsCircles == Spec => []CirclesNeedDisorder
<1>1. TypeOK /\ OrderInv => CirclesNeedDisorder
  <2> SUFFICES ASSUME TypeOK, OrderInv, NEW S \in SUBSET Sessions, S # {}, Circle(S),
                      \A s \in S : ~Disorderly(s)
               PROVE  FALSE
    BY DEF CirclesNeedDisorder
  <2>1. \A s \in S : /\ pc[s] \in {"flush", "erase"} /\ Held(s) # {}
                     /\ OrderOK(s) /\ at[s] \in 0..N
    BY DEF Circle, WaitsFor, OrderInv, TypeOK
  <2>2. \A s \in S : pc[s] = "flush" /\ op[s] # "mine"
    BY <2>1 DEF OrderOK, Disorderly
  <2>3. \A s \in S : \E q \in S : at[s] < at[q]
    <3> SUFFICES ASSUME NEW s \in S PROVE \E q \in S : at[s] < at[q]
      OBVIOUS
    <3>1. PICK q \in S : WaitsFor(s, q)
      BY DEF Circle
    <3>2. at[s] \in Held(q)
      BY <3>1 DEF WaitsFor
    <3>3. at[s] < at[q]
      BY <2>1, <2>2, <3>2 DEF OrderOK
    <3> QED
      BY <3>3
  <2> DEFINE T == {at[s] : s \in S}
  <2>4. T \subseteq 0..N /\ T # {}
    BY <2>1
  <2>5. PICK m \in T : \A k \in T : k <= m
    <3> HIDE DEF T
    <3> QED
      BY <2>4, Largest
  <2>6. PICK s \in S : m = at[s]
    OBVIOUS
  <2>7. PICK q \in S : at[s] < at[q]
    BY <2>3
  <2>8. at[q] <= at[s]
    BY <2>5, <2>6
  <2> QED
    BY <2>1, <2>7, <2>8
<1> QED
  BY <1>1, TypeCorrect, OrderIsKept, PTL

=============================================================================
