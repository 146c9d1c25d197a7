---------------------------- MODULE Resign_proofs ----------------------------
(***************************************************************************)
(* Proofs about Resign: whatever others change meanwhile and whatever      *)
(* fails, a sweep bumps quiet zones only; as long as nothing fails it      *)
(* never rewrites more zones than its cap; and signatures stay fresh.      *)
(***************************************************************************)
EXTENDS Resign, FiniteSetTheorems, TLAPS

LEMMA InitType == Init => TypeOK
BY DEF Init, TypeOK

(* The next due time is a time, and not before the quiet period is over. *)
LEMMA NextDueLater ==
  ASSUME TypeOK, NEW z \in Zones
  PROVE  NextDue(z) \in Nat /\ NextDue(z) >= now + Quiet
BY ResignAssumption DEF TypeOK, NextDue

LEMMA TypeStep == TypeOK /\ [Next]_vars => TypeOK'
<1> SUFFICES ASSUME TypeOK, [Next]_vars PROVE TypeOK'
  OBVIOUS
<1> USE DEF TypeOK, vars, session, moves, pdnsVars, counts
<1>1. ASSUME NEW z \in Zones, Edit(z) \/ Enable(z) \/ Disable(z)
      PROVE  TypeOK'
  BY <1>1 DEF Edit, Enable, Disable, Move, Setback
<1>2. CASE Wake
  BY <1>2 DEF Wake
<1>3. CASE List
  BY <1>3 DEF List
<1>4. ASSUME NEW z \in Zones, SetTimer(z)
      PROVE  TypeOK'
  <2>1. listed[z] \in Nat /\ NextDue(z) \in Nat
    BY <1>4, NextDueLater DEF SetTimer
  <2> QED
    BY <1>4, <2>1 DEF SetTimer, Row
<1>5. ASSUME NEW z \in Zones, Wait(z) \/ Capped(z) \/ StartBump(z)
      PROVE  TypeOK'
  BY <1>5 DEF Wait, Capped, StartBump
<1>6. CASE Rewrite
  BY <1>6 DEF Rewrite, Move
<1>7. CASE Notify
  BY <1>7 DEF Notify
<1>8. CASE ReadBack
  <2>1. target \in Zones /\ serial[target] \in Nat /\ NextDue(target) \in Nat
    BY <1>8, NextDueLater DEF ReadBack
  <2> QED
    BY <1>8, <2>1 DEF ReadBack, Row, SerialRead
<1>9. CASE Commit
  BY <1>9 DEF Commit, Close, Kept
<1>10. CASE BumpFails \/ BumpGone
  BY <1>10 DEF BumpFails, BumpGone, Fail, Setback
<1>11. CASE Abandon
  BY <1>11 DEF Abandon, Close, Fail, Setback
<1>12. CASE Oversleep
  BY <1>12 DEF Oversleep, Fail, Setback
<1>13. CASE UNCHANGED vars
  BY <1>13
<1> QED
  BY <1>1, <1>2, <1>3, <1>4, <1>5, <1>6, <1>7, <1>8, <1>9, <1>10, <1>11, <1>12, <1>13
     DEF Next, Others, Sweep

(* Type correctness. *)
THEOREM TypeCorrect == Spec => []TypeOK
BY InitType, TypeStep, PTL DEF Spec

-----------------------------------------------------------------------------
LEMMA InitQuiet == Init => QuietInv
BY InitType DEF Init, QuietInv, NotDueEarly, AsListed, BumpsOnlyQuiet

(* When the serial of a zone moves, no row knows it. *)
LEMMA MoveQuiet ==
  ASSUME QuietInv, TypeOK', NEW z \in Zones, Move(z), UNCHANGED <<now, row, session>>,
         pc' = "bump" => pc = "bump"
  PROVE  QuietInv'
<1> USE DEF QuietInv, TypeOK, session
<1>1. \A y \in Zones : changed'[y] <= now'
  BY DEF Move
<1>2. ASSUME NEW y \in Zones, NEW r \in Row \cup {NoRow}, NotDueEarly(r, y)
      PROVE  NotDueEarly(r, y)'
  BY <1>2 DEF Move, NotDueEarly, Row
<1>3. \A y \in DOMAIN listed : AsListed(y)'
  BY DEF Move, AsListed
<1>4. BumpsOnlyQuiet'
  BY DEF BumpsOnlyQuiet
<1> QED
  BY <1>1, <1>2, <1>3, <1>4

LEMMA QuietStep == QuietInv /\ [Next]_vars => QuietInv'
<1> SUFFICES ASSUME QuietInv, [Next]_vars PROVE QuietInv'
  OBVIOUS
<1>t. TypeOK'
  BY TypeStep DEF QuietInv
<1> USE <1>t DEF vars, session, moves, pdnsVars, counts
<1>1. ASSUME NEW z \in Zones, Edit(z) \/ Enable(z)
      PROVE  QuietInv'
  BY <1>1, MoveQuiet DEF Edit, Enable
<1>2. ASSUME NEW z \in Zones, Disable(z)
      PROVE  QuietInv'
  BY <1>2 DEF Disable, QuietInv, NotDueEarly, AsListed, BumpsOnlyQuiet
<1>3. CASE Wake \/ Oversleep
  BY <1>3 DEF Wake, Oversleep, QuietInv, TypeOK, NotDueEarly, AsListed, BumpsOnlyQuiet
<1>4. CASE List
  BY <1>4, ResignAssumption DEF List, QuietInv, TypeOK, NotDueEarly, AsListed, BumpsOnlyQuiet
<1>5. ASSUME NEW z \in Zones, SetTimer(z)
      PROVE  QuietInv'
  <2>1. /\ listed[z] \in Nat /\ listed[z] <= serial[z]
        /\ NextDue(z) \in Nat /\ NextDue(z) >= now + Quiet
        /\ changed[z] <= now
    BY <1>5, NextDueLater DEF SetTimer, QuietInv, TypeOK, AsListed
  <2>2. NotDueEarly([last |-> listed[z], due |-> NextDue(z)], z)
    BY <2>1, ResignAssumption DEF NotDueEarly, QuietInv, TypeOK
  <2>3. \A y \in Zones : NotDueEarly(work[y], y)'
    <3>1. work' = [work EXCEPT ![z] = [last |-> listed[z], due |-> NextDue(z)]]
          /\ serial' = serial /\ changed' = changed
      BY <1>5 DEF SetTimer
    <3>2. \A y \in Zones : NotDueEarly(work'[y], y)
      BY <2>2, <3>1 DEF QuietInv, TypeOK
    <3> QED
      BY <3>1, <3>2 DEF NotDueEarly
  <2>4. \A y \in DOMAIN listed : AsListed(y)'
    BY <1>5 DEF SetTimer, QuietInv, TypeOK, AsListed
  <2>5. \A y \in Zones : changed'[y] <= now' /\ NotDueEarly(row[y], y)'
    BY <1>5 DEF SetTimer, QuietInv, NotDueEarly
  <2>6. BumpsOnlyQuiet' /\ listed' = listed /\ target' \notin todo'
    BY <1>5 DEF SetTimer, BumpsOnlyQuiet, QuietInv
  <2> QED
    BY <2>3, <2>4, <2>5, <2>6 DEF QuietInv
<1>6. ASSUME NEW z \in Zones, Wait(z) \/ Capped(z)
      PROVE  QuietInv'
  BY <1>6 DEF Wait, Capped, QuietInv, TypeOK, NotDueEarly, AsListed, BumpsOnlyQuiet
<1>7. ASSUME NEW z \in Zones, StartBump(z)
      PROVE  QuietInv'
  <2>1. z \in DOMAIN listed /\ work[z] \in Row /\ work[z] # NoRow
        /\ work[z].last = listed[z] /\ now >= work[z].due
    BY <1>7 DEF StartBump, Verdict, Classify, QuietInv, TypeOK
  <2>2. work[z].due >= before[z] + Quiet
    BY <1>7, <2>1 DEF StartBump, QuietInv, AsListed
  <2>3. BumpsOnlyQuiet'
    BY <1>7, <2>1, <2>2, ResignAssumption DEF StartBump, BumpsOnlyQuiet, Row, QuietInv, TypeOK
  <2> QED
    BY <1>7, <2>3 DEF StartBump, QuietInv, TypeOK, NotDueEarly, AsListed
<1>8. CASE Rewrite
  <2>1. target \in Zones
    BY <1>8 DEF Rewrite, QuietInv, TypeOK
  <2>2. \A y \in Zones, r \in Row \cup {NoRow} : NotDueEarly(r, y) => NotDueEarly(r, y)'
    BY <1>8, <2>1 DEF Rewrite, Move, QuietInv, TypeOK, NotDueEarly, Row
  <2>3. \A y \in Zones : /\ changed'[y] <= now'
                         /\ NotDueEarly(row[y], y)' /\ NotDueEarly(work[y], y)'
    BY <1>8, <2>1, <2>2 DEF Rewrite, Move, QuietInv, TypeOK
  <2>4. \A y \in DOMAIN listed : AsListed(y)'
    BY <1>8, <2>1 DEF Rewrite, Move, QuietInv, TypeOK, AsListed
  <2>5. BumpsOnlyQuiet' /\ listed' = listed /\ target' \notin todo'
    BY <1>8 DEF Rewrite, BumpsOnlyQuiet, QuietInv
  <2> QED
    BY <2>3, <2>4, <2>5 DEF QuietInv
<1>9. CASE Notify \/ BumpFails \/ BumpGone
  <2>1. /\ UNCHANGED <<now, row, listed, work, todo, before, serial, changed>>
        /\ pc' # "bump" /\ target' \notin todo'
    BY <1>9, ResignAssumption DEF Notify, BumpFails, BumpGone, QuietInv, TypeOK
  <2> QED
    BY <2>1 DEF QuietInv, NotDueEarly, AsListed, BumpsOnlyQuiet
<1>10. CASE ReadBack
  <2> DEFINE z == target
  <2>1. /\ z \in Zones /\ serial[z] \in Nat
        /\ NextDue(z) \in Nat /\ NextDue(z) >= now + Quiet
        /\ changed[z] <= now
    BY <1>10, NextDueLater DEF ReadBack, QuietInv, TypeOK
  <2>2. NotDueEarly([last |-> SerialRead(z), due |-> NextDue(z)], z)
    BY <2>1, ResignAssumption DEF NotDueEarly, SerialRead, QuietInv, TypeOK
  <2>3. \A y \in Zones : NotDueEarly(work[y], y)'
    BY <1>10, <2>1, <2>2 DEF ReadBack, QuietInv, TypeOK, NotDueEarly
  <2>4. \A y \in DOMAIN listed : AsListed(y)'
    BY <1>10, <2>1 DEF ReadBack, QuietInv, TypeOK, AsListed
  <2>5. \A y \in Zones : changed'[y] <= now' /\ NotDueEarly(row[y], y)'
    BY <1>10 DEF ReadBack, QuietInv, NotDueEarly
  <2>6. BumpsOnlyQuiet' /\ listed' = listed /\ target' \notin todo'
    BY <1>10, ResignAssumption DEF ReadBack, BumpsOnlyQuiet, QuietInv, TypeOK
  <2> QED
    BY <2>3, <2>4, <2>5, <2>6 DEF QuietInv
<1>11. CASE Commit \/ Abandon
  <2>1. /\ UNCHANGED <<now, serial, changed>>
        /\ pc' = "sleep" /\ DOMAIN listed' = {} /\ target' \notin todo'
        /\ work' = [z \in Zones |-> NoRow]
    BY <1>11 DEF Commit, Abandon, Close
  <2>2. row' = row \/ row' = Kept
    BY <1>11 DEF Commit, Abandon
  <2>3. \A y \in Zones : NotDueEarly(row[y], y)' /\ NotDueEarly(work[y], y)'
    BY <2>1, <2>2 DEF Kept, QuietInv, NotDueEarly
  <2>4. \A y \in DOMAIN listed' : AsListed(y)'
    BY <2>1
  <2> QED
    BY <2>1, <2>3, <2>4 DEF QuietInv, BumpsOnlyQuiet
<1>12. CASE UNCHANGED vars
  BY <1>12 DEF QuietInv, TypeOK, NotDueEarly, AsListed, BumpsOnlyQuiet
<1> QED
  BY <1>1, <1>2, <1>3, <1>4, <1>5, <1>6, <1>7, <1>8, <1>9, <1>10, <1>11, <1>12
     DEF Next, Others, Sweep

(* A sweep only bumps zones that were quiet when it listed them. *)
THEOREM OnlyQuietZonesAreBumped == Spec => []BumpsOnlyQuiet
<1>1. QuietInv => BumpsOnlyQuiet
  BY DEF QuietInv
<1> QED
  BY <1>1, InitQuiet, QuietStep, PTL DEF Spec

-----------------------------------------------------------------------------
LEMMA InitCount == Init => CountInv
<1>1. Cardinality({}) = 0
  BY FS_EmptySet
<1> QED
  BY <1>1 DEF Init, CountInv, Cap

(* The cap is a number, the same until the zones are listed again. *)
LEMMA CapNat == TypeOK => Cap \in Nat
<1> SUFFICES ASSUME TypeOK PROVE Cap \in Nat
  OBVIOUS
<1>1. Cardinality(DOMAIN listed) \in Nat
  BY ResignAssumption, FS_Subset, FS_CardinalityType DEF TypeOK
<1>2. \A n \in Nat : (n + CapDivisor - 1) \div CapDivisor \in Nat
  BY ResignAssumption
<1> QED
  BY <1>1, <1>2 DEF Cap

LEMMA CountStep == TypeOK /\ CountInv /\ [Next]_vars => CountInv'
<1> SUFFICES ASSUME TypeOK, CountInv, [Next]_vars PROVE CountInv'
  OBVIOUS
<1>e. Cardinality({}) = 0
  BY FS_EmptySet
<1> USE DEF CountInv, vars, session, moves, pdnsVars, counts
<1>1. ASSUME NEW z \in Zones, Edit(z) \/ Enable(z) \/ Disable(z)
      PROVE  CountInv'
  BY <1>1 DEF Edit, Enable, Disable, Cap
<1>2. CASE Wake \/ Oversleep
  BY <1>2 DEF Wake, Oversleep, Fail, TypeOK, Cap
<1>3. CASE List
  <2>1. TypeOK'
    BY TypeStep
  <2>2. (Cap \in Nat)'
    BY <2>1, CapNat, PTL
  <2> QED
    BY <1>3, <1>e, <2>2 DEF List
<1>4. ASSUME NEW z \in Zones, SetTimer(z) \/ Wait(z) \/ Capped(z) \/ StartBump(z)
      PROVE  CountInv'
  BY <1>4 DEF SetTimer, Wait, Capped, StartBump, Cap
<1>5. CASE Rewrite
  BY <1>5 DEF Rewrite, Cap
<1>6. CASE Notify
  <2>1. IsFiniteSet(bumped) /\ Cardinality(bumped) \in Nat
    BY ResignAssumption, FS_Subset, FS_CardinalityType DEF TypeOK
  <2>2. Cardinality(bumped \cup {target}) <= Cardinality(bumped) + 1
    BY <2>1, FS_AddElement
  <2>3. Cap \in Nat /\ Cap' = Cap
    BY <1>6, CapNat DEF Notify, Cap
  <2> QED
    BY <1>6, <2>1, <2>2, <2>3, FS_CardinalityType, FS_AddElement DEF Notify
<1>7. CASE ReadBack \/ BumpGone
  BY <1>7 DEF ReadBack, BumpGone, Cap
<1>8. CASE Commit
  BY <1>8, <1>e DEF Commit, Close, Cap
<1>9. CASE BumpFails \/ Abandon
  BY <1>9 DEF BumpFails, Abandon, Fail, TypeOK
<1>10. CASE UNCHANGED vars
  BY <1>10 DEF Cap
<1> QED
  BY <1>1, <1>2, <1>3, <1>4, <1>5, <1>6, <1>7, <1>8, <1>9, <1>10 DEF Next, Others, Sweep

(* As long as nothing fails, a sweep rewrites no more zones than its cap. *)
THEOREM CapIsKept == Spec => []PeakCeilingIfNoFailure
<1>1. TypeOK /\ CountInv => PeakCeilingIfNoFailure
  <2> SUFFICES ASSUME TypeOK, CountInv, failures = 0 PROVE Cardinality(written) <= Cap
    BY DEF PeakCeilingIfNoFailure
  <2>1. IsFiniteSet(bumped) /\ Cardinality(bumped) \in Nat /\ Cap \in Nat
    BY ResignAssumption, CapNat, FS_Subset, FS_CardinalityType DEF TypeOK
  <2>2. CASE pc = "notify"
    <3>1. written = bumped \cup {target} /\ Cardinality(bumped) < Cap
      BY <2>2 DEF CountInv
    <3>2. IsFiniteSet(bumped \cup {target})
      BY <2>1, FS_AddElement
    <3>3. Cardinality(written) \in Nat /\ Cardinality(written) <= Cardinality(bumped) + 1
      BY <2>1, <3>1, <3>2, FS_AddElement, FS_CardinalityType
    <3> QED
      BY <2>1, <3>1, <3>3
  <2>3. CASE pc # "notify"
    BY <2>3 DEF CountInv
  <2> QED
    BY <2>2, <2>3
<1> QED
  BY <1>1, TypeCorrect, InitType, InitCount, TypeStep, CountStep, PTL DEF Spec

-----------------------------------------------------------------------------
(***************************************************************************)
(* Freshness.  The lemmas on Fits say how the sweeps use up a line of      *)
(* zones that wait; each part of FreshInv then has its step.               *)
(***************************************************************************)
LEMMA FitsFewer ==
  ASSUME NEW j \in Int, NEW k \in Int, NEW a \in Int, NEW b \in Int, NEW n \in Nat,
         j <= k, b <= a, Fits(j, a, n)
  PROVE  Fits(k, b, n)
<1> SUFFICES ASSUME NEW m \in 1 .. n
             PROVE  CapDivisor * b <= (k + n - m) * m \/ b <= k + n - m
  BY DEF Fits
<1>1. CASE a <= j + n - m
  BY <1>1
<1>2. CASE CapDivisor * a <= (j + n - m) * m
  <2>1. CapDivisor * b <= CapDivisor * a
    BY ResignAssumption
  <2>2. (j + n - m) * m <= (k + n - m) * m
    <3> DEFINE x == j + n - m
               y == k + n - m
    <3>1. x \in Int /\ y \in Int /\ x <= y /\ m \in Nat
      OBVIOUS
    <3> HIDE DEF x, y
    <3>2. x * m <= y * m
      BY <3>1
    <3> QED
      BY <3>2 DEF x, y
  <2> DEFINE p == CapDivisor * b
             q == CapDivisor * a
             s == (j + n - m) * m
             t == (k + n - m) * m
  <2>3. p \in Int /\ q \in Int /\ s \in Int /\ t \in Int
    BY ResignAssumption
  <2> HIDE DEF p, q, s, t
  <2>4. p <= q /\ q <= s /\ s <= t
    BY <1>2, <2>1, <2>2 DEF p, q, s, t
  <2> QED
    BY <2>3, <2>4 DEF p, t
<1> QED
  BY <1>1, <1>2 DEF Fits

(* One sweep of c zones, with c the cap or more, leaves one sweep less to go. *)
LEMMA FitsSweep ==
  ASSUME NEW k \in Int, NEW a \in Int, NEW n \in Nat, NEW c \in Nat,
         c >= 1, CapDivisor * c >= n, Fits(k + 1, a, n)
  PROVE  Fits(k, a - c, n)
<1> SUFFICES ASSUME NEW m \in 1 .. n
             PROVE  CapDivisor * (a - c) <= (k + n - m) * m \/ a - c <= k + n - m
  BY DEF Fits
<1>1. CASE a <= k + 1 + n - m
  BY <1>1
<1>2. CASE CapDivisor * a <= (k + 1 + n - m) * m
  <2> DEFINE x == k + n - m
  <2>1. x \in Int /\ m \in Nat /\ m <= n /\ CapDivisor * a <= (x + 1) * m
    BY <1>2
  <2> HIDE DEF x
  <2>2. (x + 1) * m = x * m + m
    BY <2>1
  <2>3. CapDivisor * (a - c) = CapDivisor * a - CapDivisor * c
    BY ResignAssumption
  <2>4. CapDivisor * (a - c) <= x * m
    BY <2>1, <2>2, <2>3, ResignAssumption
  <2> QED
    BY <2>4 DEF x
<1> QED
  BY <1>1, <1>2 DEF Fits

(* A zone that leaves costs one sweep; a zone that comes costs nothing. *)
LEMMA FitsLeave ==
  ASSUME NEW k \in Int, NEW a \in Int, NEW n \in Nat \ {0}, Fits(k, a, n)
  PROVE  Fits(k + 1, a, n - 1)
<1>1. \A m \in 1 .. n - 1 : m \in 1 .. n /\ k + n - m = k + 1 + (n - 1) - m
  OBVIOUS
<1> QED
  BY <1>1 DEF Fits

LEMMA FitsJoin ==
  ASSUME NEW k \in Nat, NEW a \in Int, NEW n \in Nat \ {0}, Fits(k, a, n)
  PROVE  Fits(k, a, n + 1)
<1>1. ASSUME NEW m \in 1 .. n
      PROVE  CapDivisor * a <= (k + (n + 1) - m) * m \/ a <= k + (n + 1) - m
  <2>1. CASE a <= k + n - m
    BY <2>1
  <2>2. CASE CapDivisor * a <= (k + n - m) * m
    <3> DEFINE x == k + n - m
    <3>1. x \in Int /\ m \in Nat /\ (x + 1) * m = x * m + m /\ k + (n + 1) - m = x + 1
      OBVIOUS
    <3> QED
      BY <2>2, <3>1, ResignAssumption
  <2> QED
    BY <2>1, <2>2 DEF Fits
<1>2. CapDivisor * a <= k * (n + 1) \/ a <= k
  <2>1. CapDivisor * a <= k * n \/ a <= k
    <3>1. n \in 1 .. n /\ k + n - n = k
      OBVIOUS
    <3> QED
      BY <3>1 DEF Fits
  <2>2. k * (n + 1) = k * n + k
    OBVIOUS
  <2> QED
    BY <2>1, <2>2, ResignAssumption
<1>3. k + (n + 1) - (n + 1) = k
  OBVIOUS
<1>4. \A m \in 1 .. n + 1 : m \in 1 .. n \/ m = n + 1
  OBVIOUS
<1> QED
  BY <1>1, <1>2, <1>3, <1>4 DEF Fits

(* All zones fit in CapDivisor sweeps. *)
LEMMA FitsAll ==
  ASSUME NEW k \in Int, NEW a \in Int, NEW n \in Nat, k >= CapDivisor, a <= n
  PROVE  Fits(k, a, n)
<1>1. Fits(CapDivisor, n, n)
  <2> SUFFICES ASSUME NEW m \in 1 .. n, m > CapDivisor
               PROVE  CapDivisor * n <= (CapDivisor + n - m) * m
    BY ResignAssumption DEF Fits
  <2> DEFINE u == m - CapDivisor
             v == n - m
  <2>1. u \in Nat /\ v \in Nat /\ CapDivisor \in Nat
    BY ResignAssumption
  <2>2. m = CapDivisor + u /\ n = CapDivisor + u + v
    BY ResignAssumption
  <2> HIDE DEF u, v
  <2>3. u * v >= 0
    BY <2>1
  <2>4. (CapDivisor + v) * (CapDivisor + u)
          = CapDivisor * (CapDivisor + u + v) + u * v
    BY <2>1
  <2>5. CapDivisor + n - m = CapDivisor + v
    BY <2>1, <2>2
  <2> QED
    BY <2>1, <2>2, <2>3, <2>4, <2>5
<1> QED
  BY <1>1, FitsFewer, ResignAssumption

(* While a zone waits there is a sweep left. *)
LEMMA FitsSome ==
  ASSUME NEW k \in Int, NEW a \in Nat \ {0}, NEW n \in Nat \ {0}, Fits(k, a, n)
  PROVE  k >= 1
<1>1. CapDivisor * a <= k * n \/ a <= k
  <2>1. n \in 1 .. n /\ k + n - n = k
    OBVIOUS
  <2> QED
    BY <2>1 DEF Fits
<1>2. CASE a <= k
  BY <1>2
<1>3. CASE CapDivisor * a <= k * n
  <2>1. CapDivisor * a >= 1
    BY ResignAssumption
  <2>2. k <= 0 => k * n <= 0
    OBVIOUS
  <2> QED
    BY <1>3, <2>1, <2>2, ResignAssumption
<1> QED
  BY <1>1, <1>2, <1>3

(* What happens between two moves of a zone takes at most the sweeps it adds. *)
LEMMA FitsOn ==
  ASSUME NEW k \in Nat, NEW d \in {0, 1}, NEW a \in Int, NEW b \in Int, b <= a,
         NEW n \in Nat \ {0}, NEW m \in Nat \ {0},
         m = n \/ m = n + 1 \/ (m = n - 1 /\ d = 1), Fits(k, a, n)
  PROVE  Fits(k + d, b, m)
<1>1. CASE m = n
  BY <1>1, FitsFewer
<1>2. CASE m = n + 1
  BY <1>2, FitsJoin, FitsFewer
<1>3. CASE m = n - 1 /\ d = 1
  BY <1>3, FitsLeave, FitsFewer
<1> QED
  BY <1>1, <1>2, <1>3

(* The cap shares the signed zones out over CapDivisor sweeps. *)
LEMMA CapShares ==
  ASSUME TypeOK
  PROVE  Cap \in Nat /\ Cap >= 1 /\ CapDivisor * Cap >= Cardinality(DOMAIN listed)
<1> DEFINE n == Cardinality(DOMAIN listed)
           D == CapDivisor
           q == (n + D - 1) \div D
           r == (n + D - 1) % D
<1>1. n \in Nat /\ D \in Nat /\ D >= 1
  BY ResignAssumption, FS_Subset, FS_CardinalityType DEF TypeOK
<1> HIDE DEF n, D
<1>2. n + D - 1 = D * q + r /\ r \in 0 .. D - 1 /\ q \in Int
  BY <1>1
<1> HIDE DEF q, r
<1>3. D * q >= n
  BY <1>1, <1>2
<1>4. n >= 1 => q >= 1
  <2>1. q <= 0 => D * q <= 0
    BY <1>1, <1>2
  <2> QED
    BY <1>1, <1>2, <1>3, <2>1
<1>5. Cap = IF n = 0 THEN 1 ELSE q
  BY DEF Cap, n, D, q
<1> QED
  BY <1>1, <1>2, <1>3, <1>4, <1>5 DEF n, D

-----------------------------------------------------------------------------
LEMMA ZoneSets ==
  /\ \A S \in SUBSET Zones : IsFiniteSet(S) /\ Cardinality(S) \in Nat
  /\ \A T \in SUBSET Zones : \A S \in SUBSET T : Cardinality(S) <= Cardinality(T)
  /\ \A S \in SUBSET Zones : S # {} => Cardinality(S) \in Nat \ {0}
<1>1. \A S \in SUBSET Zones : IsFiniteSet(S) /\ Cardinality(S) \in Nat
  BY ResignAssumption, FS_Subset, FS_CardinalityType
<1>2. \A T \in SUBSET Zones : \A S \in SUBSET T : Cardinality(S) <= Cardinality(T)
  BY <1>1, FS_Subset
<1>3. \A S \in SUBSET Zones : S # {} => Cardinality(S) \in Nat \ {0}
  BY <1>1, FS_EmptySet
<1> QED
  BY <1>1, <1>2, <1>3

(* The steps that end a tick, and what the others leave alone. *)
LEMMA OtherSteps ==
  ASSUME TypeOK, [Next]_vars, ~Wake, ~Oversleep, ~Commit, ~Abandon
  PROVE  /\ UNCHANGED <<now, row>>
         /\ pc' = "sleep" <=> pc = "sleep"
<1> USE DEF TypeOK, vars, session, moves, pdnsVars, counts
<1>1. CASE Others
  BY <1>1 DEF Others, Edit, Enable, Disable
<1>2. CASE Sweep
  BY <1>2 DEF Sweep, List, SetTimer, Wait, Capped, StartBump, Rewrite, Notify, ReadBack,
              BumpFails, BumpGone
<1> QED
  BY <1>1, <1>2 DEF Next

(* A zone moves now, or it is as it was. *)
LEMMA MovesNow ==
  ASSUME TypeOK, [Next]_vars, NEW y \in Zones
  PROVE  \/ /\ changed'[y] = now /\ serial'[y] = serial[y] + 1 /\ setbacks'[y] = 0
            /\ UNCHANGED <<now, row, work>>
         \/ /\ changed'[y] = changed[y] /\ serial'[y] = serial[y]
            /\ y \in signed' => y \in signed
            /\ setbacks'[y] \in {setbacks[y], setbacks[y] + 1}
<1> USE DEF TypeOK, vars, session, moves, pdnsVars, counts
<1>1. CASE Others
  BY <1>1 DEF Others, Edit, Enable, Disable, Move, Setback
<1>2. CASE Rewrite
  BY <1>2 DEF Rewrite, Move
<1>3. CASE Sweep /\ ~Rewrite
  BY <1>3 DEF Sweep, Wake, List, SetTimer, Wait, Capped, StartBump, Notify, ReadBack, Commit,
              BumpFails, BumpGone, Abandon, Oversleep, Fail, Setback
<1>4. CASE UNCHANGED vars
  BY <1>4
<1> QED
  BY <1>1, <1>2, <1>3, <1>4 DEF Next

(* No zone joins those that wait for a time that has come. *)
LEMMA WaitingShrinks ==
  ASSUME TypeOK, [Next]_vars, NEW due \in Int, due <= now
  PROVE  Waiting(due)' \subseteq Waiting(due)
<1> SUFFICES ASSUME NEW y \in signed', changed'[y] < due
             PROVE  y \in signed /\ changed[y] < due
  BY DEF Waiting
<1>1. y \in Zones /\ now \in Int
  BY TypeStep DEF TypeOK
<1> QED
  BY <1>1, MovesNow

(* A zone that leaves is a setback of those that stay. *)
LEMMA SignedStep ==
  ASSUME TypeOK, [Next]_vars, NEW z \in signed, z \in signed', serial'[z] = serial[z]
  PROVE  LET n == Cardinality(signed)
             m == Cardinality(signed')
         IN  /\ n \in Nat \ {0} /\ m \in Nat \ {0}
             /\ m = n \/ m = n + 1 \/ (m = n - 1 /\ setbacks'[z] = setbacks[z] + 1)
<1> USE DEF TypeOK, vars, session, moves, pdnsVars, counts
<1>0. TypeOK'
  BY TypeStep
<1>1. Cardinality(signed) \in Nat \ {0} /\ Cardinality(signed') \in Nat \ {0}
  BY <1>0, ZoneSets
<1>f. IsFiniteSet(signed)
  BY ZoneSets
<1>2. CASE signed' = signed
  BY <1>1, <1>2
<1>3. ASSUME NEW y \in Zones, Enable(y)
      PROVE  Cardinality(signed') = Cardinality(signed) + 1
  BY <1>3, <1>f, FS_AddElement DEF Enable
<1>4. ASSUME NEW y \in Zones, Disable(y)
      PROVE  Cardinality(signed') = Cardinality(signed) - 1 /\ setbacks'[z] = setbacks[z] + 1
  BY <1>4, <1>f, FS_RemoveElement DEF Disable, Setback
<1>5. CASE Others
  BY <1>1, <1>2, <1>3, <1>4, <1>5 DEF Others, Edit
<1>6. CASE Sweep
  BY <1>2, <1>6 DEF Sweep, Wake, List, SetTimer, Wait, Capped, StartBump, Rewrite, Notify,
     ReadBack, Commit, BumpFails, BumpGone, Abandon, Oversleep
<1> QED
  BY <1>2, <1>5, <1>6 DEF Next

-----------------------------------------------------------------------------
(* A row that is on time leaves its zone a sweep at least. *)
LEMMA SweepLeft ==
  ASSUME TypeOK, NEW z \in signed, InTurn(z), NEW r \in Row \cup {NoRow}, NEW e \in {0, 1},
         OnTime(z, r, e)
  PROVE  /\ Limit(z) \in Int /\ Limit(z) - now + e >= 1
         /\ KnowsSerial(r, z) => z \in Waiting(r.due)
<1>0. /\ z \in Zones /\ now \in Nat /\ changed[z] \in Nat /\ setbacks[z] \in Nat
      /\ Quiet \in Nat /\ Jitter[z] \in Nat /\ CapDivisor \in Nat /\ CapDivisor >= 1
      /\ Limit(z) = changed[z] + Quiet + Jitter[z] + CapDivisor + setbacks[z]
      /\ Quiet >= 1
  BY ResignAssumption DEF TypeOK, Limit, InTurn
<1>1. CASE ~KnowsSerial(r, z)
  BY <1>0, <1>1 DEF OnTime
<1>2. CASE KnowsSerial(r, z)
  <2>1. r.due \in Nat
    BY <1>2, ResignAssumption DEF KnowsSerial, Row
  <2>2. /\ changed[z] + Quiet + Jitter[z] <= r.due
        /\ r.due <= changed[z] + Quiet + Jitter[z] + setbacks[z] + 1
    BY <1>2 DEF OnTime
  <2>3. z \in Waiting(r.due)
    BY <1>0, <2>1, <2>2 DEF Waiting
  <2>4. CASE now < r.due
    BY <1>0, <2>1, <2>2, <2>3, <2>4
  <2>5. CASE now >= r.due
    <3>1. Fits(Limit(z) - now + e, Cardinality(Waiting(r.due)), Cardinality(signed))
      BY <1>2, <2>5 DEF OnTime
    <3>2. Cardinality(Waiting(r.due)) \in Nat \ {0} /\ Cardinality(signed) \in Nat \ {0}
      <4>1. Waiting(r.due) \in SUBSET Zones /\ signed \in SUBSET Zones
        BY DEF Waiting, TypeOK
      <4> QED
        BY <2>3, <4>1, ZoneSets
    <3>3. Limit(z) - now + e \in Int
      BY <1>0
    <3> QED
      BY <1>0, <2>3, <3>1, <3>2, <3>3, FitsSome
  <2> QED
    BY <1>0, <2>1, <2>4, <2>5
<1> QED
  BY <1>1, <1>2

(* A zone that has just moved has all the time it may take. *)
LEMMA JustMoved ==
  ASSUME QuietInv, TypeOK', NEW z \in Zones, serial'[z] = serial[z] + 1, changed'[z] = now,
         setbacks'[z] = 0, NEW r \in Row \cup {NoRow}, NotDueEarly(r, z), now' = now,
         NEW e \in {0, 1}
  PROVE  ~KnowsSerial(r, z)' /\ OnTime(z, r, e)'
<1>1. ~KnowsSerial(r, z)'
  BY DEF KnowsSerial, NotDueEarly, Row, QuietInv, TypeOK
<1>2. now' <= changed'[z] + setbacks'[z] + e
  BY DEF QuietInv, TypeOK
<1> QED
  BY <1>1, <1>2 DEF OnTime

(* While the clock stands still, a zone that has not moved stays on time; a
   failure pays for a sweep that is lost. *)
LEMMA StaysOnTime ==
  ASSUME TypeOK, [Next]_vars, NEW z \in signed, z \in signed', InTurn(z)',
         serial'[z] = serial[z], changed'[z] = changed[z], now' = now,
         setbacks'[z] \in {setbacks[z], setbacks[z] + 1},
         NEW e \in {0, 1}, NEW f \in {0, 1}, NEW d \in {0, 1},
         setbacks'[z] + f = setbacks[z] + e + d,
         setbacks'[z] = setbacks[z] + 1 /\ signed' # signed => d = 1,
         NEW r \in Row \cup {NoRow}, OnTime(z, r, e)
  PROVE  OnTime(z, r, f)'
<1>0. /\ z \in Zones /\ now \in Nat /\ changed[z] \in Nat /\ setbacks[z] \in Nat
      /\ Quiet \in Nat /\ Jitter[z] \in Nat /\ CapDivisor \in Nat
      /\ Limit(z) = changed[z] + Quiet + Jitter[z] + CapDivisor + setbacks[z]
      /\ Limit(z)' = changed[z] + Quiet + Jitter[z] + CapDivisor + setbacks'[z]
      /\ KnowsSerial(r, z)' = KnowsSerial(r, z)
      /\ InTurn(z)
  BY ResignAssumption DEF TypeOK, Limit, KnowsSerial, InTurn
<1>1. CASE ~KnowsSerial(r, z)
  BY <1>0, <1>1 DEF OnTime
<1>2. CASE KnowsSerial(r, z)
  <2>1. r.due \in Nat
    BY <1>2, ResignAssumption DEF KnowsSerial, Row
  <2>2. /\ changed[z] + Quiet + Jitter[z] <= r.due
        /\ r.due <= changed[z] + Quiet + Jitter[z] + setbacks[z] + 1
    BY <1>2 DEF OnTime
  <2>3. ASSUME now >= r.due
        PROVE  Fits(Limit(z)' - now + f, Cardinality(Waiting(r.due)'), Cardinality(signed'))
    <3> DEFINE k == Limit(z) - now + e
               a == Cardinality(Waiting(r.due))
               b == Cardinality(Waiting(r.due)')
               n == Cardinality(signed)
               m == Cardinality(signed')
    <3>1. Fits(k, a, n)
      BY <1>2, <2>3 DEF OnTime
    <3>2. k \in Nat
      BY <1>0, SweepLeft
    <3>3. /\ n \in Nat \ {0} /\ m \in Nat \ {0}
          /\ m = n \/ m = n + 1 \/ (m = n - 1 /\ d = 1)
      <4>1. m # n => signed' # signed
        OBVIOUS
      <4>2. m = n - 1 /\ n \in Nat => m # n
        OBVIOUS
      <4> QED
        BY <4>1, <4>2, SignedStep
    <3>4. a \in Nat /\ b \in Nat /\ b <= a
      <4>1. Waiting(r.due)' \subseteq Waiting(r.due) /\ Waiting(r.due) \in SUBSET Zones
        BY <2>1, <2>3, WaitingShrinks DEF Waiting, TypeOK
      <4> QED
        BY <4>1, ZoneSets
    <3>5. Limit(z)' - now + f = k + d
      BY <1>0
    <3> HIDE DEF k, a, b, n, m
    <3>6. Fits(k + d, b, m)
      BY <3>1, <3>2, <3>3, <3>4, FitsOn
    <3> QED
      BY <3>5, <3>6 DEF b, m
  <2>4. r.due <= changed[z] + Quiet + Jitter[z] + setbacks'[z] + 1
    BY <1>0, <2>1, <2>2
  <2> QED
    BY <1>0, <1>2, <2>2, <2>3, <2>4 DEF OnTime
<1> QED
  BY <1>1, <1>2

(* A tick of the clock uses up a sweep, or a setback has paid for it. *)
LEMMA TickOnTime ==
  ASSUME TypeOK, NEW z \in signed, InTurn(z)', now' = now + 1,
         UNCHANGED <<signed, serial, changed>>,
         NEW f \in {0, 1}, setbacks'[z] = setbacks[z] + 1 - f,
         NEW r \in Row \cup {NoRow}, OnTime(z, r, 0)
  PROVE  OnTime(z, r, f)'
<1>0. /\ z \in Zones /\ now \in Nat /\ changed[z] \in Nat /\ setbacks[z] \in Nat
      /\ setbacks'[z] = setbacks[z] + 1 - f
      /\ Quiet \in Nat /\ Jitter[z] \in Nat /\ CapDivisor \in Nat
      /\ Limit(z) = changed[z] + Quiet + Jitter[z] + CapDivisor + setbacks[z]
      /\ Limit(z)' = changed[z] + Quiet + Jitter[z] + CapDivisor + setbacks'[z]
      /\ KnowsSerial(r, z)' = KnowsSerial(r, z)
      /\ \A due : Waiting(due)' = Waiting(due)
  BY ResignAssumption DEF TypeOK, Limit, KnowsSerial, Waiting
<1>1. CASE ~KnowsSerial(r, z)
  BY <1>0, <1>1 DEF OnTime
<1>2. CASE KnowsSerial(r, z)
  <2>1. r.due \in Nat
    BY <1>2, ResignAssumption DEF KnowsSerial, Row
  <2>2. /\ changed[z] + Quiet + Jitter[z] <= r.due
        /\ r.due <= changed[z] + Quiet + Jitter[z] + setbacks[z] + 1
    BY <1>2 DEF OnTime
  <2>3. Limit(z)' - now' + f = Limit(z) - now
    BY <1>0
  <2>4. CASE now >= r.due
    BY <1>0, <1>2, <2>1, <2>2, <2>3, <2>4 DEF OnTime
  <2>5. CASE now < r.due
    <3> DEFINE a == Cardinality(Waiting(r.due))
               n == Cardinality(signed)
    <3>1. a \in Nat /\ n \in Nat /\ a <= n
      BY ZoneSets DEF Waiting, TypeOK
    <3>2. now + 1 >= r.due => Limit(z) - now >= CapDivisor
      BY <1>0, <2>1, <2>2, <2>5
    <3>3. now + 1 >= r.due => Fits(Limit(z) - now, a, n)
      BY <1>0, <3>1, <3>2, FitsAll
    <3> QED
      BY <1>0, <1>2, <2>1, <2>2, <2>3, <3>3 DEF OnTime
  <2> QED
    BY <1>0, <2>1, <2>4, <2>5
<1> QED
  BY <1>1, <1>2

-----------------------------------------------------------------------------
(* The steps within a sweep, after its list. *)
LEMMA SweepOn ==
  ASSUME QuietInv, [Next]_vars, Sweeping', ~List
  PROVE  /\ Sweeping
         /\ UNCHANGED <<now, row, listed, before>>
         /\ Ahead' \subseteq Ahead
         /\ \A z \in Ahead' : work'[z] = work[z]
         /\ ~Wake /\ ~Oversleep /\ ~Commit /\ ~Abandon
<1> USE DEF QuietInv, TypeOK, vars, session, moves, pdnsVars, counts, Sweeping, Ahead
<1>1. CASE Others
  BY <1>1 DEF Others, Edit, Enable, Disable, Wake, Oversleep, Commit, Abandon, Close
<1>2. CASE Wake \/ Oversleep \/ Commit \/ Abandon
  BY <1>2 DEF Wake, Oversleep, Commit, Abandon, Close
<1>3. ASSUME NEW z \in Zones, SetTimer(z) \/ Wait(z) \/ Capped(z) \/ StartBump(z)
      PROVE  /\ Sweeping
             /\ UNCHANGED <<now, row, listed, before>>
             /\ Ahead' \subseteq Ahead
             /\ \A y \in Ahead' : work'[y] = work[y]
             /\ pc' # "sleep" /\ pc' # "list"
  BY <1>3 DEF SetTimer, Wait, Capped, StartBump
<1>4. CASE Rewrite \/ Notify
  BY <1>4 DEF Rewrite, Notify, Wake, Oversleep, Commit, Abandon, Close
<1>5. CASE ReadBack
  BY <1>5 DEF ReadBack, Wake, Oversleep, Commit, Abandon, Close
<1>6. CASE BumpFails \/ BumpGone
  BY <1>6 DEF BumpFails, BumpGone, Wake, Oversleep, Commit, Abandon, Close
<1>7. CASE UNCHANGED vars
  BY <1>7 DEF Wake, Oversleep, Commit, Abandon, Close
<1>8. ~Wake /\ ~Oversleep /\ ~Commit /\ ~Abandon
  BY DEF Wake, Oversleep, Commit, Abandon, Close
<1> QED
  BY <1>1, <1>2, <1>3, <1>4, <1>5, <1>6, <1>7, <1>8 DEF Next, Sweep

(* What is counted against the cap is what has been rewritten. *)
LEMMA CountedStep ==
  ASSUME QuietInv, [Next]_vars, Sweeping', ~List
  PROVE  /\ Cap' = Cap /\ Cap \in Nat /\ Counted \in Nat /\ Counted' \in Nat
         /\ Counted' <= Counted \/ (Rewrite /\ Counted' = Counted + 1)
<1>1. Cap' = Cap
  BY SweepOn DEF Cap
<1>2. TypeOK /\ TypeOK' /\ Cap \in Nat
  BY TypeStep, CapNat DEF QuietInv
<1>3. /\ Cardinality(bumped) \in Nat /\ IsFiniteSet(bumped) /\ Cardinality(bumped') \in Nat
      /\ Counted \in Nat /\ Counted' \in Nat
  BY <1>2, ZoneSets DEF TypeOK, Counted
<1>4. Counted' <= Counted \/ (Rewrite /\ Counted' = Counted + 1)
  <2> USE <1>2, <1>3 DEF Counted, vars, session, moves, pdnsVars, counts
  <2>1. CASE Others
    BY <2>1 DEF Others, Edit, Enable, Disable
  <2>2. ASSUME NEW z \in Zones, SetTimer(z) \/ Wait(z) \/ Capped(z) \/ StartBump(z)
        PROVE  Counted' <= Counted
    BY <2>2 DEF SetTimer, Wait, Capped, StartBump
  <2>3. CASE Rewrite
    BY <2>3 DEF Rewrite
  <2>4. CASE Notify
    <3>1. Cardinality(bumped \cup {target}) <= Cardinality(bumped) + 1
      BY FS_AddElement
    <3> QED
      BY <2>4, <3>1 DEF Notify
  <2>5. CASE ReadBack \/ BumpFails \/ BumpGone
    BY <2>5 DEF ReadBack, BumpFails, BumpGone
  <2>6. CASE UNCHANGED vars
    BY <2>6
  <2>7. ~Wake /\ ~Oversleep /\ ~Commit /\ ~Abandon
    BY SweepOn
  <2> QED
    BY <2>1, <2>2, <2>3, <2>4, <2>5, <2>6, <2>7 DEF Next, Sweep
<1> QED
  BY <1>1, <1>2, <1>3, <1>4

-----------------------------------------------------------------------------
LEMMA SweepStep == QuietInv /\ SweepInv /\ [Next]_vars => SweepInv'
<1> SUFFICES ASSUME QuietInv, SweepInv, [Next]_vars, Sweeping' PROVE SweepInv'
  BY DEF SweepInv
<1>1. CASE List
  BY <1>1 DEF List, SweepInv, Ahead, pdnsVars, moves
<1>2. CASE ~List
  <2>1. /\ Sweeping /\ UNCHANGED <<now, row, listed>>
        /\ Ahead' \subseteq Ahead /\ \A z \in Ahead' : work'[z] = work[z]
    BY <1>2, SweepOn
  <2>t. TypeOK /\ TypeOK'
    BY TypeStep DEF QuietInv
  <2>2. ASSUME NEW z \in signed', z \notin DOMAIN listed \/ serial'[z] # listed[z]
        PROVE  changed'[z] = now
    <3>1. z \in Zones
      BY <2>t DEF TypeOK
    <3> QED
      BY <2>1, <2>2, <2>t, <3>1, MovesNow DEF SweepInv
  <2>3. \A z \in Ahead' : work'[z] = row'[z]
    BY <2>1 DEF SweepInv
  <2>4. ASSUME pc' \in {"notify", "readback"}
        PROVE  changed'[target'] = now' /\ ~KnowsSerial(work[target], target)'
    <3>1. target' = target /\ target \in Zones /\ work' = work
          /\ (Rewrite \/ pc \in {"notify", "readback"})
      BY <2>1, <2>4, <2>t DEF TypeOK, Next, Others, Sweep, Edit, Enable, Disable, Wake, List, SetTimer,
         Wait, Capped, StartBump, Rewrite, Notify, ReadBack, Commit, Close, BumpFails, BumpGone,
         Abandon, Oversleep, vars, session, moves, pdnsVars, counts
    <3>2. work[target] # NoRow =>
            work[target].last \in Nat /\ work[target].last <= serial[target]
      BY <2>t, <3>1 DEF QuietInv, TypeOK, NotDueEarly, Row
    <3>3. serial[target] \in Nat
      BY <2>t, <3>1 DEF TypeOK
    <3>4. CASE Rewrite
      BY <2>1, <2>t, <3>1, <3>2, <3>3, <3>4 DEF Rewrite, Move, TypeOK, KnowsSerial
    <3>5. CASE pc \in {"notify", "readback"}
      <4>1. changed[target] = now /\ ~KnowsSerial(work[target], target)
        BY <2>1, <3>5 DEF SweepInv
      <4> QED
        BY <2>1, <2>t, <3>1, <3>2, <3>3, <4>1, MovesNow DEF KnowsSerial
    <3> QED
      BY <3>1, <3>4, <3>5
  <2> QED
    <3>1. \A z \in signed' : z \notin DOMAIN listed' \/ serial'[z] # listed'[z] => changed'[z] = now'
      BY <2>1, <2>2
    <3> QED
      BY <2>3, <2>4, <3>1 DEF SweepInv
<1> QED
  BY <1>1, <1>2

-----------------------------------------------------------------------------
(* The committed rows keep their promise. *)
LEMMA RowsStep == FreshInv /\ [Next]_vars => RowsOnTime'
<1> SUFFICES ASSUME FreshInv, [Next]_vars, NEW z \in signed', InTurn(z)'
             PROVE  OnTime(z, row[z], IF pc = "sleep" THEN 0 ELSE 1)'
  BY DEF RowsOnTime
<1>t. TypeOK /\ TypeOK' /\ QuietInv /\ z \in Zones
  BY TypeStep DEF FreshInv, QuietInv, TypeOK
<1>p. PICK r \in Row \cup {NoRow} : r = row'[z]
  BY <1>t DEF TypeOK
<1>1. CASE changed'[z] = now /\ serial'[z] = serial[z] + 1 /\ setbacks'[z] = 0 /\ UNCHANGED <<now, row>>
  <2>1. NotDueEarly(r, z)
    BY <1>1, <1>t, <1>p DEF QuietInv
  <2>2. OnTime(z, r, 0)' /\ OnTime(z, r, 1)'
    BY <1>1, <1>t, <2>1, JustMoved
  <2> QED
    BY <1>p, <2>2 DEF OnTime
<1>2. CASE /\ changed'[z] = changed[z] /\ serial'[z] = serial[z] /\ z \in signed
           /\ setbacks'[z] \in {setbacks[z], setbacks[z] + 1}
  <2>1. InTurn(z)
    BY <1>2, <1>t, ResignAssumption DEF TypeOK, InTurn
  <2>2. OnTime(z, row[z], IF pc = "sleep" THEN 0 ELSE 1)
    BY <1>2, <2>1 DEF FreshInv, RowsOnTime
  <2> SUFFICES OnTime(z, r, IF pc = "sleep" THEN 0 ELSE 1)'
    BY <1>p DEF OnTime
  <2> USE DEF session, moves, pdnsVars, counts
  <2>3. CASE Wake
    <3>1. /\ now' = now + 1 /\ UNCHANGED <<signed, serial, changed, setbacks>>
          /\ pc = "sleep" /\ pc' = "list" /\ row' = row /\ setbacks[z] \in Nat
      BY <2>3, <1>t DEF Wake, TypeOK
    <3>2. OnTime(z, r, 0)
      BY <1>p, <2>2, <3>1 DEF OnTime
    <3>3. OnTime(z, r, 1)'
      BY <1>t, <1>2, <3>1, <3>2, TickOnTime
    <3> QED
      BY <3>1, <3>3 DEF OnTime
  <2>4. CASE Oversleep
    <3>1. /\ now' = now + 1 /\ UNCHANGED <<signed, serial, changed>>
          /\ setbacks'[z] = setbacks[z] + 1 /\ setbacks[z] \in Nat
          /\ pc = "sleep" /\ pc' = "sleep" /\ row' = row
      BY <2>4, <1>t DEF Oversleep, Fail, Setback, TypeOK
    <3>2. OnTime(z, r, 0)
      BY <1>p, <2>2, <3>1 DEF OnTime
    <3>3. OnTime(z, r, 0)'
      BY <1>t, <1>2, <3>1, <3>2, TickOnTime
    <3> QED
      BY <3>1, <3>3 DEF OnTime
  <2>5. CASE Abandon
    <3>1. /\ UNCHANGED <<now, signed, serial, changed, row>>
          /\ setbacks'[z] = setbacks[z] + 1 /\ setbacks[z] \in Nat
          /\ pc # "sleep" /\ pc' = "sleep"
      BY <2>5, <1>t DEF Abandon, Close, Fail, Setback, TypeOK
    <3>2. OnTime(z, r, 1)
      BY <1>p, <2>2, <3>1 DEF OnTime
    <3>3. setbacks'[z] + 0 = setbacks[z] + 1 + 0
      BY <3>1
    <3>4. OnTime(z, r, 0)'
      BY <1>t, <1>2, <3>1, <3>2, <3>3, StaysOnTime
    <3> QED
      BY <3>1, <3>4 DEF OnTime
  <2>6. CASE Commit
    <3>1. /\ UNCHANGED <<now, signed, serial, changed, setbacks>> /\ row' = Kept
          /\ pc = "scan" /\ todo = {} /\ pc' = "sleep"
      BY <2>6 DEF Commit, Close
    <3>2. Sweeping
      BY <3>1 DEF Sweeping
    <3>3. CASE z \in DOMAIN listed
      <4>1. OnTime(z, work[z], 0) /\ r = work[z]
        BY <1>t, <1>p, <1>2, <2>1, <3>1, <3>2, <3>3 DEF FreshInv, WorkOnTime, Handled, Kept
      <4> QED
        BY <3>1, <4>1 DEF OnTime, KnowsSerial, Limit, Waiting
    <3>4. CASE z \notin DOMAIN listed
      <4>1. changed[z] = now /\ r = NoRow
        BY <1>t, <1>p, <1>2, <3>1, <3>2, <3>4 DEF FreshInv, SweepInv, Kept
      <4> QED
        BY <1>t, <3>1, <4>1 DEF OnTime, KnowsSerial, TypeOK
    <3> QED
      BY <3>3, <3>4
  <2>7. CASE ~Wake /\ ~Oversleep /\ ~Commit /\ ~Abandon
    <3>1. UNCHANGED <<now, row>> /\ (pc' = "sleep" <=> pc = "sleep") /\ setbacks[z] \in Nat
      BY <1>t, <2>7, OtherSteps DEF TypeOK
    <3>2. PICK e \in {0, 1} : e = IF pc = "sleep" THEN 0 ELSE 1
      OBVIOUS
    <3>3. PICK d \in {0, 1} : setbacks'[z] + e = setbacks[z] + e + d
      <4>1. CASE setbacks'[z] = setbacks[z]
        BY <3>1, <4>1
      <4>2. CASE setbacks'[z] = setbacks[z] + 1
        BY <3>1, <4>2
      <4> QED
        BY <1>2, <4>1, <4>2
    <3>4. setbacks'[z] = setbacks[z] + 1 => d = 1
      BY <3>1, <3>3
    <3>5. OnTime(z, r, e)
      BY <1>p, <2>2, <3>1, <3>2 DEF OnTime
    <3>6. OnTime(z, r, e)'
      BY <1>t, <1>2, <3>1, <3>3, <3>4, <3>5, StaysOnTime
    <3> QED
      BY <3>1, <3>2, <3>6 DEF OnTime
  <2> QED
    BY <2>3, <2>4, <2>5, <2>6, <2>7
<1> QED
  BY <1>1, <1>2, <1>t, MovesNow

-----------------------------------------------------------------------------
(* A zone keeps its place in a line that does not grow. *)
LEMMA StaysInLine ==
  ASSUME TypeOK, [Next]_vars, NEW z \in signed, z \in signed', InTurn(z)',
         serial'[z] = serial[z], changed'[z] = changed[z], UNCHANGED <<now, row>>,
         setbacks'[z] \in {setbacks[z], setbacks[z] + 1},
         OnTime(z, row[z], 1), StillToCome(z),
         Cap' = Cap, Cap \in Nat, Counted \in Nat, Counted' \in Nat,
         KnowsSerial(row[z], z) /\ now >= row[z].due =>
           Cardinality(InLine(row[z].due)') + Counted' <= Cardinality(InLine(row[z].due)) + Counted
  PROVE  StillToCome(z)'
<1>0. /\ z \in Zones /\ now \in Nat /\ changed[z] \in Nat /\ setbacks[z] \in Nat
      /\ Quiet \in Nat /\ Jitter[z] \in Nat /\ CapDivisor \in Nat
      /\ Limit(z) = changed[z] + Quiet + Jitter[z] + CapDivisor + setbacks[z]
      /\ Limit(z)' = changed[z] + Quiet + Jitter[z] + CapDivisor + setbacks'[z]
      /\ InTurn(z) /\ TypeOK'
  BY TypeStep, ResignAssumption DEF TypeOK, Limit, InTurn
<1>p. PICK r \in Row \cup {NoRow} : r = row[z]
  BY <1>0 DEF TypeOK
<1>1. KnowsSerial(r, z)' <=> KnowsSerial(r, z)
  BY DEF KnowsSerial
<1>2. SUFFICES ASSUME KnowsSerial(r, z), now >= r.due
               PROVE  Fits(Limit(z)' - now, Cardinality(InLine(r.due)') + Counted' - Cap,
                           Cardinality(signed'))
  BY <1>p, <1>1 DEF StillToCome
<1>3. PICK d \in {0, 1} : setbacks'[z] = setbacks[z] + d
  BY <1>0
<1>l. Limit(z) \in Int /\ Limit(z)' = Limit(z) + d /\ now \in Int
  <2>1. d \in Nat
    OBVIOUS
  <2>2. Limit(z) \in Int /\ now \in Int
    BY <1>0
  <2>3. Limit(z)' = changed[z] + Quiet + Jitter[z] + CapDivisor + (setbacks[z] + d)
    BY <1>0, <1>3
  <2>4. changed[z] + Quiet + Jitter[z] + CapDivisor + (setbacks[z] + d)
          = changed[z] + Quiet + Jitter[z] + CapDivisor + setbacks[z] + d
    BY <1>0, <2>1
  <2> QED
    BY <1>0, <2>2, <2>3, <2>4
<1> DEFINE k == Limit(z) - now
           a == Cardinality(InLine(r.due)) + Counted - Cap
           b == Cardinality(InLine(r.due)') + Counted' - Cap
           n == Cardinality(signed)
           m == Cardinality(signed')
<1>4. Fits(k, a, n)
  BY <1>p, <1>2 DEF StillToCome
<1>5. k \in Nat
  <2>1. Limit(z) - now + 1 >= 1
    BY <1>0, <1>p, SweepLeft
  <2> QED
    BY <1>0, <2>1
<1>6. n \in Nat \ {0} /\ m \in Nat \ {0} /\ (m = n \/ m = n + 1 \/ (m = n - 1 /\ d = 1))
  <2>1. setbacks'[z] = setbacks[z] + 1 => d = 1
    BY <1>0, <1>3
  <2> QED
    BY <2>1, SignedStep
<1>7. a \in Int /\ b \in Int /\ b <= a
  <2>1. Cardinality(InLine(r.due)) \in Nat /\ Cardinality(InLine(r.due)') \in Nat
    <3>1. InLine(r.due) \in SUBSET Zones /\ InLine(r.due)' \in SUBSET Zones
      BY <1>0 DEF InLine, Waiting, Ahead, TypeOK
    <3> QED
      BY <3>1, ZoneSets
  <2> QED
    BY <1>p, <1>2, <2>1
<1>8. Limit(z)' - now = k + d
  BY <1>l
<1> HIDE DEF k, a, b, n, m
<1>9. Fits(k + d, b, m)
  BY <1>4, <1>5, <1>6, <1>7, FitsOn
<1> QED
  BY <1>8, <1>9 DEF b, m

(* The list: what waits is the line. *)
LEMMA LineListed ==
  ASSUME FreshInv, [Next]_vars, List, NEW z \in signed, InTurn(z)
  PROVE  StillToCome(z)'
<1>0. /\ UNCHANGED <<now, row, signed, serial, changed, setbacks>> /\ pc = "list" /\ pc' = "scan"
      /\ DOMAIN listed' = signed /\ todo' = signed /\ before' = changed /\ bumped' = {}
  BY DEF List, moves, pdnsVars
<1>t. TypeOK /\ TypeOK' /\ z \in Zones /\ signed \subseteq Zones /\ signed' \subseteq Zones
  BY TypeStep DEF FreshInv, QuietInv, TypeOK
<1>p. PICK r \in Row \cup {NoRow} : r = row[z]
  BY <1>t DEF TypeOK
<1>1. OnTime(z, r, 1)
  BY <1>0, <1>p DEF FreshInv, RowsOnTime
<1>2. SUFFICES ASSUME KnowsSerial(r, z), now >= r.due
               PROVE  Fits(Limit(z) - now, Cardinality(InLine(r.due)') + Counted' - Cap',
                           Cardinality(signed))
  BY <1>0, <1>p DEF StillToCome, KnowsSerial, Limit
<1>3. InLine(r.due)' = Waiting(r.due)
  BY <1>0 DEF InLine, Waiting, Ahead
<1>4. Counted' = 0
  BY <1>0, FS_EmptySet DEF Counted
<1> DEFINE k == Limit(z) - now
           a == Cardinality(Waiting(r.due))
           n == Cardinality(signed)
           c == Cap'
<1>5. c \in Nat /\ c >= 1 /\ CapDivisor * c >= n
  <2>1. (Cap \in Nat /\ Cap >= 1 /\ CapDivisor * Cap >= Cardinality(DOMAIN listed))'
    BY <1>t, CapShares, PTL
  <2> QED
    BY <1>0, <2>1
<1>6. k \in Int /\ a \in Nat /\ n \in Nat
  <2>1. Waiting(r.due) \in SUBSET Zones /\ signed \in SUBSET Zones
    BY <1>t DEF Waiting
  <2> QED
    BY <1>t, <2>1, ZoneSets, ResignAssumption DEF Limit, TypeOK
<1>7. Fits(k + 1, a, n)
  BY <1>1, <1>2 DEF OnTime
<1> HIDE DEF k, a, n, c
<1>8. Fits(k, a - c, n)
  BY <1>5, <1>6, <1>7, FitsSweep
<1>9. a + 0 - c = a - c
  BY <1>5, <1>6
<1> QED
  BY <1>3, <1>4, <1>8, <1>9 DEF k, a, n, c

LEMMA LineStep == FreshInv /\ [Next]_vars => LineFits'
<1> SUFFICES ASSUME FreshInv, [Next]_vars, Sweeping', NEW z \in signed', InTurn(z)', z \in Ahead'
             PROVE  StillToCome(z)'
  BY DEF LineFits
<1>t. TypeOK /\ TypeOK' /\ QuietInv /\ z \in Zones
  BY TypeStep DEF FreshInv, QuietInv, TypeOK
<1>1. CASE List
  <2>1. z \in signed /\ InTurn(z)
    BY <1>1 DEF List, pdnsVars, moves, InTurn
  <2> QED
    BY <1>1, <2>1, LineListed
<1>2. CASE ~List
  <2>0. /\ Sweeping /\ UNCHANGED <<now, row, listed, before>> /\ Ahead' \subseteq Ahead
        /\ z \in Ahead
    BY <1>t, <1>2, SweepOn
  <2>p. PICK r \in Row \cup {NoRow} : r = row[z]
    BY <1>t DEF TypeOK
  <2>1. CASE changed'[z] = now /\ serial'[z] = serial[z] + 1
    <3>1. NotDueEarly(row[z], z) /\ serial[z] \in Nat
      BY <1>t DEF QuietInv, TypeOK
    <3>2. ~KnowsSerial(row[z], z)'
      BY <2>0, <2>1, <2>p, <3>1 DEF NotDueEarly, KnowsSerial, Row
    <3> QED
      BY <3>2 DEF StillToCome
  <2>2. CASE /\ changed'[z] = changed[z] /\ serial'[z] = serial[z] /\ z \in signed
             /\ setbacks'[z] \in {setbacks[z], setbacks[z] + 1}
    <3>1. InTurn(z)
      BY <1>t, <2>2, ResignAssumption DEF TypeOK, InTurn
    <3>2. OnTime(z, r, 1) /\ StillToCome(z)
      BY <2>0, <2>p, <2>2, <3>1 DEF FreshInv, RowsOnTime, LineFits, Sweeping
    <3>3. /\ Cap' = Cap /\ Cap \in Nat /\ Counted \in Nat /\ Counted' \in Nat
          /\ Counted' <= Counted \/ (Rewrite /\ Counted' = Counted + 1)
      BY <1>t, <1>2, CountedStep
    <3>4. ASSUME KnowsSerial(r, z), now >= r.due
          PROVE  Cardinality(InLine(r.due)') + Counted' <= Cardinality(InLine(r.due)) + Counted
      <4>1. r.due \in Nat
        BY <3>4, ResignAssumption DEF KnowsSerial, Row
      <4>2. InLine(r.due)' \subseteq InLine(r.due) /\ InLine(r.due) \in SUBSET Zones
        <5>1. Waiting(r.due)' \subseteq Waiting(r.due)
          BY <1>t, <3>4, <4>1, WaitingShrinks
        <5> QED
          BY <1>t, <2>0, <5>1 DEF InLine, Waiting, Ahead, TypeOK
      <4>3. Cardinality(InLine(r.due)') \in Nat /\ Cardinality(InLine(r.due)) \in Nat
            /\ Cardinality(InLine(r.due)') <= Cardinality(InLine(r.due))
            /\ IsFiniteSet(InLine(r.due))
        BY <4>2, ZoneSets
      <4>4. CASE Counted' <= Counted
        BY <3>3, <4>3, <4>4
      <4>5. CASE Rewrite /\ Counted' = Counted + 1
        <5>1. /\ pc = "bump" /\ target \in Zones /\ changed'[target] = now
              /\ pc' = "notify" /\ todo' = todo /\ target \notin todo
          BY <1>t, <4>5 DEF Rewrite, Move, QuietInv, TypeOK
        <5>2. before[target] < r.due
          <6>1. Limit(z) - now + 1 >= 1
            BY <1>t, <2>2, <3>1, <3>2, SweepLeft
          <6>2. changed[z] + Quiet + Jitter[z] <= r.due
            BY <3>2, <3>4 DEF OnTime
          <6>3. before[target] + Quiet <= now
            BY <1>t, <5>1 DEF QuietInv, BumpsOnlyQuiet
          <6>4. /\ CapDivisor + setbacks[z] < Quiet
                /\ Limit(z) = changed[z] + Quiet + Jitter[z] + CapDivisor + setbacks[z]
            BY <3>1 DEF InTurn, Limit
          <6>5. /\ changed[z] \in Nat /\ setbacks[z] \in Nat /\ now \in Nat /\ before[target] \in Nat
                /\ Quiet \in Nat /\ Jitter[z] \in Nat /\ CapDivisor \in Nat
            BY <1>t, <5>1, ResignAssumption DEF TypeOK
          <6> QED
            BY <4>1, <6>1, <6>2, <6>3, <6>4, <6>5
        <5>3. target \in InLine(r.due)
          BY <5>1, <5>2 DEF InLine, Ahead
        <5>4. target \notin InLine(r.due)'
          BY <1>t, <3>4, <4>1, <5>1 DEF InLine, Ahead, Waiting, TypeOK
        <5>5. InLine(r.due)' \subseteq InLine(r.due) \ {target}
          BY <4>2, <5>4
        <5>6. /\ Cardinality(InLine(r.due) \ {target}) = Cardinality(InLine(r.due)) - 1
              /\ IsFiniteSet(InLine(r.due) \ {target})
          BY <4>3, <5>3, FS_RemoveElement
        <5>7. Cardinality(InLine(r.due)') <= Cardinality(InLine(r.due) \ {target})
          BY <5>5, <5>6, FS_Subset
        <5> QED
          BY <3>3, <4>3, <4>5, <5>6, <5>7
      <4> QED
        BY <3>3, <4>4, <4>5
    <3> QED
      BY <1>t, <2>0, <2>p, <2>2, <3>2, <3>3, <3>4, StaysInLine
  <2> QED
    BY <1>t, <2>1, <2>2, MovesNow
<1> QED
  BY <1>1, <1>2

-----------------------------------------------------------------------------
(* A zone whose serial moved now may take all its time, whatever the row says. *)
LEMMA UnknownOnTime ==
  ASSUME TypeOK, NEW z \in Zones, changed[z] = now, NEW r \in Row \cup {NoRow},
         ~KnowsSerial(r, z)
  PROVE  OnTime(z, r, 0)
BY DEF OnTime, TypeOK

(* A timer set now runs the whole period. *)
LEMMA TimerOnTime ==
  ASSUME TypeOK, NEW z \in Zones, InTurn(z), changed[z] <= now,
         now <= changed[z] + setbacks[z] + 1, NEW s \in Nat
  PROVE  s = serial[z] => OnTime(z, [last |-> s, due |-> NextDue(z)], 0)
<1> DEFINE r == [last |-> s, due |-> NextDue(z)]
<1>1. /\ now \in Nat /\ changed[z] \in Nat /\ setbacks[z] \in Nat
      /\ Quiet \in Nat /\ Jitter[z] \in Nat /\ CapDivisor \in Nat /\ CapDivisor + setbacks[z] < Quiet
  BY ResignAssumption DEF TypeOK, InTurn
<1>2. /\ r.last = s /\ r.due = now + Quiet + Jitter[z] /\ now < r.due
      /\ changed[z] + Quiet + Jitter[z] <= r.due
      /\ r.due <= changed[z] + Quiet + Jitter[z] + setbacks[z] + 1
  BY <1>1 DEF NextDue
<1>3. ~(now >= r.due)
  BY <1>1, <1>2
<1>4. r \in Row
  BY <1>1 DEF Row, NextDue
<1> HIDE DEF r
<1>5. s = serial[z] => KnowsSerial(r, z)
  BY <1>2, <1>4, ResignAssumption DEF KnowsSerial, Row
<1> QED
  BY <1>2, <1>3, <1>5 DEF OnTime, r

(* What the loop makes of a zone it reaches. *)
LEMMA LoopOnTime ==
  ASSUME FreshInv, NEW z \in signed, InTurn(z), SetTimer(z) \/ Wait(z) \/ Capped(z)
  PROVE  OnTime(z, work[z], 0)'
<1>t. TypeOK /\ QuietInv /\ z \in Zones /\ z \in todo /\ pc = "scan"
  BY DEF FreshInv, QuietInv, TypeOK, SetTimer, Wait, Capped
<1>u. UNCHANGED <<now, row, pc, listed, target, bumped, before, signed, serial, changed, setbacks>>
  BY DEF SetTimer, Wait, Capped, moves, pdnsVars
<1>1. /\ z \in Ahead /\ z \in DOMAIN listed /\ Sweeping /\ work[z] = row[z]
      /\ listed[z] \in Nat /\ (serial[z] # listed[z] => changed[z] = now)
      /\ changed[z] <= now /\ changed[z] \in Nat /\ now \in Nat /\ setbacks[z] \in Nat
  BY <1>t DEF FreshInv, SweepInv, QuietInv, Ahead, TypeOK, Sweeping
<1>p. PICK r \in Row \cup {NoRow} : r = work[z]
  BY <1>t DEF TypeOK
<1>2. OnTime(z, r, 1) /\ StillToCome(z)
  BY <1>t, <1>1, <1>p DEF FreshInv, RowsOnTime, LineFits, OnTime
<1>3. CASE SetTimer(z)
  <2> DEFINE s == listed[z]
             q == [last |-> s, due |-> NextDue(z)]
  <2>1. ~KnowsSerial(r, z) \/ serial[z] # s
    BY <1>3, <1>p DEF SetTimer, Verdict, Classify, KnowsSerial
  <2>2. now <= changed[z] + setbacks[z] + 1
    BY <1>1, <1>2, <2>1 DEF OnTime
  <2>3. q \in Row
    BY <1>t, <1>1, NextDueLater DEF Row
  <2>4. OnTime(z, q, 0)
    <3>1. CASE s = serial[z]
      BY <1>t, <1>1, <2>2, <3>1, TimerOnTime
    <3>2. CASE s # serial[z]
      <4>1. ~KnowsSerial(q, z)
        BY <3>2 DEF KnowsSerial
      <4> HIDE DEF q
      <4> QED
        BY <1>t, <1>1, <2>3, <3>2, <4>1, UnknownOnTime
    <3> QED
      BY <3>1, <3>2
  <2>5. work'[z] = q
    BY <1>3, <1>t DEF SetTimer, TypeOK
  <2> HIDE DEF q
  <2> QED
    BY <1>u, <2>4, <2>5 DEF OnTime, KnowsSerial, Limit, Waiting
<1>4. CASE Wait(z) \/ Capped(z)
  <2>1. work' = work
    BY <1>4 DEF Wait, Capped
  <2>2. CASE ~KnowsSerial(r, z)
    <3>1. serial[z] # listed[z]
      BY <1>4, <1>p, <2>2 DEF Wait, Capped, Verdict, Classify, KnowsSerial
    <3>2. OnTime(z, r, 0)
      BY <1>t, <1>1, <2>2, <3>1, UnknownOnTime
    <3> QED
      BY <1>u, <1>p, <2>1, <3>2 DEF OnTime, KnowsSerial, Limit, Waiting
  <2>3. CASE KnowsSerial(r, z) /\ now < r.due
    <3>1. OnTime(z, r, 0)
      <4>1. r.due \in Nat
        BY <2>3, ResignAssumption DEF KnowsSerial, Row
      <4>2. ~(now >= r.due)
        BY <1>1, <2>3, <4>1
      <4> QED
        BY <1>2, <2>3, <4>2 DEF OnTime
    <3> QED
      BY <1>u, <1>p, <2>1, <3>1 DEF OnTime, KnowsSerial, Limit, Waiting
  <2>4. CASE KnowsSerial(r, z) /\ ~(now < r.due)
    <3>1. r.due \in Nat /\ now >= r.due
      BY <1>1, <2>4, ResignAssumption DEF KnowsSerial, Row
    <3>2. Cardinality(bumped) >= Cap
      BY <1>4, <1>p, <2>4, <3>1 DEF Wait, Capped, Verdict, Classify, KnowsSerial
    <3> DEFINE k == Limit(z) - now
               a == Cardinality(InLine(r.due)) + Counted - Cap
               b == Cardinality(Waiting(r.due))
               n == Cardinality(signed)
    <3>3. Fits(k, a, n)
      BY <1>1, <1>2, <1>p, <2>4, <3>1 DEF StillToCome
    <3>4. /\ InLine(r.due) \in SUBSET Zones /\ Waiting(r.due) \in SUBSET InLine(r.due)
          /\ signed \in SUBSET Zones /\ bumped \in SUBSET Zones
      BY <1>t DEF InLine, Waiting, Ahead, TypeOK
    <3>5. /\ Cardinality(InLine(r.due)) \in Nat /\ b \in Nat /\ n \in Nat
          /\ b <= Cardinality(InLine(r.due)) /\ Cardinality(bumped) \in Nat /\ Cap \in Nat
      BY <1>t, <3>4, ZoneSets, CapNat
    <3>6. Counted = Cardinality(bumped) /\ a \in Int /\ b <= a
      BY <1>t, <3>2, <3>5 DEF Counted
    <3>7. k \in Int
      BY <1>t, <1>1, ResignAssumption DEF Limit
    <3> HIDE DEF k, a, b, n
    <3>8. Fits(k, b, n)
      BY <3>3, <3>5, <3>6, <3>7, FitsFewer
    <3>9. Limit(z) - now + 0 = Limit(z) - now
      BY <3>7 DEF k
    <3>10. OnTime(z, r, 0)
      BY <1>2, <2>4, <3>8, <3>9 DEF OnTime, k, b, n
    <3> QED
      BY <1>u, <1>p, <2>1, <3>10 DEF OnTime, KnowsSerial, Limit, Waiting
  <2> QED
    BY <2>2, <2>3, <2>4
<1> QED
  BY <1>3, <1>4

(* A bump that ends leaves its zone the sweep it has lost, or a serial that has moved. *)
LEMMA BumpOnTime ==
  ASSUME FreshInv, [Next]_vars, BumpFails \/ BumpGone \/ ReadBack,
         NEW z \in signed', z = target, InTurn(z)'
  PROVE  OnTime(z, work[z], 0)'
<1>t. TypeOK /\ TypeOK' /\ QuietInv /\ z \in Zones /\ pc \in {"bump", "notify", "readback"}
  BY TypeStep DEF FreshInv, QuietInv, TypeOK, BumpFails, BumpGone, ReadBack
<1>0. UNCHANGED <<now, row, signed, serial, changed>> /\ z \in signed
  BY DEF BumpFails, BumpGone, ReadBack, moves, pdnsVars
<1>s. setbacks[z] \in Nat /\ (setbacks'[z] = setbacks[z] \/ (BumpFails /\ setbacks'[z] = setbacks[z] + 1))
  BY <1>t DEF BumpFails, BumpGone, ReadBack, Fail, Setback, pdnsVars, TypeOK
<1>1. InTurn(z)
  BY <1>t, <1>0, <1>s, ResignAssumption DEF InTurn
<1>p. PICK r \in Row \cup {NoRow} : r = work[z]
  BY <1>t DEF TypeOK
<1>2. /\ pc = "bump" => r = row[z] /\ OnTime(z, r, 1)
      /\ pc # "bump" => changed[z] = now /\ ~KnowsSerial(r, z)
  BY <1>t, <1>0, <1>1, <1>p
     DEF FreshInv, SweepInv, RowsOnTime, Sweeping, Ahead, OnTime, KnowsSerial
<1>3. CASE BumpGone
  BY <1>0, <1>3 DEF BumpGone
<1>4. CASE BumpFails
  <2>1. work' = work /\ setbacks'[z] = setbacks[z] + 1
    BY <1>4, <1>t DEF BumpFails, Fail, Setback
  <2>2. CASE pc = "bump"
    <3>1. setbacks'[z] + 0 = setbacks[z] + 1 + 0
      BY <1>s, <2>1
    <3>2. OnTime(z, r, 0)'
      BY <1>t, <1>0, <1>2, <2>1, <2>2, <3>1, StaysOnTime
    <3> QED
      BY <1>p, <2>1, <3>2 DEF OnTime
  <2>3. CASE pc # "bump"
    BY <1>t, <1>0, <1>p, <1>2, <2>1, <2>3 DEF OnTime, KnowsSerial, TypeOK
  <2> QED
    BY <2>2, <2>3
<1>5. CASE ReadBack
  <2>1. PICK s \in Nat : s = serial[z]
    BY <1>t DEF TypeOK
  <2>2. PICK d \in Nat : d = NextDue(z)
    BY <1>t, NextDueLater
  <2>3. changed[z] = now /\ changed[z] \in Nat
    BY <1>5, <1>t, <1>2 DEF ReadBack, TypeOK
  <2>4. now <= changed[z] + setbacks[z] + 1 /\ changed[z] <= now
    BY <2>3, <1>s
  <2>5. OnTime(z, [last |-> s, due |-> NextDue(z)], 0)
    BY <1>t, <1>1, <2>1, <2>4, TimerOnTime
  <2>6. OnTime(z, [last |-> s, due |-> d], 0)
    BY <2>2, <2>5 DEF OnTime
  <2>7. work'[z] = [last |-> s, due |-> d] /\ setbacks' = setbacks
    BY <1>5, <1>t, <2>1, <2>2 DEF ReadBack, SerialRead, TypeOK, pdnsVars
  <2> QED
    BY <1>0, <2>6, <2>7 DEF OnTime, KnowsSerial, Limit, Waiting
<1> QED
  BY <1>3, <1>4, <1>5

(* A zone the sweep is done with: it was done with it before, the loop has just
   reached it, or its bump has just ended. *)
LEMMA HandledStep ==
  ASSUME QuietInv, [Next]_vars, Sweeping', ~List, NEW z \in Zones, Handled(z)'
  PROVE  \/ Handled(z) /\ work'[z] = work[z]
         \/ SetTimer(z) \/ Wait(z) \/ Capped(z)
         \/ z = target /\ (BumpFails \/ BumpGone \/ ReadBack)
<1> USE DEF Handled, QuietInv, TypeOK, vars, session, moves, pdnsVars, counts
<1>1. CASE Others
  BY <1>1 DEF Others, Edit, Enable, Disable
<1>2. ASSUME NEW y \in Zones, SetTimer(y) \/ Wait(y) \/ Capped(y) \/ StartBump(y)
      PROVE  \/ Handled(z) /\ work'[z] = work[z]
             \/ SetTimer(z) \/ Wait(z) \/ Capped(z)
  <2>1. CASE y = z
    BY <1>2, <2>1 DEF StartBump
  <2>2. CASE y # z
    BY <1>2, <2>2 DEF SetTimer, Wait, Capped, StartBump
  <2> QED
    BY <2>1, <2>2
<1>3. CASE Rewrite \/ Notify
  BY <1>3 DEF Rewrite, Notify
<1>4. CASE ReadBack \/ BumpFails \/ BumpGone
  BY <1>4 DEF ReadBack, BumpFails, BumpGone
<1>5. CASE UNCHANGED vars
  BY <1>5
<1>6. ~Wake /\ ~Oversleep /\ ~Commit /\ ~Abandon
  BY SweepOn
<1> QED
  BY <1>1, <1>2, <1>3, <1>4, <1>5, <1>6 DEF Next, Sweep

LEMMA WorkStep == FreshInv /\ [Next]_vars => WorkOnTime'
<1> SUFFICES ASSUME FreshInv, [Next]_vars, Sweeping', NEW z \in signed', InTurn(z)', Handled(z)'
             PROVE  OnTime(z, work[z], 0)'
  BY DEF WorkOnTime
<1>t. TypeOK /\ TypeOK' /\ QuietInv /\ z \in Zones
  BY TypeStep DEF FreshInv, QuietInv, TypeOK
<1>1. CASE List
  BY <1>1, <1>t DEF List, Handled
<1>2. CASE ~List
  <2>0. Sweeping /\ now' = now /\ ~Wake /\ ~Oversleep /\ ~Commit /\ ~Abandon
    BY <1>t, <1>2, SweepOn
  <2>p. PICK r \in Row \cup {NoRow} : r = work[z]
    BY <1>t DEF TypeOK
  <2>1. CASE changed'[z] = now /\ serial'[z] = serial[z] + 1 /\ setbacks'[z] = 0 /\ work' = work
    <3>1. NotDueEarly(r, z)
      BY <1>t, <2>p DEF QuietInv, NotDueEarly
    <3>2. OnTime(z, r, 0)'
      BY <1>t, <2>0, <2>1, <3>1, JustMoved
    <3> QED
      BY <2>p, <2>1, <3>2 DEF OnTime
  <2>2. CASE /\ changed'[z] = changed[z] /\ serial'[z] = serial[z] /\ z \in signed
             /\ setbacks'[z] \in {setbacks[z], setbacks[z] + 1}
    <3>1. InTurn(z) /\ setbacks[z] \in Nat
      BY <1>t, <2>2, ResignAssumption DEF TypeOK, InTurn
    <3>2. CASE Handled(z) /\ work'[z] = work[z]
      <4>1. OnTime(z, r, 0)
        BY <2>0, <2>p, <2>2, <3>1, <3>2 DEF FreshInv, WorkOnTime, OnTime
      <4>2. PICK d \in {0, 1} : setbacks'[z] + 0 = setbacks[z] + 0 + d
        <5>1. CASE setbacks'[z] = setbacks[z]
          BY <3>1, <5>1
        <5>2. CASE setbacks'[z] = setbacks[z] + 1
          BY <3>1, <5>2
        <5> QED
          BY <2>2, <5>1, <5>2
      <4>3. setbacks'[z] = setbacks[z] + 1 => d = 1
        BY <3>1, <4>2
      <4>4. OnTime(z, r, 0)'
        BY <1>t, <2>0, <2>2, <4>1, <4>2, <4>3, StaysOnTime
      <4> QED
        BY <2>p, <3>2, <4>4 DEF OnTime
    <3>3. CASE SetTimer(z) \/ Wait(z) \/ Capped(z)
      BY <2>2, <3>1, <3>3, LoopOnTime
    <3>4. CASE z = target /\ (BumpFails \/ BumpGone \/ ReadBack)
      BY <3>4, BumpOnTime
    <3> QED
      BY <1>t, <1>2, <3>2, <3>3, <3>4, HandledStep
  <2> QED
    BY <1>t, <2>1, <2>2, MovesNow
<1> QED
  BY <1>1, <1>2

-----------------------------------------------------------------------------
LEMMA InitFresh == Init => FreshInv
BY InitQuiet DEF Init, FreshInv, SweepInv, RowsOnTime, LineFits, WorkOnTime, Sweeping

LEMMA FreshStep == FreshInv /\ [Next]_vars => FreshInv'
<1> SUFFICES ASSUME FreshInv, [Next]_vars PROVE FreshInv'
  OBVIOUS
<1>1. QuietInv' /\ SweepInv'
  BY QuietStep, SweepStep DEF FreshInv
<1>2. RowsOnTime' /\ LineFits' /\ WorkOnTime'
  BY RowsStep, LineStep, WorkStep
<1> QED
  BY <1>1, <1>2 DEF FreshInv

(* As long as the sweeps fit in the quiet period, the serial of a signed zone moves
   again before its limit, whatever others do meanwhile and whatever fails. *)
THEOREM SignaturesStayFresh == Spec => []Fresh
<1>1. FreshInv => Fresh
  <2> SUFFICES ASSUME FreshInv, NEW z \in signed, InTurn(z) PROVE now <= Limit(z)
    BY DEF Fresh
  <2>t. TypeOK /\ z \in Zones /\ now \in Nat
    BY DEF FreshInv, QuietInv, TypeOK
  <2>p. PICK r \in Row \cup {NoRow} : r = row[z]
    BY <2>t DEF TypeOK
  <2>1. PICK e \in {0, 1} : e = IF pc = "sleep" THEN 0 ELSE 1
    OBVIOUS
  <2>2. OnTime(z, r, e)
    BY <2>p, <2>1 DEF FreshInv, RowsOnTime, OnTime
  <2> QED
    BY <2>t, <2>2, SweepLeft
<1> QED
  BY <1>1, InitFresh, FreshStep, PTL DEF Spec
=============================================================================
