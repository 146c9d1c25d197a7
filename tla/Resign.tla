------------------------------- MODULE Resign -------------------------------
(***************************************************************************)
(* The DNSSEC re-sign scheduler (app/mojodns/resign.py), the loop of       *)
(* main.py that runs it, and the users and programs that move serials and  *)
(* switch DNSSEC on and off meanwhile.                                     *)
(*                                                                         *)
(* One tick of the clock is one sleep of periodic_resign.  A sweep lists   *)
(* the signed zones in one call, then goes through that list; its database *)
(* session is committed once, at the end.  A serial is a version number:   *)
(* only its changes matter.                                                *)
(***************************************************************************)
EXTENDS Integers, FiniteSets

CONSTANTS
  Zones,        \* zones that may be signed
  Quiet,        \* dnssec_resign_quiet_hours, in ticks
  Jitter,       \* jitter_seconds of each zone, in ticks
  CapDivisor,   \* _CAP_DIVISOR
  NoRow,        \* no zone_signing row
  NoZone,       \* no zone
  MaxTime,      \* bound on the clock
  MaxChanges,   \* bound on the changes made by others
  MaxFailures   \* bound on the failures

ASSUME ResignAssumption ==
  /\ IsFiniteSet(Zones)
  /\ Quiet \in Nat /\ Jitter \in [Zones -> Nat]
  /\ CapDivisor \in Nat \ {0}
  /\ NoZone \notin Zones
  /\ NoRow \notin [last : Nat, due : Nat]
  /\ MaxTime \in Nat /\ MaxChanges \in Nat /\ MaxFailures \in Nat

VARIABLES
  now,       \* the clock
  signed,    \* zones with DNSSEC in PowerDNS
  serial,    \* their serials
  row,       \* row[z]: the committed zone_signing row
  pc,        \* where the sweep is
  listed,    \* listed[z]: the serial of each signed zone, as listed
  work,      \* the rows as the session holds them
  todo,      \* listed zones the loop has not reached
  target,    \* the zone being bumped
  bumped,    \* the list "bumped"
  changed,   \* history: when the serial last moved
  before,    \* history: changed, when the sweep listed the zones
  written,   \* history: the zones this sweep has rewritten
  changes,   \* history: how often others moved a serial
  failures,  \* history: how many calls, sweeps or sleeps failed
  setbacks   \* history: setbacks[z]: the failures, and the zones that have left
             \* DNSSEC, since the serial of z last moved

session == <<listed, work, todo, target, bumped, before, written>>
moves   == <<signed, serial, changed>>
pdnsVars == <<moves, setbacks>>
counts  == <<changes, failures>>
vars    == <<now, row, pc, session, pdnsVars, counts>>

Row == [last : Nat, due : Nat]

Init ==
  /\ now = 0
  /\ signed = {}
  /\ serial = [z \in Zones |-> 0]
  /\ row = [z \in Zones |-> NoRow]
  /\ pc = "sleep"
  /\ listed = [z \in {} |-> 0]
  /\ work = [z \in Zones |-> NoRow]
  /\ todo = {} /\ target = NoZone /\ bumped = {}
  /\ changed = [z \in Zones |-> 0]
  /\ before = [z \in Zones |-> 0] /\ written = {}
  /\ changes = 0 /\ failures = 0
  /\ setbacks = [z \in Zones |-> 0]

-----------------------------------------------------------------------------
(* PowerDNS: the serial of z moves *)
Move(z) ==
  /\ serial' = [serial EXCEPT ![z] = @ + 1]
  /\ changed' = [changed EXCEPT ![z] = now]
  /\ setbacks' = [setbacks EXCEPT ![z] = 0]

(* what may keep the sweeps from a zone *)
Setback == setbacks' = [z \in Zones |-> setbacks[z] + 1]

(* a change by the panel, the API, an ACME client or a dynamic update *)
Edit(z) ==
  /\ changes < MaxChanges
  /\ changes' = changes + 1
  /\ Move(z)
  /\ UNCHANGED <<now, signed, row, pc, session, failures>>

(* zone_dnssec_enable: the rectify moves the serial *)
Enable(z) ==
  /\ changes < MaxChanges
  /\ z \notin signed
  /\ signed' = signed \cup {z}
  /\ changes' = changes + 1
  /\ Move(z)
  /\ UNCHANGED <<now, row, pc, session, failures>>

(* zone_dnssec_disable, or the deletion of the zone *)
Disable(z) ==
  /\ changes < MaxChanges
  /\ z \in signed
  /\ signed' = signed \ {z}
  /\ changes' = changes + 1
  /\ Setback
  /\ UNCHANGED <<now, serial, changed, row, pc, session, failures>>

-----------------------------------------------------------------------------
(* next_due *)
NextDue(z) == now + Quiet + Jitter[z]

(* mutant: a moved serial does not restart the timer *)
ClassifyNoReset(r, s) == IF now >= r.due THEN "bump" ELSE "wait"

(* classify, of a row whose serial and due time are known *)
Classify(r, s) ==
  CASE s # r.last                  -> "reset"
    [] s = r.last /\ now >= r.due  -> "bump"
    [] OTHER                       -> "wait"

(* what the loop does with the zone; no row means a new zone *)
Verdict(z) == IF work[z] = NoRow THEN "new" ELSE Classify(work[z], listed[z])

(* mutant: rounded down, and without the minimum of one *)
CapFloor == Cardinality(DOMAIN listed) \div CapDivisor

(* max(1, ceil(len(signed) / _CAP_DIVISOR)) *)
Cap ==
  LET n == Cardinality(DOMAIN listed) IN
  IF n = 0 THEN 1 ELSE (n + CapDivisor - 1) \div CapDivisor

(* the session is closed, and the loop sleeps again *)
Close ==
  /\ pc' = "sleep"
  /\ listed' = [z \in {} |-> 0]
  /\ work' = [z \in Zones |-> NoRow]
  /\ todo' = {} /\ target' = NoZone /\ bumped' = {}
  /\ before' = [z \in Zones |-> 0] /\ written' = {}

(* periodic_resign wakes up *)
Wake ==
  /\ pc = "sleep" /\ now < MaxTime
  /\ now' = now + 1
  /\ pc' = "list"
  /\ UNCHANGED <<row, session, pdnsVars, counts>>

(* list_zones, then the rows of the table *)
List ==
  /\ pc = "list"
  /\ listed' = [z \in signed |-> serial[z]]
  /\ todo' = signed
  /\ work' = row
  /\ before' = changed
  /\ target' = NoZone /\ bumped' = {} /\ written' = {}
  /\ pc' = "scan"
  /\ UNCHANGED <<now, row, pdnsVars, counts>>

(* a new zone, or one whose serial moved: its timer is set *)
SetTimer(z) ==
  /\ pc = "scan" /\ z \in todo
  /\ Verdict(z) \in {"new", "reset"}
  /\ work' = [work EXCEPT ![z] = [last |-> listed[z], due |-> NextDue(z)]]
  /\ todo' = todo \ {z}
  /\ UNCHANGED <<now, row, pc, listed, target, bumped, before, written, pdnsVars, counts>>

Wait(z) ==
  /\ pc = "scan" /\ z \in todo
  /\ Verdict(z) = "wait"
  /\ todo' = todo \ {z}
  /\ UNCHANGED <<now, row, pc, listed, work, target, bumped, before, written, pdnsVars, counts>>

(* due, but the cap is reached: the next sweep will catch it *)
Capped(z) ==
  /\ pc = "scan" /\ z \in todo
  /\ Verdict(z) = "bump"
  /\ Cardinality(bumped) >= Cap
  /\ todo' = todo \ {z}
  /\ UNCHANGED <<now, row, pc, listed, work, target, bumped, before, written, pdnsVars, counts>>

StartBump(z) ==
  /\ pc = "scan" /\ z \in todo
  /\ Verdict(z) = "bump"
  /\ Cardinality(bumped) < Cap
  /\ target' = z
  /\ todo' = todo \ {z}
  /\ pc' = "bump"
  /\ UNCHANGED <<now, row, listed, work, bumped, before, written, pdnsVars, counts>>

(* _bump_serial: the SOA is read and written back, and the serial moves *)
Rewrite ==
  /\ pc = "bump"
  /\ Move(target)
  /\ written' = written \cup {target}
  /\ pc' = "notify"
  /\ UNCHANGED <<now, signed, row, listed, work, todo, target, bumped, before, counts>>

(* mutant: a zone that has been notified does not count as bumped *)
NotifyUncounted ==
  /\ pc = "notify"
  /\ pc' = "readback"
  /\ UNCHANGED <<now, row, listed, work, todo, target, bumped, before, written, pdnsVars, counts>>

(* _bump_serial: notify_zone; then the zone counts as bumped *)
Notify ==
  /\ pc = "notify"
  /\ bumped' = bumped \cup {target}
  /\ pc' = "readback"
  /\ UNCHANGED <<now, row, listed, work, todo, target, before, written, pdnsVars, counts>>

(* mutant: the answer has no serial, and nothing stands in for it *)
SerialReadNone(z) == NoRow

(* get_zone(name).get("serial") after the bump *)
SerialRead(z) == serial[z]

ReadBack ==
  /\ pc = "readback"
  /\ work' = [work EXCEPT ![target] = [last |-> SerialRead(target), due |-> NextDue(target)]]
  /\ target' = NoZone
  /\ pc' = "scan"
  /\ UNCHANGED <<now, row, listed, todo, bumped, before, written, pdnsVars, counts>>

(* rows of zones that are no longer signed are forgotten *)
Kept == [z \in Zones |-> IF z \in DOMAIN listed THEN work[z] ELSE NoRow]

Commit ==
  /\ pc = "scan" /\ todo = {}
  /\ row' = Kept
  /\ Close
  /\ UNCHANGED <<now, pdnsVars, counts>>

-----------------------------------------------------------------------------
Fail == failures < MaxFailures /\ failures' = failures + 1 /\ Setback

(* a call of the bump fails: it is logged and the loop goes on *)
BumpFails ==
  /\ pc \in {"bump", "notify", "readback"}
  /\ Fail
  /\ target' = NoZone
  /\ pc' = "scan"
  /\ UNCHANGED <<now, row, listed, work, todo, bumped, before, written, moves, changes>>

(* the zone has been deleted since it was listed: its SOA cannot be read *)
BumpGone ==
  /\ pc = "bump" /\ target \notin signed
  /\ target' = NoZone
  /\ pc' = "scan"
  /\ UNCHANGED <<now, row, listed, work, todo, bumped, before, written, pdnsVars, counts>>

(* list_zones or the commit fails, or the panel restarts: the session is lost *)
Abandon ==
  /\ pc # "sleep"
  /\ Fail
  /\ Close
  /\ UNCHANGED <<now, row, moves, changes>>

(* the panel restarts while the loop sleeps, and the sleep begins again *)
Oversleep ==
  /\ pc = "sleep" /\ now < MaxTime
  /\ Fail
  /\ now' = now + 1
  /\ UNCHANGED <<row, pc, session, moves, changes>>

Others == \E z \in Zones : Edit(z) \/ Enable(z) \/ Disable(z)

Sweep ==
  \/ Wake \/ List
  \/ \E z \in Zones : SetTimer(z) \/ Wait(z) \/ Capped(z) \/ StartBump(z)
  \/ Rewrite \/ Notify \/ ReadBack \/ Commit
  \/ BumpFails \/ BumpGone \/ Abandon \/ Oversleep

Next == Others \/ Sweep

Spec == Init /\ [][Next]_vars
-----------------------------------------------------------------------------
TypeOK ==
  /\ now \in Nat
  /\ signed \subseteq Zones
  /\ serial \in [Zones -> Nat]
  /\ row \in [Zones -> Row \cup {NoRow}]
  /\ pc \in {"sleep", "list", "scan", "bump", "notify", "readback"}
  /\ DOMAIN listed \subseteq Zones
  /\ \A z \in DOMAIN listed : listed[z] \in Nat
  /\ work \in [Zones -> Row \cup {NoRow}]
  /\ todo \subseteq DOMAIN listed
  /\ target \in Zones \cup {NoZone}
  /\ pc \in {"bump", "notify", "readback"} => target \in DOMAIN listed
  /\ bumped \subseteq Zones /\ written \subseteq Zones
  /\ changed \in [Zones -> Nat] /\ before \in [Zones -> Nat]
  /\ changes \in Nat /\ failures \in Nat /\ setbacks \in [Zones -> Nat]

(* A zone is bumped only when it has been quiet: the sweep listed it when its
   serial had not moved for the quiet period, whatever moved it (a user, or an
   earlier bump of a sweep that crashed or failed before its commit). *)
BumpsOnlyQuiet == pc = "bump" => before[target] + Quiet <= now

(* Signatures never get old: the serial of a signed zone moves within the quiet
   period, its jitter and the CapDivisor sweeps in which the cap lets every zone
   that is due at once have its turn.  Each failure since its last move costs one
   sweep more, and so does each zone that has left DNSSEC, as it lowers the cap.
   Secondaries transfer a zone when its serial moves, so this bounds the age of
   the RRSIGs they serve.  The sweeps must fit in the quiet period, or zones
   bumped first are due again before the others had their turn. *)
Limit(z) == changed[z] + Quiet + Jitter[z] + CapDivisor + setbacks[z]

InTurn(z) == CapDivisor + setbacks[z] < Quiet

Fresh == \A z \in signed : InTurn(z) => now <= Limit(z)

(* A sweep never rewrites more zones than the cap ("hard peak ceiling"), as
   long as no call fails: a bump whose NOTIFY fails is not counted. *)
PeakCeilingIfNoFailure == failures = 0 => Cardinality(written) <= Cap

-----------------------------------------------------------------------------
(***************************************************************************)
(* The inductive invariant behind BumpsOnlyQuiet: a row that knows the     *)
(* current serial of its zone is not due before the quiet period is over.  *)
(***************************************************************************)
NotDueEarly(r, z) ==
  r # NoRow => /\ r.last <= serial[z]
               /\ r.last = serial[z] => r.due >= changed[z] + Quiet

(* ... which the sweep relies on for the zones it has still to look at *)
AsListed(z) ==
  /\ listed[z] <= serial[z]
  /\ z \in todo /\ work[z] # NoRow /\ work[z].last = listed[z]
       => work[z].due >= before[z] + Quiet

QuietInv ==
  /\ TypeOK
  /\ \A z \in Zones : changed[z] <= now /\ NotDueEarly(row[z], z) /\ NotDueEarly(work[z], z)
  /\ \A z \in DOMAIN listed : AsListed(z)
  /\ target \notin todo
  /\ BumpsOnlyQuiet

(* The one behind PeakCeilingIfNoFailure: without failures what is rewritten
   is counted. *)
CountInv ==
  failures = 0 =>
    /\ written = bumped \cup (IF pc = "notify" THEN {target} ELSE {})
    /\ Cardinality(bumped) <= Cap
    /\ pc \in {"bump", "notify"} => Cardinality(bumped) < Cap

(***************************************************************************)
(* The one behind Fresh, for a zone z whose turn must come.  A row knows z *)
(* when it holds its current serial: the timer runs.  Once z is due, the   *)
(* zones that wait with it (those that have not moved since) must fit in   *)
(* the sweeps that are left, even if every sweep is followed by a zone     *)
(* that leaves, lowering the cap and adding a sweep: a zones that wait,    *)
(* among n, fit in k sweeps.                                               *)
(***************************************************************************)
Fits(k, a, n) ==
  \A m \in 1 .. n : CapDivisor * a <= (k + n - m) * m \/ a <= k + n - m

KnowsSerial(r, z) == r # NoRow /\ r.last = serial[z]

Waiting(due) == {y \in signed : changed[y] < due}

(* What the row r promises of z, with "extra" sweeps before the clock moves *)
OnTime(z, r, extra) ==
  /\ ~KnowsSerial(r, z) => now <= changed[z] + setbacks[z] + extra
  /\ KnowsSerial(r, z) =>
       /\ changed[z] + Quiet + Jitter[z] <= r.due
       /\ r.due <= changed[z] + Quiet + Jitter[z] + setbacks[z] + 1
       /\ now >= r.due =>
            Fits(Limit(z) - now + extra, Cardinality(Waiting(r.due)), Cardinality(signed))

Sweeping == pc \notin {"sleep", "list"}

(* the zones the sweep may still bump *)
Ahead == todo \cup (IF pc = "bump" THEN {target} ELSE {})

Handled(z) == z \in DOMAIN listed /\ z \notin todo /\ (pc = "scan" \/ z # target)

(* ... which counts against the cap *)
Counted == Cardinality(bumped) + (IF pc = "notify" THEN 1 ELSE 0)

InLine(due) == Waiting(due) \cup {y \in Ahead : before[y] < due}

(* What the cap leaves of the line fits in the sweeps that remain after this. *)
StillToCome(z) ==
  KnowsSerial(row[z], z) /\ now >= row[z].due =>
    Fits(Limit(z) - now, Cardinality(InLine(row[z].due)) + Counted - Cap,
         Cardinality(signed))

RowsOnTime ==
  \A z \in signed : InTurn(z) => OnTime(z, row[z], IF pc = "sleep" THEN 0 ELSE 1)

LineFits ==
  Sweeping => \A z \in signed : InTurn(z) /\ z \in Ahead => StillToCome(z)

WorkOnTime ==
  Sweeping => \A z \in signed : InTurn(z) /\ Handled(z) => OnTime(z, work[z], 0)

(* During a sweep the clock stands still, what has moved since the list has moved
   now, and the session's rows are the committed ones until a zone is handled. *)
SweepInv ==
  Sweeping =>
    /\ \A z \in signed : z \notin DOMAIN listed \/ serial[z] # listed[z] => changed[z] = now
    /\ \A z \in Ahead : work[z] = row[z]
    /\ pc \in {"notify", "readback"} =>
         changed[target] = now /\ ~KnowsSerial(work[target], target)

FreshInv == QuietInv /\ SweepInv /\ RowsOnTime /\ LineFits /\ WorkOnTime
=============================================================================
