------------------------------ MODULE Records ------------------------------
(***************************************************************************)
(* Editing the records of a zone: the record, SPF and SOA forms of the     *)
(* panel (routers/zones.py), the DDNS API (routers/ddns.py), the API for   *)
(* ACME clients (routers/pdns_compat.py) and the SOA rewrite of the        *)
(* re-sign scheduler.                                                      *)
(*                                                                         *)
(* PowerDNS replaces a record set as a whole, so nearly every handler      *)
(* reads the zone, edits its copy of one record set and writes that back,  *)
(* call by call and without a lock.  Then it sends NOTIFY.                 *)
(***************************************************************************)
EXTENDS RecordEdits, Naturals

CONSTANTS
  Requests,     \* the threads: requests, and the scheduler
  Nothing,      \* no edit
  OnePerRrset,  \* edits of one record set do not overlap
  Faults,       \* calls may fail
  MaxEdits      \* bound on the number of requests

ASSUME RecordsAssumption ==
  /\ Nothing \notin AnyEdit
  /\ OnePerRrset \in BOOLEAN /\ Faults \in BOOLEAN
  /\ MaxEdits \in Nat

VARIABLES
  rrset,   \* the zone in PowerDNS
  untold,  \* record sets the panel has changed since it last sent NOTIFY
  pc,      \* pc[r]: the next call of r
  job,     \* job[r]: the edit r was asked for
  copy,    \* copy[r]: the record set as r has read it
  failed,  \* history: a call has failed
  edits    \* history: the number of requests, up to MaxEdits

vars == <<rrset, untold, pc, job, copy, failed, edits>>

Init ==
  /\ \E s \in RecordSet \ {Absent} : rrset = [n \in Rrset |-> IF n \in Soa THEN s ELSE Absent]
  /\ untold = {}
  /\ pc = [r \in Requests |-> "idle"]
  /\ job = [r \in Requests |-> Nothing]
  /\ copy = [r \in Requests |-> Absent]
  /\ failed = FALSE /\ edits = 0

Goto(r, l) == pc' = [pc EXCEPT ![r] = l]

(* the handler returns *)
Finish(r) ==
  /\ Goto(r, "idle")
  /\ job' = [job EXCEPT ![r] = Nothing]
  /\ copy' = [copy EXCEPT ![r] = Absent]

Free(e) == \A r \in Requests : job[r] # Nothing => Touched(job[r]) \cap Touched(e) = {}

(* A request arrives, or the scheduler comes to the zone. zone_patch writes
   what its client sends; the others read the zone first. *)
Start(r) ==
  /\ pc[r] = "idle" /\ edits < MaxEdits
  /\ edits' = edits + 1
  /\ \E e \in Edit :
       /\ OnePerRrset => Free(e)
       /\ job' = [job EXCEPT ![r] = e]
       /\ Goto(r, IF e.op = "patch" THEN "patch" ELSE "read")
  /\ UNCHANGED <<rrset, untold, copy, failed>>

(* zone_notify: the client of zone_patch asks for a NOTIFY *)
StartNotify(r) ==
  /\ pc[r] = "idle" /\ edits < MaxEdits
  /\ edits' = edits + 1
  /\ Goto(r, "notify")
  /\ UNCHANGED <<rrset, untold, job, copy, failed>>

(* patch_rrsets with what the client wants; NOTIFY is left to it *)
Patch(r) ==
  LET e == job[r] IN
  /\ pc[r] = "patch"
  /\ rrset' = [rrset EXCEPT ![e.at] = After(e, @)]
  /\ Finish(r)
  /\ UNCHANGED <<untold, failed, edits>>

(* ddns_update, ddns_delete: what is asked for is published already *)
IsPublished(e) == rrset[e.at] = Replaced(e.new, e.ttl)

(* _current of the DDNS API: nothing to do *)
NoOp(r) ==
  /\ pc[r] = "read"
  /\ job[r].op = "ddns" /\ IsPublished(job[r])
  /\ Finish(r)
  /\ UNCHANGED <<rrset, untold, failed, edits>>

(* _rrset_contents, _current, get_zone *)
Read(r) ==
  /\ pc[r] = "read"
  /\ ~(job[r].op = "ddns" /\ IsPublished(job[r]))
  /\ copy' = [copy EXCEPT ![r] = rrset[job[r].at]]
  /\ Goto(r, "write")
  /\ UNCHANGED <<rrset, untold, job, failed, edits>>

(* replace_rrset *)
Write(r) ==
  LET e == job[r] IN
  /\ pc[r] = "write"
  /\ rrset' = [rrset EXCEPT ![e.at] = After(e, copy[r])]
  /\ untold' = untold \cup {e.at}
  /\ Goto(r, IF e.op = "rename" THEN "readTo" ELSE "notify")
  /\ UNCHANGED <<job, copy, failed, edits>>

(* mutant: the new name is taken to have no records yet *)
ReadToNothing(r) ==
  /\ pc[r] = "readTo"
  /\ copy' = [copy EXCEPT ![r] = Absent]
  /\ Goto(r, "writeTo")
  /\ UNCHANGED <<rrset, untold, job, failed, edits>>

(* record_update with a new name: _rrset_contents, then replace_rrset there *)
ReadTo(r) ==
  /\ pc[r] = "readTo"
  /\ copy' = [copy EXCEPT ![r] = rrset[job[r].to]]
  /\ Goto(r, "writeTo")
  /\ UNCHANGED <<rrset, untold, job, failed, edits>>

(* mutant: only the branch without a new name sends NOTIFY *)
WriteToQuiet(r) ==
  LET e == SecondHalf(job[r]) IN
  /\ pc[r] = "writeTo"
  /\ rrset' = [rrset EXCEPT ![e.at] = After(e, copy[r])]
  /\ untold' = untold \cup {e.at}
  /\ Finish(r)
  /\ UNCHANGED <<failed, edits>>

WriteTo(r) ==
  LET e == SecondHalf(job[r]) IN
  /\ pc[r] = "writeTo"
  /\ rrset' = [rrset EXCEPT ![e.at] = After(e, copy[r])]
  /\ untold' = untold \cup {e.at}
  /\ Goto(r, "notify")
  /\ UNCHANGED <<job, copy, failed, edits>>

(* notify_zone: the secondaries are told of the zone as it is *)
Notify(r) ==
  /\ pc[r] = "notify"
  /\ untold' = {}
  /\ Finish(r)
  /\ UNCHANGED <<rrset, failed, edits>>

(* A call fails or is refused, and the handler gives up. A write that has been
   carried out although its answer was lost is a Write, then an Abort. *)
Abort(r) ==
  /\ Faults
  /\ pc[r] # "idle"
  /\ failed' = TRUE
  /\ Finish(r)
  /\ UNCHANGED <<rrset, untold, edits>>

Next ==
  \E r \in Requests :
    \/ Start(r) \/ StartNotify(r) \/ Patch(r) \/ NoOp(r)
    \/ Read(r) \/ Write(r) \/ ReadTo(r) \/ WriteTo(r) \/ Notify(r) \/ Abort(r)

Spec == Init /\ [][Next]_vars
-----------------------------------------------------------------------------
TypeOK ==
  /\ rrset \in [Rrset -> RecordSet]
  /\ untold \subseteq Rrset
  /\ pc \in [Requests -> {"idle", "patch", "read", "write", "readTo", "writeTo", "notify"}]
  /\ job \in [Requests -> Edit \cup {Nothing}]
  /\ copy \in [Requests -> RecordSet]
  /\ failed \in BOOLEAN /\ edits \in Nat
  /\ \A r \in Requests :
       /\ pc[r] = "idle" => job[r] = Nothing
       /\ pc[r] \notin {"idle", "notify"} => job[r] # Nothing
       /\ pc[r] = "patch" => job[r].op = "patch"
       /\ pc[r] \in {"readTo", "writeTo"} => job[r].op = "rename"

(* When edits of one record set do not overlap, record editing is what
   ZoneRecords promises: every edit takes effect on the records that are there,
   and nobody's records are lost, although each handler writes a copy of the
   whole record set back. *)
Want(r) ==
  CASE pc[r] \in {"patch", "read", "write"} -> job[r]
    [] pc[r] \in {"readTo", "writeTo"}      -> SecondHalf(job[r])
    [] OTHER                                -> Nothing

Promise == INSTANCE ZoneRecords WITH published <- rrset, want <- [r \in Requests |-> Want(r)]

EditsAreAtomic == Promise!Spec

(* "The panel sends NOTIFY on every change": once no request is running, there
   is no change of the panel's that a NOTIFY has not followed, as long as no
   call has failed, and however the requests overlap. *)
ChangesAreTold ==
  ~failed /\ (\A r \in Requests : pc[r] = "idle") => untold = {}

(* A client of the DDNS API that is told "unchanged" can rely on it: the
   secondaries have been sent a NOTIFY since the record set last changed
   ("the panel sends NOTIFY on every change"), when edits of one record set do
   not overlap, and as long as no call has failed. *)
NoOpIsToldIfNoFailure ==
  [][\A r \in Requests : NoOp(r) /\ ~failed => job[r].at \notin untold]_vars

-----------------------------------------------------------------------------
(* Behind ChangesAreTold: as long as no call has failed, whoever changed a
   record set has its NOTIFY still to send, when nobody has sent one since. *)
Telling == {r \in Requests : pc[r] \in {"readTo", "writeTo", "notify"}}

ToldInv == ~failed /\ untold # {} => Telling # {}

(* Behind EditsAreAtomic: the record sets of two running edits are disjoint,
   so a copy is what PowerDNS still has when it is written back. *)
CopiesAreFresh ==
  /\ \A r, q \in Requests :
       r # q /\ job[r] # Nothing /\ job[q] # Nothing
         => Touched(job[r]) \cap Touched(job[q]) = {}
  /\ \A r \in Requests :
       /\ pc[r] = "write" => copy[r] = rrset[job[r].at]
       /\ pc[r] = "writeTo" => copy[r] = rrset[job[r].to]
=============================================================================
