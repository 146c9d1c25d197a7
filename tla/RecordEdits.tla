---------------------------- MODULE RecordEdits ----------------------------
(***************************************************************************)
(* What the panel is asked to do with the records of one zone, and what    *)
(* that makes of a record set.                                             *)
(*                                                                         *)
(* PowerDNS keeps records in record sets: the records of one name and      *)
(* type, with one TTL for all of them.  A record set is named by a model   *)
(* value and its records are a set of contents.                            *)
(***************************************************************************)
CONSTANTS
  Address,   \* record sets of type A and AAAA, which the DDNS API may edit
  Text,      \* record sets of type TXT, which the ACME API may edit
  Soa,       \* the record set of the SOA record
  Content,   \* contents of records
  Ttl,       \* TTLs
  ZeroTtl,   \* the TTL that Python takes for false
  DeleteTtl  \* the TTL written in record_delete

Rrset == Address \cup Text \cup Soa

ASSUME EditsAssumption ==
  /\ Address \cap Text = {} /\ Address \cap Soa = {} /\ Text \cap Soa = {}
  /\ ZeroTtl \in Ttl /\ DeleteTtl \in Ttl

(* A record set without records does not exist *)
Absent == [ttl |-> ZeroTtl, recs |-> {}]
RecordSet == {Absent} \cup [ttl : Ttl, recs : (SUBSET Content) \ {{}}]

(* mutant: an empty list is written as it is *)
ReplacedEmpty(recs, ttl) == [ttl |-> ttl, recs |-> recs]

(* replace_rrset: "empty list deletes" *)
Replaced(recs, ttl) == IF recs = {} THEN Absent ELSE [ttl |-> ttl, recs |-> recs]

(***************************************************************************)
(* An edit takes the records "old" away from the record set "at" and puts  *)
(* "new" in their place; a rename puts them in the record set "to".  These *)
(* are the edits the forms and the APIs can ask for.                       *)
(***************************************************************************)
EditOps == {"edit", "rename", "remove", "ddns", "patch", "soa", "resign"}

AnyEdit == [op : EditOps, at : Rrset, to : Rrset, old : SUBSET Content,
            new : SUBSET Content, ttl : Ttl]

One  == {{c} : c \in Content}
None == {{}}

Of(op, ats, olds, news, ttls) ==
  {e \in [op : {op}, at : ats, to : ats, old : olds, new : news, ttl : ttls] : e.to = e.at}

Renames(ats) ==
  {e \in [op : {"rename"}, at : ats, to : ats, old : One, new : One, ttl : Ttl] : e.to # e.at}

RecordCreate == Of("edit", Address \cup Text, None, One, Ttl)
RecordUpdate == Of("edit", Address \cup Text, One, One, Ttl)
RecordRename == Renames(Address) \cup Renames(Text)
RecordDelete == Of("remove", Address \cup Text, One, None, {DeleteTtl})
SpfSave      == Of("edit", Text, None \cup One, One, Ttl)
DdnsUpdate   == Of("ddns", Address, None, One, Ttl \ {ZeroTtl})
DdnsDelete   == Of("ddns", Address, None, None, {DeleteTtl})
ZonePatch    == Of("patch", Text, None, SUBSET Content, Ttl)
SoaUpdate    == Of("soa", Soa, None, One, Ttl)
BumpSerial   == Of("resign", Soa, None, None, {DeleteTtl})

Edit ==
  RecordCreate \cup RecordUpdate \cup RecordRename \cup RecordDelete \cup SpfSave
    \cup DdnsUpdate \cup DdnsDelete \cup ZonePatch \cup SoaUpdate \cup BumpSerial

(* the record sets an edit is about *)
Touched(e) == {e.at, e.to}

(* "t or d": a TTL of zero is taken for a missing one *)
Or(t, d) == IF t = ZeroTtl THEN d ELSE t

(* What an edit makes of the contents s of its record set *)
After(e, s) ==
  CASE e.op = "edit"                 -> Replaced((s.recs \ e.old) \cup e.new, e.ttl)
    [] e.op \in {"remove", "rename"} -> Replaced(s.recs \ e.old, Or(s.ttl, e.ttl))
    [] e.op = "resign"               -> Replaced(s.recs, s.ttl)
    [] OTHER                         -> Replaced(e.new, e.ttl)

(* what is left of an edit once it has changed its record set *)
SecondHalf(e) == [e EXCEPT !.op = "edit", !.at = e.to, !.old = {}]
=============================================================================
