----------------------------- MODULE Migration -----------------------------
(***************************************************************************)
(* migrate_legacy.py: one run of the script copies users, zones, access    *)
(* and history of the old system. What goes to PostgreSQL is one           *)
(* transaction, committed at the end; what goes to PowerDNS is there at    *)
(* once, zone by zone, and stays when the run dies. The script is meant to *)
(* be started again: it skips what it finds.                               *)
(*                                                                         *)
(* The old database is a constant. Its domains are numbered in the order   *)
(* of their names; different spellings of a name (case, punycode, final    *)
(* dot) have one canonical form.                                           *)
(***************************************************************************)
EXTENDS Integers, FiniteSets, Sequences

CONSTANTS
  Users,      \* the users of the old system
  Nobody,
  N,          \* the number of its domains
  Legacy,     \* Legacy[i]: name, disabled, owner, editors and rows of a domain
  Names,      \* names as they are spelled there
  Canonical,  \* Canonical[n]: the canonical form of a name
  Rows,       \* the rows of the table records
  NoZone, Own,  \* no zone; the contents of a zone that the panel has created
  MaxFaults   \* bound on calls that fail and runs that die

Domains == 1..N

LegacyDomains ==
  [name : Names, disabled : BOOLEAN, owner : Users \cup {Nobody},
   editors : SUBSET Users, rows : Seq(Rows)]

VARIABLES
  served,   \* PowerDNS: served[z] is the record sets of zone z, or NoZone
  keyed,    \* PowerDNS: the zones with the configured transfer keys
  users,    \* app_users
  access,   \* zone_access: <<zone, user, is_owner>>
  imports,  \* app_history: how often the old history is in it
  pc,       \* the script: its next step
  dry,      \* --dry-run
  next,     \* the domain it has come to
  session,  \* what its transaction adds
  failed,   \* the domains it has reported as FAILED
  finished, \* history: a run has come to its end
  told,     \* history: the domains the last finished run has reported
  bare,     \* history: the zones a failure has left without keys
  faults    \* history: the number of failures

vars == <<served, keyed, users, access, imports, pc, dry, next, session, failed,
          finished, told, bare, faults>>

ZoneOf(i) == Canonical[Legacy[i].name]
Zones == {ZoneOf(i) : i \in Domains}

-----------------------------------------------------------------------------
(* The conversion of the records. *)

RowsOf(rows) == {rows[i] : i \in DOMAIN rows}
KeyOf(r) == <<Canonical[r.name], r.type>>

(* Host names get their final dot, texts their quotes, MX and SRV their
   priority; so two spellings of them become one, but for other types. *)
conv_content(r) ==
  CASE r.type \in {"CNAME", "NS", "PTR", "SOA", "TXT", "SPF"} -> <<r.text>>
    [] r.type \in {"MX", "SRV"} -> <<r.prio, r.text>>
    [] OTHER -> <<r.text, r.form>>

Conflicting(k, ks) == k[2] = "CNAME" /\ \E o \in ks : o[1] = k[1] /\ o[2] # "CNAME"

FirstOf(rows, k) ==
  CHOOSE i \in DOMAIN rows :
    KeyOf(rows[i]) = k /\ \A j \in DOMAIN rows : KeyOf(rows[j]) = k => i <= j

RRset(rows, k) ==
  LET ttl == rows[FirstOf(rows, k)].ttl IN
  [key |-> k,
   ttl |-> IF ttl = 0 THEN 3600 ELSE ttl,
   contents |-> {conv_content(r) : r \in {s \in RowsOf(rows) : KeyOf(s) = k}}]

RRsetsWithCnames(rows) ==  \* a mutant: conflicting CNAMEs are kept
  {RRset(rows, KeyOf(r)) : r \in RowsOf(rows)}

(* The record sets of one domain; a CNAME beside other records is dropped. *)
RRsets(rows) ==
  LET keys == {KeyOf(r) : r \in RowsOf(rows)}
  IN  {RRset(rows, k) : k \in {x \in keys : ~Conflicting(x, keys)}}

ASSUME LegacyAssumption ==
  /\ N \in Nat /\ MaxFaults \in Nat
  /\ Nobody \notin Users
  /\ Legacy \in [Domains -> LegacyDomains]
  /\ Names \subseteq DOMAIN Canonical
  /\ \A r \in Rows : r.name \in Names
  /\ \A i \in Domains : RRsets(Legacy[i].rows) # NoZone

(* What PowerDNS takes. *)
Acceptable(sets) ==
  /\ \A s \in sets : ~Conflicting(s.key, {t.key : t \in sets})
  /\ \A s \in sets : s.key[2] \in {"CNAME", "SOA"} => Cardinality(s.contents) = 1

-----------------------------------------------------------------------------
NoAdds == [users |-> {}, access |-> {}, history |-> FALSE]

(* The panel may be in use already: some of the users and zones are there. *)
Init ==
  /\ \E own \in SUBSET Zones :
       /\ served = [z \in Zones |-> IF z \in own THEN Own ELSE NoZone]
       /\ keyed = own
       /\ \E grants \in SUBSET (own \X Users) : access = {<<g[1], g[2], FALSE>> : g \in grants}
  /\ users \in SUBSET Users
  /\ \A a \in access : a[2] \in users
  /\ imports = 0
  /\ pc = "idle" /\ dry = FALSE /\ next = 1 /\ session = NoAdds /\ failed = {}
  /\ finished = FALSE /\ told = {} /\ bare = {} /\ faults = 0

stores == <<served, keyed, users, access, imports>>
marks == <<finished, told, bare>>

d == Legacy[next]
z == ZoneOf(next)

Fails == faults < MaxFaults /\ faults' = faults + 1

(* The users come first; those whose login is there already are kept. *)
Start ==
  /\ pc = "idle"
  /\ pc' = "domain" /\ next' = 1 /\ failed' = {}
  /\ dry' \in BOOLEAN
  /\ session' = [NoAdds EXCEPT !.users = Users \ users]
  /\ UNCHANGED <<stores, marks, faults>>

At(l) == pc = l /\ next \in Domains

NextDomain == pc' = "domain" /\ next' = next + 1

PassesOverKnown(i) ==  \* a mutant: a zone that is there already needs nothing more
  Legacy[i].disabled \/ dry \/ served[ZoneOf(i)] # NoZone

(* a disabled domain is passed over, and in a dry run every other one, after
   its records have been converted *)
PassesOver(i) == Legacy[i].disabled \/ dry

Skip ==
  /\ At("domain") /\ PassesOver(next)
  /\ NextDomain
  /\ UNCHANGED <<stores, marks, dry, session, failed, faults>>

(* zone_exists *)
Lookup ==
  /\ At("domain") /\ ~PassesOver(next)
  /\ pc' = IF served[z] = NoZone THEN "create" ELSE "grants"
  /\ UNCHANGED <<stores, marks, dry, next, session, failed, faults>>

(* create_zone, as a member of the catalog *)
Create ==
  /\ At("create") /\ Acceptable(RRsets(d.rows))
  /\ served' = [served EXCEPT ![z] = RRsets(d.rows)]
  /\ pc' = "keys"
  /\ UNCHANGED <<keyed, users, access, imports, marks, dry, next, session, failed, faults>>

(* ensure_tsig_allow_axfr *)
Keys ==
  /\ At("keys")
  /\ keyed' = keyed \cup {z}
  /\ pc' = "grants"
  /\ UNCHANGED <<served, users, access, imports, marks, dry, next, session, failed, faults>>

Reported == failed' = failed \cup {next} /\ NextDomain

(* PowerDNS does not take the zone, for its contents or for a reason that
   passes: FAILED is printed, and no access is granted *)
Refused ==
  /\ At("create")
  /\ \/ ~Acceptable(RRsets(d.rows)) /\ UNCHANGED faults
     \/ Fails
  /\ Reported
  /\ UNCHANGED <<stores, marks, dry, session>>

KeysRefused ==
  /\ At("keys") /\ Fails
  /\ Reported
  /\ bare' = bare \cup {z}
  /\ UNCHANGED <<stores, finished, told, dry, session>>

HasRow(rows, u) == \E o \in BOOLEAN : <<z, u, o>> \in rows

GrantedTwice ==  \* a mutant: what the session has added is not looked at
  LET wanted == IF d.owner = Nobody THEN {} ELSE {<<z, d.owner, TRUE>>}
      others == {<<z, u, FALSE>> : u \in d.editors}
  IN  {g \in wanted \cup others : ~HasRow(access, g[2])}

(* grant: the owner, then the editors; who has a row keeps it *)
Granted ==
  LET rows == access \cup session.access
      wanted == IF d.owner = Nobody THEN {} ELSE {<<z, d.owner, TRUE>>}
      others == {<<z, u, FALSE>> : u \in d.editors \ {d.owner}}
  IN  {g \in wanted \cup others : ~HasRow(rows, g[2])}

Grant ==
  /\ At("grants")
  /\ session' = [session EXCEPT !.access = @ \cup Granted]
  /\ NextDomain
  /\ UNCHANGED <<stores, marks, dry, failed, faults>>

ImportsAgain == ~dry  \* a mutant: the marker is not looked for

(* the history is imported unless its marker is there *)
ImportsHistory == imports = 0 /\ ~dry

History ==
  /\ pc = "domain" /\ next = N + 1
  /\ session' = [session EXCEPT !.history = ImportsHistory]
  /\ pc' = "commit"
  /\ UNCHANGED <<stores, marks, dry, next, failed, faults>>

Ends == pc' = "idle" /\ next' = 1 /\ dry' = FALSE /\ session' = NoAdds /\ failed' = {}

Commit ==
  /\ pc = "commit" /\ ~dry
  /\ users' = users \cup session.users
  /\ access' = access \cup session.access
  /\ imports' = imports + (IF session.history THEN 1 ELSE 0)
  /\ finished' = TRUE /\ told' = failed
  /\ Ends
  /\ UNCHANGED <<served, keyed, bare, faults>>

Rollback ==
  /\ pc = "commit" /\ dry
  /\ Ends
  /\ UNCHANGED <<stores, marks, faults>>

(* the script is stopped, or a call fails outside its try, or without an
   answer of PowerDNS; the transaction is gone, what PowerDNS has is not *)
Die ==
  /\ pc # "idle" /\ Fails
  /\ bare' = IF pc = "keys" THEN bare \cup {z} ELSE bare
  /\ Ends
  /\ UNCHANGED <<stores, finished, told>>

Step == Skip \/ Lookup \/ Create \/ Keys \/ Refused \/ KeysRefused \/ Grant
        \/ History \/ Commit \/ Rollback
Next == Start \/ Step \/ Die

Spec == Init /\ [][Next]_vars

(* a run that has been started goes on *)
FairSpec == Spec /\ WF_vars(Step)

-----------------------------------------------------------------------------
SetsOf(i) == RRsets(Legacy[i].rows)
Contents == {NoZone, Own} \cup {SetsOf(i) : i \in Domains}
Grants == Zones \X Users \X BOOLEAN

OneRowEach(rows) == \A a, b \in rows : a[1] = b[1] /\ a[2] = b[2] => a = b

(* Types; and zone_access, with what a run is about to add to it, has one row
   for a zone and a user, as its unique index demands. *)
TypeOK ==
  /\ served \in [Zones -> Contents]
  /\ keyed \subseteq Zones /\ bare \subseteq Zones
  /\ users \subseteq Users
  /\ access \subseteq Grants
  /\ imports \in Nat
  /\ pc \in {"idle", "domain", "create", "keys", "grants", "commit"}
  /\ next \in 1..(N + 1) /\ (pc \in {"create", "keys", "grants"} => next \in Domains)
  /\ dry \in BOOLEAN
  /\ session \in [users : SUBSET Users, access : SUBSET Grants, history : BOOLEAN]
  /\ failed \subseteq Domains /\ told \subseteq Domains
  /\ finished \in BOOLEAN
  /\ faults \in Nat
  /\ OneRowEach(access \cup session.access)

(* What the records of a domain have to become: each of them, in its new form,
   unless it is a CNAME beside other records. *)
Faithful(rows, sets) ==
  UNION {{<<s.key, c>> : c \in s.contents} : s \in sets}
    = {<<KeyOf(r), conv_content(r)>> :
         r \in {s \in RowsOf(rows) :
                 ~ (s.type = "CNAME" /\ \E o \in RowsOf(rows) :
                      Canonical[o.name] = Canonical[s.name] /\ o.type # "CNAME")}}

Grantees(i) == ({Legacy[i].owner} \ {Nobody}) \cup Legacy[i].editors

Served(i) ==
  \/ served[ZoneOf(i)] = Own
  \/ /\ served[ZoneOf(i)] # NoZone
     /\ \E j \in Domains : /\ ZoneOf(j) = ZoneOf(i) /\ ~Legacy[j].disabled
                           /\ Faithful(Legacy[j].rows, served[ZoneOf(i)])

Accessible(i) == \A u \in Grantees(i) : \E o \in BOOLEAN : <<ZoneOf(i), u, o>> \in access

(* However many runs have failed, died or been dry before: when a run has come
   to its end, every user is there, and every enabled domain it has not reported
   is a zone with the old records and with access for its old owner and editors.
   It has the transfer keys too, unless a failure has hit just the call that
   sets them; that only the start-up of the panel repairs. *)
RunIsComplete ==
  finished =>
    /\ Users \subseteq users
    /\ \A i \in Domains \ told :
         Legacy[i].disabled
           \/ (Served(i) /\ Accessible(i) /\ ZoneOf(i) \in keyed \cup bare)

(* The old history is in the log once, as soon as a run has come to its end,
   and never twice, whatever runs came before or come after it. *)
HistoryOnce == imports <= 1 /\ (finished => imports = 1)

(* PowerDNS can take what a domain's records become. *)
Sound(i) ==
  \A r, s \in RowsOf(Legacy[i].rows) :
    r.type = s.type /\ r.type \in {"CNAME", "SOA"} /\ KeyOf(r) = KeyOf(s)
      => conv_content(r) = conv_content(s)

(* Started again and again, the script gets every enabled domain across whose
   records PowerDNS can take: failures cost time, not zones or access. *)
EventuallyMigrated ==
  []<>(pc # "idle" /\ ~dry)
    => <>[](\A i \in Domains :
              ~Legacy[i].disabled /\ Sound(i) => Served(i) /\ Accessible(i))

=============================================================================
