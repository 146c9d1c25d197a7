----------------------------- MODULE ZoneAdmin -----------------------------
(***************************************************************************)
(* Zone administration of the panel: creating and deleting zones, moving   *)
(* them between catalog and custom mode, their transfer keys, their        *)
(* dynamic-update permissions and their notify lists                       *)
(* (app/mojodns/routers/zones.py over app/mojodns/pdns.py), and the        *)
(* start-up stamp of main.py.                                              *)
(*                                                                         *)
(* The endpoints are synchronous functions run on a thread pool: each      *)
(* request is a thread, and each REST call to PowerDNS is one atomic step  *)
(* of it, so the handlers of two requests interleave call by call.  The    *)
(* action of a thread at pc = l makes the call named in the comment above  *)
(* it.  No lock protects the read-modify-write sequences.                  *)
(***************************************************************************)
EXTENDS FiniteSets

CONSTANTS
  Requests,    \* the threads that serve requests
  UserZone,    \* the zones a user may create
  Catalog,     \* the catalog producer zone (settings().catalog_zone)
  Key,         \* TSIG key names, the configured ones included
  Primary,     \* settings().tsig_key
  Extra,       \* settings().tsig_extra_keys
  Range,       \* the address ranges a user may list
  AnySource,   \* PdnsClient.UPDATE_ANY, a set of ranges
  NoKey,       \* no key
  NoZone,      \* no zone
  Ops,         \* the operations the users perform
  OnePerZone,  \* users never have two requests on the same zone in flight
  FreshPages,  \* a form is submitted only when its page would still offer it
  Faults       \* calls may fail and the panel may be restarted

Zone == UserZone \cup {Catalog}
Globals == {Primary} \cup Extra

CreateOps == {"createCatalog", "createCustom"}
AddOps    == {"keyAdd", "updAdd"}
KeyOps    == {"keyAdd", "keyDel", "updAdd", "updDel"}
AllOps    == CreateOps \cup KeyOps \cup
               {"toCustom", "toCatalog", "setIps", "setTargets",
                "clearTargets", "delete"}

ASSUME ConfigAssumption ==
  /\ Catalog \notin UserZone
  /\ NoZone \notin UserZone
  /\ Primary \in Key
  /\ Extra \subseteq Key
  /\ NoKey \notin Key
  /\ AnySource \subseteq Range /\ AnySource # {}
  /\ Ops \subseteq AllOps
  /\ OnePerZone \in BOOLEAN /\ FreshPages \in BOOLEAN /\ Faults \in BOOLEAN

VARIABLES
  exists,    \* zones PowerDNS has
  member,    \* zones whose "catalog" field names the catalog
  native,    \* zones of kind Native (the others are Master or Producer)
  listed,    \* zones with ALSO-NOTIFY metadata
  axfr,      \* axfr[z]: master_tsig_key_ids
  upd,       \* upd[z]: TSIG-ALLOW-DNSUPDATE, {} when there is none
  from,      \* from[z]: ALLOW-DNSUPDATE-FROM, {} when there is none
  tsigkeys,  \* the TSIG keys PowerDNS has
  owned,     \* zones with zone_access rows in the panel's database
  pc,        \* pc[r]: the next call of request r
  job,       \* job[r]: what request r was asked to do
  keys,      \* keys[r]: the key list r has read and edited
  ips,       \* ips[r]: the ranges r has read
  former,    \* former[r]: the keys r still has to clean up
  cand,      \* cand[r]: the one of them it is looking for
  at,        \* at[r]: the zone whose metadata it looks at next
  todo,      \* todo[r]: the zones it has not scanned yet
  boot,      \* progress of main.bootstrap, "up" when the panel serves
  stamp,     \* zones bootstrap has still to stamp
  hurt,      \* history: zones on which a request has stopped half-way since they
             \* were created, and the catalog zone until bootstrap has set it up
  lost       \* history: keys that a request which failed had still in hand

pdnsVars == <<exists, member, native, listed, axfr, upd, from, tsigkeys>>
regVars  == <<keys, ips, former, cand, at, todo>>
bootVars == <<boot, stamp>>
history  == <<hurt, lost>>
vars     == <<pdnsVars, owned, pc, job, regVars, bootVars, history>>

Labels == {"idle", "create", "uncatalog", "former", "formerUpd", "delzone",
           "join", "master", "unlist", "setkeys", "mkkey", "readAxfr",
           "readUpd", "readIps", "putUpd", "putFrom", "delUpd", "delFrom",
           "list", "scanAxfr", "scanUpd", "rmkey", "targets", "kind", "commit"}

NoJob == [op |-> "none", zone |-> NoZone, key |-> NoKey, cidrs |-> {}]
Job   == {j \in [op : Ops, zone : UserZone, key : Key \cup {NoKey}, cidrs : SUBSET Range] :
            /\ j.key # NoKey <=> j.op \in KeyOps
            /\ j.op # "setIps" => j.cidrs = {}}

-----------------------------------------------------------------------------
(* is_custom_zone: neither the catalog producer nor a catalog member *)
Custom(z) == z # Catalog /\ z \notin member

(* mutant: set_zone_update_keys forgets the restriction it should preserve *)
UserIpsForgotten(z) == {}

(* get_zone_update_ips: the catch-all reads back as no restriction *)
UserIps(z) == IF from[z] = AnySource THEN {} ELSE from[z]

Refs(z) == axfr[z] \cup upd[z]

Active(r) == pc[r] # "idle"
Quiet     == boot = "up" /\ \A r \in Requests : ~Active(r)

Init ==
  /\ exists = {} /\ member = {} /\ native = {} /\ listed = {}
  /\ axfr = [z \in Zone |-> {}]
  /\ upd  = [z \in Zone |-> {}]
  /\ from = [z \in Zone |-> {}]
  /\ tsigkeys = Globals
  /\ owned = {}
  /\ pc = [r \in Requests |-> "idle"]
  /\ job = [r \in Requests |-> NoJob]
  /\ keys = [r \in Requests |-> {}]
  /\ ips = [r \in Requests |-> {}]
  /\ former = [r \in Requests |-> {}]
  /\ cand = [r \in Requests |-> NoKey]
  /\ at = [r \in Requests |-> NoZone]
  /\ todo = [r \in Requests |-> {}]
  /\ boot = "catalog" /\ stamp = {}
  /\ hurt = {Catalog} /\ lost = {}

Goto(r, l) == pc' = [pc EXCEPT ![r] = l]

(* the request returns: its thread forgets everything *)
Finish(r) ==
  /\ Goto(r, "idle")
  /\ job' = [job EXCEPT ![r] = NoJob]
  /\ keys' = [keys EXCEPT ![r] = {}]
  /\ ips' = [ips EXCEPT ![r] = {}]
  /\ former' = [former EXCEPT ![r] = {}]
  /\ cand' = [cand EXCEPT ![r] = NoKey]
  /\ at' = [at EXCEPT ![r] = NoZone]
  /\ todo' = [todo EXCEPT ![r] = {}]

(* a call on a zone PowerDNS does not have: PdnsError 404 ends the request *)
NotFound(r) ==
  /\ job[r].zone \notin exists
  /\ Finish(r)
  /\ UNCHANGED <<pdnsVars, owned, bootVars, history>>

(***************************************************************************)
(* What a fresh page of the panel offers: the mode forms and the custom    *)
(* panels of zone_edit.html depend on the zone's mode, and a delete button *)
(* stands beside each listed key.                                          *)
(***************************************************************************)
Offered(j) ==
  CASE j.op \in CreateOps -> j.zone \notin exists
    [] j.op = "toCustom"  -> j.zone \in exists /\ ~Custom(j.zone)
    [] j.op \in {"toCatalog", "keyAdd", "setTargets", "clearTargets"}
                          -> j.zone \in exists /\ Custom(j.zone)
    [] j.op = "keyDel"    -> j.zone \in exists /\ Custom(j.zone) /\ j.key \in axfr[j.zone]
    [] j.op = "updDel"    -> j.zone \in exists /\ j.key \in upd[j.zone]
    [] OTHER              -> j.zone \in exists

Entry(op) ==
  CASE op \in CreateOps            -> "create"
    [] op = "toCustom"             -> "uncatalog"
    [] op \in {"toCatalog", "delete"} -> "former"
    [] op \in AddOps               -> "mkkey"
    [] op = "keyDel"               -> "readAxfr"
    [] op \in {"updDel", "setIps"} -> "readUpd"
    [] op \in {"setTargets", "clearTargets"} -> "targets"

(* A request arrives; zone_key_delete refuses the primary key at once. *)
Start(r) ==
  /\ boot = "up" /\ pc[r] = "idle"
  /\ \E j \in Job :
       /\ j.op = "keyDel" => j.key # Primary
       /\ OnePerZone => \A q \in Requests : job[q].zone # j.zone
       /\ FreshPages => Offered(j)
       /\ job' = [job EXCEPT ![r] = j]
       /\ Goto(r, Entry(j.op))
  /\ UNCHANGED <<pdnsVars, owned, regVars, bootVars, history>>

-----------------------------------------------------------------------------
(* zone_create, zone_import, zone_mode *)

(* create_zone: POST /zones, 409 when the zone exists *)
Create(r) ==
  LET z == job[r].zone IN
  /\ pc[r] = "create"
  /\ \/ /\ z \in exists
        /\ Finish(r)
        /\ UNCHANGED <<pdnsVars, owned, bootVars, history>>
     \/ /\ z \notin exists
        /\ exists' = exists \cup {z}
        /\ member' = IF job[r].op = "createCatalog" THEN member \cup {z} ELSE member
        /\ hurt' = hurt \ {z}
        /\ Goto(r, "setkeys")
        /\ UNCHANGED <<native, listed, axfr, upd, from, tsigkeys,
                       owned, job, regVars, bootVars, lost>>

(* set_zone_catalog(zone, None) *)
Uncatalog(r) ==
  /\ pc[r] = "uncatalog"
  /\ \/ NotFound(r)
     \/ /\ job[r].zone \in exists
        /\ member' = member \ {job[r].zone}
        /\ Goto(r, "setkeys")
        /\ UNCHANGED <<exists, native, listed, axfr, upd, from, tsigkeys,
                       owned, job, regVars, bootVars, history>>

(* zone_delete goes on without the keys when it cannot read them *)
ForgetFormer(r) ==
  /\ former' = [former EXCEPT ![r] = {}]
  /\ Goto(r, "delzone")
  /\ UNCHANGED <<pdnsVars, owned, job, keys, ips, cand, at, todo, bootVars>>

(* zone_tsig_keys before a switch to the catalog or before a delete *)
ReadFormer(r) ==
  /\ pc[r] = "former"
  /\ \/ job[r].op # "delete" /\ NotFound(r)
     \/ /\ job[r].op = "delete" /\ job[r].zone \notin exists
        /\ ForgetFormer(r)
        /\ UNCHANGED history
     \/ /\ job[r].zone \in exists
        /\ former' = [former EXCEPT ![r] = axfr[job[r].zone] \ Globals]
        /\ Goto(r, IF job[r].op = "delete" THEN "formerUpd" ELSE "join")
        /\ UNCHANGED <<pdnsVars, owned, job, keys, ips, cand, at, todo, bootVars, history>>

(* set_zone_catalog(zone, s.catalog_zone) *)
Join(r) ==
  /\ pc[r] = "join"
  /\ \/ NotFound(r)
     \/ /\ job[r].zone \in exists
        /\ member' = member \cup {job[r].zone}
        /\ Goto(r, "master")
        /\ UNCHANGED <<exists, native, listed, axfr, upd, from, tsigkeys,
                       owned, job, regVars, bootVars, history>>

(* set_zone_kind(zone, "Master") *)
BackToMaster(r) ==
  /\ pc[r] = "master"
  /\ \/ NotFound(r)
     \/ /\ job[r].zone \in exists
        /\ native' = native \ {job[r].zone}
        /\ Goto(r, "unlist")
        /\ UNCHANGED <<exists, member, listed, axfr, upd, from, tsigkeys,
                       owned, job, regVars, bootVars, history>>

(* mutant: the switch to the catalog keeps the notify list *)
UnlistKeepsList(r) ==
  /\ pc[r] = "unlist"
  /\ Goto(r, "setkeys")
  /\ UNCHANGED <<pdnsVars, owned, job, regVars, bootVars, history>>

(* set_zone_also_notify(zone, []): a 404 is swallowed *)
Unlist(r) ==
  /\ pc[r] = "unlist"
  /\ listed' = listed \ {job[r].zone}
  /\ Goto(r, "setkeys")
  /\ UNCHANGED <<exists, member, native, axfr, upd, from, tsigkeys,
                 owned, job, regVars, bootVars, history>>

(* a mutant: a custom zone gets every configured key *)
NewKeysNotIsolated(r) == IF job[r].op \in AddOps \cup {"keyDel"} THEN keys[r] ELSE Globals

(* The list a handler writes with set_zone_tsig_keys / ensure_tsig_allow_axfr *)
NewKeys(r) ==
  CASE job[r].op \in {"createCustom", "toCustom"}   -> {Primary}
    [] job[r].op \in {"createCatalog", "toCatalog"} -> Globals
    [] OTHER                                        -> keys[r]

SetKeys(r) ==
  LET z == job[r].zone IN
  /\ pc[r] = "setkeys"
  /\ \/ NotFound(r)
     \/ /\ z \in exists
        /\ axfr' = [axfr EXCEPT ![z] = NewKeys(r)]
        /\ \/ /\ job[r].op \in CreateOps
              /\ Goto(r, "commit")
              /\ UNCHANGED <<job, regVars>>
           \/ /\ job[r].op \notin CreateOps
              /\ former[r] # {}
              /\ Goto(r, "list")
              /\ UNCHANGED <<job, regVars>>
           \/ /\ job[r].op \notin CreateOps
              /\ former[r] = {}
              /\ Finish(r)
        /\ UNCHANGED <<exists, member, native, listed, upd, from, tsigkeys,
                       owned, bootVars, history>>

-----------------------------------------------------------------------------
(* zone_key_add, zone_key_delete, zone_update_key_add, zone_update_key_delete *)

(* mutant: a 409 is taken as "the key is there", and the handler goes on *)
MakeKeyReuse(r) ==
  /\ pc[r] = "mkkey"
  /\ tsigkeys' = tsigkeys \cup {job[r].key}
  /\ Goto(r, IF job[r].op = "keyAdd" THEN "readAxfr" ELSE "readUpd")
  /\ UNCHANGED <<exists, member, native, listed, axfr, upd, from,
                 owned, job, regVars, bootVars, history>>

(* create_tsig_key: POST /tsigkeys, 409 when the name is taken.  A configured
   name is free only when its key has been deleted: the zone that gets a new key
   of that name counts as hurt. *)
MakeKey(r) ==
  LET k == job[r].key IN
  /\ pc[r] = "mkkey"
  /\ \/ /\ k \in tsigkeys
        /\ Finish(r)
        /\ UNCHANGED <<pdnsVars, owned, bootVars, history>>
     \/ /\ k \notin tsigkeys
        /\ tsigkeys' = tsigkeys \cup {k}
        /\ hurt' = IF k \in Globals THEN hurt \cup {job[r].zone} ELSE hurt
        /\ Goto(r, IF job[r].op = "keyAdd" THEN "readAxfr" ELSE "readUpd")
        /\ UNCHANGED <<exists, member, native, listed, axfr, upd, from,
                       owned, job, regVars, bootVars, lost>>

(* zone_tsig_keys, then the edit of the list in the handler *)
ReadAxfr(r) ==
  LET z == job[r].zone
      k == job[r].key
  IN
  /\ pc[r] = "readAxfr"
  /\ \/ NotFound(r)
     \/ /\ z \in exists
        /\ keys' = [keys EXCEPT ![r] =
                      IF job[r].op = "keyAdd" THEN axfr[z] \cup {k} ELSE axfr[z] \ {k}]
        /\ former' = [former EXCEPT ![r] = IF job[r].op = "keyDel" THEN {k} ELSE {}]
        /\ Goto(r, "setkeys")
        /\ UNCHANGED <<pdnsVars, owned, job, ips, cand, at, todo, bootVars, history>>

(* mutant: the form's key is appended whatever the form *)
EditedUpdAlways(r) == upd[job[r].zone] \cup {job[r].key}

(* The list of update keys as the handler edits it *)
EditedUpd(r) ==
  LET z == job[r].zone
      k == job[r].key
  IN
  CASE job[r].op = "updAdd" -> upd[z] \cup {k}
    [] job[r].op = "updDel" -> upd[z] \ {k}
    [] OTHER                -> upd[z]

(* mutant: the branch without keys is missing *)
WriteBranchOpen(ks) == "putUpd"

(* _write_update_access: both entries are written, or both deleted *)
WriteBranch(ks) == IF ks # {} THEN "putUpd" ELSE "delUpd"

(* get_zone_update_keys: a 404 reads as no keys *)
ReadUpd(r) ==
  /\ pc[r] = "readUpd"
  /\ keys' = [keys EXCEPT ![r] = EditedUpd(r)]
  /\ former' = [former EXCEPT ![r] =
                  IF job[r].op = "updDel" THEN {job[r].key} \ Globals ELSE {}]
  /\ \/ /\ job[r].op = "setIps"
        /\ ips' = [ips EXCEPT ![r] = job[r].cidrs]
        /\ Goto(r, WriteBranch(EditedUpd(r)))
     \/ /\ job[r].op # "setIps"
        /\ Goto(r, "readIps")
        /\ UNCHANGED ips
  /\ UNCHANGED <<pdnsVars, owned, job, cand, at, todo, bootVars, history>>

(* get_zone_update_ips in set_zone_update_keys *)
ReadIps(r) ==
  /\ pc[r] = "readIps"
  /\ ips' = [ips EXCEPT ![r] = UserIps(job[r].zone)]
  /\ Goto(r, WriteBranch(keys[r]))
  /\ UNCHANGED <<pdnsVars, owned, job, keys, former, cand, at, todo, bootVars, history>>

(* _write_update_access with keys: first TSIG-ALLOW-DNSUPDATE ... *)
PutUpd(r) ==
  /\ pc[r] = "putUpd"
  /\ \/ NotFound(r)
     \/ /\ job[r].zone \in exists
        /\ upd' = [upd EXCEPT ![job[r].zone] = keys[r]]
        /\ Goto(r, "putFrom")
        /\ UNCHANGED <<exists, member, native, listed, axfr, from, tsigkeys,
                       owned, job, regVars, bootVars, history>>

(* mutant: the key behind a removed permission is never cleaned up *)
AccessWrittenNoCleanup(r) == Finish(r)

(* the metadata is written: zone_update_key_delete goes on to clean up the key *)
AccessWritten(r) ==
  IF former[r] # {}
    THEN Goto(r, "list") /\ UNCHANGED <<job, regVars>>
    ELSE Finish(r)

(* ... then ALLOW-DNSUPDATE-FROM *)
PutFrom(r) ==
  /\ pc[r] = "putFrom"
  /\ \/ NotFound(r)
     \/ /\ job[r].zone \in exists
        /\ from' = [from EXCEPT ![job[r].zone] = IF ips[r] # {} THEN ips[r] ELSE AnySource]
        /\ AccessWritten(r)
        /\ UNCHANGED <<exists, member, native, listed, axfr, upd, tsigkeys,
                       owned, bootVars, history>>

(* _write_update_access without keys: the same two entries are deleted, in
   the same order; delete_zone_metadata swallows a 404 *)
DelUpd(r) ==
  /\ pc[r] = "delUpd"
  /\ upd' = [upd EXCEPT ![job[r].zone] = {}]
  /\ Goto(r, "delFrom")
  /\ UNCHANGED <<exists, member, native, listed, axfr, from, tsigkeys,
                 owned, job, regVars, bootVars, history>>

DelFrom(r) ==
  /\ pc[r] = "delFrom"
  /\ from' = [from EXCEPT ![job[r].zone] = {}]
  /\ AccessWritten(r)
  /\ UNCHANGED <<exists, member, native, listed, axfr, upd, tsigkeys,
                 owned, bootVars, history>>

-----------------------------------------------------------------------------
(* Cleaning up the keys a zone no longer uses: tsig_key_in_use, then
   delete_tsig_key, for each key in former *)

(* The loop over former goes on without key k. zone_delete ends in its commit. *)
NextKey(r, k) ==
  LET rest == former[r] \ {k} IN
  \/ /\ rest # {}
     /\ former' = [former EXCEPT ![r] = rest]
     /\ cand' = [cand EXCEPT ![r] = NoKey]
     /\ at' = [at EXCEPT ![r] = NoZone]
     /\ todo' = [todo EXCEPT ![r] = {}]
     /\ Goto(r, "list")
     /\ UNCHANGED <<job, keys, ips>>
  \/ /\ rest = {} /\ job[r].op = "delete"
     /\ former' = [former EXCEPT ![r] = {}]
     /\ cand' = [cand EXCEPT ![r] = NoKey]
     /\ at' = [at EXCEPT ![r] = NoZone]
     /\ todo' = [todo EXCEPT ![r] = {}]
     /\ Goto(r, "commit")
     /\ UNCHANGED <<job, keys, ips>>
  \/ /\ rest = {} /\ job[r].op # "delete"
     /\ Finish(r)

(* a 404 in the loop: zone_delete passes on to its next key, the others stop *)
LoopError(r) == IF job[r].op = "delete" THEN NextKey(r, cand[r]) ELSE Finish(r)

(* list_zones for one of the keys; with no zone left the key is unused *)
ListZones(r) ==
  /\ pc[r] = "list"
  /\ \E k \in former[r] : cand' = [cand EXCEPT ![r] = k]
  /\ todo' = [todo EXCEPT ![r] = exists]
  /\ Goto(r, IF exists = {} THEN "rmkey" ELSE "scanAxfr")
  /\ UNCHANGED <<pdnsVars, owned, job, keys, ips, former, at, bootVars, history>>

(* the key is in the zone's master_tsig_key_ids *)
MayTransfer(k, z) == k \in axfr[z]

(* get_zone of the next zone of the list: does it use the key? *)
ScanAxfr(r) ==
  /\ pc[r] = "scanAxfr"
  /\ \E z \in todo[r] :
       \/ /\ z \notin exists
          /\ LoopError(r)
       \/ /\ z \in exists /\ MayTransfer(cand[r], z)
          /\ NextKey(r, cand[r])
       \/ /\ z \in exists /\ ~MayTransfer(cand[r], z)
          /\ at' = [at EXCEPT ![r] = z]
          /\ Goto(r, "scanUpd")
          /\ UNCHANGED <<job, keys, ips, former, cand, todo>>
  /\ UNCHANGED <<pdnsVars, owned, bootVars, history>>

(* get_zone_update_keys of the same zone; here a 404 reads as no keys *)
ScanUpd(r) ==
  LET z == at[r] IN
  /\ pc[r] = "scanUpd"
  /\ \/ /\ cand[r] \in upd[z]
        /\ NextKey(r, cand[r])
     \/ /\ cand[r] \notin upd[z]
        /\ todo' = [todo EXCEPT ![r] = @ \ {z}]
        /\ at' = [at EXCEPT ![r] = NoZone]
        /\ Goto(r, IF todo[r] = {z} THEN "rmkey" ELSE "scanAxfr")
        /\ UNCHANGED <<job, keys, ips, former, cand>>
  /\ UNCHANGED <<pdnsVars, owned, bootVars, history>>

(* delete_tsig_key: 404 when another request was faster *)
RemoveKey(r) ==
  /\ pc[r] = "rmkey"
  /\ \/ /\ cand[r] \notin tsigkeys
        /\ LoopError(r)
        /\ UNCHANGED <<tsigkeys, lost>>
     \/ /\ cand[r] \in tsigkeys
        /\ tsigkeys' = tsigkeys \ {cand[r]}
        /\ lost' = lost \ {cand[r]}
        /\ NextKey(r, cand[r])
  /\ UNCHANGED <<exists, member, native, listed, axfr, upd, from, owned, bootVars, hurt>>

-----------------------------------------------------------------------------
(* zone_delete, zone_notify_targets, and the commit of the session *)

(* the rest of the former keys: those of get_zone_update_keys *)
ReadFormerUpd(r) ==
  /\ pc[r] = "formerUpd"
  /\ former' = [former EXCEPT ![r] = @ \cup (upd[job[r].zone] \ Globals)]
  /\ Goto(r, "delzone")
  /\ UNCHANGED <<pdnsVars, owned, job, keys, ips, cand, at, todo, bootVars, history>>

(* delete_zone: the zone goes with its metadata *)
DeleteZone(r) ==
  LET z == job[r].zone IN
  /\ pc[r] = "delzone"
  /\ \/ NotFound(r)
     \/ /\ z \in exists
        /\ exists' = exists \ {z}
        /\ member' = member \ {z}
        /\ native' = native \ {z}
        /\ listed' = listed \ {z}
        /\ axfr' = [axfr EXCEPT ![z] = {}]
        /\ upd' = [upd EXCEPT ![z] = {}]
        /\ from' = [from EXCEPT ![z] = {}]
        /\ hurt' = hurt \ {z}
        /\ Goto(r, IF former[r] # {} THEN "list" ELSE "commit")
        /\ UNCHANGED <<tsigkeys, owned, job, regVars, bootVars, lost>>

(* set_zone_also_notify(zone, parsed): a PUT of a list, or a DELETE whose 404
   is swallowed *)
SetTargets(r) ==
  LET z == job[r].zone IN
  /\ pc[r] = "targets"
  /\ \/ job[r].op = "setTargets" /\ NotFound(r)
     \/ /\ job[r].op = "setTargets" => z \in exists
        /\ listed' = IF job[r].op = "setTargets" THEN listed \cup {z} ELSE listed \ {z}
        /\ Goto(r, "kind")
        /\ UNCHANGED <<exists, member, native, axfr, upd, from, tsigkeys,
                       owned, job, regVars, bootVars, history>>

(* set_zone_kind(zone, "Native" if parsed else "Master") *)
SetKind(r) ==
  LET z == job[r].zone IN
  /\ pc[r] = "kind"
  /\ \/ NotFound(r)
     \/ /\ z \in exists
        /\ native' = IF job[r].op = "setTargets" THEN native \cup {z} ELSE native \ {z}
        /\ Finish(r)
        /\ UNCHANGED <<exists, member, listed, axfr, upd, from, tsigkeys,
                       owned, bootVars, history>>

(* mutant: zone_delete leaves the rows of its zone *)
RowsKept(r) == owned \cup {job[r].zone}

(* The zone_access rows after the request *)
Rows(r) == IF job[r].op = "delete" THEN owned \ {job[r].zone} ELSE owned \cup {job[r].zone}

(* get_db commits the rows of the owner of a new zone, or without the rows of
   a deleted one *)
Commit(r) ==
  /\ pc[r] = "commit"
  /\ owned' = Rows(r)
  /\ Finish(r)
  /\ UNCHANGED <<pdnsVars, bootVars, history>>

-----------------------------------------------------------------------------
(* the key of the form, while the request has not put it in a list yet *)
Pending(r) ==
  IF pc[r] \in {"readAxfr", "readUpd"} THEN {job[r].key} \ {NoKey} ELSE {}

(* the keys r has still to list or to clean up *)
Held(r) ==
  former[r] \cup Pending(r)
    \cup (IF pc[r] \in {"setkeys", "readIps", "putUpd"} THEN keys[r] ELSE {})

(***************************************************************************)
(* Failures.  A call may fail or time out: the handler stops where it is,  *)
(* its session is rolled back and nothing it wrote to PowerDNS is undone.  *)
(* zone_delete goes on instead when PowerDNS answers with an error while   *)
(* it reads the zone's keys (it then forgets them) or cleans one up (it    *)
(* passes on to the next).  A restart stops every request.  hurt and lost  *)
(* note what is left behind.                                               *)
(***************************************************************************)
Abort(r) ==
  /\ Faults
  /\ Active(r)
  /\ Finish(r)
  /\ hurt' = hurt \cup {job[r].zone}
  /\ lost' = lost \cup Held(r)
  /\ UNCHANGED <<pdnsVars, owned, bootVars>>

SkipKey(r) ==
  /\ Faults
  /\ job[r].op = "delete" /\ pc[r] \in {"scanAxfr", "scanUpd", "rmkey"}
  /\ NextKey(r, cand[r])
  /\ lost' = lost \cup {cand[r]}
  /\ UNCHANGED <<pdnsVars, owned, bootVars, hurt>>

SkipFormer(r) ==
  /\ Faults
  /\ job[r].op = "delete" /\ pc[r] \in {"former", "formerUpd"}
  /\ ForgetFormer(r)
  /\ lost' = lost \cup Refs(job[r].zone)
  /\ UNCHANGED hurt

Restart ==
  /\ Faults
  /\ boot' = "catalog" /\ stamp' = {}
  /\ pc' = [r \in Requests |-> "idle"]
  /\ job' = [r \in Requests |-> NoJob]
  /\ keys' = [r \in Requests |-> {}]
  /\ ips' = [r \in Requests |-> {}]
  /\ former' = [r \in Requests |-> {}]
  /\ cand' = [r \in Requests |-> NoKey]
  /\ at' = [r \in Requests |-> NoZone]
  /\ todo' = [r \in Requests |-> {}]
  /\ hurt' = hurt \cup {job[r].zone : r \in {q \in Requests : Active(q)}}
  /\ lost' = lost \cup UNION {Held(r) : r \in Requests}
  /\ UNCHANGED <<pdnsVars, owned>>

(***************************************************************************)
(* main.bootstrap runs before the panel serves: ensure_catalog_zone        *)
(* (zone_exists, create_zone, ensure_tsig_allow_axfr), then the stamp of   *)
(* every zone of the list that is not custom.                              *)
(***************************************************************************)
EnsureCatalog ==
  /\ boot = "catalog"
  /\ exists' = exists \cup {Catalog}
  /\ boot' = "catalogKeys"
  /\ UNCHANGED <<member, native, listed, axfr, upd, from, tsigkeys,
                 owned, pc, job, regVars, stamp, history>>

EnsureCatalogKeys ==
  /\ boot = "catalogKeys"
  /\ axfr' = [axfr EXCEPT ![Catalog] = Globals]
  /\ boot' = "list"
  /\ hurt' = hurt \ {Catalog}
  /\ UNCHANGED <<exists, member, native, listed, upd, from, tsigkeys,
                 owned, pc, job, regVars, stamp, lost>>

(* a mutant: only the catalog itself is stamped *)
ToStampCatalog == exists \cap {Catalog}

(* "leave custom zones alone": bootstrap stamps the others *)
ToStamp == {z \in exists : ~Custom(z)}

ListToStamp ==
  /\ boot = "list"
  /\ stamp' = ToStamp
  /\ boot' = "stamp"
  /\ UNCHANGED <<pdnsVars, owned, pc, job, regVars, history>>

StampZone ==
  /\ boot = "stamp"
  /\ \E z \in stamp :
       /\ axfr' = [axfr EXCEPT ![z] = Globals]
       /\ stamp' = stamp \ {z}
  /\ boot' = IF stamp' = {} THEN "up" ELSE "stamp"
  /\ UNCHANGED <<exists, member, native, listed, upd, from, tsigkeys,
                 owned, pc, job, regVars, history>>

(* after 30 failed attempts the panel serves all the same *)
BootGivesUp ==
  /\ Faults
  /\ boot # "up"
  /\ boot' = "up" /\ stamp' = {}
  /\ UNCHANGED <<pdnsVars, owned, pc, job, regVars, history>>

-----------------------------------------------------------------------------
Serve(r) ==
  \/ Start(r)
  \/ Create(r) \/ Uncatalog(r) \/ ReadFormer(r) \/ Join(r) \/ BackToMaster(r)
  \/ Unlist(r) \/ SetKeys(r)
  \/ MakeKey(r) \/ ReadAxfr(r) \/ ReadUpd(r) \/ ReadIps(r)
  \/ PutUpd(r) \/ PutFrom(r) \/ DelUpd(r) \/ DelFrom(r)
  \/ ListZones(r) \/ ScanAxfr(r) \/ ScanUpd(r) \/ RemoveKey(r)
  \/ ReadFormerUpd(r) \/ DeleteZone(r) \/ SetTargets(r) \/ SetKind(r) \/ Commit(r)
  \/ Abort(r) \/ SkipFormer(r) \/ SkipKey(r)

Bootstrap ==
  EnsureCatalog \/ EnsureCatalogKeys \/ ListToStamp \/ StampZone \/ BootGivesUp

Next == Bootstrap \/ Restart \/ \E r \in Requests : Serve(r)

Spec == Init /\ [][Next]_vars
-----------------------------------------------------------------------------
(* a request that is served has a job, and calls what its job calls for *)
JobOK ==
  \A r \in Requests :
    /\ Active(r) => job[r] \in Job
    /\ pc[r] = "mkkey" => job[r].op \in AddOps
    /\ pc[r] = "readAxfr" => job[r].op \in {"keyAdd", "keyDel"}
    /\ pc[r] \in {"scanAxfr", "scanUpd", "rmkey"} => cand[r] \in Key

(* Types; the zones' metadata, the TSIG keys and what each request holds. *)
TypeOK ==
  /\ exists \subseteq Zone /\ member \subseteq UserZone
  /\ native \subseteq UserZone /\ listed \subseteq UserZone
  /\ axfr \in [Zone -> SUBSET Key]
  /\ upd \in [Zone -> SUBSET Key]
  /\ from \in [Zone -> SUBSET Range]
  /\ tsigkeys \subseteq Key
  /\ owned \subseteq UserZone
  /\ pc \in [Requests -> Labels]
  /\ job \in [Requests -> Job \cup {NoJob}]
  /\ keys \in [Requests -> SUBSET Key]
  /\ ips \in [Requests -> SUBSET Range]
  /\ former \in [Requests -> SUBSET Key]
  /\ cand \in [Requests -> Key \cup {NoKey}]
  /\ at \in [Requests -> Zone \cup {NoZone}]
  /\ todo \in [Requests -> SUBSET Zone]
  /\ boot \in {"catalog", "catalogKeys", "list", "stamp", "up"}
  /\ stamp \subseteq Zone
  /\ hurt \subseteq Zone /\ lost \subseteq Key
  /\ JobOK

(* A per-zone key that a zone trusts exists: tsig_key_in_use lets a key be
   deleted only when truly unreferenced, and no handler writes a key back that
   another has removed. *)
ReferencedKeysExist == \A z \in exists : Refs(z) \ Globals \subseteq tsigkeys

(* "One key per trust domain" (set_zone_tsig_keys): a per-zone key authorises
   transfers and updates of one zone only. *)
OneTrustDomain ==
  \A y, z \in exists : y # z => Refs(y) \cap Refs(z) \subseteq Globals

(* A key is deleted only when truly unreferenced (tsig_key_in_use), although the
   zones are asked one after another while others are changed.  The exception is
   an extra configured key that a failure has left in a custom zone: the key form
   offers it there, and a zone may be getting it while it is cleaned up. *)
DeletedUnreferenced ==
  [][\A k \in tsigkeys \ tsigkeys' :
       \/ \A z \in exists : k \notin Refs(z)
       \/ k \in Extra /\ \E r \in Requests : cand[r] = k /\ job[r].zone \in hurt]_vars

(* Between requests, whatever modes a zone has been through and whatever has
   failed on others: a member of the catalog is read by the whole fleet, and a
   custom zone by the panel (the primary key) and none of the fleet's extra keys. *)
ModeKeys ==
  Quiet => \A z \in exists \ hurt :
    IF Custom(z) THEN axfr[z] \cap Globals = {Primary} ELSE axfr[z] = Globals

(* Between requests a zone has an address gate exactly when it has update
   keys: an address gate alone would let unsigned updates through.  ("no key ->
   updates fully off (and never leave an open IP allow-list)") *)
UpdateGate == Quiet => \A z \in exists : from[z] # {} <=> upd[z] # {}

(* ... which holds of every zone on which no request has stopped half-way. *)
GateUnlessHurt == Quiet => \A z \in exists \ hurt : from[z] # {} <=> upd[z] # {}

(* A user's restriction of the update sources outlives every change of keys:
   it is replaced by zone_update_ips, or goes with the last key or the zone. *)
RestrictionKept ==
  [][\A z \in exists \cap exists' :
       /\ from[z] \notin {{}, AnySource}
       /\ from'[z] # from[z]
       => \/ \E r \in Requests : job[r].op = "setIps" /\ job[r].zone = z
          \/ upd'[z] = {}]_vars

(* Between requests a custom zone with a notify list is one that PowerDNS does
   not notify for: NOTIFY goes to exactly the listed servers, unless a request on
   this very zone has stopped half-way. *)
NotifyScoped == Quiet => \A z \in exists \ hurt : Custom(z) => (z \in listed <=> z \in native)

(* Between requests a zone exists exactly when somebody has access to it, unless
   its own creation or deletion has stopped half-way: PowerDNS and the panel's
   database are changed in two steps. *)
ZonesOwned == Quiet => \A z \in UserZone \ hurt : z \in owned <=> z \in exists

(* Between requests every per-zone key is in use: what the handlers create they
   also clean up, except for the keys a request which failed had in hand. *)
NoLeakedKeys ==
  Quiet => tsigkeys \subseteq Globals \cup lost \cup UNION {Refs(z) : z \in exists}

(* The start-up stamp repairs what a crash left: a zone of the catalog that is
   no longer to be stamped allows exactly the configured keys. *)
StampRepairs ==
  boot = "stamp" => \A z \in exists \ stamp : ~Custom(z) => axfr[z] = Globals

-----------------------------------------------------------------------------
(***************************************************************************)
(* The inductive invariant behind ReferencedKeysExist and OneTrustDomain   *)
(* when requests on one zone do not overlap: a key that is not configured  *)
(* belongs to one zone, to which the copies of it that requests hold count *)
(* as well, and exists as long as it belongs to a zone.                    *)
(***************************************************************************)
Private == Key \ Globals

Own(r) == keys[r] \cup former[r] \cup Pending(r)

Exclusive ==
  /\ \A r \in Requests : ~Active(r) => job[r] = NoJob /\ keys[r] = {} /\ former[r] = {}
  /\ \A r, q \in Requests : r # q /\ Active(r) /\ Active(q) => job[r].zone # job[q].zone

GoneIsBare == \A z \in Zone \ exists : axfr[z] = {} /\ upd[z] = {}

BelongsToOne ==
  /\ \A y, z \in Zone : y # z => Refs(y) \cap Refs(z) \cap Private = {}
  /\ \A r \in Requests, y \in Zone :
       y # job[r].zone => Refs(y) \cap Own(r) \cap Private = {}
  /\ \A r, q \in Requests : r # q => Own(r) \cap Own(q) \cap Private = {}

BelongsAndExists ==
  /\ \A z \in Zone : Refs(z) \cap Private \subseteq tsigkeys
  /\ \A r \in Requests : Own(r) \cap Private \subseteq tsigkeys

(* What request r knows of its own zone: the keys it cleans up are not among
   those it writes, and a zone it has scanned does not refer to the one it
   looks for. *)
Knows(r) ==
  LET z == job[r].zone
      unused == cand[r] \notin Refs(z)
  IN
  /\ pc[r] \in {"create", "mkkey", "former", "formerUpd", "delzone", "join",
                "master", "unlist", "uncatalog"} => keys[r] = {}
  /\ pc[r] \notin {"readAxfr", "readUpd"} => former[r] \cap keys[r] = {}
  /\ pc[r] \in {"scanAxfr", "scanUpd", "rmkey"} => cand[r] \in former[r]
  /\ pc[r] = "scanAxfr" => z \in todo[r] \/ unused
  /\ pc[r] = "scanUpd" =>
       /\ at[r] \in Zone
       /\ IF at[r] = z THEN cand[r] \notin axfr[z] ELSE z \in todo[r] \/ unused
  /\ pc[r] = "rmkey" => unused

KeyInv ==
  /\ TypeOK
  /\ Exclusive
  /\ GoneIsBare
  /\ BelongsToOne
  /\ BelongsAndExists
  /\ \A r \in Requests : Knows(r)
=============================================================================
