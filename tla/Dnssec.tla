------------------------------- MODULE Dnssec -------------------------------
(***************************************************************************)
(* DNSSEC of one zone. Owners switch it on and off, each switch a request  *)
(* that makes several calls to PowerDNS; secondaries serve the signed zone *)
(* they have transferred; owners enter DS records at the registrar by      *)
(* hand; and the on-demand diagnosis asks all of them, one after another,  *)
(* what is wrong.                                                          *)
(*                                                                         *)
(* A key stands for its DNSKEY, its DS and the signatures made with it.    *)
(* PowerDNS numbers its keys 1, 2, ...; 0 is the key of a former provider. *)
(***************************************************************************)
EXTENDS Integers, FiniteSets

CONSTANTS
  Requests,   \* the threads that handle switches
  Servers,    \* the addresses of the name servers of the zone
  MaxOps,     \* bound on switches and on changes at the registrar
  MaxFaults   \* bound on calls that fail and requests that die

ASSUME DnssecAssumption == MaxOps \in Nat /\ MaxFaults \in Nat

VARIABLES
  keys,    \* PowerDNS: the active keys of the zone
  made,    \* PowerDNS: the number of keys it has made
  nsec3,   \* PowerDNS: nsec3param is set
  chain,   \* PowerDNS: the chain the zone was last rectified for
  served,  \* served[s]: the keys that signed the copy that s serves
  behind,  \* the servers whose copy has an older serial than the zone
  ds,      \* parent zone: the keys whose DS it publishes
  op,      \* op[r]: the switch request r is working on
  pc,      \* pc[r]: its next call
  found,   \* found[r]: of the keys it has read, those still to delete
  opposed, \* history: the requests that a switch the other way has overlapped
  raced,   \* history: two switches have overlapped
  ops,     \* history: their number, with the changes at the registrar
  faults,  \* history: the number of failures
  step,    \* diagnosis: what it does next
  seen,    \* diagnosis: the keys it has read
  parent,  \* diagnosis: the DS records it has got
  verdict, \* diagnosis: what validating resolvers say
  rows,    \* diagnosis: rows[s]: what server s serves
  clear,   \* history: all its questions have been answered
  calm     \* history: nothing has changed since it started

zoneVars == <<keys, made, nsec3, chain>>
copyVars == <<served, behind>>
requestVars == <<op, pc, found, opposed, raced, ops>>
checkVars == <<step, seen, parent, verdict, rows, clear>>
vars == <<zoneVars, copyVars, ds, requestVars, faults, checkVars, calm>>

Rows == {"down", "unsigned", "expiring", "ok"}
NoKeys == [s \in Servers |-> {}]
Unasked == [s \in Servers |-> "down"]

Init ==
  /\ keys = {} /\ made = 0 /\ nsec3 = FALSE /\ chain = "none"
  /\ served = NoKeys /\ behind = {}
  /\ ds \in SUBSET {0}
  /\ op = [r \in Requests |-> "none"] /\ pc = [r \in Requests |-> "idle"]
  /\ found = [r \in Requests |-> {}]
  /\ opposed = {} /\ raced = FALSE /\ ops = 0 /\ faults = 0
  /\ step = "idle" /\ seen = {} /\ parent = {} /\ verdict = "none" /\ rows = Unasked
  /\ clear = TRUE /\ calm = TRUE

ChainOf(ks, on) == IF ks = {} THEN "none" ELSE IF on THEN "nsec3" ELSE "nsec"

(* The serial moves, so that the secondaries will transfer the zone; or not. *)
Bump == behind' = Servers /\ UNCHANGED served
MayBump == Bump \/ UNCHANGED copyVars

(* something changes under the eyes of a running diagnosis *)
Disturb == calm' = (step = "idle")
Goto(r, l) == pc' = [pc EXCEPT ![r] = l]
Busy == {r \in Requests : pc[r] # "idle"}

-----------------------------------------------------------------------------
(* The switches. Only owners of the zone and admins get so far. *)

Begin(r, o) ==
  /\ pc[r] = "idle" /\ ops < MaxOps
  /\ op' = [op EXCEPT ![r] = o] /\ Goto(r, "keys") /\ ops' = ops + 1
  /\ raced' = (raced \/ Busy # {})
  /\ LET other == {q \in Busy : op[q] # o}
     IN  opposed' = (opposed \ {r}) \cup other \cup (IF other = {} THEN {} ELSE {r})
  /\ UNCHANGED <<zoneVars, copyVars, ds, found, faults, checkVars, calm>>

SkipsIfSecured(r) ==  \* a mutant: a zone with a key needs nothing more
  IF op[r] = "enable"
  THEN IF keys = {} THEN "post" ELSE "notify"
  ELSE IF keys = {} THEN "notify" ELSE "clear"

PostsAlways(r) ==  \* a mutant: every attempt makes a key
  IF op[r] = "enable" THEN "post" ELSE IF keys = {} THEN "notify" ELSE "clear"

ClearsAlways(r) ==  \* a mutant: disable goes through an empty list
  IF op[r] = "enable" THEN IF keys = {} THEN "post" ELSE "nsec3" ELSE "clear"

(* enable makes a key if there is none; disable has nothing to do then *)
AfterKeys(r) ==
  IF op[r] = "enable"
  THEN IF keys = {} THEN "post" ELSE "nsec3"
  ELSE IF keys = {} THEN "notify" ELSE "clear"

ReadKeys(r) ==
  /\ pc[r] = "keys"
  /\ found' = [found EXCEPT ![r] = IF op[r] = "enable" THEN {} ELSE keys]
  /\ Goto(r, AfterKeys(r))
  /\ UNCHANGED <<zoneVars, copyVars, ds, op, opposed, raced, ops, faults, checkVars, calm>>

PostKey(r) ==
  /\ pc[r] = "post"
  /\ made' = made + 1 /\ keys' = keys \cup {made + 1}
  /\ Goto(r, "nsec3") /\ MayBump /\ Disturb
  /\ UNCHANGED <<nsec3, chain, ds, op, found, opposed, raced, ops, faults, checkVars>>

(* nsec3param is set, or cleared; PowerDNS may rectify the zone at once *)
SetNsec3(r) ==
  /\ pc[r] \in {"nsec3", "clear"}
  /\ nsec3' = (pc[r] = "nsec3")
  /\ chain' \in {chain, ChainOf(keys, pc[r] = "nsec3")}
  /\ Goto(r, IF pc[r] = "nsec3" THEN "rectify" ELSE "delete")
  /\ MayBump
  /\ UNCHANGED <<keys, made, ds, op, found, opposed, raced, ops, faults, checkVars, calm>>

Rectify(r) ==
  /\ pc[r] = "rectify"
  /\ chain' = ChainOf(keys, nsec3)
  /\ Goto(r, "notify") /\ Bump
  /\ UNCHANGED <<keys, made, nsec3, ds, op, found, opposed, raced, ops, faults, checkVars, calm>>

FirstOf(ks) == CHOOSE k \in ks : \A j \in ks : k <= j

FirstOnly(r) == {}  \* a mutant: the zone is taken to have one key

Rest(r) == found[r] \ {FirstOf(found[r])}

(* key after key; of one that is gone PowerDNS may not know any more *)
DeleteKey(r) ==
  /\ pc[r] = "delete"
  /\ keys' = keys \ {FirstOf(found[r])}
  /\ found' = [found EXCEPT ![r] = Rest(r)]
  /\ Goto(r, IF Rest(r) = {} THEN "notify" ELSE "delete")
  /\ MayBump /\ Disturb
  /\ UNCHANGED <<made, nsec3, chain, ds, op, opposed, raced, ops, faults, checkVars>>

Forget(r) ==
  /\ Goto(r, "idle")
  /\ op' = [op EXCEPT ![r] = "none"] /\ found' = [found EXCEPT ![r] = {}]
  /\ opposed' = opposed \ {r}

(* PowerDNS has no such key, or no key at all to use NSEC3 with *)
Refused(r) ==
  /\ \/ pc[r] = "delete" /\ FirstOf(found[r]) \notin keys
     \/ pc[r] \in {"nsec3", "rectify"} /\ keys = {}
  /\ Forget(r)
  /\ UNCHANGED <<zoneVars, copyVars, ds, raced, ops, faults, checkVars, calm>>

(* a call fails, before or after it has taken effect, or the process ends *)
Abort(r) ==
  /\ pc[r] \notin {"idle", "done"} /\ faults < MaxFaults
  /\ faults' = faults + 1
  /\ Forget(r)
  /\ UNCHANGED <<zoneVars, copyVars, ds, raced, ops, checkVars, calm>>

(* the secondaries are told, and the user *)
Notify(r) ==
  /\ pc[r] = "notify" /\ Goto(r, "done")
  /\ UNCHANGED <<zoneVars, copyVars, ds, op, found, opposed, raced, ops, faults, checkVars, calm>>

Respond(r) ==
  /\ pc[r] = "done" /\ Forget(r)
  /\ UNCHANGED <<zoneVars, copyVars, ds, raced, ops, faults, checkVars, calm>>

-----------------------------------------------------------------------------
(* The rest of the world. *)

(* a record is edited, or the scheduler moves the serial *)
Edit ==
  /\ chain' = ChainOf(keys, nsec3) /\ Bump
  /\ UNCHANGED <<keys, made, nsec3, ds, requestVars, faults, checkVars, calm>>

Transfer(s) ==
  /\ s \in behind
  /\ served' = [served EXCEPT ![s] = keys]
  /\ behind' = behind \ {s}
  /\ Disturb
  /\ UNCHANGED <<zoneVars, ds, requestVars, faults, checkVars>>

(* the owner enters the DS of a key the page shows, or has one removed *)
Registrar ==
  /\ \/ \E k \in keys \ ds : ds' = ds \cup {k}
     \/ \E k \in ds : ds' = ds \ {k}
  /\ ops < MaxOps /\ ops' = ops + 1
  /\ Disturb
  /\ UNCHANGED <<zoneVars, copyVars, op, pc, found, opposed, raced, faults, checkVars>>

-----------------------------------------------------------------------------
(* check_dnssec. A report stays on the page until the next one is asked for. *)

checkOnly == <<zoneVars, copyVars, ds, requestVars, faults>>

AnswersAtOnce == IF keys = {} THEN "report" ELSE "parent"  \* a mutant: no key, no question

(* the parent is asked even when the zone has no key *)
FirstQuestion == "parent"

Check ==
  /\ step = "idle" /\ step' = FirstQuestion
  /\ seen' = keys
  /\ parent' = {} /\ verdict' = "none" /\ rows' = Unasked
  /\ clear' = TRUE /\ calm' = TRUE
  /\ UNCHANGED checkOnly

(* _parent_ds; when it fails the set is empty as well *)
AskParent ==
  /\ step = "parent"
  /\ \/ parent' = ds /\ UNCHANGED clear
     \/ parent' = {} /\ clear' = FALSE
  /\ step' = IF seen = {} THEN "report" ELSE "verdict"
  /\ UNCHANGED <<checkOnly, seen, verdict, rows, calm>>

(* A validator accepts what s serves. *)
Accepts(s) == ds = {} \/ served[s] \cap ds # {}

(* dnssec_status: a validating resolver has asked some server; a resolver that
   cannot answer says what it says of a broken zone *)
AskResolver ==
  /\ step = "verdict" /\ step' = "servers"
  /\ \/ /\ \E s \in Servers :
             verdict' = IF ~Accepts(s) THEN "bogus" ELSE IF ds = {} THEN "insecure" ELSE "secure"
        /\ UNCHANGED clear
     \/ verdict' \in {"error", "bogus"} /\ clear' = FALSE
  /\ UNCHANGED <<checkOnly, seen, parent, rows, calm>>

(* _classify_ns; signatures expire in some days or in many *)
RowsOf(s) ==
  {"down"} \cup IF served[s] = {} THEN {"unsigned"} ELSE {"expiring", "ok"}

(* the servers are asked side by side *)
AskServers ==
  /\ step = "servers" /\ step' = "report"
  /\ rows' \in {f \in [Servers -> Rows] : \A s \in Servers : f[s] \in RowsOf(s)}
  /\ clear' = (clear /\ \A s \in Servers : rows'[s] # "down")
  /\ UNCHANGED <<checkOnly, seen, parent, verdict, calm>>

(* the report is put away; or PowerDNS does not say what the servers are, and
   there is no report *)
Close ==
  /\ step \in {"servers", "report"} /\ step' = "idle"
  /\ seen' = {} /\ parent' = {} /\ verdict' = "none" /\ rows' = Unasked
  /\ clear' = TRUE /\ calm' = TRUE
  /\ UNCHANGED checkOnly

(* classify_parent and the warnings of the report *)
Warnings ==
  IF seen = {}
  THEN {w \in {"dangling"} : parent # {}}
  ELSE {w \in {"absent"} : parent = {}}
       \cup {w \in {"mismatch"} : parent # {} /\ parent \cap seen = {}}
       \cup {w \in {"stale"} : parent \ seen # {}}
       \cup {w \in {"bogus"} : verdict = "bogus"}
       \cup {w \in {"unsigned"} : \E s \in Servers : rows[s] = "unsigned"}
       \cup {w \in {"expiring"} : \E s \in Servers : rows[s] = "expiring"}

Switch(r) ==
  \/ \E o \in {"enable", "disable"} : Begin(r, o)
  \/ ReadKeys(r) \/ PostKey(r) \/ SetNsec3(r) \/ Rectify(r) \/ DeleteKey(r) \/ Refused(r)
  \/ Abort(r) \/ Notify(r) \/ Respond(r)

World == Edit \/ Registrar \/ \E s \in Servers : Transfer(s)

Diagnosis == Check \/ AskParent \/ AskResolver \/ AskServers \/ Close

Next == (\E r \in Requests : Switch(r)) \/ World \/ Diagnosis

Spec == Init /\ [][Next]_vars

-----------------------------------------------------------------------------
Keys == 0..made

TypeOK ==
  /\ made \in Nat /\ keys \subseteq 1..made
  /\ nsec3 \in BOOLEAN /\ chain \in {"none", "nsec", "nsec3"}
  /\ served \in [Servers -> SUBSET (1..made)] /\ behind \subseteq Servers
  /\ ds \subseteq Keys
  /\ op \in [Requests -> {"none", "enable", "disable"}]
  /\ pc \in [Requests -> {"idle", "keys", "post", "nsec3", "rectify", "clear", "delete",
                          "notify", "done"}]
  /\ found \in [Requests -> SUBSET (1..made)]
  /\ \A r \in Requests : pc[r] \in {"clear", "delete"} => found[r] # {}
  /\ opposed \subseteq Busy /\ raced \in BOOLEAN
  /\ ops \in Nat /\ faults \in Nat
  /\ step \in {"idle", "parent", "verdict", "servers", "report"}
  /\ seen \subseteq 1..made /\ parent \subseteq Keys
  /\ verdict \in {"none", "secure", "insecure", "bogus", "error"}
  /\ rows \in [Servers -> Rows]
  /\ clear \in BOOLEAN /\ calm \in BOOLEAN

(* Whatever attempts have failed half-way before: when enabling succeeds and
   nothing the other way has overlapped it, the zone has a key, NSEC3 and the
   chain for it, and every secondary serves such a key's signatures or has a
   transfer ahead. Then, too, disabling leaves no key, and, unless switches
   have overlapped some time, no NSEC3. *)
SwitchIsWhole ==
  \A r \in Requests \ opposed :
    pc[r] = "done" =>
      IF op[r] = "enable"
      THEN /\ keys # {} /\ nsec3 /\ chain = "nsec3"
           /\ \A s \in Servers : served[s] \cap keys # {} \/ s \in behind
      ELSE keys = {} /\ (nsec3 => raced)

(* As long as no two switches overlap, there is never a second key, though
   attempts fail and are repeated, and no NSEC3 without a key, which disabling
   would not find. *)
OneKeyIfApart ==
  ~raced => (\A j, k \in keys : j = k) /\ (nsec3 => keys # {})

(* A server serves a signed copy from before the last change of the keys. *)
Lags(s) == served[s] # {} /\ served[s] # keys

(* When validators reject what some server serves, a report says so, if its
   questions were answered and nothing changed while it asked. It does not look
   which keys the signatures of a server are made with, so a server that lags
   may go unnoticed. *)
OutageIsSeen ==
  step = "report" /\ clear /\ calm =>
    ((\E s \in Servers : ~Accepts(s)) => Warnings # {} \/ \E s \in Servers : Lags(s))

=============================================================================
