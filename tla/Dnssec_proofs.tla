---------------------------- MODULE Dnssec_proofs ----------------------------
(***************************************************************************)
(* Proofs about the DNSSEC switches and the diagnosis, for any number of   *)
(* requests, servers, keys and failures.                                   *)
(***************************************************************************)
EXTENDS Dnssec, TLAPS

(* A new key has the next number. *)
LEMMA NextNumber ==
  ASSUME NEW m \in Nat
  PROVE  /\ m + 1 \in Nat /\ m + 1 \in 1..(m + 1)
         /\ 1..m \subseteq 1..(m + 1) /\ 0..m \subseteq 0..(m + 1) /\ 1..m \subseteq 0..m
OBVIOUS

LEMMA BusyAfter ==
  ASSUME TypeOK, NEW r \in Requests, NEW l, Goto(r, l)
  PROVE  /\ Busy' = IF l = "idle" THEN Busy \ {r} ELSE Busy \cup {r}
         /\ \A q \in Requests : pc'[q] = IF q = r THEN l ELSE pc[q]
<1>1. \A q \in Requests : pc'[q] = IF q = r THEN l ELSE pc[q]
  BY DEF Goto, TypeOK
<1> QED
  BY <1>1 DEF Busy

LEMMA CopyTypes ==
  ASSUME TypeOK, MayBump
  PROVE  behind' \subseteq Servers /\ UNCHANGED served
BY DEF MayBump, Bump, copyVars, TypeOK

LEMMA ForgetTypes ==
  ASSUME TypeOK, NEW r \in Requests, Forget(r)
  PROVE  /\ op' \in [Requests -> {"none", "enable", "disable"}]
         /\ pc' \in [Requests -> {"idle", "keys", "post", "nsec3", "rectify", "clear", "delete",
                                  "notify", "done"}]
         /\ found' \in [Requests -> SUBSET (1..made)]
         /\ \A q \in Requests : pc'[q] \in {"clear", "delete"} => found'[q] # {}
         /\ opposed' \subseteq Busy'
<1>1. Busy' = Busy \ {r}
  BY BusyAfter DEF Forget
<1>2. \A q \in Requests : pc'[q] \in {"clear", "delete"} => found'[q] # {}
  BY BusyAfter DEF Forget, TypeOK
<1>3. found' \in [Requests -> SUBSET (1..made)]
  BY DEF Forget, TypeOK
<1> QED
  BY <1>1, <1>2, <1>3 DEF Forget, Goto, TypeOK

LEMMA SwitchTypes ==
  ASSUME TypeOK, NEW r \in Requests, Switch(r)
  PROVE  TypeOK'
<1>1. ASSUME NEW o \in {"enable", "disable"}, Begin(r, o) PROVE TypeOK'
  <2>1. Busy' = Busy \cup {r} /\ \A q \in Requests : pc'[q] = IF q = r THEN "keys" ELSE pc[q]
    BY <1>1, BusyAfter DEF Begin
  <2>2. opposed' \subseteq Busy'
    BY <1>1, <2>1 DEF Begin, TypeOK
  <2>3. ops' \in Nat /\ raced' \in BOOLEAN
    BY <1>1 DEF Begin, TypeOK
  <2> QED
    BY <1>1, <2>1, <2>2, <2>3 DEF Begin, Goto, TypeOK, zoneVars, copyVars, checkVars, Keys
<1>2. CASE ReadKeys(r)
  <2>1. /\ AfterKeys(r) \in {"post", "nsec3", "clear", "notify"}
        /\ AfterKeys(r) = "clear" => keys # {} /\ op[r] # "enable"
    BY DEF AfterKeys
  <2>2. Busy' = Busy \cup {r} /\ \A q \in Requests : pc'[q] = IF q = r THEN AfterKeys(r) ELSE pc[q]
    BY <1>2, <2>1, BusyAfter DEF ReadKeys
  <2>3. found' \in [Requests -> SUBSET (1..made)]
        /\ \A q \in Requests : pc'[q] \in {"clear", "delete"} => found'[q] # {}
    BY <1>2, <2>1, <2>2 DEF ReadKeys, TypeOK
  <2>4. opposed' \subseteq Busy'
    BY <1>2, <2>2 DEF ReadKeys, TypeOK
  <2> QED
    BY <1>2, <2>1, <2>3, <2>4 DEF ReadKeys, Goto, TypeOK, zoneVars, copyVars, checkVars, Keys
<1>3. CASE PostKey(r)
  <2>1. /\ made' = made + 1 /\ made' \in Nat /\ made' \in 1..made'
        /\ 1..made \subseteq 1..made' /\ Keys \subseteq Keys'
    BY <1>3, NextNumber DEF PostKey, TypeOK, Keys
  <2>2. Busy' = Busy \cup {r} /\ \A q \in Requests : pc'[q] = IF q = r THEN "nsec3" ELSE pc[q]
    BY <1>3, BusyAfter DEF PostKey
  <2>3. keys' \subseteq 1..made' /\ seen' \subseteq 1..made' /\ parent' \subseteq Keys'
        /\ ds' \subseteq Keys'
    BY <1>3, <2>1 DEF PostKey, TypeOK, checkVars
  <2>4. found' \in [Requests -> SUBSET (1..made')]
    <3>1. \A q \in Requests : found[q] \subseteq 1..made'
      BY <2>1 DEF TypeOK
    <3> QED
      BY <1>3, <3>1 DEF PostKey, TypeOK
  <2>5. served' \in [Servers -> SUBSET (1..made')]
    <3>1. \A s \in Servers : served[s] \subseteq 1..made'
      BY <2>1 DEF TypeOK
    <3> QED
      BY <1>3, <3>1, CopyTypes DEF PostKey, TypeOK
  <2>6. opposed' \subseteq Busy' /\ calm' \in BOOLEAN
    BY <1>3, <2>2 DEF PostKey, TypeOK, Disturb
  <2>7. \A q \in Requests : pc'[q] \in {"clear", "delete"} => found'[q] # {}
    BY <1>3, <2>2 DEF PostKey, TypeOK
  <2>8. behind' \subseteq Servers
    BY <1>3, CopyTypes DEF PostKey
  <2> QED
    BY <1>3, <2>1, <2>3, <2>4, <2>5, <2>6, <2>7, <2>8 DEF PostKey, Goto, TypeOK, checkVars
<1>4. CASE SetNsec3(r)
  <2>1. PICK l \in {"rectify", "delete"} :
          /\ l = (IF pc[r] = "nsec3" THEN "rectify" ELSE "delete") /\ Goto(r, l)
    BY <1>4 DEF SetNsec3
  <2>2. Busy' = Busy \cup {r} /\ \A q \in Requests : pc'[q] = IF q = r THEN l ELSE pc[q]
    BY <2>1, BusyAfter
  <2>3. \A q \in Requests : pc'[q] \in {"clear", "delete"} => found'[q] # {}
    BY <1>4, <2>1, <2>2 DEF SetNsec3, TypeOK
  <2>4. opposed' \subseteq Busy' /\ chain' \in {"none", "nsec", "nsec3"} /\ nsec3' \in BOOLEAN
    BY <1>4, <2>2 DEF SetNsec3, TypeOK, ChainOf
  <2>5. behind' \subseteq Servers /\ UNCHANGED served
    BY <1>4, CopyTypes DEF SetNsec3
  <2> QED
    BY <1>4, <2>1, <2>3, <2>4, <2>5 DEF SetNsec3, Goto, TypeOK, checkVars, Keys
<1>5. CASE Rectify(r)
  <2>1. Busy' = Busy \cup {r} /\ \A q \in Requests : pc'[q] = IF q = r THEN "notify" ELSE pc[q]
    BY <1>5, BusyAfter DEF Rectify
  <2>2. chain' \in {"none", "nsec", "nsec3"}
    BY <1>5 DEF Rectify, ChainOf
  <2> QED
    BY <1>5, <2>1, <2>2 DEF Rectify, Bump, Goto, TypeOK, checkVars, Keys
<1>6. CASE DeleteKey(r)
  <2>1. PICK l \in {"notify", "delete"} :
          /\ l = (IF Rest(r) = {} THEN "notify" ELSE "delete") /\ Goto(r, l)
    BY <1>6 DEF DeleteKey
  <2>2. Busy' = Busy \cup {r} /\ \A q \in Requests : pc'[q] = IF q = r THEN l ELSE pc[q]
    BY <2>1, BusyAfter
  <2>3. Rest(r) \subseteq 1..made
    BY DEF Rest, TypeOK
  <2>4. found' \in [Requests -> SUBSET (1..made)]
        /\ \A q \in Requests : pc'[q] \in {"clear", "delete"} => found'[q] # {}
    BY <1>6, <2>1, <2>2, <2>3 DEF DeleteKey, TypeOK
  <2>5. behind' \subseteq Servers /\ UNCHANGED served
    BY <1>6, CopyTypes DEF DeleteKey
  <2>6. opposed' \subseteq Busy' /\ keys' \subseteq 1..made /\ calm' \in BOOLEAN
    BY <1>6, <2>2 DEF DeleteKey, TypeOK, Disturb
  <2> QED
    BY <1>6, <2>1, <2>4, <2>5, <2>6 DEF DeleteKey, Goto, TypeOK, checkVars, Keys
<1>7. CASE Refused(r) \/ Respond(r)
  <2>1. Forget(r) /\ UNCHANGED <<zoneVars, copyVars, ds, raced, ops, faults, checkVars, calm>>
    BY <1>7 DEF Refused, Respond
  <2> QED
    BY <2>1, ForgetTypes DEF TypeOK, zoneVars, copyVars, checkVars, Keys
<1>8. CASE Abort(r)
  <2>1. Forget(r) /\ faults' \in Nat
    BY <1>8 DEF Abort, TypeOK
  <2> QED
    BY <1>8, <2>1, ForgetTypes DEF Abort, TypeOK, zoneVars, copyVars, checkVars, Keys
<1>9. CASE Notify(r)
  <2>1. Busy' = Busy \cup {r} /\ \A q \in Requests : pc'[q] = IF q = r THEN "done" ELSE pc[q]
    BY <1>9, BusyAfter DEF Notify
  <2>2. \A q \in Requests : pc'[q] \in {"clear", "delete"} => found'[q] # {}
    BY <1>9, <2>1 DEF Notify, TypeOK
  <2>3. opposed' \subseteq Busy'
    BY <1>9, <2>1 DEF Notify, TypeOK
  <2> QED
    BY <1>9, <2>2, <2>3 DEF Notify, Goto, TypeOK, zoneVars, copyVars, checkVars, Keys
<1> QED
  BY <1>1, <1>2, <1>3, <1>4, <1>5, <1>6, <1>7, <1>8, <1>9 DEF Switch

LEMMA WorldTypes ==
  ASSUME TypeOK, World
  PROVE  TypeOK'
<1>1. CASE Edit
  BY <1>1 DEF Edit, Bump, ChainOf, TypeOK, requestVars, checkVars, Keys, Busy
<1>2. CASE Registrar
  <2>1. ds' \subseteq Keys /\ ops' \in Nat /\ calm' \in BOOLEAN
    BY <1>2, NextNumber DEF Registrar, TypeOK, Disturb, Keys
  <2> QED
    BY <1>2, <2>1 DEF Registrar, TypeOK, zoneVars, copyVars, checkVars, Keys, Busy
<1>3. ASSUME NEW s \in Servers, Transfer(s) PROVE TypeOK'
  <2>1. served' \in [Servers -> SUBSET (1..made)] /\ calm' \in BOOLEAN
    BY <1>3 DEF Transfer, TypeOK, Disturb
  <2> QED
    BY <1>3, <2>1 DEF Transfer, TypeOK, zoneVars, requestVars, checkVars, Keys, Busy
<1> QED
  BY <1>1, <1>2, <1>3 DEF World

LEMMA DiagnosisTypes ==
  ASSUME TypeOK, Diagnosis
  PROVE  TypeOK'
<1>1. Unasked \in [Servers -> Rows]
  BY DEF Unasked, Rows
<1>2. CASE Check
  BY <1>1, <1>2 DEF Check, FirstQuestion, checkOnly, zoneVars, copyVars, requestVars, TypeOK, Keys, Busy
<1>3. CASE AskParent
  BY <1>3 DEF AskParent, checkOnly, zoneVars, copyVars, requestVars, TypeOK, Keys, Busy
<1>4. CASE AskResolver
  BY <1>4 DEF AskResolver, checkOnly, zoneVars, copyVars, requestVars, TypeOK, Keys, Busy
<1>5. CASE AskServers
  <2>1. clear' \in BOOLEAN
    BY <1>5 DEF AskServers, TypeOK
  <2> QED
    BY <1>5, <2>1 DEF AskServers, checkOnly, zoneVars, copyVars, requestVars, TypeOK, Keys, Busy
<1>6. CASE Close
  BY <1>1, <1>6 DEF Close, checkOnly, zoneVars, copyVars, requestVars, TypeOK, Keys, Busy
<1> QED
  BY <1>2, <1>3, <1>4, <1>5, <1>6 DEF Diagnosis

(* Types; and who is about to delete has a key to delete. *)
THEOREM TypeCorrect == Spec => []TypeOK
<1>1. Init => TypeOK
  <2> SUFFICES ASSUME Init PROVE TypeOK
    OBVIOUS
  <2>1. made \in Nat /\ ds \subseteq 0..made /\ 1..made = {}
    BY DEF Init
  <2>2. rows \in [Servers -> Rows]
    BY DEF Init, Unasked, Rows
  <2> QED
    BY <2>1, <2>2 DEF Init, TypeOK, NoKeys, Keys, Busy
<1>2. TypeOK /\ [Next]_vars => TypeOK'
  <2>1. TypeOK /\ UNCHANGED vars => TypeOK'
    BY DEF TypeOK, vars, zoneVars, copyVars, requestVars, checkVars, Keys, Busy
  <2> QED
    BY <2>1, SwitchTypes, WorldTypes, DiagnosisTypes DEF Next
<1> QED
  BY <1>1, <1>2, PTL DEF Spec

-----------------------------------------------------------------------------
(* Which calls belong to which switch; and what a request that no switch the
   other way has overlapped, or that has never been overlapped, has reached. *)
KindInv ==
  \A r \in Requests :
    /\ pc[r] # "idle" => op[r] \in {"enable", "disable"}
    /\ pc[r] \in {"post", "nsec3", "rectify"} => op[r] = "enable"
    /\ pc[r] \in {"clear", "delete"} => op[r] = "disable"

OpposedInv == \A r, q \in Busy : op[r] # op[q] => r \in opposed /\ q \in opposed

ApartInv ==
  ~raced =>
    /\ \A r, q \in Busy : r = q
    /\ \A j, k \in keys : j = k
    /\ nsec3 => keys # {}
    /\ \A r \in Requests : /\ pc[r] = "post" => keys = {}
                           /\ pc[r] = "nsec3" => keys # {}
                           /\ pc[r] = "delete" => ~nsec3

EnableInv ==
  \A r \in Requests \ opposed :
    op[r] = "enable" =>
      /\ pc[r] \in {"nsec3", "rectify", "notify", "done"} => keys # {}
      /\ pc[r] \in {"rectify", "notify", "done"} => nsec3
      /\ pc[r] \in {"notify", "done"} =>
           /\ chain = "nsec3"
           /\ \A s \in Servers : served[s] \cap keys # {} \/ s \in behind

DisableInv ==
  \A r \in Requests \ opposed :
    op[r] = "disable" =>
      /\ pc[r] \in {"clear", "delete"} => keys \subseteq found[r]
      /\ pc[r] = "delete" => ~nsec3
      /\ pc[r] \in {"notify", "done"} => keys = {} /\ (nsec3 => raced)

SwitchInv == KindInv /\ OpposedInv /\ ApartInv /\ EnableInv /\ DisableInv

(* A switch that has no opponent meets only switches of its own kind. *)
LEMMA SameKind ==
  ASSUME KindInv, OpposedInv, NEW r \in Busy, NEW q \in Busy, r \notin opposed
  PROVE  op[q] = op[r]
BY DEF OpposedInv

LEMMA ForgetKeeps ==
  ASSUME TypeOK, SwitchInv, NEW r \in Requests, Forget(r),
         UNCHANGED <<keys, nsec3, chain, served, behind, raced>>
  PROVE  SwitchInv'
<1>1. Busy' = Busy \ {r} /\ \A q \in Requests : pc'[q] = IF q = r THEN "idle" ELSE pc[q]
  BY BusyAfter DEF Forget
<1>2. \A q \in Requests : op'[q] = IF q = r THEN "none" ELSE op[q]
  BY DEF Forget, TypeOK
<1>3. \A q \in Requests : q # r => found'[q] = found[q]
  BY DEF Forget, TypeOK
<1>4. opposed' = opposed \ {r}
  BY DEF Forget
<1>5. KindInv' /\ OpposedInv'
  <2>1. KindInv'
    BY <1>1, <1>2 DEF SwitchInv, KindInv
  <2>2. ASSUME NEW p \in Busy', NEW q \in Busy', op'[p] # op'[q]
        PROVE  p \in opposed' /\ q \in opposed'
    <3>1. /\ p \in Busy /\ q \in Busy /\ p # r /\ q # r
          /\ p \in Requests /\ q \in Requests
      BY <1>1, <2>2 DEF Busy
    <3>2. op[p] # op[q]
      BY <1>2, <2>2, <3>1
    <3> QED
      BY <1>4, <3>1, <3>2 DEF SwitchInv, OpposedInv
  <2>3. OpposedInv'
    BY <2>2 DEF OpposedInv
  <2> QED
    BY <2>1, <2>3
<1>6. ApartInv'
  BY <1>1 DEF SwitchInv, ApartInv
<1>7. EnableInv'
  <2> SUFFICES ASSUME NEW q \in Requests \ opposed', op'[q] = "enable"
      PROVE  /\ pc'[q] \in {"nsec3", "rectify", "notify", "done"} => keys # {}
             /\ pc'[q] \in {"rectify", "notify", "done"} => nsec3
             /\ pc'[q] \in {"notify", "done"} =>
                  /\ chain = "nsec3"
                  /\ \A s \in Servers : served[s] \cap keys # {} \/ s \in behind
    BY DEF EnableInv
  <2>1. q # r
    BY <1>2
  <2>2. q \in Requests \ opposed /\ op[q] = "enable" /\ pc'[q] = pc[q]
    BY <1>1, <1>2, <1>4, <2>1
  <2> QED
    BY <2>2 DEF SwitchInv, EnableInv
<1>8. DisableInv'
  <2> SUFFICES ASSUME NEW q \in Requests \ opposed', op'[q] = "disable"
      PROVE  /\ pc'[q] \in {"clear", "delete"} => keys \subseteq found'[q]
             /\ pc'[q] = "delete" => ~nsec3
             /\ pc'[q] \in {"notify", "done"} => keys = {} /\ (nsec3 => raced)
    BY DEF DisableInv
  <2>1. q # r
    BY <1>2
  <2>2. /\ q \in Requests \ opposed /\ op[q] = "disable"
        /\ pc'[q] = pc[q] /\ found'[q] = found[q]
    BY <1>1, <1>2, <1>3, <1>4, <2>1
  <2> QED
    BY <2>2 DEF SwitchInv, DisableInv
<1> QED
  BY <1>5, <1>6, <1>7, <1>8 DEF SwitchInv

LEMMA SwitchKeeps ==
  ASSUME TypeOK, SwitchInv, NEW r \in Requests, Switch(r)
  PROVE  SwitchInv'
<1>1. ASSUME NEW o \in {"enable", "disable"}, Begin(r, o) PROVE SwitchInv'
  <2>1. Busy' = Busy \cup {r} /\ \A q \in Requests : pc'[q] = IF q = r THEN "keys" ELSE pc[q]
    BY <1>1, BusyAfter DEF Begin
  <2>2. \A q \in Requests : op'[q] = IF q = r THEN o ELSE op[q]
    BY <1>1 DEF Begin, TypeOK
  <2>3. /\ r \notin Busy /\ raced' = (raced \/ Busy # {})
        /\ UNCHANGED <<keys, nsec3, chain, served, behind, found>>
    BY <1>1 DEF Begin, Busy, zoneVars, copyVars
  <2>4. opposed' = (opposed \ {r}) \cup {q \in Busy : op[q] # o}
                     \cup (IF {q \in Busy : op[q] # o} = {} THEN {} ELSE {r})
    BY <1>1 DEF Begin
  <2>5. KindInv'
    BY <2>1, <2>2 DEF SwitchInv, KindInv
  <2>6. OpposedInv'
    <3> SUFFICES ASSUME NEW p \in Busy', NEW q \in Busy', op'[p] # op'[q]
                 PROVE  p \in opposed'
      BY DEF OpposedInv
    <3>1. p \in Requests /\ q \in Requests
      BY DEF Busy
    <3>2. CASE p = r
      BY <2>1, <2>2, <2>4, <3>1, <3>2
    <3>3. CASE p # r /\ q = r
      BY <2>1, <2>2, <2>4, <3>1, <3>3
    <3>4. CASE p # r /\ q # r
      BY <2>1, <2>2, <2>4, <3>1, <3>4 DEF SwitchInv, OpposedInv
    <3> QED
      BY <3>2, <3>3, <3>4
  <2>7. ApartInv'
    BY <2>1, <2>3 DEF SwitchInv, ApartInv
  <2>8. EnableInv'
    BY <2>1, <2>2, <2>3, <2>4 DEF SwitchInv, EnableInv
  <2>9. DisableInv'
    BY <2>1, <2>2, <2>3, <2>4 DEF SwitchInv, DisableInv
  <2> QED
    BY <2>5, <2>6, <2>7, <2>8, <2>9 DEF SwitchInv
<1>2. CASE ReadKeys(r)
  <2>1. /\ AfterKeys(r) \in {"post", "nsec3", "clear", "notify"}
        /\ op[r] = "enable" => AfterKeys(r) = IF keys = {} THEN "post" ELSE "nsec3"
        /\ op[r] # "enable" => AfterKeys(r) = IF keys = {} THEN "notify" ELSE "clear"
    BY DEF AfterKeys
  <2>2. Busy' = Busy /\ \A q \in Requests : pc'[q] = IF q = r THEN AfterKeys(r) ELSE pc[q]
    BY <1>2, <2>1, BusyAfter DEF ReadKeys, Busy
  <2>3. /\ UNCHANGED <<keys, nsec3, chain, served, behind, op, opposed, raced>>
        /\ \A q \in Requests :
             found'[q] = IF q = r THEN IF op[r] = "enable" THEN {} ELSE keys ELSE found[q]
    BY <1>2 DEF ReadKeys, TypeOK, zoneVars, copyVars
  <2>4. op[r] \in {"enable", "disable"}
    BY <1>2 DEF ReadKeys, SwitchInv, KindInv
  <2>5. KindInv' /\ OpposedInv'
    BY <2>1, <2>2, <2>3, <2>4 DEF SwitchInv, KindInv, OpposedInv
  <2>6. ApartInv'
    BY <2>1, <2>2, <2>3 DEF SwitchInv, ApartInv
  <2>7. EnableInv'
    BY <2>1, <2>2, <2>3, <2>4 DEF SwitchInv, EnableInv
  <2>8. DisableInv'
    BY <2>1, <2>2, <2>3, <2>4 DEF SwitchInv, DisableInv, ApartInv
  <2> QED
    BY <2>5, <2>6, <2>7, <2>8 DEF SwitchInv
<1>3. CASE PostKey(r)
  <2>1. Busy' = Busy /\ \A q \in Requests : pc'[q] = IF q = r THEN "nsec3" ELSE pc[q]
    BY <1>3, BusyAfter DEF PostKey, Busy
  <2>2. /\ keys' = keys \cup {made + 1}
        /\ UNCHANGED <<nsec3, chain, served, op, found, opposed, raced>>
        /\ behind \subseteq behind'
    BY <1>3 DEF PostKey, TypeOK, MayBump, Bump, copyVars
  <2>3. op[r] = "enable" /\ r \in Busy
    BY <1>3 DEF PostKey, Busy, SwitchInv, KindInv
  <2>4. KindInv' /\ OpposedInv'
    BY <2>1, <2>2, <2>3 DEF SwitchInv, KindInv, OpposedInv
  <2>5. ApartInv'
    <3> SUFFICES ASSUME ~raced PROVE ApartInv'
      BY <2>2 DEF ApartInv
    <3>1. keys = {} /\ \A q \in Busy : q = r
      BY <1>3, <2>3 DEF PostKey, SwitchInv, ApartInv
    <3>2. \A q \in Requests : q # r => pc[q] = "idle"
      BY <3>1 DEF Busy
    <3> QED
      BY <2>1, <2>2, <3>1, <3>2 DEF SwitchInv, ApartInv
  <2>6. EnableInv'
    BY <2>1, <2>2 DEF SwitchInv, EnableInv
  <2>7. DisableInv'
    <3>1. \A q \in Requests \ opposed : op[q] = "disable" => q \notin Busy
      BY <2>3, SameKind DEF SwitchInv
    <3>2. \A q \in Requests \ opposed : op[q] = "disable" => pc'[q] = "idle"
      BY <2>1, <2>3, <3>1 DEF Busy
    <3> QED
      BY <2>2, <3>2 DEF DisableInv
  <2> QED
    BY <2>4, <2>5, <2>6, <2>7 DEF SwitchInv
<1>4. CASE SetNsec3(r) /\ pc[r] = "nsec3"
  <2>1. Busy' = Busy /\ \A q \in Requests : pc'[q] = IF q = r THEN "rectify" ELSE pc[q]
    BY <1>4, BusyAfter DEF SetNsec3, Busy
  <2>2. /\ nsec3' /\ UNCHANGED <<keys, served, op, found, opposed, raced>>
        /\ chain' \in {chain, ChainOf(keys, TRUE)} /\ behind \subseteq behind'
    BY <1>4 DEF SetNsec3, TypeOK, MayBump, Bump, copyVars
  <2>3. op[r] = "enable" /\ r \in Busy
    BY <1>4 DEF Busy, SwitchInv, KindInv
  <2>4. KindInv' /\ OpposedInv'
    BY <2>1, <2>2, <2>3 DEF SwitchInv, KindInv, OpposedInv
  <2>5. ApartInv'
    <3> SUFFICES ASSUME ~raced PROVE ApartInv'
      BY <2>2 DEF ApartInv
    <3>1. keys # {} /\ \A q \in Busy : q = r
      BY <1>4, <2>3 DEF SwitchInv, ApartInv
    <3>2. \A q \in Requests : q # r => pc[q] = "idle"
      BY <3>1 DEF Busy
    <3> QED
      BY <2>1, <2>2, <3>1, <3>2 DEF SwitchInv, ApartInv
  <2>6. EnableInv'
    <3>1. \A q \in Requests \ opposed :
            op[q] = "enable" /\ pc[q] \in {"nsec3", "rectify", "notify", "done"} =>
              keys # {} /\ (chain = "nsec3" => chain' = "nsec3")
      BY <2>2 DEF SwitchInv, EnableInv, ChainOf
    <3> QED
      BY <1>4, <2>1, <2>2, <3>1 DEF SwitchInv, EnableInv
  <2>7. DisableInv'
    <3>1. \A q \in Requests \ opposed : op[q] = "disable" => q \notin Busy
      BY <2>3, SameKind DEF SwitchInv
    <3>2. \A q \in Requests \ opposed : op[q] = "disable" => pc'[q] = "idle"
      BY <2>1, <2>3, <3>1 DEF Busy
    <3> QED
      BY <2>2, <3>2 DEF DisableInv
  <2> QED
    BY <2>4, <2>5, <2>6, <2>7 DEF SwitchInv
<1>5. CASE SetNsec3(r) /\ pc[r] = "clear"
  <2>1. Busy' = Busy /\ \A q \in Requests : pc'[q] = IF q = r THEN "delete" ELSE pc[q]
    BY <1>5, BusyAfter DEF SetNsec3, Busy
  <2>2. ~nsec3' /\ UNCHANGED <<keys, op, found, opposed, raced>>
    BY <1>5 DEF SetNsec3
  <2>3. op[r] = "disable" /\ r \in Busy
    BY <1>5 DEF Busy, SwitchInv, KindInv
  <2>4. KindInv' /\ OpposedInv'
    BY <2>1, <2>2, <2>3 DEF SwitchInv, KindInv, OpposedInv
  <2>5. ApartInv'
    BY <2>1, <2>2 DEF SwitchInv, ApartInv
  <2>6. EnableInv'
    <3>1. \A q \in Requests \ opposed : op[q] = "enable" => q \notin Busy
      BY <2>3, SameKind DEF SwitchInv
    <3>2. \A q \in Requests \ opposed : op[q] = "enable" => pc'[q] = "idle"
      BY <2>1, <2>3, <3>1 DEF Busy
    <3> QED
      BY <2>2, <3>2 DEF EnableInv
  <2>7. DisableInv'
    BY <1>5, <2>1, <2>2 DEF SwitchInv, DisableInv
  <2> QED
    BY <2>4, <2>5, <2>6, <2>7 DEF SwitchInv
<1>6. CASE Rectify(r)
  <2>1. Busy' = Busy /\ \A q \in Requests : pc'[q] = IF q = r THEN "notify" ELSE pc[q]
    BY <1>6, BusyAfter DEF Rectify, Busy
  <2>2. /\ UNCHANGED <<keys, nsec3, served, op, found, opposed, raced>>
        /\ chain' = ChainOf(keys, nsec3) /\ behind' = Servers
    BY <1>6 DEF Rectify, Bump
  <2>3. op[r] = "enable" /\ r \in Busy
    BY <1>6 DEF Rectify, Busy, SwitchInv, KindInv
  <2>4. KindInv' /\ OpposedInv'
    BY <2>1, <2>2, <2>3 DEF SwitchInv, KindInv, OpposedInv
  <2>5. ApartInv'
    BY <2>1, <2>2 DEF SwitchInv, ApartInv
  <2>6. EnableInv'
    <3>1. \A q \in Requests \ opposed :
            op[q] = "enable" /\ pc[q] \in {"rectify", "notify", "done"} => chain' = "nsec3"
      BY <2>2 DEF SwitchInv, EnableInv, ChainOf
    <3> QED
      BY <1>6, <2>1, <2>2, <3>1 DEF SwitchInv, EnableInv, Rectify
  <2>7. DisableInv'
    <3>1. \A q \in Requests \ opposed : op[q] = "disable" => q # r
      BY <2>3
    <3> QED
      BY <2>1, <2>2, <3>1 DEF SwitchInv, DisableInv
  <2> QED
    BY <2>4, <2>5, <2>6, <2>7 DEF SwitchInv
<1>7. CASE DeleteKey(r)
  <2>1. PICK l \in {"notify", "delete"} :
          /\ l = (IF Rest(r) = {} THEN "notify" ELSE "delete") /\ Goto(r, l)
    BY <1>7 DEF DeleteKey
  <2>2. Busy' = Busy /\ \A q \in Requests : pc'[q] = IF q = r THEN l ELSE pc[q]
    BY <1>7, <2>1, BusyAfter DEF DeleteKey, Busy
  <2>3. PICK k : keys' = keys \ {k} /\ Rest(r) = found[r] \ {k}
    BY <1>7 DEF DeleteKey, Rest
  <2>4. /\ UNCHANGED <<nsec3, op, opposed, raced>>
        /\ \A q \in Requests : found'[q] = IF q = r THEN Rest(r) ELSE found[q]
    BY <1>7 DEF DeleteKey, TypeOK
  <2>5. op[r] = "disable" /\ r \in Busy
    BY <1>7 DEF DeleteKey, Busy, SwitchInv, KindInv
  <2>6. KindInv' /\ OpposedInv'
    BY <2>2, <2>4, <2>5 DEF SwitchInv, KindInv, OpposedInv
  <2>7. ApartInv'
    <3> SUFFICES ASSUME ~raced PROVE ApartInv'
      BY <2>4 DEF ApartInv
    <3>1. ~nsec3 /\ \A q \in Busy : q = r
      BY <1>7, <2>5 DEF DeleteKey, SwitchInv, ApartInv
    <3>2. \A q \in Requests : q # r => pc[q] = "idle"
      BY <3>1 DEF Busy
    <3> QED
      BY <2>2, <2>3, <2>4, <3>1, <3>2 DEF SwitchInv, ApartInv
  <2>8. EnableInv'
    <3>1. \A q \in Requests \ opposed : op[q] = "enable" => q \notin Busy
      BY <2>5, SameKind DEF SwitchInv
    <3>2. \A q \in Requests \ opposed : op[q] = "enable" => pc'[q] = "idle"
      BY <2>2, <2>5, <3>1 DEF Busy
    <3> QED
      BY <2>4, <3>2 DEF EnableInv
  <2>9. DisableInv'
    <3> SUFFICES ASSUME NEW q \in Requests \ opposed, op[q] = "disable"
                 PROVE  /\ pc'[q] \in {"clear", "delete"} => keys' \subseteq found'[q]
                        /\ pc'[q] = "delete" => ~nsec3
                        /\ pc'[q] \in {"notify", "done"} => keys' = {} /\ (nsec3 => raced)
      BY <2>4 DEF DisableInv
    <3>1. CASE q = r
      <4>1. keys \subseteq found[r] /\ ~nsec3
        BY <1>7, <3>1 DEF DeleteKey, SwitchInv, DisableInv
      <4> QED
        BY <2>1, <2>2, <2>3, <2>4, <3>1, <4>1
    <3>2. CASE q # r
      BY <2>2, <2>3, <2>4, <3>2 DEF SwitchInv, DisableInv
    <3> QED
      BY <3>1, <3>2
  <2> QED
    BY <2>6, <2>7, <2>8, <2>9 DEF SwitchInv
<1>8. CASE Refused(r) \/ Abort(r) \/ Respond(r)
  BY <1>8, ForgetKeeps DEF Refused, Abort, Respond, zoneVars, copyVars
<1>9. CASE Notify(r)
  <2>1. Busy' = Busy /\ \A q \in Requests : pc'[q] = IF q = r THEN "done" ELSE pc[q]
    BY <1>9, BusyAfter DEF Notify, Busy
  <2>2. UNCHANGED <<keys, nsec3, chain, served, behind, op, found, opposed, raced>>
    BY <1>9 DEF Notify, zoneVars, copyVars
  <2>3. KindInv' /\ OpposedInv' /\ ApartInv'
    BY <1>9, <2>1, <2>2 DEF Notify, SwitchInv, KindInv, OpposedInv, ApartInv
  <2>4. EnableInv' /\ DisableInv'
    BY <1>9, <2>1, <2>2 DEF Notify, SwitchInv, EnableInv, DisableInv
  <2> QED
    BY <2>3, <2>4 DEF SwitchInv
<1> QED
  BY <1>1, <1>2, <1>3, <1>4, <1>5, <1>6, <1>7, <1>8, <1>9 DEF Switch, SetNsec3

LEMMA OthersKeep ==
  ASSUME TypeOK, SwitchInv, World \/ Diagnosis \/ UNCHANGED vars
  PROVE  SwitchInv'
<1>1. CASE Diagnosis \/ UNCHANGED vars
  <2>1. UNCHANGED <<zoneVars, copyVars, requestVars>>
    BY <1>1 DEF Diagnosis, Check, AskParent, AskResolver, AskServers, Close, checkOnly, vars
  <2> QED
    BY <2>1 DEF SwitchInv, KindInv, OpposedInv, ApartInv, EnableInv, DisableInv, Busy,
                zoneVars, copyVars, requestVars
<1>2. CASE Registrar
  <2>1. UNCHANGED <<zoneVars, copyVars, op, pc, found, opposed, raced>>
    BY <1>2 DEF Registrar
  <2> QED
    BY <2>1 DEF SwitchInv, KindInv, OpposedInv, ApartInv, EnableInv, DisableInv, Busy,
                zoneVars, copyVars
<1>3. CASE Edit
  <2>1. /\ UNCHANGED <<keys, nsec3, served, requestVars>> /\ behind' = Servers
        /\ chain' = ChainOf(keys, nsec3)
    BY <1>3 DEF Edit, Bump
  <2>2. KindInv' /\ OpposedInv' /\ ApartInv' /\ DisableInv'
    BY <2>1 DEF SwitchInv, KindInv, OpposedInv, ApartInv, DisableInv, Busy, requestVars
  <2>3. EnableInv'
    BY <2>1 DEF SwitchInv, EnableInv, ChainOf, requestVars
  <2> QED
    BY <2>2, <2>3 DEF SwitchInv
<1>4. ASSUME NEW s \in Servers, Transfer(s) PROVE SwitchInv'
  <2>1. /\ UNCHANGED <<zoneVars, requestVars>> /\ behind' = behind \ {s}
        /\ \A t \in Servers : served'[t] = IF t = s THEN keys ELSE served[t]
    BY <1>4 DEF Transfer, TypeOK
  <2>2. KindInv' /\ OpposedInv' /\ ApartInv' /\ DisableInv'
    BY <2>1 DEF SwitchInv, KindInv, OpposedInv, ApartInv, DisableInv, Busy, zoneVars, requestVars
  <2>3. EnableInv'
    BY <2>1 DEF SwitchInv, EnableInv, zoneVars, requestVars
  <2> QED
    BY <2>2, <2>3 DEF SwitchInv
<1> QED
  BY <1>1, <1>2, <1>3, <1>4 DEF World

LEMMA SwitchesKeep == Spec => []SwitchInv
<1>1. Init => SwitchInv
  BY DEF Init, SwitchInv, KindInv, OpposedInv, ApartInv, EnableInv, DisableInv, Busy
<1>2. TypeOK /\ SwitchInv /\ [Next]_vars => SwitchInv'
  BY SwitchKeeps, OthersKeep DEF Next
<1> QED
  BY <1>1, <1>2, TypeCorrect, PTL DEF Spec

(* However many attempts have failed half-way: a switch that succeeds without
   one the other way beside it leaves the zone signed, or unsigned, altogether. *)
THEOREM SwitchesAreWhole == Spec => []SwitchIsWhole
<1>1. SwitchInv => SwitchIsWhole
  BY DEF SwitchInv, EnableInv, DisableInv, KindInv, SwitchIsWhole
<1> QED
  BY <1>1, SwitchesKeep, PTL

(* Without overlapping switches a zone never has two keys, and never NSEC3
   without a key. *)
THEOREM NeverTwoKeys == Spec => []OneKeyIfApart
<1>1. SwitchInv => OneKeyIfApart
  BY DEF SwitchInv, ApartInv, OneKeyIfApart
<1> QED
  BY <1>1, SwitchesKeep, PTL

-----------------------------------------------------------------------------
(* What an undisturbed diagnosis has found out is so. *)
CheckInv ==
  /\ step \in {"parent", "verdict", "servers", "report"} /\ calm => seen = keys
  /\ step \in {"verdict", "servers"} => seen # {}
  /\ step \in {"verdict", "servers", "report"} /\ calm /\ clear => parent = ds
  /\ step = "report" /\ seen # {} /\ calm /\ clear =>
       \A s \in Servers : rows[s] \in RowsOf(s) \ {"down"}

(* A step of the others that changes what the diagnosis has asked about is
   noticed. *)
LEMMA DisturbedOrSame ==
  ASSUME TypeOK, (\E r \in Requests : Switch(r)) \/ World
  PROVE  /\ UNCHANGED checkVars
         /\ UNCHANGED <<keys, served, ds, calm>> \/ calm' = (step = "idle")
<1>1. ASSUME NEW r \in Requests, Switch(r)
      PROVE  /\ UNCHANGED checkVars
             /\ UNCHANGED <<keys, served, ds, calm>> \/ calm' = (step = "idle")
  <2>1. CASE PostKey(r) \/ DeleteKey(r)
    BY <2>1 DEF PostKey, DeleteKey, Disturb
  <2>2. CASE SetNsec3(r) \/ Rectify(r)
    BY <2>2 DEF SetNsec3, Rectify, MayBump, Bump, copyVars
  <2>3. CASE (\E o \in {"enable", "disable"} : Begin(r, o)) \/ ReadKeys(r) \/ Refused(r)
             \/ Abort(r) \/ Notify(r) \/ Respond(r)
    BY <2>3 DEF Begin, ReadKeys, Refused, Abort, Notify, Respond, zoneVars, copyVars
  <2> QED
    BY <1>1, <2>1, <2>2, <2>3 DEF Switch
<1>2. CASE World
  BY <1>2 DEF World, Edit, Registrar, Transfer, Disturb, Bump
<1> QED
  BY <1>1, <1>2

(* An outage is in the report, unless a server lags: for any number of
   servers and whichever of them the resolver has asked. *)
THEOREM OutagesAreSeen == Spec => []OutageIsSeen
<1>1. Init => CheckInv
  BY DEF Init, CheckInv
<1>2. TypeOK /\ CheckInv /\ [Next]_vars => CheckInv'
  <2> SUFFICES ASSUME TypeOK, CheckInv, [Next]_vars PROVE CheckInv'
    OBVIOUS
  <2>1. CASE (\E r \in Requests : Switch(r)) \/ World
    <3>1. UNCHANGED <<step, seen, parent, verdict, rows, clear>>
      BY <2>1, DisturbedOrSame DEF checkVars
    <3>2. CASE UNCHANGED <<keys, served, ds, calm>>
      BY <3>1, <3>2 DEF CheckInv, RowsOf
    <3>3. CASE calm' = (step = "idle")
      BY <3>1, <3>3 DEF CheckInv
    <3> QED
      BY <2>1, <3>2, <3>3, DisturbedOrSame
  <2>2. CASE Check
    BY <2>2 DEF CheckInv, Check, FirstQuestion, checkOnly, zoneVars
  <2>3. CASE AskParent
    BY <2>3 DEF CheckInv, AskParent, checkOnly, zoneVars
  <2>4. CASE AskResolver
    BY <2>4 DEF CheckInv, AskResolver, checkOnly, zoneVars
  <2>5. CASE AskServers
    <3>1. \A s \in Servers : rows'[s] \in RowsOf(s) /\ (clear' => rows'[s] # "down")
      BY <2>5 DEF AskServers
    <3>2. UNCHANGED <<keys, served, ds, seen, parent, calm>> /\ (clear' => clear)
      BY <2>5 DEF AskServers, checkOnly, zoneVars, copyVars
    <3> QED
      BY <2>5, <3>1, <3>2 DEF CheckInv, AskServers, RowsOf
  <2>6. CASE Close
    BY <2>6 DEF CheckInv, Close
  <2>7. CASE UNCHANGED vars
    BY <2>7 DEF CheckInv, RowsOf, vars, zoneVars, copyVars, checkVars
  <2> QED
    BY <2>1, <2>2, <2>3, <2>4, <2>5, <2>6, <2>7 DEF Next, Diagnosis
<1>3. TypeOK /\ CheckInv => OutageIsSeen
  <2> SUFFICES ASSUME TypeOK, CheckInv, step = "report", clear, calm, NEW s \in Servers, ~Accepts(s),
                      \A t \in Servers : ~Lags(t)
               PROVE  Warnings # {}
    BY DEF OutageIsSeen
  <2>1. seen = keys /\ parent = ds /\ ds # {} /\ served[s] \cap ds = {}
    BY DEF CheckInv, Accepts
  <2>2. CASE seen = {}
    <3>1. "dangling" \in Warnings
      BY <2>1, <2>2 DEF Warnings
    <3> QED
      BY <3>1
  <2>3. CASE seen # {} /\ parent \cap seen = {}
    <3>1. "mismatch" \in Warnings
      BY <2>1, <2>3 DEF Warnings
    <3> QED
      BY <3>1
  <2>4. CASE seen # {} /\ parent \cap seen # {}
    <3>1. served[s] = {}
      BY <2>1, <2>4 DEF Lags
    <3>2. rows[s] = "unsigned"
      BY <2>4, <3>1 DEF CheckInv, RowsOf
    <3>3. "unsigned" \in Warnings
      BY <2>4, <3>2 DEF Warnings
    <3> QED
      BY <3>3
  <2> QED
    BY <2>2, <2>3, <2>4
<1> QED
  BY <1>1, <1>2, <1>3, TypeCorrect, PTL DEF Spec

=============================================================================
