---------------------------- MODULE CatalogSync ----------------------------
(***************************************************************************)
(* nsd-catalog-sync.sh on a secondary: cron starts it every few minutes.   *)
(* It transfers the catalog zone of every source, one after the other,     *)
(* writes a stanza for each member zone to a file of its own, copies that  *)
(* over the include file of NSD if the two differ, and has NSD read its    *)
(* configuration.                                                          *)
(*                                                                         *)
(* The sources are numbered in the order of their .conf files. Nothing     *)
(* keeps two runs apart: a slow one may meet the next.                     *)
(***************************************************************************)
EXTENDS Integers, FiniteSets

CONSTANTS
  N,         \* the number of sources
  Zones,
  Runs,      \* runs that may overlap
  MaxEvents  \* bound on changes of the catalogs and on failures

ASSUME CatalogAssumption == N \in Nat \ {0} /\ MaxEvents \in Nat

Sources == 1..N

VARIABLES
  catalog,  \* catalog[s]: the members of the catalog zone at its master
  up,       \* the sources whose catalog can be transferred
  file,     \* ZONES_CONF: file[z] is the source of z's stanza, 0 if there is none
  loaded,   \* the zones NSD serves, and from where
  pc,       \* pc[r]: the next step of run r
  next,     \* next[r]: the source it turns to
  list,     \* list[r]: what it has written to its own file
  fail,     \* fail[r]: FAIL
  always,   \* history: <<s, z>> if s has listed z throughout the run
  ever,     \* history: <<s, z>> if s has listed z at some time of the run
  broken,   \* history: a run has ended between the copy and the reload,
            \* and NSD has not read its configuration since
  events    \* history: the number of changes and failures

run == <<pc, next, list, fail>>
vars == <<catalog, up, file, loaded, run, always, ever, broken, events>>

Stanzas == [Zones -> 0..N]
Pairs == Sources \X Zones

NoStanza == [z \in Zones |-> 0]
Listed(c) == {p \in Pairs : p[2] \in c[p[1]]}

Init ==
  /\ catalog \in [Sources -> SUBSET Zones]
  /\ up = Sources
  /\ file = NoStanza /\ loaded = NoStanza
  /\ pc = [r \in Runs |-> "idle"]
  /\ next = [r \in Runs |-> 1]
  /\ list = [r \in Runs |-> NoStanza]
  /\ fail = [r \in Runs |-> FALSE]
  /\ always = [r \in Runs |-> {}] /\ ever = [r \in Runs |-> {}]
  /\ broken = FALSE /\ events = 0

Happens == events < MaxEvents /\ events' = events + 1

(* zones are created, deleted and switched at the masters; see ZoneAdmin *)
Change ==
  /\ Happens
  /\ \E s \in Sources, c \in SUBSET Zones : catalog' = [catalog EXCEPT ![s] = c]
  /\ always' = [r \in Runs |-> always[r] \cap Listed(catalog')]
  /\ ever' = [r \in Runs |-> IF pc[r] = "idle" THEN {} ELSE ever[r] \cup Listed(catalog')]
  /\ UNCHANGED <<up, file, loaded, run, broken>>

(* a master cannot be reached or refuses the transfer, or is back *)
Reach ==
  /\ Happens
  /\ \E s \in Sources : up' = IF s \in up THEN up \ {s} ELSE up \cup {s}
  /\ UNCHANGED <<catalog, file, loaded, run, always, ever, broken>>

Goto(r, l) == pc' = [pc EXCEPT ![r] = l]

(* the script exits; the trap removes its file *)
Exit(r) ==
  /\ Goto(r, "idle")
  /\ next' = [next EXCEPT ![r] = 1]
  /\ list' = [list EXCEPT ![r] = NoStanza]
  /\ fail' = [fail EXCEPT ![r] = FALSE]
  /\ always' = [always EXCEPT ![r] = {}]
  /\ ever' = [ever EXCEPT ![r] = {}]

Start(r) ==
  /\ pc[r] = "idle"
  /\ Goto(r, "transfer")
  /\ always' = [always EXCEPT ![r] = Listed(catalog)]
  /\ ever' = [ever EXCEPT ![r] = Listed(catalog)]
  /\ UNCHANGED <<catalog, up, file, loaded, next, list, fail, broken, events>>

MergedLast(l, s, c) ==  \* a mutant: duplicates are not skipped
  [z \in Zones |-> IF z \in c THEN s ELSE l[z]]

(* a zone that another source has provided already is skipped *)
Merged(l, s, c) == [z \in Zones |-> IF l[z] = 0 /\ z \in c THEN s ELSE l[z]]

(* process_source *)
Transfer(r) ==
  LET s == next[r] IN
  /\ pc[r] = "transfer" /\ s \in Sources
  /\ next' = [next EXCEPT ![r] = s + 1]
  /\ IF s \in up
       THEN list' = [list EXCEPT ![r] = Merged(@, s, catalog[s])] /\ UNCHANGED fail
       ELSE fail' = [fail EXCEPT ![r] = TRUE] /\ UNCHANGED list
  /\ UNCHANGED <<catalog, up, file, loaded, pc, always, ever, broken, events>>

GoesOnAnyway(r) == TRUE  \* a mutant

(* one source that failed keeps the file as it is *)
GoesOn(r) == ~fail[r]

GivesUp(r) ==
  /\ pc[r] = "transfer" /\ next[r] > N
  /\ ~GoesOn(r)
  /\ Exit(r)
  /\ UNCHANGED <<catalog, up, file, loaded, broken, events>>

SameCount(r) ==  \* a mutant
  Cardinality({z \in Zones : list[r][z] # 0}) = Cardinality({z \in Zones : file[z] # 0})

(* cmp *)
Same(r) == list[r] = file

(* exit 0: no changes *)
NoChange(r) ==
  /\ pc[r] = "transfer" /\ next[r] > N
  /\ GoesOn(r) /\ Same(r)
  /\ Exit(r)
  /\ UNCHANGED <<catalog, up, file, loaded, broken, events>>

Differs(r) ==
  /\ pc[r] = "transfer" /\ next[r] > N
  /\ GoesOn(r) /\ ~Same(r)
  /\ Goto(r, "copy")
  /\ UNCHANGED <<catalog, up, file, loaded, next, list, fail, always, ever, broken, events>>

(* cp, of a file short enough to be there at once *)
Copy(r) ==
  /\ pc[r] = "copy"
  /\ file' = list[r]
  /\ Goto(r, "reload")
  /\ UNCHANGED <<catalog, up, loaded, next, list, fail, always, ever, broken, events>>

ReloadedZones == loaded  \* a mutant: reload, which leaves the list of zones alone

(* what NSD serves after nsd-control reconfig *)
Reconfigured == file

(* exit 0: NSD reloaded *)
Reload(r) ==
  /\ pc[r] = "reload"
  /\ loaded' = Reconfigured
  /\ broken' = FALSE
  /\ Exit(r)
  /\ UNCHANGED <<catalog, up, file, events>>

(* nsd-checkconf or nsd-control fails: exit 1 *)
ReloadFails(r) ==
  /\ pc[r] = "reload" /\ Happens
  /\ broken' = TRUE
  /\ Exit(r)
  /\ UNCHANGED <<catalog, up, file, loaded>>

(* the script is killed *)
Killed(r) ==
  /\ pc[r] # "idle" /\ Happens
  /\ broken' = (broken \/ pc[r] = "reload")
  /\ Exit(r)
  /\ UNCHANGED <<catalog, up, file, loaded>>

(* NSD is restarted and reads its configuration *)
NsdRestart ==
  /\ Happens
  /\ loaded' = file
  /\ broken' = FALSE
  /\ UNCHANGED <<catalog, up, file, run, always, ever>>

Step(r) ==
  Transfer(r) \/ GivesUp(r) \/ NoChange(r) \/ Differs(r) \/ Copy(r) \/ Reload(r)

Next ==
  \/ Change \/ Reach \/ NsdRestart
  \/ \E r \in Runs : Start(r) \/ Step(r) \/ ReloadFails(r) \/ Killed(r)

(* cron starts the script again and again, and it runs to its end *)
Spec == Init /\ [][Next]_vars /\ \A r \in Runs : WF_vars(Start(r)) /\ WF_vars(Step(r))

-----------------------------------------------------------------------------
(* Types; in particular no run touches the file after a transfer failed
   (nsd-catalog-sync.sh:149-154). *)
TypeOK ==
  /\ catalog \in [Sources -> SUBSET Zones]
  /\ up \subseteq Sources
  /\ file \in Stanzas /\ loaded \in Stanzas
  /\ pc \in [Runs -> {"idle", "transfer", "copy", "reload"}]
  /\ next \in [Runs -> 1..(N + 1)]
  /\ list \in [Runs -> Stanzas]
  /\ fail \in [Runs -> BOOLEAN]
  /\ \A r \in Runs : pc[r] \in {"copy", "reload"} => ~fail[r]
  /\ always \in [Runs -> SUBSET Pairs] /\ ever \in [Runs -> SUBSET Pairs]
  /\ broken \in BOOLEAN
  /\ events \in Nat

(* The file follows the catalogs: a zone that some source listed throughout
   the run gets a stanza, from that source or one before it, and a stanza
   names a source that listed the zone during the run. So no master that is
   down, and no change between two transfers, drops a zone. *)
FollowsCatalogs ==
  [][\A r \in Runs : Copy(r) =>
       /\ \A p \in always[r] : file'[p[2]] \in 1..p[1]
       /\ \A z \in Zones : file'[z] # 0 => <<file'[z], z>> \in ever[r]]_vars

(* Exit 0 means: in sync (nsd-catalog-sync.sh:37). *)
ExitZeroIsInSync == [][\A r \in Runs : NoChange(r) => loaded = file]_vars

(* NSD serves what the file lists unless a reload is still to come, however
   the runs have overlapped; the exception is a run that has ended between its
   copy (nsd-catalog-sync.sh:164) and its reload (:172). *)
InSyncAtRest == broken \/ loaded = file \/ \E r \in Runs : pc[r] = "reload"

Wanted == [z \in Zones |->
  IF \E s \in Sources : z \in catalog[s]
    THEN CHOOSE s \in Sources : z \in catalog[s] /\ \A t \in 1..(s - 1) : z \notin catalog[t]
    ELSE 0]

(* When the catalogs come to rest and can be transferred, NSD serves their
   zones in the end, unless a run has ended between its copy and its reload
   and nothing has made NSD read its configuration since: cmp
   (nsd-catalog-sync.sh:157) never looks at what NSD serves. *)
Converges == <>[]~broken /\ <>[](up = Sources) => <>[](loaded = Wanted)

=============================================================================
