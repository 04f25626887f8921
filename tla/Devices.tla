------------------------------ MODULE Devices ------------------------------
(***************************************************************************)
(* The devices table of the controller, and every handler that reads or    *)
(* writes it, one database statement per step.                             *)
(*                                                                         *)
(* The agent handlers (internal/owagent), the adoption handler             *)
(* (internal/owctrl through server/adapters), the reconciler               *)
(* (internal/controller), the offline sweeper (server/app.go) and the      *)
(* store they share (internal/repo/device_store.go) run concurrently, one  *)
(* goroutine per request, without locks and without transactions that span *)
(* two statements.  A handler therefore reads a row, works on its copy, and*)
(* writes it back later: gorm's Save writes every column of the copy.      *)
(*                                                                         *)
(* A worker is a client whose requests are handled one after the other;    *)
(* two workers are two goroutines at work at the same time.                *)
(***************************************************************************)
EXTENDS Integers, FiniteSets

CONSTANTS
  UUID,          \* the uuids devices may have
  Key,           \* the device keys agents hold
  Name,          \* the names devices may be given
  Template,      \* the contents the table config_templates may have
  Decodable,     \* those of them whose templates all decode and render
  Worker,        \* the goroutines that handle requests
  Serves,        \* the handlers each of them runs
  ReportedSums,  \* what agents send as "checksum" when they report that they
                 \* applied a configuration: any string, NoSum if blank
  NoUUID, NoKey, NoName, NoArchive, NoSum, NeverSeen,   \* empty columns
  OfflineAfter,  \* ticks of silence after which the sweeper acts (5 minutes)
  VersionCap,    \* bound: config versions are counted up to here
  Faults         \* whether statements fail and the process restarts

Handler == {"register", "checksum", "download", "report", "reconcile",
            "adopt", "sweep"}

ASSUME DecodableAssumption == Decodable \subseteq Template
ASSUME ServesAssumption == Serves \in [Worker -> SUBSET Handler]
ASSUME BoundsAssumption == /\ OfflineAfter \in Nat
                           /\ VersionCap \in Nat \ {0}
                           /\ Faults \in BOOLEAN

-----------------------------------------------------------------------------
\* What the columns hold.

\* The tarball a device downloads: rendering depends on the row (its name)
\* and on the templates, and on nothing else (VPN mode "none").
Archive == [hostname : Name \cup {NoName}, templates : Decodable]
Render(d, t) == [hostname |-> d.name, templates |-> t]

Sha256(a) == [sha256 |-> a]
Sum == [sha256 : Archive]

ASSUME SentinelAssumption == /\ NoUUID \notin UUID
                             /\ NoKey \notin Key
                             /\ NoName \notin Name
                             /\ NoArchive \notin Archive
                             /\ NoSum \notin Sum
                             /\ NeverSeen \notin Nat

Version == 0 .. VersionCap
NextVersion(v) == IF v < VersionCap THEN v + 1 ELSE v

\* last_seen_at, as the number of ticks since, and counted no further than
\* the sweeper looks.
Age == 0 .. OfflineAfter + 1
Older(s) == IF s = NeverSeen \/ s > OfflineAfter THEN s ELSE s + 1

Status == {"unknown", "online", "offline"}

AppliedSum == Sum \cup ReportedSums \cup {NoSum}

Row == [key      : Key \cup {NoKey},
        name     : Name \cup {NoName},
        archive  : Archive \cup {NoArchive},
        checksum : Sum \cup {NoSum},
        version  : Version,
        status   : Status,
        seen     : Age \cup {NeverSeen},
        applied  : AppliedSum]             \* last_applied_sum

\* A row as Create fills it in, and the value of rows that do not exist.
NewRow(k, n) == [key |-> k, name |-> n, archive |-> NoArchive,
                 checksum |-> NoSum, version |-> 0, status |-> "unknown",
                 seen |-> NeverSeen, applied |-> NoSum]
NoRow == NewRow(NoKey, NoName)

ConfigOf(d) == [archive |-> d.archive, checksum |-> d.checksum,
                version |-> d.version]

\* The state of one request: where it is, what it was called with, and what
\* it has read or computed so far.
Label == {"idle", "rg_update", "rg_insert", "rg_reread", "rg_reply",
          "rc_load", "rc_render", "rc_put", "rc_save", "ck_read", "seen",
          "rs_save", "ra_read", "ra_save", "ad_create", "ad_save"}

Frame == [pc      : Label,
          op      : Handler,
          uuid    : UUID \cup {NoUUID},
          key     : Key \cup {NoKey},
          name    : Name \cup {NoName},
          applied : BOOLEAN,
          sum     : ReportedSums \cup {NoSum},
          tar     : Archive \cup {NoArchive},
          ver     : Version,
          d       : Row]

Idle == [pc |-> "idle", op |-> "sweep", uuid |-> NoUUID, key |-> NoKey,
         name |-> NoName, applied |-> FALSE, sum |-> NoSum,
         tar |-> NoArchive, ver |-> 0, d |-> NoRow]

VARIABLES
  inserted,   \* the uuids that have a row (rows are never deleted)
  devices,    \* the rows
  templates,  \* the content of the table config_templates
  req,        \* the request each worker is handling
  granted,    \* history: the <<key, uuid>> of every reply to a registration
  served,     \* history: the checksums of the archives each device was sent
  claimed,    \* history: the checksums each device reported as applied
  published   \* history: the configurations the reconciler stored

table == <<inserted, devices>>
history == <<granted, served, claimed, published>>
vars == <<inserted, devices, templates, req, granted, served, claimed,
          published>>

-----------------------------------------------------------------------------
\* Control.

At(w, label) == req[w].pc = label
Begin(w, h) == h \in Serves[w] /\ At(w, "idle")
Become(w, frame) == req' = [req EXCEPT ![w] = frame]
Goto(w, label) == Become(w, [req[w] EXCEPT !.pc = label])
Finish(w) == Become(w, Idle)
Keep(w, label, d) == Become(w, [req[w] EXCEPT !.pc = label, !.d = d])

\* Reconcile returns, whatever its result, to the handler that called it.
AfterReconcile(op) == CASE op = "register" -> "rg_reply"
                        [] op = "checksum" -> "ck_read"
                        [] OTHER -> "idle"
Resume(w) == IF AfterReconcile(req[w].op) = "idle" THEN Finish(w)
             ELSE Goto(w, AfterReconcile(req[w].op))

WithKey(k) == {u \in inserted : devices[u].key = k}

\* A blank key is a zero field of the condition struct, which gorm leaves out
\* of the WHERE clause.
ValidateKey(u, k) == u \in inserted /\ (k = NoKey \/ devices[u].key = k)

Save(u, d) == devices' = [devices EXCEPT ![u] = d]

-----------------------------------------------------------------------------
\* POST /controller/register/

\* The key is the agent's, the consistent key of its MAC address, or fresh.
Register(w, k, n) ==
  /\ Begin(w, "register")
  /\ \/ /\ WithKey(k) = {}
        /\ Become(w, [Idle EXCEPT !.pc = "rg_insert", !.op = "register",
                                  !.key = k, !.name = n])
     \/ \E u \in WithKey(k) :
          Become(w, [Idle EXCEPT
                       !.pc = IF n \in {NoName, devices[u].name}
                              THEN "rc_load" ELSE "rg_update",
                       !.op = "register", !.uuid = u, !.key = k, !.name = n])
  /\ UNCHANGED <<table, templates, history>>

RegisterUpdate(w) ==
  /\ At(w, "rg_update")
  /\ devices' = [devices EXCEPT ![req[w].uuid].name = req[w].name]
  /\ Goto(w, "rc_load")
  /\ UNCHANGED <<inserted, templates, history>>

\* A fresh uuid is one that no row and no other request has.
UnusedUUIDs == UUID \ (inserted \cup {req[v].uuid : v \in Worker})

\* Slips, each the next operation as a plausible mistake would have it: every
\* run is shown to notice one of them.  Here the conflict is not followed by a
\* second read, and the uuid that was not inserted is kept, or none.
RegisterInsertKeepsUUID(w) ==
  /\ At(w, "rg_insert")
  /\ \E u \in UnusedUUIDs :
       /\ IF WithKey(req[w].key) # {} THEN UNCHANGED table
          ELSE inserted' = inserted \cup {u}
               /\ Save(u, NewRow(req[w].key, req[w].name))
       /\ Become(w, [req[w] EXCEPT !.pc = "rc_load", !.uuid = u])
  /\ UNCHANGED <<templates, history>>

RegisterInsertSkipsReread(w) ==
  /\ At(w, "rg_insert")
  /\ \/ /\ WithKey(req[w].key) # {}
        /\ Goto(w, "rg_reply")
        /\ UNCHANGED table
     \/ /\ WithKey(req[w].key) = {}
        /\ \E u \in UnusedUUIDs :
             /\ inserted' = inserted \cup {u}
             /\ Save(u, NewRow(req[w].key, req[w].name))
             /\ Become(w, [req[w] EXCEPT !.pc = "rc_load", !.uuid = u])
  /\ UNCHANGED <<templates, history>>

\* INSERT ... ON CONFLICT (device_key) DO NOTHING
RegisterInsert(w) ==
  /\ At(w, "rg_insert")
  /\ \/ /\ WithKey(req[w].key) # {}
        /\ Goto(w, "rg_reread")
        /\ UNCHANGED table
     \/ /\ WithKey(req[w].key) = {}
        /\ \E u \in UnusedUUIDs :
             /\ inserted' = inserted \cup {u}
             /\ Save(u, NewRow(req[w].key, req[w].name))
             /\ Become(w, [req[w] EXCEPT !.pc = "rc_load", !.uuid = u])
  /\ UNCHANGED <<templates, history>>

RegisterReread(w) ==
  /\ At(w, "rg_reread")
  /\ \E u \in WithKey(req[w].key) :
       Become(w, [req[w] EXCEPT !.pc = "rc_load", !.uuid = u])
  /\ UNCHANGED <<table, templates, history>>

RegisterReply(w) ==
  /\ At(w, "rg_reply")
  /\ granted' = granted \cup {<<req[w].key, req[w].uuid>>}
  /\ Finish(w)
  /\ UNCHANGED <<table, templates, served, claimed, published>>

-----------------------------------------------------------------------------
\* Reconciler.Reconcile, called by register, by checksum and by the admin API

Reconcile(w, u) ==
  /\ Begin(w, "reconcile")
  /\ Become(w, [Idle EXCEPT !.pc = "rc_load", !.op = "reconcile", !.uuid = u])
  /\ UNCHANGED <<table, templates, history>>

ReconcileLoad(w) ==
  /\ At(w, "rc_load")
  /\ IF req[w].uuid \in inserted
     THEN Keep(w, "rc_render", devices[req[w].uuid])
     ELSE Resume(w)
  /\ UNCHANGED <<table, templates, history>>

\* Slips: the version is not counted up; a reconciliation that changes nothing
\* counts as a heartbeat.
ReconcileRenderSlip(w, version(_), label) ==
  /\ At(w, "rc_render")
  /\ LET d == req[w].d
         tar == Render(d, templates)
     IN IF templates \notin Decodable THEN Resume(w)
        ELSE IF Sha256(tar) = d.checksum
        THEN IF label = "seen" THEN Keep(w, "seen", NoRow) ELSE Resume(w)
        ELSE Become(w, [req[w] EXCEPT !.pc = "rc_put", !.tar = tar,
                                      !.ver = version(d), !.d = NoRow])
  /\ UNCHANGED <<table, templates, history>>
ReconcileRenderKeepsVersion(w) ==
  ReconcileRenderSlip(w, LAMBDA d : d.version, "resume")
ReconcileRenderTouches(w) ==
  ReconcileRenderSlip(w, LAMBDA d : NextVersion(d.version), "seen")

\* Templates are listed, merged, rendered and packed; nothing is stored when
\* one does not decode or when the checksum is the one of the row read before.
ReconcileRender(w) ==
  /\ At(w, "rc_render")
  /\ LET d == req[w].d
         tar == Render(d, templates)
     IN IF templates \notin Decodable \/ Sha256(tar) = d.checksum
        THEN Resume(w)
        ELSE Become(w, [req[w] EXCEPT !.pc = "rc_put", !.tar = tar,
                                      !.ver = NextVersion(d.version),
                                      !.d = NoRow])
  /\ UNCHANGED <<table, templates, history>>

\* Slip: the checksum of the archive before is kept.
PutConfigTarReadKeepsSum(w) ==
  /\ At(w, "rc_put")
  /\ Keep(w, "rc_save", [devices[req[w].uuid] EXCEPT !.archive = req[w].tar,
                                                     !.version = req[w].ver])
  /\ UNCHANGED <<table, templates, history>>

PutConfigTarRead(w) ==
  /\ At(w, "rc_put")
  /\ Keep(w, "rc_save", [devices[req[w].uuid] EXCEPT
                           !.archive = req[w].tar,
                           !.checksum = Sha256(req[w].tar),
                           !.version = req[w].ver])
  /\ UNCHANGED <<table, templates, history>>

PutConfigTarSave(w) ==
  /\ At(w, "rc_save")
  /\ Save(req[w].uuid, req[w].d)
  /\ published' = [published EXCEPT ![req[w].uuid] =
                     @ \cup {ConfigOf(req[w].d)}]
  /\ Resume(w)
  /\ UNCHANGED <<inserted, templates, granted, served, claimed>>

-----------------------------------------------------------------------------
\* GET /controller/checksum/{uuid}/ and GET /controller/download-config/{uuid}/

\* Slip: the checksum stored is answered without a reconciliation.
ChecksumStored(w, u, k) ==
  /\ Begin(w, "checksum")
  /\ Become(w, [Idle EXCEPT !.pc = "ck_read", !.op = "checksum",
                            !.uuid = u, !.key = k])
  /\ UNCHANGED <<table, templates, history>>

Checksum(w, u, k) ==
  /\ Begin(w, "checksum")
  /\ Become(w, [Idle EXCEPT !.pc = "rc_load", !.op = "checksum",
                            !.uuid = u, !.key = k])
  /\ UNCHANGED <<table, templates, history>>

GetChecksum(w) ==
  /\ At(w, "ck_read")
  /\ LET u == req[w].uuid
     IN IF /\ ValidateKey(u, req[w].key)
           /\ devices[u].archive # NoArchive
           /\ devices[u].checksum # NoSum
        THEN Become(w, [req[w] EXCEPT !.pc = "seen", !.d = NoRow])
        ELSE Finish(w)
  /\ UNCHANGED <<table, templates, history>>

Download(w, u, k) ==
  /\ Begin(w, "download")
  /\ ValidateKey(u, k)
  /\ devices[u].archive # NoArchive
  /\ served' = [served EXCEPT ![u] = @ \cup {Sha256(devices[u].archive)}]
  /\ Become(w, [Idle EXCEPT !.pc = "seen", !.op = "download", !.uuid = u])
  /\ UNCHANGED <<table, templates, granted, claimed, published>>

\* Both note the heartbeat after the reply is written, two columns at once.
MarkSeen(w) ==
  /\ At(w, "seen")
  /\ devices' = [devices EXCEPT ![req[w].uuid].seen = 0,
                                ![req[w].uuid].status = "online"]
  /\ Finish(w)
  /\ UNCHANGED <<inserted, templates, history>>

-----------------------------------------------------------------------------
\* POST /controller/report-status/{uuid}/

\* The checksum is the agent's to fill in: nothing compares it with anything.
ReportStatus(w, u, k, status, applied, sum) ==
  /\ Begin(w, "report")
  /\ ValidateKey(u, k)
  /\ sum \in IF applied THEN ReportedSums ELSE {NoSum}
  /\ claimed' = [claimed EXCEPT ![u] = @ \cup {x \in {sum} : applied}]
  /\ Become(w, [Idle EXCEPT !.pc = "rs_save", !.op = "report", !.uuid = u,
                            !.key = k, !.applied = applied, !.sum = sum,
                            !.d = [devices[u] EXCEPT !.seen = 0,
                                                     !.status = status]])
  /\ UNCHANGED <<table, templates, granted, served, published>>

\* Slip: every report goes on to ReportApplied.
ReportStatusSaveApplies(w) ==
  /\ At(w, "rs_save")
  /\ Save(req[w].uuid, req[w].d)
  /\ Become(w, [req[w] EXCEPT !.pc = "ra_read", !.d = NoRow])
  /\ UNCHANGED <<inserted, templates, history>>

ReportStatusSave(w) ==
  /\ At(w, "rs_save")
  /\ Save(req[w].uuid, req[w].d)
  /\ IF req[w].applied
     THEN Become(w, [req[w] EXCEPT !.pc = "ra_read", !.d = NoRow])
     ELSE Finish(w)
  /\ UNCHANGED <<inserted, templates, history>>

ReportApplied(w) ==
  /\ At(w, "ra_read")
  /\ LET u == req[w].uuid
         d == devices[u]
     IN IF ValidateKey(u, req[w].key)
        THEN Keep(w, "ra_save",
                  [d EXCEPT !.applied = IF req[w].sum = NoSum THEN d.checksum
                                        ELSE req[w].sum,
                            !.status = "online"])
        ELSE Finish(w)
  /\ UNCHANGED <<table, templates, history>>

ReportAppliedSave(w) ==
  /\ At(w, "ra_save")
  /\ Save(req[w].uuid, req[w].d)
  /\ Finish(w)
  /\ UNCHANGED <<inserted, templates, history>>

-----------------------------------------------------------------------------
\* POST /ow/api/v1/devices/adopt

\* Slip: a known device is stored anew, as an unknown one would be.
AdoptAnew(w, u, n) ==
  /\ Begin(w, "adopt")
  /\ Become(w, [Idle EXCEPT
                  !.pc = IF u \in inserted THEN "ad_save" ELSE "ad_create",
                  !.op = "adopt", !.uuid = u,
                  !.d = [NewRow(NoKey, n) EXCEPT !.seen = 0,
                                                 !.status = "online"]])
  /\ UNCHANGED <<table, templates, history>>

Adopt(w, u, n) ==
  /\ Begin(w, "adopt")
  /\ LET seen(d) == [d EXCEPT !.seen = 0, !.status = "online"]
     IN Become(w, IF u \in inserted
                  THEN [Idle EXCEPT
                          !.pc = "ad_save", !.op = "adopt", !.uuid = u,
                          !.d = [seen(devices[u]) EXCEPT
                                   !.name = IF n = NoName THEN @ ELSE n]]
                  ELSE [Idle EXCEPT
                          !.pc = "ad_create", !.op = "adopt", !.uuid = u,
                          !.d = seen(NewRow(NoKey, n))])
  /\ UNCHANGED <<table, templates, history>>

\* An INSERT with a blank device_key: uuid and device_key have unique indexes.
AdoptCreate(w) ==
  /\ At(w, "ad_create")
  /\ LET u == req[w].uuid
     IN IF u \in inserted \/ WithKey(NoKey) # {}
        THEN UNCHANGED table
        ELSE /\ inserted' = inserted \cup {u}
             /\ Save(u, req[w].d)
  /\ Finish(w)
  /\ UNCHANGED <<templates, history>>

AdoptSave(w) ==
  /\ At(w, "ad_save")
  /\ Save(req[w].uuid, req[w].d)
  /\ Finish(w)
  /\ UNCHANGED <<inserted, templates, history>>

-----------------------------------------------------------------------------
\* The sweeper, the administrator, time and failures

\* One UPDATE, every minute, of the rows not heard of for OfflineAfter ticks.
OfflineSweep(w) ==
  /\ Begin(w, "sweep")
  /\ devices' = [u \in UUID |->
                   IF /\ u \in inserted
                      /\ devices[u].seen # NeverSeen
                      /\ devices[u].seen > OfflineAfter
                   THEN [devices[u] EXCEPT !.status = "offline"]
                   ELSE devices[u]]
  /\ UNCHANGED <<inserted, templates, req, history>>

EditTemplates(t) ==
  /\ t # templates
  /\ templates' = t
  /\ UNCHANGED <<table, req, history>>

\* Time is only counted for a sweeper to see.
Tick ==
  /\ \E w \in Worker : "sweep" \in Serves[w]
  /\ devices' = [u \in UUID |-> [devices[u] EXCEPT !.seen = Older(@)]]
  /\ req' = [w \in Worker |-> [req[w] EXCEPT !.d.seen = Older(@)]]
  /\ UNCHANGED <<inserted, templates, history>>

\* The statement a request waits for fails.  The reconciler and the renaming
\* at registration are best effort: their callers go on.
StatementFails(w) ==
  /\ Faults
  /\ ~At(w, "idle") /\ ~At(w, "rg_reply")
  /\ \/ /\ req[w].pc \in {"rc_load", "rc_render", "rc_put", "rc_save"}
        /\ Resume(w)
     \/ /\ At(w, "rg_update")
        /\ Goto(w, "rc_load")
     \/ /\ req[w].pc \notin {"rc_load", "rc_render", "rc_put", "rc_save",
                             "rg_update"}
        /\ Finish(w)
  /\ UNCHANGED <<table, templates, history>>

\* The process restarts: the requests are lost, the database is not.
Crash ==
  /\ Faults
  /\ req' = [w \in Worker |-> Idle]
  /\ UNCHANGED <<table, templates, history>>

-----------------------------------------------------------------------------
Init ==
  /\ inserted = {}
  /\ devices = [u \in UUID |-> NoRow]
  /\ templates \in Template
  /\ req = [w \in Worker |-> Idle]
  /\ granted = {}
  /\ served = [u \in UUID |-> {}]
  /\ claimed = [u \in UUID |-> {}]
  /\ published = [u \in UUID |-> {ConfigOf(NoRow)}]

\* A request arrives.
Arrive(w) ==
  \/ \E k \in Key, n \in Name \cup {NoName} : Register(w, k, n)
  \/ \E u \in UUID : Reconcile(w, u)
  \/ \E u \in UUID, k \in Key \cup {NoKey} : Checksum(w, u, k)
  \/ \E u \in UUID, k \in Key \cup {NoKey} : Download(w, u, k)
  \/ \E u \in UUID, k \in Key \cup {NoKey}, s \in {"online", "offline"},
        a \in BOOLEAN, sum \in ReportedSums \cup {NoSum} :
       ReportStatus(w, u, k, s, a, sum)
  \/ \E u \in UUID, n \in Name \cup {NoName} : Adopt(w, u, n)

\* A request under way takes its next step.
Step(w) ==
  \/ RegisterUpdate(w) \/ RegisterInsert(w) \/ RegisterReread(w)
  \/ RegisterReply(w)
  \/ ReconcileLoad(w) \/ ReconcileRender(w)
  \/ PutConfigTarRead(w) \/ PutConfigTarSave(w)
  \/ GetChecksum(w) \/ MarkSeen(w)
  \/ ReportStatusSave(w) \/ ReportApplied(w) \/ ReportAppliedSave(w)
  \/ AdoptCreate(w) \/ AdoptSave(w)

Next ==
  \/ \E w \in Worker : Arrive(w) \/ Step(w) \/ OfflineSweep(w)
                       \/ StatementFails(w)
  \/ \E t \in Template : EditTemplates(t)
  \/ Tick
  \/ Crash

Spec == Init /\ [][Next]_vars

\* The runtime schedules every goroutine and the database answers.
Progress == \A w \in Worker : WF_vars(Step(w))

\* Agents that never stop polling: between two other requests of an agent there
\* is, again and again, a poll. An agent may stop, so this is a hypothesis.
Polling == \A w \in Worker, u \in UUID :
             SF_vars(\E k \in Key \cup {NoKey} : Checksum(w, u, k))

\* Time passes, and the ticker of the sweeper never stops.
Clock == WF_vars(Tick) /\ \A w \in Worker : WF_vars(OfflineSweep(w))
FairSpec == Spec /\ Progress /\ Clock

-----------------------------------------------------------------------------
\* Safety

\* Every column and every field of a request has its type.
TypeOK ==
  /\ inserted \subseteq UUID
  /\ devices \in [UUID -> Row]
  /\ templates \in Template
  /\ req \in [Worker -> Frame]
  /\ granted \subseteq (Key \X UUID)
  /\ served \in [UUID -> SUBSET Sum]
  /\ claimed \in [UUID -> SUBSET (ReportedSums \cup {NoSum})]
  /\ published \in
       [UUID -> SUBSET [archive  : Archive \cup {NoArchive},
                        checksum : Sum \cup {NoSum},
                        version  : Version]]

\* The three configuration columns fit together, in the table and in every
\* copy of a row a request holds: the checksum is the one of the archive, and
\* a version above zero means that there is an archive.  Six handlers write
\* whole rows from copies; checksum and download answer from two reads.
Coherent(d) == IF d.archive = NoArchive
               THEN d.checksum = NoSum /\ d.version = 0
               ELSE d.checksum = Sha256(d.archive) /\ d.version > 0
ConfigCoherent == /\ \A u \in UUID : Coherent(devices[u])
                  /\ \A w \in Worker : Coherent(req[w].d)

\* The identity a registration was answered with stays good for ever: its row
\* exists and carries its key, and no key was ever answered with two uuids,
\* however many registrations of one key race.
IdentityGranted ==
  \A g \in granted : /\ ValidateKey(g[2], g[1])
                     /\ devices[g[2]].key = g[1]
                     /\ \A h \in granted : h[1] = g[1] => h[2] = g[2]

\* Two rows never have the same key, the blank one included.
KeysUnique == \A u, v \in inserted : devices[u].key = devices[v].key => u = v

\* The checksum recorded as applied is one this device reported, or, if a report
\* of it left the checksum blank, the one of a configuration published for it;
\* whatever whole rows are saved in between, and whichever of the two saves of
\* a report fails, nothing else gets into the column.
AppliedSumReported ==
  \A u \in UUID : devices[u].applied = NoSum
                 \/ devices[u].applied \in claimed[u]
                 \/ /\ NoSum \in claimed[u]
                    /\ \E p \in published[u] : devices[u].applied = p.checksum

\* What a request holds fits the row it is about: a request that goes on after
\* finding a row has the uuid and the key of that row; a copy it will save has
\* the key of the row and a configuration that was published for it, or, in
\* PutConfigTar, one that follows a published one.
HasRow == {"rg_update", "rc_render", "rc_put", "rc_save", "seen", "rs_save",
           "ra_read", "ra_save", "ad_save"}
HoldsCopy == {"rc_render", "rs_save", "ra_save", "ad_save"}
Reconciling == {"rc_load", "rc_render", "rc_put", "rc_save"}
Following(u, n) == \E p \in published[u] : n = NextVersion(p.version)

RowFits(r) ==
  /\ r.pc \in HasRow => r.uuid \in inserted
  /\ r.pc \in Reconciling \cup {"ck_read", "ad_create"} => r.uuid \in UUID
  /\ r.pc \in Reconciling => r.op \in {"register", "checksum", "reconcile"}
CallerFits(r) ==
  /\ r.pc \in {"rg_update", "rg_insert", "rg_reread", "rg_reply"}
       => r.op = "register"
  /\ r.op = "register" =>
       /\ r.key \in Key
       /\ r.pc \in {"rg_insert", "rg_reread"}
          \/ (r.uuid \in inserted /\ devices[r.uuid].key = r.key)
CopyFits(r) ==
  /\ r.pc \in HoldsCopy =>
       /\ r.d.key = devices[r.uuid].key
       /\ ConfigOf(r.d) \in published[r.uuid]
  /\ r.pc = "ad_create" => r.d.key = NoKey /\ ConfigOf(r.d) = ConfigOf(NoRow)
NewConfigFits(r) ==
  /\ r.pc \in {"rc_put", "rc_save"} =>
       r.tar \in Archive /\ r.ver > 0 /\ Following(r.uuid, r.ver)
  /\ r.pc = "rc_save" =>
       /\ r.d.key = devices[r.uuid].key
       /\ ConfigOf(r.d) = [archive |-> r.tar, checksum |-> Sha256(r.tar),
                           version |-> r.ver]
FrameFits(r) == RowFits(r) /\ CallerFits(r) /\ CopyFits(r) /\ NewConfigFits(r)
RequestsFit == \A w \in Worker : FrameFits(req[w])

\* Every row holds a configuration published for it.
RowsPublished ==
  \A u \in UUID : /\ ConfigOf(NoRow) \in published[u]
                   /\ ConfigOf(devices[u]) \in published[u]

\* The inductive invariant.
Inv == /\ TypeOK /\ KeysUnique /\ IdentityGranted /\ ConfigCoherent
       /\ RequestsFit /\ RowsPublished

\* The configuration columns hold, together, one published configuration.
Promise == INSTANCE VersionedConfig WITH
             Device <- UUID, Empty <- ConfigOf(NoRow), Digest <- Sha256,
             NextNumber <- NextVersion,
             current <- [u \in UUID |-> ConfigOf(devices[u])]
ImplementsVersionedConfig == Promise!Spec

\* A report of a device updates its last_seen_at and its status, not the
\* configuration that was stored for it.
ReportStatusKeepsConfig ==
  [][\A w \in Worker : ReportStatusSave(w) =>
       \A u \in UUID : ConfigOf(devices'[u]) = ConfigOf(devices[u])]_vars

\* What a report records as applied matches the checksum of an archive the
\* device was sent, if it was sent any.
AppliedSumMatchesDownload ==
  [][\A w \in Worker :
       LET u == req[w].uuid
       IN ReportAppliedSave(w) /\ served[u] # {}
            => devices'[u].applied \in served[u] \cup {NoSum}]_vars

\* The store adopts a device it does not know yet.
AdoptStoresNewDevice ==
  [][\A w \in Worker : AdoptCreate(w) => req[w].uuid \in inserted']_vars

-----------------------------------------------------------------------------
\* Liveness

\* The device has the configuration its name and the templates call for.
Fresh(u) == devices[u].checksum = Sha256(Render(devices[u], templates))

\* When the templates are left alone, a device that keeps polling and is no
\* longer adopted gets the configuration they call for and keeps it, although
\* its own reports, the reconciliations of others and the last adoption save
\* rows they read before.
Settles ==
  Polling =>
    \A u \in UUID, t \in Decodable, n \in Name \cup {NoName} :
      <>[](/\ u \in inserted /\ devices[u].name = n /\ templates = t
           /\ \A w \in Worker : req[w].op # "adopt")
        => <>[]Fresh(u)

\* No request of the device itself is under way.
Quiet(u) == \A w \in Worker : req[w].uuid = u => req[w].op = "reconcile"

\* A device that was seen and falls silent is shown offline in the end, and
\* stays so, although reconciliations save copies in which it is online.
SilentGoesOffline ==
  \A u \in UUID, t \in Template :
    <>[](Quiet(u) /\ templates = t)
      => <>[](devices[u].seen # NeverSeen => devices[u].status = "offline")
=============================================================================
