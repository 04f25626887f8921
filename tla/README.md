# Verification of the controller

TLA+ modules for a controller of OpenWrt devices that speaks the protocol of
`openwisp-config`: agents register, poll the checksum of their configuration,
download it and report what they applied; administrators edit templates; a
reconciler turns templates into an archive per device. The modules model the Go
code under `src/`, TLC checks them on small instances, and TLAPS proves the main
safety properties for instances of every size.

## 1. The system

One process (`src/main.go`, `src/server/app.go`) serves HTTP with one goroutine
per request, runs one background goroutine (the offline sweeper) and keeps
almost everything in one SQL database through gorm. There are no locks around
rows and no transaction spans two statements.

| Component | State | Operations | Hard parts |
|---|---|---|---|
| Device store (`internal/repo/device_store.go`, `internal/models/device.go`) | table `devices`: identity (uuid, unique key), name, configuration (archive, checksum, version), presence (status, last_seen_at), last_applied_sum | Register, ValidateKey, GetChecksum, GetConfig, PutConfigTar, ReportStatus, ReportApplied, MarkSeen, Adopt, GetByUUID, GetConfigNoKey, AckConfigOW | most writers read a row, change a copy and save **all** columns |
| Agent handlers (`internal/owagent`) | none | register, checksum, download-config, report-status | several statements each, best effort: errors of the reconciler, of MarkSeen and of ReportApplied are ignored |
| Reconciler (`internal/controller`) | none | Reconcile: read the row, list templates, render, compare, store | decides on what it read; called by register, by every poll and by the admin API at the same time |
| NetJSON (`internal/render/netjson`) | none | Merge, ApplyVars | order of templates, nested variables, nil documents |
| UCI and tarball (`internal/render/uci`, `internal/tarball`) | none | RenderAll, Build | defaults, two writers of one path, determinism |
| Template store (`internal/repo/template_store.go`) | table `config_templates` | ListForDevice, VarsForDevice, DecodeNetJSON | changes under a running reconciliation |
| Offline sweeper (`server/app.go`) | ticker | one UPDATE a minute | races with saved copies that say "online" |
| OW API (`internal/owctrl`, `server/adapters.go`) | in-memory store, or an adapter to the device store | Adopt, GetConfig, AckConfig | rows without a key; writes columns the reconciler owns |
| HMAC middleware (`internal/owctrl/auth_hmac.go`, `hmac_mem_provider.go`) | keys and nonces in memory | HMACAuth, Lookup, SeenNonce, Put | clock checked long before the nonce; nonces dropped by date |
| Secrets (`internal/secrets`, `internal/repo/secret_store.go`) | table `device_secrets` | Issue, RevokeAll | stored as hashes, never given to the middleware |
| Admin pages (`internal/admin`) | none | reconcile, issue and revoke secrets, edit templates | the only writers of templates; an update reads a row and saves all of it |
| WireGuard peers, PKI (`internal/repo/vpn_store.go`, `internal/repo/pki_store.go`, `internal/pki`) | tables of peers, CAs and certificates | EnsureWGPeer, GetOrCreateCA, IssueDeviceCert | look up, then create, in two statements, and only then store the archive that carries the keys |
| In-memory store (`internal/owctrl/store_memory.go`) | a map under a read-write lock | Adopt, GetConfig, AckConfig | look up and insert, two columns of an acknowledgement; the lock is shared by all requests |
| Life cycle (`main.go`, `server/app.go`, `config`, `internal/db`) | the configuration, the handle, the listener | Load, validate, Open, Initialize, Run, Shutdown | requests under way when the process is asked to stop; a process without a database |
| HTTP middleware, health, logs | none | | |

What makes them correct: the configuration of a device is never a mixture of
two, and follows the templates in the end; a device gets one identity, for ever;
what is recorded as applied is what the device reported; presence follows
heartbeats; a signed request is executed once; templates win by priority whatever the order of the
calls; the keys in an archive are stored and the device's own, certificates are
signed by the one root there is; the in-memory store is one store to all its
callers; a process that is asked to stop stops, and not too early. `PROJECT.json` lists, under "hazards", the lines where each can go wrong.

## 2. The modules

| Module | Models | Built on |
|---|---|---|
| `VersionedConfig` | what the store promises of configurations: publish, or bring a published one back, whole | |
| `Devices` | the table of devices and every handler that touches it, one statement per step | refines `VersionedConfig` |
| `DevicesProofs` | theorems about `Devices` | `Devices`, TLAPS |
| `HMACAuth` | the middleware, its provider, and the secrets issued | |
| `HMACAuthProofs` | theorems about `HMACAuth` | `HMACAuth`, TLAPS |
| `NetJSON` | documents; merging, variables, template strings | |
| `UCI` | the files rendered from a document, their order in the archive | `NetJSON` |
| `Rendering` | the steps of Reconcile from templates to archive | `UCI` |
| `RenderingAsWritten` | the recursive functions of `merge.go`, branch for branch, to compare `NetJSON` with | `Rendering` |
| `RenderingProofs` | theorems about `Rendering` and `RenderingAsWritten`, with the lemmas about `NetJSON` and `UCI` they rest on | `RenderingAsWritten`, TLAPS |
| `DevicesAppliedProofs` | that applied checksums are the reported ones | `DevicesProofs` |
| `Overlays` | what Reconcile adds for the management VPN: peers, root CA, certificates | |
| `OverlaysProofs` | theorems about `Overlays` | `Overlays`, TLAPS |
| `Directory` | what the in-memory store of the OW API promises: each call takes effect at once | |
| `OWStore` | that store, its lock and the handlers above it | refines `Directory` |
| `TemplateRows` | the table of templates and the admin forms that edit it | |
| `Server` | the life of the process, with the requests of either kind under way | `OWStore`, `TemplateRows` |
| `OWStoreProofs`, `TemplateRowsProofs` | lemmas: each step of the two keeps its invariant, and refines `Directory` | |
| `ServerProofs` | theorems about `Server` | both, TLAPS |
| `MCDevices`, `MCHMACAuth`, `MCRendering`, `MCOverlays`, `MCServer` | instances for TLC | |

### Devices

A *worker* is a client whose requests follow one another; each request is a
frame (`req[w]`): the label of the statement it waits for, its parameters, and
the copy of the row it holds (`d`). Each action is one database statement with
the computation up to the next one:

| Code | Actions |
|---|---|
| `DeviceStore.Register` and `Handler.Register` | `Register` (look up by key), `RegisterUpdate`, `RegisterInsert`, `RegisterReread`, then the actions of Reconcile, `RegisterReply` |
| `Reconciler.Reconcile` | `ReconcileLoad`, `ReconcileRender` (templates, rendering, comparison), `PutConfigTarRead`, `PutConfigTarSave` |
| `Handler.Checksum` | `Checksum`, Reconcile, `GetChecksum`, `MarkSeen` |
| `Handler.DownloadConfig` | `Download`, `MarkSeen` |
| `Handler.ReportStatus` | `ReportStatus`, `ReportStatusSave`, `ReportApplied`, `ReportAppliedSave` |
| `DeviceStore.Adopt` | `Adopt`, `AdoptCreate` or `AdoptSave` |
| sweeper, admin edits | `OfflineSweep`, `EditTemplates` |
| errors, restarts | `StatementFails`, `Crash` |

`Save(u, d)` writes every column of the copy, as gorm's Save does;
`RegisterUpdate` and `MarkSeen` write the columns they name, as Updates does.
The unique index on `device_key` is in `RegisterInsert` (ON CONFLICT DO NOTHING)
and `AdoptCreate` (an error). A blank key leaves the condition of `ValidateKey`
without effect, as gorm does with zero fields of a struct.

Abstractions: the archive is a function of the row's name and of the content of
the template table (`Render`), since rendering reads nothing else in VPN mode
"none", the default of `config/config.yaml`; model and MAC behave as the name
does and are left out; HEAD requests change nothing and are left out; the whole
table of templates is one value, changed at any moment by `EditTemplates`;
`last_seen_at` is the number of ticks since. The forms that change templates are
modelled row by row in `TemplateRows`. With "applied" a report carries any of
`ReportedSums`, the strings agents may send, or none: the handler checks nothing
of them. `granted`, `served`, `claimed` (what each device reported as applied)
and `published` are history variables: no guard reads them.
`AckConfigOW` and `GetConfigNoKey` are not in this module: the server wires them
behind a middleware that lets nobody through (run `hmac_wired`).

### HMACAuth

`Receive` checks headers and clock when a copy of a request comes in; `Lookup`
the key and signature once the body is there; `SeenNonce` is the provider's
critical section. Copies of a request come in as often as they like, to any
worker. `Tick` keeps a request from being read for longer than the read timeout
of the server. `Put` is called for the devices in `Provisioned`: by nobody in
`server/app.go`. `Restart` loses keys and nonces.

### NetJSON, UCI, Rendering

A document is a function from the paths in it to what is there: an object, a
list, or a string. `DeepMerge`, `Walk` and `Expand` say which paths the result
has and what is there; `MergedAtOnce` says it of any number of templates, as the
documentation of `Merge` does. The code recurses instead: `deepMerge`, `walk`
and `render` of `RenderingAsWritten` are its functions, and the action property
`AsWritten` says that every step of `Rendering` computes what they do. Each is
one call (`deepMergeCall`, `walkCall`, `renderCall`: what is returned, from the
arguments and from what the calls below return) and a recursive function over
the values that are in the arguments (`Parts`). Documents are finite
(`IsValue`), as what `json.Unmarshal` makes is.

Strings are atoms; what Go's text/template makes of one is the constant
`Expansion`. Numbers, booleans and lists of strings inside a section are left
out of `UCI`. `getString` is modelled as what it is, a walk down a path. What
the device unpacks (`Unpacked`) is, of the entries with one path, the last:
`renderNetwork` and `renderWireGuard` write to the same one, so where a document
has both objects the sections of `network` are lost. `FilesUnpacked` says so.
`Build` sorts with `sort.Slice`, which does not promise to keep the order of
equal paths but does, being an insertion sort, for as few files as there are
here (less than twelve); the sort of `UCI` keeps it.

### Overlays

`Devices` has the row of a device statement by statement in mode "none";
`Overlays` has the statements the other modes add. A reconciliation reads the
row (`Reconcile`); in mode "wireguard" it finds the device's peer (`FindPeer`)
or generates one and inserts it (`CreatePeer`); in mode "openvpn" it finds the
root CA (`FindCA`) or creates it (`CreateCA`, a unique index) and issues a
certificate (`IssueDeviceCert`); then it compares the archive (`Pack`) and
stores it (`PutConfigTar`, here one step). An archive is what tells two of them
apart: the configuration, and the ids of the peer and the certificate in it.
`GetOrCreateCA` takes any error for "there is none", so `FindCA` may go on to
`ca_create` while statements fail; `EnsureWGPeer` does not. A peer keeps the
server key of its creation, as the code does: after `server_public_key` changes,
stored peers, and archives made from them, go on with the old one. The
code parses the pool of addresses, keeps three bytes of it, drops its prefix
length and puts the device id modulo 250 into the last byte (`Address`). So
`AddressesApart` speaks of last bytes. With a prefix of 24 bits or fewer the
address is in the pool; with more, `10.10.0.16/28` for instance, a device may be
given one outside it, or the broadcast address, and no property says otherwise.
Templates are left alone here, validity periods are left out
(nothing looks at them: a CA or certificate is never renewed for being old).

### OWStore and Directory

Without a database the controller API works on a map. A call waits for the
lock (`Acquire`, external: Go's `sync.RWMutex`, where a waiting writer keeps new
readers out), looks the device up, and writes one field per step. `Directory`
says what callers are promised: an adoption gives a new device a number no other
has and tells a known one its own, an acknowledgement writes version and checksum
together, a read sees the last one. What a caller asked (`asked`) stays until it
is answered, and an answer is about the device the call named. The refinement
`Known` counts an acknowledgement as made from its first write on; nobody can
see the second missing, and that is what the lock is for. Uuids that do not match the pattern
of the routes, bodies that do not decode and the 304 answer change nothing and
are left out.

### TemplateRows

A form creates a row, deletes one, or updates one: `APITemplateUpdate` reads the
row and checks the document, `SaveTemplate` writes every column. When the row is
gone by then, gorm's Save inserts it again under its old id (a deleted template
comes back), with the column's default for a priority of 0; when another row has
the name by then, PostgreSQL refuses (its conflict clause names the id) and
MySQL's `ON DUPLICATE KEY UPDATE` overwrites the other row.

### Server

`Initialize` takes a configuration `Validate` accepts and a driver `Open` knows;
`Run`, `Bind`, `Signal`, `Shutdown` (the listener closes), `Drained` or, after
the five seconds, `DeadlinePasses` and `GiveUp`. The listener may fail when it
is opened or at any time while the process serves (`ListenFails`); the goroutine
that listened then ends the process, when it gets to it and whatever the others
do (`Fatal`). The process may be `Killed` at any time. Without a handle the
sweeper's first tick ends it (`SweeperPanics`): the mode that `config/init.go:59`
and `db/db.go:12` call in-memory serves for about a minute. What the runs and
theorems say of the controller API without a database is said of that minute.
(The former also names a driver "sqlite", which `Open` refuses: the process does
not start.) With a database requests are the template forms, without one the calls of the controller API.

### Slips

Beside an operation some modules define *slips*: the operation with a plausible
mistake in it (a reread forgotten, a wrong window, an order swapped). They are
not part of any specification. They are there to show, by putting each in the
place of its operation, that the property of a run notices it ("mutants" in
`PROJECT.json`).

## 3. What TLC checks

| Run | Instance | Shows |
|---|---|---|
| `config_rows` | one device, one goroutine that registers and reports without a checksum, one that reconciles and adopts; two template tables, which are interchangeable (`SYMMETRY`); failures and restarts; versions to 2 | `ConfigCoherent`, the inductive invariant `Inv`, `AppliedSumReported`, and `ImplementsVersionedConfig` |
| `identity` | two keys, two uuids, two goroutines that register with and without a name, one that adopts; failures and restarts; templates that do not decode | `TypeOK`, `IdentityGranted` |
| `settles` | an agent that polls, downloads and reports, or falls silent, beside reconciliations, adoptions, the sweeper and the clock | `Settles`, `SilentGoesOffline` |
| `nonces` | four requests (two with one nonce, one ahead of time, one badly signed), two workers, skew 2, memory 3, delay 1, time to 8, restarts | `ExecutedOnce`, `Inv`, `RefusedOnlyIfUsed` |
| `rendering` | all lists of up to two templates out of 16 documents and two priorities, those of three with priorities 2, 1, 1, four VPN modes, devices with and without a name | `Inv`, `PriorityWins`, `VarsReplaced`, `StringsExpanded`, `OverlayWins`, `HostnameDecided`, `FilesUnpacked`, `AsWritten` |
| `overlays` | an agent's and an administrator's goroutine; two devices whose ids are 249 apart; the modes wireguard, openvpn and none, one of which each start has; one certificate; failures and restarts, until they end | `Inv`, `KeysOwned`, `OneRoot`, `OnePeerPerWorker`, `AddressesApart`, `VpnSettles` |
| `server` | two callers of the API, two devices, a version to acknowledge; two editors, three forms over two names, one of them not JSON; three secrets, four drivers; any number of lives of the process | `Inv`, `RowsWhole`, `OnlyHolders`, `CutOnlyAtDeadline`, `ImplementsDirectory`, `SignalStops`, `CallsAnswered` |
| `report_rollback` | as `config_rows`, smaller | violation: a report undoes a configuration |
| `adopt_second` | adoption only, two uuids | violation: the second device is refused |
| `hmac_wired` | `HMACAuth` with nobody calling `Put` | violation: an issued secret is refused |
| `interfaces` | `Rendering` in modes none and wireguard | violation: a named interface is not rendered |
| `applied_blank` | an agent that downloads and reports without a checksum, beside reconciliations | violation: a configuration the device was never sent is recorded as applied |

Bounds. Two writers of one row are enough for every lost update of the code: a
lost update needs one copy and one writer in between. Three workers are used
where a third kind of actor matters (two racing registrations and an adoption;
the sweeper). `VersionCap` saturates the version; from 2 up, first and later
configurations are told apart, and a number can repeat. `OfflineAfter` is
no tick in `settles` (every tick is longer than the five minutes) and one
elsewhere; what matters is on which side of it a row is, and ages are not
counted further. Two good template tables give every order of two edits. Two uuids
give a registration that loses a race a second one to take by mistake; for any
number of uuids and keys, `IdentitiesLast` is proved. `Horizon` is
beyond the time at which the last request of the instance is forgotten.
In `overlays` two goroutines are what a race over a peer or the CA takes, and
`CertCap` = 1 lets one certificate through and both goroutines to its door;
for any number of certificates `KeysOwned` and `OneRoot` are proved. In
`rendering` a third template is there for what lies between the first and the
last of a merge: the priorities 2, 1, 1 make the sort move one template past two
and keep two of one priority in order, and every triple of documents is merged.
The documents have at each level what the code treats differently: no object, an
empty one, one that names a known or an unknown variable, with a default or
without, a list, a string, a template. For any documents and lists all the
properties of `rendering` are proved. Restarts of `overlays`
change the mode but not the server key (a second key takes the run from a minute
to five and shows nothing more); a pool that is no IPv4 network, in which every
reconciliation fails, is in the module and the proofs only. In `server`
version 2 differs from the version 1 of a new device, `RowCap` = 2 rows are what
a conflict of names takes, and a priority of 0 is among the forms. The driver
stays the same from one life of the process to the next (`Initialize`): map and
table are never both in use.

Reports with "applied" add a read and a save of a stale row to each report, and
every string in `ReportedSums` multiplies the rows: `config_rows` and
`applied_blank` have the blank checksum, the one the code replaces, and the
other passing runs have no such report. For any strings `AppliedSumsReported` is proved.
`settles` has no registrations and no names, those are in `config_rows` and
`identity`: there is one uuid, and an adoption that created its row would leave
an agent that registers without one.

The five violations are explained under "findings" in `PROJECT.json`: stale
whole-row saves, the checksum put in the place of a blank one, the unique blank
key, keys nobody provisions, and `getString` called with defaults it takes for
path names.

Of what is recorded as applied two things are said. `AppliedSumReported`, checked
for reports that leave it out and proved for any: the column holds what the device reported or, if it
reported without a checksum, the checksum of a configuration stored for it at
some time; saves of stale rows and a report whose second half fails bring
nothing else there. `AppliedSumMatchesDownload`, what the comment of the column
says, is refuted by `applied_blank`: a blank checksum stands for what is stored
when `ReportApplied` runs, which the device may never have been sent.

Deadlock is checked in every run.

### Fairness

`FairSpec` of `Devices` assumes of the program that a request that is being
handled takes its next step (`Progress`, weak fairness for each worker): the Go
scheduler is fair and statements return. `Clock` is weak fairness of time and of
the sweeper, whose ticker never stops. That an agent keeps polling (`Polling`)
is no part of the specification but the hypothesis of `Settles`, since agents may
fall silent, which is what `SilentGoesOffline` is about. It is strong fairness of
an agent's next poll, the agent's endless loop: a worker alternates between
other requests and a poll, so the poll is enabled again and again, not always.
No fairness is assumed of administrators, failures, registrations or reports.
Failures are off in the run of `Devices` for liveness; a database that fails
for ever satisfies no liveness property.

`PollingSpec` of `Overlays` assumes the same: each goroutine's next step weakly,
each device's polls strongly. Failures and restarts are on, and `VpnSettles`
speaks of what happens when they have ended (`FaultsEnd`, which need not
happen). They are not ended in mode "openvpn": there every reconciliation issues
a certificate, so the archive never stays the same, the version grows with each
poll, and no bound on certificates could be reached without stopping the
system. `VpnSettles` is about the other modes, and not about a WireGuard pool
that is no IPv4 network, with which every reconciliation fails.

`Spec` of `Server` assumes that the goroutine that waits for the signal, and the
deadline's timer, go on (weak fairness of `Stopping`), that a call past the lock
goes on (`StoreStep`), and that the lock lets a waiting call in when it can be
let in again and again (strong fairness of `Locking`: Go's RWMutex starves
neither readers nor writers). Nothing is assumed of the forms: the database may
never answer, and `SignalStops` holds all the same.

`Settles` supposes that the templates and the name stay as they are from some
point on, and that no adoption is under way from some point on: an adoption
saves a stale row, and if devices were adopted for ever the configuration would
be undone for ever, and come back with the next poll each time. Adoptions before
that point, and the saves of reports and reconciliations at any time, are not
excluded, and the run has both.

## 4. What is proved

`DevicesProofs` proves, for any sets of uuids, keys, names, templates and
workers, any assignment of handlers, with failures and restarts:

* `Invariance`: `Spec => []Inv`. `ConfigCoherent` is not inductive: a save
  writes a copy read earlier, so the copies in flight must be coherent too, and
  the copy must be of the right row. `IdentityGranted` needs that no save changes
  a key, so that copies carry the key of their row (`RequestsFit`), that a
  request that goes on after a lookup knows a uuid whose row has its key, and that
  keys are unique (`KeysUnique`). The refinement needs that every copy holds a
  configuration that was published for its row (`RowsPublished`, `CopyFits`) and
  that the number a reconciliation chose follows a published one
  (`NewConfigFits`). `Inv` is the conjunction.
* `TypeCorrect`, `ConfigsCoherent`, `IdentitiesLast`: its parts as properties.
* `Refinement`: `Spec => ImplementsVersionedConfig`. `PutConfigTarSave` publishes,
  the other saves restore a published configuration, all other steps leave the
  three columns of every row alone.

Assumptions: `DecodableAssumption`, `ServesAssumption`, `BoundsAssumption`, and that the values of empty columns are none of the others
(`SentinelAssumption`).

The proof goes action by action. Lemmas first say what `Save` and `Become` do to
the parts of `Inv`: a saved row with the key of its row and a published
configuration keeps every part, and a request's frame fits or not by itself, so
that an action has to be looked at for one worker only.

`HMACAuthProofs` proves `Invariance`, `NoRepetition` (`[]ExecutedOnce`) and
`NoFalseAlarm` (`RefusedOnlyIfUsed`) from `NonceWindowAssumption`: skew plus read
timeout do not exceed the time nonces are remembered (5 min + 15 s and 10 min).
The invariant says that an executed request is in the nonce map or older than
the map remembers, and that a request under way was young enough when it came
in and has not been under way for longer than the timeout.

`DevicesAppliedProofs` proves `AppliedSumsReported`, for any strings agents may
send. The invariant on top of `Inv`: what a row, or a copy of one, records as
applied is blank, was reported by the device, or, if the device has reported
without a checksum, is that of a configuration published for it; and what a
report under way carries was reported. The substituted checksum is one that was
published by `RowsPublished` of `Inv`. Nothing that was reported or published is
forgotten, so that stale copies that are saved are still good.

`OverlaysProofs` proves, for any devices, goroutines, configurations and number
of certificates, `Invariance` and from it `KeysStayOwned`, `OneRootOnly`,
`PeersBounded` and `AddressesStayApart`. `KeysOwned` is inductive because peers
and certificates are only appended. `OneRoot` needs that a stored CA is never
replaced and that the loser of the race fails instead of going on. `OnePeerPerWorker`
needs that who is about to create a peer has created none for this device
(`RequestFits`): it found none, and nobody deletes. That addresses are apart is
arithmetic modulo 250.

`ServerProofs` proves, for any callers, devices, secrets, editors and forms:

* `Invariance`. The parts are the lock (`LockHeld`: who is past the lock holds
  it, a writer there is alone, and what it found when it came in is still so
  when it writes), the numbers (`Numbered`), the rows (`RowsWhole`,
  `NamesUnique`: an update saves under a name nobody else has or not at all),
  and who is there in which phase: calls only without a database, forms only
  with one, both only from `serving` on, draining only after a signal.
* `SecretHeld`, `RowsStayWhole`, `NoEarlyCut` from it.
* `Refinement`: `Spec => ImplementsDirectory`. Adoption of a new device happens
  at its insertion, an acknowledgement at its first write, everything else that
  answers at the answer; the end of the process is `Forget`. What a caller waits
for is its call until it is answered (`Asked`): an answer leaves the other
callers' calls alone (`AskedStays`, `Answered`).

The lemmas about the store and the table are in modules of their own and know
nothing of the process; `ServerProofs` puts them together.

`RenderingProofs` proves, for any lists of templates with any documents of any
depth, any variables and expansions, any overlays and names of devices:

* `Invariance`: `Inv` says that the document is, at every step, what merging the
  templates met so far *at once* gives, and then what each step makes of the one
  before, up to the archive. The step that matters is `MergeNext`
  (`MergeStep`): merging one more template over the merge of the first k is the
  merge of the first k + 1. A path of an earlier template stands if no later one
  has something in its way; below a path that stands two templates can only
  meet in objects (`StandsAgree`), so that it does not matter which of them is
  asked. `InvInit` needs that sorting keeps all templates and puts none before
  one of lower priority (`SortedFacts`, `ByPriorityFacts`).
* `PriorityWinsAlways`, `OverlayWinsAlways`, `StringsExpandedAlways`,
  `VarsReplacedAlways` from it. For the last, every path of a walked document
  is one that was left alone or one of a replacement (`WalkPlaces`), and
  outermost objects that name a variable are apart (`OutermostApart`).
* `FilesUnpackedAlways`: the files are those of the objects in the order they are
  looked for (`FilesRendered`), the sort of `Build` keeps the order of those
  with one path (`FilesPacked`), and of these the device keeps the last
  (`LastUnpacked`).
* `HostnameDecidedAlways` follows one string through all steps: the overlay
  leaves it alone (`OverlaidHost`), expansion maps it (`ExpandedHost`), no object
  on its way names a variable (`NoVarMerged`), and of the templates it is the
  last one's (`LastHostMerged`).
* `DeepMergeAsWritten`, `WalkAsWritten`, `ExpandAsWritten`: on every value, of
  any depth, an operator of `NetJSON` is the recursive function of the code, and
  with them `AsWrittenAlways`: every step computes what the code's functions do.
  This takes three things. An operator does what one call does if it is also
  what the calls below do (`DeepMergeOnce`, `WalkOnce`, `ExpandOnce`). What is
  below in a value is a value again, with fewer paths (`PartsFacts`,
  `ChildSmaller`). And a set of parts that contains each part whose children it
  contains has all of them (`PartsInduction`): of those left out, one with the
  fewest paths could not be. This is where documents have to be finite. That the
  document stays one is a conjunct of `Inv`, proved from `DocumentsStay`.

Assumptions: templates are JSON objects or null (`SourcesAssumption`), the three
overlays are objects that do not speak of the system (`OverlayAssumption`, as
`reconcile.go:164-208` builds them), an empty string is no template
(`TemplatesAssumption`: the code looks for "{{" first), and that what the code
has as strings are strings (`StringsAssumption`, `NamesAssumption`; that the
literals "system" and "hostname" are is among them because the provers do not
know it) and the modes are the four (`ModesAssumption`).

The proofs settled what exactly holds. `VarsReplaced` has to allow for an object
whose name of a variable is itself the value of one (`{"$var": {"$var": "x"}}`:
`walk` replaces the inner object and is then past the outer one), and
`StringsExpanded` for an expansion that gives a template again;
`HostnameDecided` needs that no template names a variable at its top, which
would replace all of it, and, of the other objects, only that those at "system"
name none. The instance of TLC has documents of each of these kinds.

Only checked by TLC is liveness (`Settles`, `SilentGoesOffline`, `VpnSettles`,
`SignalStops`, `CallsAnswered`), which TLAPS cannot prove under fairness. The
induction over documents is a proof by a smallest counterexample because the
library's induction theorems take an operator as a parameter, which no installed
prover instantiates.

## 5. Not modelled

* `AckConfigOW` and `GetConfigNoKey` of the device store: the server puts them
  behind a middleware that lets nobody through (run `hmac_wired`), so no
  reachable step of the program is left out.
* `DBKeyProvider` (`internal/secrets/db_keyprovider.go`), `MinimalOpenWrtTar`,
  `secrets.Verify`, the organisation and user models: nothing makes or calls them.
* Logging, request ids, health checks, HTML pages and static files: they read, or
  write where nothing of the system looks. The recovery middleware turns a panic
  of a handler into an answer and keeps nothing.
* How viper finds and decodes the configuration file, and the wording of
  `wg0.conf`, certificates and pages.
* Lists, numbers and booleans inside a UCI section.

What could be taken further: `Overlays` with the row of `Devices` statement by
statement (the two are separate because their product is beyond TLC); template
tables with a content per row between `TemplateRows` and `Rendering`; the
`AckConfigOW` path for a server whose keys are provisioned, should one be wired.
