------------------------------ MODULE Overlays ------------------------------
(***************************************************************************)
(* What reconciliations add to an archive for the management VPN, and the  *)
(* tables they keep it in: a WireGuard peer per device, or the root CA and *)
(* a client certificate, found or created one statement at a time while    *)
(* other reconciliations do the same.                                      *)
(*                                                                         *)
(* Module Devices models the row of a device and the templates statement   *)
(* by statement with the mode "none"; here the row is its archive, read    *)
(* once and written in one step, templates stay what they are, and the     *)
(* statements in between are those of the overlay                          *)
(* (controller/reconcile.go, repo/vpn_store.go, repo/pki_store.go,         *)
(* pki/ca.go, vpn/wireguard/spec.go).                                      *)
(***************************************************************************)
EXTENDS Integers, Sequences

CONSTANTS
  Device,     \* the ids of the rows of the table devices
  Config,     \* the configurations the process may be started with
  CAName,     \* the names of the root CA in them
  ServerKey,  \* the server's WireGuard keys in them
  Worker,     \* the goroutines that reconcile
  Polls,      \* the devices each of them reconciles
  NoCA, NoArchive,   \* what is not there
  CertCap     \* bound: certificates are issued up to this many

Mode == {"none", "wireguard", "openvpn", "zerotier"}

\* pool: whether address_pool_cidr is an IPv4 network.
Configuration == [mode : Mode, server : ServerKey, pool : BOOLEAN, ca : CAName]

ASSUME DeviceAssumption == Device \subseteq Nat \ {0}
ASSUME PollsAssumption == Polls \in [Worker -> SUBSET Device]
ASSUME ConfigAssumption == Config \subseteq Configuration
ASSUME CapAssumption == CertCap \in Nat

-----------------------------------------------------------------------------
\* What the tables hold.

\* A root CA is known by its name and by the goroutine whose key it has: names
\* are unique, so no goroutine stores two.
CA == [name : CAName, by : Worker]

\* The last byte of the address a device is given, wherever the pool starts and
\* ends: the code keeps three bytes of the pool's address and drops the prefix
\* length, so with more than 24 bits the address may be outside. And a slip.
AddressShort(d) == (2 + (d % 249)) % 256
Address(d) == (2 + (d % 250)) % 256

\* A row of wire_guard_peers; its keys are its own, like its id, the index.
\* "by" is history: the goroutine that created it.
Peer == [device : Device, address : 0 .. 255, server : ServerKey, by : Worker]

\* A row of certificates; its key is its own, like its id, the index.
Cert == [device : Device, ca : CA]

\* What tells two archives of a device apart: the settings, and the peer or the
\* certificate by their ids, 0 for none.
Archive == [config : Config, peer : Nat, cert : Nat]

ASSUME SentinelAssumption == NoCA \notin CA /\ NoArchive \notin Archive

-----------------------------------------------------------------------------
Label == {"idle", "wg_find", "wg_create", "ca_find", "ca_create", "issue",
          "put"}

\* A reconciliation: its device, the archive whose checksum the row it read
\* has, the CA it signs with, the archive it stores.
Frame == [pc     : Label,
          device : Device \cup {0},
          old    : Archive \cup {NoArchive},
          ca     : CA \cup {NoCA},
          new    : Archive \cup {NoArchive}]
Idle == [pc |-> "idle", device |-> 0, old |-> NoArchive, ca |-> NoCA,
         new |-> NoArchive]

VARIABLES
  config,   \* the configuration of this life of the process
  faults,   \* whether statements still fail and the process restarts
  peers,    \* the table of WireGuard peers
  cas,      \* the table of CAs, by name
  certs,    \* the table of certificates
  stored,   \* the archive each device's row has
  req       \* the reconciliation each goroutine runs

tables == <<peers, cas, certs, stored>>
vars == <<config, faults, peers, cas, certs, stored, req>>

-----------------------------------------------------------------------------
At(w, label) == req[w].pc = label
Become(w, frame) == req' = [req EXCEPT ![w] = frame]
Goto(w, label) == Become(w, [req[w] EXCEPT !.pc = label])
Finish(w) == Become(w, Idle)

\* The archive is packed and stored, unless it has the checksum of the row
\* that was read.
Pack(w, frame, peer, cert) ==
  LET a == [config |-> config, peer |-> peer, cert |-> cert]
  IN IF a = frame.old THEN Finish(w)
     ELSE Become(w, [frame EXCEPT !.pc = "put", !.new = a])

\* The row is read; the mode decides what comes next.
Reconcile(w, d) ==
  /\ At(w, "idle") /\ d \in Polls[w]
  /\ LET r == [Idle EXCEPT !.device = d, !.old = stored[d]]
     IN \/ /\ config.mode = "wireguard"
           /\ config.pool
           /\ Become(w, [r EXCEPT !.pc = "wg_find"])
        \/ /\ config.mode = "openvpn"
           /\ Become(w, [r EXCEPT !.pc = "ca_find"])
        \/ /\ config.mode \in {"none", "zerotier"}
           /\ Pack(w, r, 0, 0)
  /\ UNCHANGED <<config, faults, tables>>

-----------------------------------------------------------------------------
\* WireGuard

PeersOf(d) == {i \in DOMAIN peers : peers[i].device = d}
Lowest(S) == {i \in S : \A j \in S : i <= j}

\* Slips, each FindPeer as a plausible mistake would have it: any peer of the
\* device is taken; the device is not asked for; any failure counts as "there
\* is none", as it does for the CA.
FindPeerAny(w) ==
  /\ At(w, "wg_find")
  /\ LET mine == PeersOf(req[w].device)
     IN \/ mine = {} /\ Goto(w, "wg_create")
        \/ \E i \in mine : Pack(w, req[w], i, 0)
  /\ UNCHANGED <<config, faults, tables>>

FindPeerOfAll(w) ==
  /\ At(w, "wg_find")
  /\ IF peers = <<>> THEN Goto(w, "wg_create") ELSE Pack(w, req[w], 1, 0)
  /\ UNCHANGED <<config, faults, tables>>

FindPeerOrCreate(w) ==
  /\ At(w, "wg_find")
  /\ LET mine == PeersOf(req[w].device)
     IN \/ (mine = {} \/ faults) /\ Goto(w, "wg_create")
        \/ \E i \in Lowest(mine) : Pack(w, req[w], i, 0)
  /\ UNCHANGED <<config, faults, tables>>

\* SELECT ... WHERE device_id = ? ORDER BY id LIMIT 1
FindPeer(w) ==
  /\ At(w, "wg_find")
  /\ LET mine == PeersOf(req[w].device)
     IN \/ mine = {} /\ Goto(w, "wg_create")
        \/ \E i \in Lowest(mine) : Pack(w, req[w], i, 0)
  /\ UNCHANGED <<config, faults, tables>>

\* The address is the device's, the server key the configuration's; the new
\* peer goes into the archive as it was generated.
CreatePeer(w) ==
  /\ At(w, "wg_create")
  /\ peers' = Append(peers, [device |-> req[w].device,
                             address |-> Address(req[w].device),
                             server |-> config.server, by |-> w])
  /\ Pack(w, req[w], Len(peers) + 1, 0)
  /\ UNCHANGED <<config, faults, cas, certs, stored>>

-----------------------------------------------------------------------------
\* OpenVPN

\* SELECT ... WHERE name = ?; any failure counts as "there is none".
FindCA(w) ==
  /\ At(w, "ca_find")
  /\ \/ /\ cas[config.ca] # NoCA
        /\ Become(w, [req[w] EXCEPT !.pc = "issue", !.ca = cas[config.ca]])
     \/ /\ cas[config.ca] = NoCA \/ faults
        /\ Goto(w, "ca_create")
  /\ UNCHANGED <<config, faults, tables>>

\* Slip: who loses the race keeps the CA it generated.
CreateCAKeepsOwn(w) ==
  /\ At(w, "ca_create")
  /\ LET ca == [name |-> config.ca, by |-> w]
     IN /\ Become(w, [req[w] EXCEPT !.pc = "issue", !.ca = ca])
        /\ cas' = [cas EXCEPT ![config.ca] = IF @ = NoCA THEN ca ELSE @]
  /\ UNCHANGED <<config, faults, peers, certs, stored>>

\* The name has a unique index: who loses the race fails.
CreateCA(w) ==
  /\ At(w, "ca_create")
  /\ IF cas[config.ca] # NoCA
     THEN Finish(w) /\ UNCHANGED cas
     ELSE LET ca == [name |-> config.ca, by |-> w]
          IN /\ cas' = [cas EXCEPT ![config.ca] = ca]
             /\ Become(w, [req[w] EXCEPT !.pc = "issue", !.ca = ca])
  /\ UNCHANGED <<config, faults, peers, certs, stored>>

\* Slip: the certificate is used although it could not be saved.
IssueDeviceCertUnsaved(w) ==
  /\ At(w, "issue")
  /\ Len(certs) < CertCap
  /\ certs' \in {certs, Append(certs, [device |-> req[w].device,
                                       ca |-> req[w].ca])}
  /\ Pack(w, req[w], 0, Len(certs) + 1)
  /\ UNCHANGED <<config, faults, peers, cas, stored>>

\* A certificate is issued whenever a device is reconciled.
IssueDeviceCert(w) ==
  /\ At(w, "issue")
  /\ Len(certs) < CertCap
  /\ certs' = Append(certs, [device |-> req[w].device, ca |-> req[w].ca])
  /\ Pack(w, req[w], 0, Len(certs) + 1)
  /\ UNCHANGED <<config, faults, peers, cas, stored>>

-----------------------------------------------------------------------------
PutConfigTar(w) ==
  /\ At(w, "put")
  /\ stored' = [stored EXCEPT ![req[w].device] = req[w].new]
  /\ Finish(w)
  /\ UNCHANGED <<config, faults, peers, cas, certs>>

\* A statement fails, and with it the reconciliation.
StatementFails(w) ==
  /\ faults
  /\ req[w].pc \notin {"idle", "ca_find"}
  /\ Finish(w)
  /\ UNCHANGED <<config, faults, tables>>

\* The process stops, and is started with this or another configuration.
Restart(c) ==
  /\ faults
  /\ config' = c
  /\ req' = [w \in Worker |-> Idle]
  /\ UNCHANGED <<faults, tables>>

\* The failures, and the restarts, come to an end.  Bound: not while every
\* reconciliation issues a certificate, which CertCap stops.
FaultsEnd == /\ faults /\ config.mode # "openvpn"
             /\ faults' = FALSE
             /\ UNCHANGED <<config, tables, req>>

Init ==
  /\ config \in Config
  /\ faults = TRUE
  /\ peers = <<>>
  /\ cas = [n \in CAName |-> NoCA]
  /\ certs = <<>>
  /\ stored = [d \in Device |-> NoArchive]
  /\ req = [w \in Worker |-> Idle]

Step(w) == \/ FindPeer(w) \/ CreatePeer(w)
           \/ FindCA(w) \/ CreateCA(w) \/ IssueDeviceCert(w)
           \/ PutConfigTar(w)

Outside == \/ \E w \in Worker : StatementFails(w)
           \/ \E c \in Config : Restart(c)
           \/ FaultsEnd

Next == \/ \E w \in Worker : Step(w) \/ \E d \in Device : Reconcile(w, d)
        \/ Outside

Spec == Init /\ [][Next]_vars

\* Goroutines are scheduled and the database answers; devices never stop
\* polling, and each poll reconciles.
Polling == /\ \A w \in Worker : WF_vars(Step(w))
           /\ \A d \in Device : SF_vars(\E w \in Worker : Reconcile(w, d))
PollingSpec == Spec /\ Polling

-----------------------------------------------------------------------------
TypeOK ==
  /\ config \in Config /\ faults \in BOOLEAN
  /\ peers \in Seq(Peer)
  /\ cas \in [CAName -> CA \cup {NoCA}]
  /\ certs \in Seq(Cert)
  /\ stored \in [Device -> Archive \cup {NoArchive}]
  /\ req \in [Worker -> Frame]

\* What an archive of a device refers to was saved before, for this device.
Owned(d, a) ==
  a # NoArchive =>
    /\ a.peer # 0 => a.peer \in DOMAIN peers /\ peers[a.peer].device = d
    /\ a.cert # 0 => a.cert \in DOMAIN certs /\ certs[a.cert].device = d

\* A device is never sent the keys of another device, nor keys the controller
\* has not stored, although a reconciliation may end after each statement.
KeysOwned ==
  /\ \A d \in Device : Owned(d, stored[d])
  /\ \A w \in Worker : At(w, "put") => Owned(req[w].device, req[w].new)

\* Every certificate, saved or about to be, is signed by the root CA that is
\* stored, however many reconciliations found none and made one.
OneRoot ==
  /\ \A i \in DOMAIN certs : certs[i].ca = cas[certs[i].ca.name]
  /\ \A w \in Worker : At(w, "issue") => req[w].ca = cas[req[w].ca.name]

\* A device has at most one peer per goroutine: only a race that is under way
\* makes a second one, and no failure or restart does.
OnePeerPerWorker ==
  \A i, j \in DOMAIN peers :
    peers[i].device = peers[j].device /\ peers[i].by = peers[j].by => i = j

\* Devices whose ids are less than 250 apart have different addresses, and
\* nobody has the last byte of the network's, the server's or the broadcast
\* address of a pool of 24 bits.
AddressesApart ==
  \A i, j \in DOMAIN peers :
    LET d == peers[i].device
        e == peers[j].device
    IN /\ peers[i].address \in 2 .. 251
       /\ d < e /\ e < d + 250 => peers[i].address # peers[j].address

\* What a request relies on: who is about to create a peer has created none for
\* this device, and who is about to issue a certificate has a CA.
RequestFits(w) ==
  LET r == req[w]
  IN /\ r.pc # "idle" => r.device \in Device
     /\ r.pc = "wg_create" => \A i \in PeersOf(r.device) : peers[i].by # w
     /\ r.pc = "issue" => r.ca \in CA
     /\ r.pc = "put" => r.new \in Archive

\* Rows say what they are about.
RowsFit ==
  /\ \A i \in DOMAIN peers : peers[i].address = Address(peers[i].device)
  /\ \A n \in CAName : cas[n] # NoCA => cas[n].name = n

\* The inductive invariant.
Inv == /\ TypeOK /\ KeysOwned /\ OneRoot /\ OnePeerPerWorker /\ RowsFit
       /\ \A w \in Worker : RequestFits(w)

\* The configuration asks for no certificates and reconciliations succeed.
Settling == config.mode # "openvpn" /\ (config.mode = "wireguard" => config.pool)

\* The archive of a device is what the configuration calls for, with its lowest
\* peer.
Settled(d) ==
  \E p \in IF config.mode = "wireguard" THEN Lowest(PeersOf(d)) ELSE {0} :
    stored[d] = [config |-> config, peer |-> p, cert |-> 0]

\* When failures have ended, a device that polls is left with one archive for
\* good, although reconciliations that raced created several peers and stored
\* each its own.
VpnSettles ==
  \A d \in Device : <>(~faults /\ Settling) => <>[]Settled(d)
=============================================================================
