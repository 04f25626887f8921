--------------------------- MODULE OverlaysProofs ---------------------------
(***************************************************************************)
(* Proofs about Overlays, for every set of devices, configurations and     *)
(* goroutines, with failing statements and restarts.                       *)
(***************************************************************************)
EXTENDS Overlays, TLAPS

USE DeviceAssumption, PollsAssumption, ConfigAssumption, CapAssumption,
    SentinelAssumption

\* Two ids less than 250 apart are given different addresses, none of them the
\* network's, the server's or the broadcast address.
LEMMA AddressInjective ==
  /\ \A d \in Device : Address(d) \in 2 .. 251
  /\ \A d, e \in Device : d < e /\ e < d + 250 => Address(d) # Address(e)
<1>1. \A d \in Nat : Address(d) = 2 + (d % 250)
  BY DEF Address
<1>2. \A d \in Nat : d % 250 \in 0 .. 249
  OBVIOUS
<1>3. ASSUME NEW d \in Nat, NEW e \in Nat, d < e, e < d + 250
      PROVE  d % 250 # e % 250
  BY <1>3
<1>4. ASSUME NEW d \in Device PROVE Address(d) \in 2 .. 251
  <2>1. d \in Nat
    OBVIOUS
  <2>2. PICK m \in 0 .. 249 : m = d % 250
    BY <1>2, <2>1
  <2> QED
    BY <1>1, <2>1, <2>2
<1>5. ASSUME NEW d \in Device, NEW e \in Device, d < e, e < d + 250
      PROVE  Address(d) # Address(e)
  <2>1. d \in Nat /\ e \in Nat
    OBVIOUS
  <2>2. PICK m \in 0 .. 249 : m = d % 250
    BY <1>2, <2>1
  <2>3. PICK n \in 0 .. 249 : n = e % 250
    BY <1>2, <2>1
  <2>4. m # n
    BY <1>3, <1>5, <2>1, <2>2, <2>3
  <2>5. Address(d) = 2 + m /\ Address(e) = 2 + n
    BY <1>1, <2>1, <2>2, <2>3
  <2> QED
    BY <2>4, <2>5
<1> QED
  BY <1>4, <1>5

\* An address is a byte.
LEMMA AddressByte == \A d \in Device : Address(d) \in 0 .. 255
<1> SUFFICES ASSUME NEW d \in Device PROVE Address(d) \in 0 .. 255
  OBVIOUS
<1>1. d \in Nat
  OBVIOUS
<1> QED
  BY <1>1 DEF Address

\* The frame of a goroutine without a reconciliation.
LEMMA IdleFrame == Idle \in Frame /\ Idle.pc = "idle"
BY DEF Idle, Frame, Label

\* What is appended to a table is at its end, and nothing else moves.
LEMMA AppendRow ==
  ASSUME NEW S, NEW s \in Seq(S), NEW e \in S
  PROVE  LET t == Append(s, e)
         IN /\ t \in Seq(S) /\ DOMAIN t = DOMAIN s \cup {Len(s) + 1}
            /\ Len(s) + 1 \in Nat \ {0} /\ Len(s) + 1 \notin DOMAIN s
            /\ t[Len(s) + 1] = e /\ \A i \in DOMAIN s : t[i] = s[i]
OBVIOUS

\* Packing ends the request or leaves it with the archive it will store.
LEMMA PackFrame ==
  ASSUME TypeOK, NEW w \in Worker, NEW f \in Frame, NEW p \in Nat, NEW c \in Nat,
         Pack(w, f, p, c), f.device \in Device
  PROVE  \E g \in Frame :
           /\ Become(w, g)
           /\ \/ g.pc = "idle"
              \/ /\ g.pc = "put" /\ g.device = f.device
                 /\ g.new = [config |-> config, peer |-> p, cert |-> c]
                 /\ g.new \in Archive
<1> DEFINE a == [config |-> config, peer |-> p, cert |-> c]
           g == [f EXCEPT !.pc = "put", !.new = a]
<1>1. a \in Archive
  BY DEF TypeOK, Archive
<1>2. /\ g \in Frame /\ g.pc = "put" /\ g.device = f.device
      /\ g.new = [config |-> config, peer |-> p, cert |-> c]
  BY <1>1 DEF Frame, Label
<1> QED
  BY <1>1, <1>2, IdleFrame DEF Pack, Finish

-----------------------------------------------------------------------------
\* The invariant, once more, by rows and by requests.
TablesFit ==
  /\ peers \in Seq(Peer)
  /\ cas \in [CAName -> CA \cup {NoCA}]
  /\ certs \in Seq(Cert)
  /\ stored \in [Device -> Archive \cup {NoArchive}]
  /\ \A d \in Device : Owned(d, stored[d])
  /\ \A i \in DOMAIN certs : certs[i].ca = cas[certs[i].ca.name]
  /\ OnePeerPerWorker
  /\ RowsFit

Holds(w, r) ==
  /\ r.pc # "idle" => r.device \in Device
  /\ r.pc = "wg_create" => \A i \in PeersOf(r.device) : peers[i].by # w
  /\ r.pc = "issue" => r.ca \in CA /\ r.ca = cas[r.ca.name]
  /\ r.pc = "put" => r.new \in Archive /\ Owned(r.device, r.new)

\* Both ways of writing the invariant say the same.
LEMMA InvParts ==
  Inv <=> /\ config \in Config /\ faults \in BOOLEAN /\ req \in [Worker -> Frame] /\ TablesFit
          /\ \A w \in Worker : Holds(w, req[w])
BY DEF Inv, TypeOK, KeysOwned, OneRoot, RequestFits, TablesFit, Holds, At

\* Rows are only added, none by v.
Grows(v) ==
  /\ DOMAIN peers \subseteq DOMAIN peers'
  /\ \A i \in DOMAIN peers : peers'[i] = peers[i]
  /\ \A i \in DOMAIN peers' \ DOMAIN peers : peers'[i].by # v
  /\ DOMAIN certs \subseteq DOMAIN certs'
  /\ \A i \in DOMAIN certs : certs'[i] = certs[i]
  /\ \A n \in CAName : cas[n] # NoCA => cas'[n] = cas[n]

\* What an archive refers to stays there.
LEMMA OwnedStill ==
  ASSUME NEW v, Grows(v), NEW d, NEW a, Owned(d, a)
  PROVE  Owned(d, a)'
BY DEF Grows, Owned

\* What a request relies on stays true when others add rows.
LEMMA HoldsStill ==
  ASSUME NEW v, NEW r, Grows(v), Holds(v, r)
  PROVE  Holds(v, r)'
<1>1. r.pc = "wg_create" => \A i \in PeersOf(r.device)' : peers'[i].by # v
  BY DEF Grows, Holds, PeersOf
<1>2. r.pc = "issue" => r.ca \in CA /\ r.ca = cas'[r.ca.name]
  BY DEF Grows, Holds, CA
<1>3. r.pc = "put" => r.new \in Archive /\ Owned(r.device, r.new)'
  BY OwnedStill DEF Holds
<1> QED
  BY <1>1, <1>2, <1>3 DEF Holds

\* A step of one goroutine that adds rows.
LEMMA OneMoves ==
  ASSUME Inv, NEW w \in Worker, NEW g \in Frame, Become(w, g),
         UNCHANGED <<config, faults>>, TablesFit', Holds(w, g)',
         \A v \in Worker \ {w} : Grows(v)
  PROVE  Inv'
<1>1. req' \in [Worker -> Frame]
  BY DEF Inv, TypeOK, Become
<1>2. ASSUME NEW v \in Worker PROVE Holds(v, req[v])'
  <2>1. CASE v = w
    <3>1. req'[v] = g
      BY <2>1 DEF Inv, TypeOK, Become
    <3> QED
      BY <2>1, <3>1 DEF Holds
  <2>2. CASE v # w
    <3>1. req'[v] = req[v]
      BY <2>2 DEF Inv, TypeOK, Become
    <3>2. Holds(v, req[v]) /\ Grows(v)
      BY <2>2, InvParts
    <3> QED
      BY <3>1, <3>2, HoldsStill DEF Holds
  <2> QED
    BY <2>1, <2>2
<1>3. config' \in Config /\ faults' \in BOOLEAN
  BY DEF Inv, TypeOK
<1> QED
  BY <1>1, <1>2, <1>3 DEF Inv, TypeOK, KeysOwned, OneRoot, RequestFits,
     TablesFit, Holds, At

\* A step that writes no row.
LEMMA NothingStored ==
  ASSUME Inv, NEW w \in Worker, NEW g \in Frame, Become(w, g),
         UNCHANGED <<config, faults, tables>>, Holds(w, g)
  PROVE  Inv'
<1>1. TablesFit'
  BY InvParts DEF TablesFit, Owned, OnePeerPerWorker, RowsFit, tables
<1>2. Holds(w, g)'
  BY DEF Holds, PeersOf, Owned, tables
<1>3. \A v : Grows(v)
  BY DEF Grows, tables
<1> QED
  BY <1>1, <1>2, <1>3, OneMoves

\* A reconciliation that ends.
LEMMA FinishStep ==
  ASSUME Inv, NEW w \in Worker, Finish(w), UNCHANGED <<config, faults, tables>>
  PROVE  Inv'
<1>1. Holds(w, Idle)
  BY DEF Holds, Idle
<1> QED
  BY <1>1, IdleFrame, NothingStored DEF Finish

\* Packing an archive whose peer and certificate are the device's.
LEMMA PackStep ==
  ASSUME Inv, NEW w \in Worker, NEW f \in Frame, NEW p \in Nat, NEW c \in Nat,
         Pack(w, f, p, c), f.device \in Device, UNCHANGED <<config, faults, tables>>,
         p # 0 => p \in PeersOf(f.device), c = 0
  PROVE  Inv'
<1>1. PICK g \in Frame :
        /\ Become(w, g)
        /\ \/ g.pc = "idle"
           \/ /\ g.pc = "put" /\ g.device = f.device
              /\ g.new = [config |-> config, peer |-> p, cert |-> c]
              /\ g.new \in Archive
  BY PackFrame DEF Inv
<1>2. Holds(w, g)
  BY <1>1 DEF Holds, Owned, PeersOf
<1> QED
  BY <1>1, <1>2, NothingStored

\* Going on to another statement, with what that one relies on.
LEMMA GotoStep ==
  ASSUME Inv, NEW w \in Worker, NEW l \in Label, Goto(w, l),
         ~At(w, "idle"), UNCHANGED <<config, faults, tables>>,
         l = "wg_create" => PeersOf(req[w].device) = {},
         l \notin {"issue", "put"}
  PROVE  Inv'
<1> DEFINE r == req[w]
           g == [r EXCEPT !.pc = l]
<1>1. r \in Frame /\ Holds(w, r) /\ r.device \in Device
  BY InvParts DEF At, Holds
<1>2. g \in Frame /\ g.pc = l /\ g.device = r.device
  BY <1>1 DEF Frame
<1>3. Become(w, g)
  BY DEF Goto
<1> HIDE DEF g
<1>4. Holds(w, g)
  BY <1>1, <1>2 DEF Holds
<1> QED
  BY <1>2, <1>3, <1>4, NothingStored

-----------------------------------------------------------------------------
\* Each step preserves the invariant.

\* Empty tables satisfy the invariant.
LEMMA InitInv == Init => Inv
<1> SUFFICES ASSUME Init PROVE Inv
  OBVIOUS
<1>1. config \in Config /\ faults \in BOOLEAN /\ req \in [Worker -> Frame]
  BY IdleFrame DEF Init
<1>2. TablesFit
  BY DEF Init, TablesFit, Owned, OnePeerPerWorker, RowsFit
<1>3. \A w \in Worker : Holds(w, req[w])
  BY DEF Init, Idle, Holds
<1> QED
  BY <1>1, <1>2, <1>3, InvParts

\* A reconciliation starts with the row of its device.
LEMMA ReconcileInv ==
  ASSUME Inv, NEW w \in Worker, NEW d \in Device, Reconcile(w, d)
  PROVE  Inv'
<1> DEFINE r == [Idle EXCEPT !.device = d, !.old = stored[d]]
           to(l) == [r EXCEPT !.pc = l]
<1>1. r \in Frame /\ r.device = d /\ r.pc = "idle"
  <2>1. stored[d] \in Archive \cup {NoArchive}
    BY DEF Inv, TypeOK
  <2> QED
    BY <2>1, IdleFrame DEF Idle, Frame
<1>2. \A l \in Label : to(l) \in Frame /\ to(l).pc = l /\ to(l).device = d
  BY <1>1 DEF Frame
<1>3. UNCHANGED <<config, faults, tables>>
  BY DEF Reconcile
<1>4. CASE Become(w, to("wg_find")) \/ Become(w, to("ca_find"))
  <2>1. PICK l \in {"wg_find", "ca_find"} : Become(w, to(l))
    BY <1>4
  <2>2. to(l) \in Frame /\ to(l).pc = l /\ to(l).device = d
    BY <1>2 DEF Label
  <2> HIDE DEF to
  <2>3. Holds(w, to(l))
    BY <2>2 DEF Holds
  <2> QED
    BY <1>3, <2>1, <2>2, <2>3, NothingStored
<1>5. CASE Pack(w, r, 0, 0)
  <2> HIDE DEF r
  <2> QED
    BY <1>1, <1>3, <1>5, PackStep
<1> QED
  BY <1>4, <1>5 DEF Reconcile

\* The peer found is the device's; when none is there, none is the goroutine's.
LEMMA FindPeerInv ==
  ASSUME Inv, NEW w \in Worker, FindPeer(w)
  PROVE  Inv'
<1> DEFINE mine == PeersOf(req[w].device)
<1>1. req[w] \in Frame /\ req[w].device \in Device /\ ~At(w, "idle")
  BY InvParts DEF FindPeer, At, Holds
<1>2. UNCHANGED <<config, faults, tables>>
  BY DEF FindPeer
<1>3. CASE mine = {} /\ Goto(w, "wg_create")
  <2>1. "wg_create" \in Label
    BY DEF Label
  <2> QED
    BY <1>1, <1>2, <1>3, <2>1, GotoStep
<1>4. ASSUME NEW i \in Lowest(mine), Pack(w, req[w], i, 0)
      PROVE  Inv'
  <2>1. i \in mine /\ i \in Nat
    BY DEF Lowest, PeersOf, Inv, TypeOK
  <2> QED
    BY <1>1, <1>2, <1>4, <2>1, PackStep
<1> HIDE DEF mine
<1>5. \/ mine = {} /\ Goto(w, "wg_create")
      \/ \E i \in Lowest(mine) : Pack(w, req[w], i, 0)
  BY DEF FindPeer, mine
<1> QED
  BY <1>3, <1>4, <1>5

\* The new peer is the device's, the goroutine's first for it, and goes into the
\* archive once it is stored.
LEMMA CreatePeerInv ==
  ASSUME Inv, NEW w \in Worker, CreatePeer(w)
  PROVE  Inv'
<1> DEFINE r == req[w]
           p == [device |-> r.device, address |-> Address(r.device),
                 server |-> config.server, by |-> w]
           n == Len(peers) + 1
<1>1. /\ r \in Frame /\ r.device \in Device /\ Holds(w, r)
      /\ r.pc = "wg_create" /\ TablesFit
  BY InvParts DEF CreatePeer, At, Holds
<1>2. p \in Peer
  <2>1. config.server \in ServerKey
    BY DEF Inv, TypeOK, Configuration
  <2>2. Address(r.device) \in 0 .. 255
    BY <1>1, AddressByte
  <2> QED
    BY <1>1, <2>1, <2>2 DEF Peer
<1>3. /\ peers' \in Seq(Peer) /\ DOMAIN peers' = DOMAIN peers \cup {n}
      /\ n \in Nat \ {0} /\ n \notin DOMAIN peers
      /\ peers'[n] = p /\ \A i \in DOMAIN peers : peers'[i] = peers[i]
  <2>1. peers' = Append(peers, p) /\ peers \in Seq(Peer)
    BY <1>1 DEF CreatePeer, TablesFit
  <2> HIDE DEF p
  <2> QED
    BY <1>2, <2>1, AppendRow
<1>4. UNCHANGED <<config, faults, cas, certs, stored>>
  BY DEF CreatePeer
<1>5. \A v \in Worker \ {w} : Grows(v)
  BY <1>3, <1>4 DEF Grows
<1>6. TablesFit'
  <2>1. \A d \in Device : Owned(d, stored[d])'
    BY <1>1, <1>3, <1>4 DEF TablesFit, Owned
  <2>2. OnePeerPerWorker'
    <3>1. \A i \in DOMAIN peers : peers[i].device = r.device => peers[i].by # w
      BY <1>1 DEF Holds, PeersOf
    <3>2. p.device = r.device /\ p.by = w
      OBVIOUS
    <3> HIDE DEF p
    <3>3. ASSUME NEW i \in DOMAIN peers', NEW j \in DOMAIN peers',
                 peers'[i].device = peers'[j].device, peers'[i].by = peers'[j].by
          PROVE  i = j
      <4>1. CASE i \in DOMAIN peers /\ j \in DOMAIN peers
        BY <1>1, <1>3, <3>3, <4>1 DEF TablesFit, OnePeerPerWorker
      <4>2. CASE i = n \/ j = n
        BY <1>3, <3>1, <3>2, <3>3, <4>2
      <4> QED
        BY <1>3, <4>1, <4>2
    <3> QED
      BY <3>3 DEF OnePeerPerWorker
  <2>3. RowsFit'
    BY <1>1, <1>3, <1>4 DEF TablesFit, RowsFit
  <2> QED
    BY <1>1, <1>3, <1>4, <2>1, <2>2, <2>3 DEF TablesFit
<1>7. PICK g \in Frame :
        /\ Become(w, g)
        /\ \/ g.pc = "idle"
           \/ /\ g.pc = "put" /\ g.device = r.device
              /\ g.new = [config |-> config, peer |-> n, cert |-> 0]
              /\ g.new \in Archive
  <2>1. Pack(w, r, n, 0) /\ n \in Nat
    BY <1>3 DEF CreatePeer
  <2> QED
    BY <1>1, <2>1, PackFrame DEF Inv
<1>8. Holds(w, g)'
  <2>1. p.device = r.device
    OBVIOUS
  <2> HIDE DEF p
  <2>2. ASSUME g.pc = "put" PROVE Owned(g.device, g.new)'
    <3>1. g.new.peer = n /\ g.new.cert = 0 /\ g.device = r.device
      BY <1>7, <2>2
    <3> QED
      BY <1>3, <2>1, <3>1 DEF Owned
  <2>3. CASE g.pc = "idle"
    BY <2>3 DEF Holds
  <2>4. CASE g.pc = "put"
    BY <1>1, <1>7, <2>2, <2>4 DEF Holds
  <2> QED
    BY <1>7, <2>3, <2>4
<1> QED
  BY <1>4, <1>5, <1>6, <1>7, <1>8, OneMoves

\* The CA found, or missed, is the one with the configuration's name.
LEMMA FindCAInv ==
  ASSUME Inv, NEW w \in Worker, FindCA(w)
  PROVE  Inv'
<1> DEFINE r == req[w]
           ca == cas[config.ca]
           g == [r EXCEPT !.pc = "issue", !.ca = ca]
<1>1. /\ r \in Frame /\ r.device \in Device /\ ~At(w, "idle")
      /\ config.ca \in CAName /\ TablesFit
  BY InvParts DEF FindCA, At, Holds, Configuration
<1>2. UNCHANGED <<config, faults, tables>>
  BY DEF FindCA
<1>3. CASE ca # NoCA /\ Become(w, g)
  <2>1. ca \in CA /\ ca.name = config.ca
    BY <1>1, <1>3 DEF TablesFit, RowsFit
  <2>2. g \in Frame /\ g.pc = "issue" /\ g.ca = ca /\ g.device = r.device
    BY <1>1, <2>1 DEF Frame, Label
  <2> HIDE DEF g
  <2>3. Holds(w, g)
    BY <1>1, <2>1, <2>2 DEF Holds
  <2> QED
    BY <1>2, <1>3, <2>2, <2>3, NothingStored
<1>4. CASE Goto(w, "ca_create")
  <2>1. "ca_create" \in Label
    BY DEF Label
  <2> QED
    BY <1>1, <1>2, <1>4, <2>1, GotoStep
<1> QED
  BY <1>3, <1>4 DEF FindCA

\* A CA is stored under a name that had none: no certificate was signed before.
LEMMA CreateCAInv ==
  ASSUME Inv, NEW w \in Worker, CreateCA(w)
  PROVE  Inv'
<1> DEFINE r == req[w]
           ca == [name |-> config.ca, by |-> w]
           g == [r EXCEPT !.pc = "issue", !.ca = ca]
<1>1. /\ r \in Frame /\ r.device \in Device
      /\ config.ca \in CAName /\ TablesFit
  BY InvParts DEF CreateCA, At, Holds, Configuration
<1>2. UNCHANGED <<config, faults, peers, certs, stored>>
  BY DEF CreateCA
<1>3. CASE cas[config.ca] # NoCA
  BY <1>2, <1>3, FinishStep DEF CreateCA, tables
<1>4. CASE cas[config.ca] = NoCA
  <2>1. cas' = [cas EXCEPT ![config.ca] = ca] /\ Become(w, g)
    BY <1>4 DEF CreateCA
  <2>2. ca \in CA /\ ca.name = config.ca
    BY <1>1 DEF CA
  <2>3. PICK f \in Frame : /\ Become(w, f) /\ f.pc = "issue"
                           /\ f.ca = ca /\ f.device = r.device
    <3>1. g \in Frame /\ g.pc = "issue" /\ g.ca = ca /\ g.device = r.device
      BY <1>1, <2>2 DEF Frame, Label
    <3> QED
      BY <2>1, <3>1
  <2> HIDE DEF ca
  <2>4. \A m \in CAName : cas'[m] = IF m = config.ca THEN ca ELSE cas[m]
    BY <1>1, <2>1 DEF TablesFit
  <2>5. \A v : Grows(v)
    BY <1>2, <1>4, <2>4 DEF Grows
  <2>6. \A i \in DOMAIN certs : certs[i].ca = cas'[certs[i].ca.name]
    <3> SUFFICES ASSUME NEW i \in DOMAIN certs
                 PROVE  certs[i].ca = cas'[certs[i].ca.name]
      OBVIOUS
    <3>0. certs[i] \in Cert
      BY <1>1 DEF TablesFit
    <3>1. certs[i].ca = cas[certs[i].ca.name] /\ certs[i].ca \in CA
      BY <1>1, <3>0 DEF TablesFit, Cert
    <3>2. certs[i].ca.name \in CAName
      BY <3>1 DEF CA
    <3> QED
      BY <1>4, <2>4, <3>1, <3>2
  <2>7. TablesFit'
    <3>1. cas' \in [CAName -> CA \cup {NoCA}]
      BY <1>1, <2>1, <2>2 DEF TablesFit
    <3>2. RowsFit'
      BY <1>1, <1>2, <2>2, <2>4 DEF TablesFit, RowsFit
    <3>3. (\A d \in Device : Owned(d, stored[d]))' /\ OnePeerPerWorker'
      BY <1>1, <1>2 DEF TablesFit, Owned, OnePeerPerWorker
    <3> QED
      BY <1>1, <1>2, <2>6, <3>1, <3>2, <3>3 DEF TablesFit
  <2>8. Holds(w, f)'
    BY <1>1, <2>2, <2>3, <2>4 DEF Holds
  <2> QED
    BY <1>2, <2>1, <2>3, <2>5, <2>7, <2>8, OneMoves
<1> QED
  BY <1>3, <1>4

\* The certificate is the device's, signed by the stored CA, and goes into the
\* archive once it is saved.
LEMMA IssueDeviceCertInv ==
  ASSUME Inv, NEW w \in Worker, IssueDeviceCert(w)
  PROVE  Inv'
<1> DEFINE r == req[w]
           c == [device |-> r.device, ca |-> r.ca]
           n == Len(certs) + 1
<1>1. /\ r \in Frame /\ r.device \in Device /\ r.ca \in CA
      /\ r.ca = cas[r.ca.name] /\ TablesFit
  BY InvParts DEF IssueDeviceCert, At, Holds
<1>2. c \in Cert
  BY <1>1 DEF Cert
<1>3. /\ certs' \in Seq(Cert) /\ DOMAIN certs' = DOMAIN certs \cup {n}
      /\ n \in Nat \ {0} /\ n \notin DOMAIN certs
      /\ certs'[n] = c /\ \A i \in DOMAIN certs : certs'[i] = certs[i]
  <2>1. certs' = Append(certs, c) /\ certs \in Seq(Cert)
    BY <1>1 DEF IssueDeviceCert, TablesFit
  <2> HIDE DEF c
  <2> QED
    BY <1>2, <2>1, AppendRow
<1>4. UNCHANGED <<config, faults, peers, cas, stored>>
  BY DEF IssueDeviceCert
<1>5. \A v : Grows(v)
  BY <1>3, <1>4 DEF Grows
<1>6. TablesFit'
  <2>1. (\A d \in Device : Owned(d, stored[d]))'
    BY <1>1, <1>3, <1>4 DEF TablesFit, Owned
  <2>2. \A i \in DOMAIN certs' : certs'[i].ca = cas'[certs'[i].ca.name]
    BY <1>1, <1>3, <1>4 DEF TablesFit
  <2>3. OnePeerPerWorker' /\ RowsFit'
    BY <1>1, <1>4 DEF TablesFit, OnePeerPerWorker, RowsFit
  <2> QED
    BY <1>1, <1>3, <1>4, <2>1, <2>2, <2>3 DEF TablesFit
<1>7. PICK g \in Frame :
        /\ Become(w, g)
        /\ \/ g.pc = "idle"
           \/ /\ g.pc = "put" /\ g.device = r.device
              /\ g.new = [config |-> config, peer |-> 0, cert |-> n]
              /\ g.new \in Archive
  <2>1. Pack(w, r, 0, n) /\ n \in Nat
    BY <1>3 DEF IssueDeviceCert
  <2> QED
    BY <1>1, <2>1, PackFrame DEF Inv
<1>8. Holds(w, g)'
  <2>1. c.device = r.device
    OBVIOUS
  <2> HIDE DEF c
  <2>2. ASSUME g.pc = "put" PROVE Owned(g.device, g.new)'
    <3>1. g.new.peer = 0 /\ g.new.cert = n /\ g.device = r.device
      BY <1>7, <2>2
    <3> QED
      BY <1>3, <2>1, <3>1 DEF Owned
  <2>3. CASE g.pc = "idle"
    BY <2>3 DEF Holds
  <2>4. CASE g.pc = "put"
    BY <1>1, <1>7, <2>2, <2>4 DEF Holds
  <2> QED
    BY <1>7, <2>3, <2>4
<1> QED
  BY <1>4, <1>5, <1>6, <1>7, <1>8, OneMoves

\* What is stored was owned when it was packed, and still is.
LEMMA PutConfigTarInv ==
  ASSUME Inv, NEW w \in Worker, PutConfigTar(w)
  PROVE  Inv'
<1> DEFINE r == req[w]
<1>1. /\ r.device \in Device /\ r.new \in Archive /\ Owned(r.device, r.new)
      /\ TablesFit
  BY InvParts DEF PutConfigTar, At, Holds
<1>2. /\ stored' = [stored EXCEPT ![r.device] = r.new] /\ Become(w, Idle)
      /\ UNCHANGED <<config, faults, peers, cas, certs>>
  BY DEF PutConfigTar, Finish
<1>3. \A d \in Device :
        stored'[d] = IF d = r.device THEN r.new ELSE stored[d]
  BY <1>1, <1>2 DEF TablesFit
<1>4. TablesFit'
  <2>1. ASSUME NEW d \in Device PROVE Owned(d, stored[d])'
    BY <1>1, <1>2, <1>3 DEF TablesFit, Owned
  <2>2. OnePeerPerWorker' /\ RowsFit'
    BY <1>1, <1>2 DEF TablesFit, OnePeerPerWorker, RowsFit
  <2> QED
    BY <1>1, <1>2, <2>1, <2>2 DEF TablesFit
<1>5. \A v : Grows(v)
  BY <1>2 DEF Grows
<1>6. Holds(w, Idle)'
  BY DEF Holds, Idle
<1> QED
  BY <1>2, <1>4, <1>5, <1>6, IdleFrame, OneMoves

\* A restart loses reconciliations, and no row.
LEMMA RestartInv ==
  ASSUME Inv, NEW c \in Config, Restart(c)
  PROVE  Inv'
<1>1. TablesFit'
  BY InvParts DEF Restart, TablesFit, Owned, OnePeerPerWorker, RowsFit, tables
<1>2. config' \in Config /\ faults' \in BOOLEAN /\ req' \in [Worker -> Frame]
  BY IdleFrame DEF Restart, Inv, TypeOK
<1>3. \A w \in Worker : Holds(w, req[w])'
  BY DEF Restart, Holds, Idle
<1> QED
  BY <1>1, <1>2, <1>3 DEF Inv, TypeOK, KeysOwned, OneRoot, RequestFits,
     TablesFit, Holds, At

\* Every step preserves the invariant.
LEMMA InvNext == Inv /\ [Next]_vars => Inv'
<1> SUFFICES ASSUME Inv, [Next]_vars PROVE Inv'
  OBVIOUS
<1>1. CASE \E w \in Worker : Step(w)
  BY <1>1, FindPeerInv, CreatePeerInv, FindCAInv, CreateCAInv,
     IssueDeviceCertInv, PutConfigTarInv DEF Step
<1>2. CASE \E w \in Worker, d \in Device : Reconcile(w, d)
  BY <1>2, ReconcileInv
<1>3. CASE \/ \E w \in Worker : StatementFails(w)
           \/ \E c \in Config : Restart(c)
  BY <1>3, RestartInv, FinishStep DEF StatementFails
<1>4. CASE FaultsEnd \/ UNCHANGED vars
  <2>1. UNCHANGED <<config, tables, req>> /\ faults' \in {faults, FALSE}
    BY <1>4 DEF FaultsEnd, vars, tables
  <2>2. TypeOK'
    BY <2>1 DEF Inv, TypeOK, tables
  <2> QED
    BY <2>1, <2>2 DEF tables, Inv, KeysOwned, Owned, OneRoot,
       OnePeerPerWorker, RowsFit, RequestFits, PeersOf, At
<1> QED
  BY <1>1, <1>2, <1>3, <1>4 DEF Next, Outside

\* The inductive invariant holds for ever.
THEOREM Invariance == Spec => []Inv
BY InitInv, InvNext, PTL DEF Spec

\* No device is ever sent keys of another device, or keys that are not stored.
THEOREM KeysStayOwned == Spec => []KeysOwned
<1>1. Inv => KeysOwned
  BY DEF Inv
<1> QED
  BY <1>1, Invariance, PTL

\* All certificates of one CA name are signed by the CA that is stored.
THEOREM OneRootOnly == Spec => []OneRoot
<1>1. Inv => OneRoot
  BY DEF Inv
<1> QED
  BY <1>1, Invariance, PTL

\* A device has at most as many peers as goroutines raced to create one.
THEOREM PeersBounded == Spec => []OnePeerPerWorker
<1>1. Inv => OnePeerPerWorker
  BY DEF Inv
<1> QED
  BY <1>1, Invariance, PTL

\* Devices whose ids are less than 250 apart never share an address.
THEOREM AddressesStayApart == Spec => []AddressesApart
<1>1. Inv => AddressesApart
  <2> SUFFICES ASSUME Inv, NEW i \in DOMAIN peers, NEW j \in DOMAIN peers
               PROVE  /\ peers[i].address \in 2 .. 251
                      /\ /\ peers[i].device < peers[j].device
                         /\ peers[j].device < peers[i].device + 250
                         => peers[i].address # peers[j].address
    BY DEF AddressesApart
  <2>1. peers[i] \in Peer /\ peers[j] \in Peer
    BY DEF Inv, TypeOK
  <2>2. peers[i].device \in Device /\ peers[j].device \in Device
    BY <2>1 DEF Peer
  <2>3. /\ peers[i].address = Address(peers[i].device)
        /\ peers[j].address = Address(peers[j].device)
    BY DEF Inv, RowsFit
  <2> QED
    BY <2>2, <2>3, AddressInjective
<1> QED
  BY <1>1, Invariance, PTL
=============================================================================
