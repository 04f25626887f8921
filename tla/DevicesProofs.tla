--------------------------- MODULE DevicesProofs ---------------------------
(***************************************************************************)
(* Proofs about Devices, for every set of devices, keys, names, templates  *)
(* and workers, every assignment of handlers to workers, and with failing  *)
(* statements and restarts.                                                *)
(***************************************************************************)
EXTENDS Devices, TLAPS

USE DecodableAssumption, ServesAssumption, BoundsAssumption

-----------------------------------------------------------------------------
\* Rows and requests stay well typed when their fields are updated.

\* Rendering a row gives an archive.
LEMMA RenderType ==
  ASSUME NEW d \in Row, NEW t \in Decodable
  PROVE  Render(d, t) \in Archive /\ Sha256(Render(d, t)) \in Sum
BY DEF Row, Render, Archive, Sha256, Sum

\* A row as Create fills it in is a row.
LEMMA NewRowType ==
  ASSUME NEW k \in Key \cup {NoKey}, NEW n \in Name \cup {NoName}
  PROVE  NewRow(k, n) \in Row
BY DEF Row, NewRow, Version, Status, AppliedSum

\* The value of missing rows is a row.
LEMMA NoRowType == NoRow \in Row
BY NewRowType DEF NoRow

\* The frame of a worker without a request is a frame.
LEMMA IdleType == Idle \in Frame
BY NoRowType DEF Idle, Frame, Label, Handler, Version

\* The next version is a version, and never zero: nothing is stored under 0.
LEMMA NextVersionType ==
  ASSUME NEW v \in Version
  PROVE  NextVersion(v) \in Version /\ NextVersion(v) > 0
BY DEF Version, NextVersion

\* A column last_seen_at stays one when time passes.
LEMMA OlderType ==
  ASSUME NEW s \in Age \cup {NeverSeen}
  PROVE  Older(s) \in Age \cup {NeverSeen}
BY DEF Age, Older

\* A heartbeat just noted is an age.
LEMMA ZeroAge ==
  /\ 0 \in Age \cup {NeverSeen}
  /\ "online" \in Status /\ "offline" \in Status
BY DEF Age, Status

\* d is a row with the key and the configuration of e.
SameConfig(d, e) == d \in Row /\ d.key = e.key /\ ConfigOf(d) = ConfigOf(e)

\* Coherence of a row depends on its configuration columns only.
LEMMA SameConfigCoherent ==
  ASSUME NEW d \in Row, NEW e \in Row, SameConfig(d, e), Coherent(e)
  PROVE  Coherent(d)
BY DEF SameConfig, ConfigOf, Coherent

\* The updates of the other columns.
LEMMA OtherColumns ==
  ASSUME NEW e \in Row
  PROVE  /\ \A n \in Name \cup {NoName} : SameConfig([e EXCEPT !.name = n], e)
         /\ \A s \in Age \cup {NeverSeen} : SameConfig([e EXCEPT !.seen = s], e)
         /\ \A st \in Status : SameConfig([e EXCEPT !.status = st], e)
         /\ \A s \in Age \cup {NeverSeen}, st \in Status :
              SameConfig([e EXCEPT !.seen = s, !.status = st], e)
         /\ \A a \in AppliedSum, st \in Status :
              SameConfig([e EXCEPT !.applied = a, !.status = st], e)
<1> SUFFICES ASSUME NEW n \in Name \cup {NoName},
                    NEW s \in Age \cup {NeverSeen}, NEW st \in Status,
                    NEW a \in AppliedSum
             PROVE  /\ SameConfig([e EXCEPT !.name = n], e)
                    /\ SameConfig([e EXCEPT !.seen = s], e)
                    /\ SameConfig([e EXCEPT !.status = st], e)
                    /\ SameConfig([e EXCEPT !.seen = s, !.status = st], e)
                    /\ SameConfig([e EXCEPT !.applied = a, !.status = st], e)
  BY DEF Row
<1> DEFINE Updated(d) == \/ d = [e EXCEPT !.name = n]
                         \/ d = [e EXCEPT !.seen = s]
                         \/ d = [e EXCEPT !.status = st]
                         \/ d = [e EXCEPT !.seen = s, !.status = st]
                         \/ d = [e EXCEPT !.applied = a, !.status = st]
<1>1. \A d : Updated(d) => d \in Row /\ d.key = e.key
  BY DEF Row
<1>2. \A d : Updated(d) => /\ d.archive = e.archive
                          /\ d.checksum = e.checksum
                          /\ d.version = e.version
  BY DEF Row
<1>3. \A d : Updated(d) => SameConfig(d, e)
  BY <1>1, <1>2 DEF SameConfig, ConfigOf
<1> QED
  BY <1>3

-----------------------------------------------------------------------------
\* How the parts of the invariant survive a step.

\* What a request holds still fits when rows are added, rows keep their keys
\* and configurations are published.
LEMMA FitsForGood ==
  ASSUME TypeOK,
         inserted \subseteq inserted',
         \A u \in inserted : devices'[u].key = devices[u].key,
         \A u \in UUID : published[u] \subseteq published'[u],
         \A v \in Worker :
           req'[v] \in Frame /\ (FrameFits(req'[v]) \/ FrameFits(req[v])')
  PROVE  RequestsFit'
<1> SUFFICES ASSUME NEW v \in Worker, NEW r \in Frame, r = req'[v],
                    FrameFits(r)
             PROVE  FrameFits(r)'
  BY DEF RequestsFit, FrameFits, RowFits, CallerFits, CopyFits,
         NewConfigFits, Following
<1>0. inserted \subseteq UUID
  BY DEF TypeOK
<1>1. RowFits(r)'
  BY DEF FrameFits, RowFits
<1>2. CallerFits(r)'
  BY DEF FrameFits, CallerFits
<1>3. CopyFits(r)'
  <2>1. r.pc \in HoldsCopy => r.uuid \in inserted
    BY DEF FrameFits, RowFits, HoldsCopy, HasRow
  <2> QED
    BY <1>0, <2>1 DEF FrameFits, CopyFits
<1>4. NewConfigFits(r)'
  <2>1. r.pc \in {"rc_put", "rc_save"} => r.uuid \in inserted
    BY DEF FrameFits, RowFits, HasRow
  <2>2. r.pc \in {"rc_put", "rc_save"} => Following(r.uuid, r.ver)'
    BY <1>0, <2>1 DEF FrameFits, NewConfigFits, Following
  <2> QED
    BY <1>0, <2>1, <2>2 DEF FrameFits, NewConfigFits
<1> QED
  BY <1>1, <1>2, <1>3, <1>4 DEF FrameFits

\* A step that moves one request on and leaves the rows alone.
LEMMA RequestStep ==
  ASSUME Inv, NEW w \in Worker, NEW f \in Frame, Become(w, f),
         FrameFits(f), Coherent(f.d),
         templates' \in Template, served' \in [UUID -> SUBSET Sum],
         claimed' \in [UUID -> SUBSET (ReportedSums \cup {NoSum})],
         UNCHANGED <<table, granted, published>>
  PROVE  Inv'
<1> USE DEF Inv
<1>1. TypeOK'
  BY DEF TypeOK, Become, table
<1>2. KeysUnique'
  BY DEF KeysUnique, table
<1>3. IdentityGranted'
  BY DEF IdentityGranted, ValidateKey, table
<1>4. ConfigCoherent'
  BY DEF ConfigCoherent, TypeOK, Become, table
<1>5. RequestsFit'
  <2>1. \A v \in Worker : req'[v] \in Frame /\ FrameFits(req'[v])
    BY DEF RequestsFit, TypeOK, Become
  <2> QED
    BY <2>1, FitsForGood DEF table
<1>6. RowsPublished'
  BY DEF RowsPublished, table
<1> QED
  BY <1>1, <1>2, <1>3, <1>4, <1>5, <1>6

\* A step that writes a whole row, or some columns of one, that exists.
LEMMA SaveStep ==
  ASSUME Inv, NEW w \in Worker, NEW f \in Frame, Become(w, f),
         FrameFits(f), Coherent(f.d),
         NEW u \in inserted, NEW d \in Row, Save(u, d),
         d.key = devices[u].key, Coherent(d),
         \/ published' = published /\ ConfigOf(d) \in published[u]
         \/ /\ published' = [published EXCEPT ![u] = @ \cup {ConfigOf(d)}]
            /\ ConfigOf(d) \in [archive : Archive \cup {NoArchive},
                                checksum : Sum \cup {NoSum}, version : Version],
         UNCHANGED <<inserted, templates, granted, served, claimed>>
  PROVE  Inv'
<1> USE DEF Inv
<1>0. /\ u \in UUID /\ inserted \subseteq UUID
      /\ devices' = [devices EXCEPT ![u] = d]
      /\ devices \in [UUID -> Row]
      /\ published \in
           [UUID -> SUBSET [archive : Archive \cup {NoArchive},
                            checksum : Sum \cup {NoSum}, version : Version]]
  BY DEF TypeOK, Save
<1>1. TypeOK'
  <2>1. published' \in
           [UUID -> SUBSET [archive : Archive \cup {NoArchive},
                            checksum : Sum \cup {NoSum}, version : Version]]
    BY <1>0
  <2> QED
    BY <1>0, <2>1 DEF TypeOK, Become
<1>2. \A v \in inserted : devices'[v].key = devices[v].key
  BY <1>0
<1>3. KeysUnique'
  BY <1>2 DEF KeysUnique
<1>4. IdentityGranted'
  BY <1>2 DEF IdentityGranted, ValidateKey
<1>5. ConfigCoherent'
  BY <1>0 DEF ConfigCoherent, TypeOK, Become
<1>6. \A v \in UUID : published[v] \subseteq published'[v]
  BY <1>0
<1>7. RequestsFit'
  <2>1. \A v \in Worker : req'[v] \in Frame /\ FrameFits(req'[v])
    BY DEF RequestsFit, TypeOK, Become
  <2> QED
    BY <1>2, <1>6, <2>1, FitsForGood
<1>8. RowsPublished'
  <2>1. ConfigOf(d) \in published'[u]
    BY <1>0
  <2> QED
    BY <1>0, <1>6, <2>1 DEF RowsPublished
<1> QED
  BY <1>1, <1>3, <1>4, <1>5, <1>7, <1>8

\* A step that adds a row without a configuration under a new key.
LEMMA InsertStep ==
  ASSUME Inv, NEW w \in Worker, NEW f \in Frame, Become(w, f),
         FrameFits(f)', Coherent(f.d),
         NEW u \in UUID \ inserted, NEW d \in Row, Save(u, d),
         WithKey(d.key) = {}, ConfigOf(d) = ConfigOf(NoRow), Coherent(d),
         inserted' = inserted \cup {u}, UNCHANGED <<templates, history>>
  PROVE  Inv'
<1> USE DEF Inv, history
<1>0. /\ inserted \subseteq UUID
      /\ devices' = [devices EXCEPT ![u] = d]
      /\ devices \in [UUID -> Row]
  BY DEF TypeOK, Save
<1>1. TypeOK'
  BY <1>0 DEF TypeOK, Become
<1>2. \A v \in inserted : devices'[v].key = devices[v].key
  BY <1>0
<1>3. KeysUnique'
  BY <1>0, <1>2 DEF KeysUnique, WithKey
<1>4. IdentityGranted'
  BY <1>2 DEF IdentityGranted, ValidateKey
<1>5. ConfigCoherent'
  BY <1>0 DEF ConfigCoherent, TypeOK, Become
<1>7. RequestsFit'
  <2>1. \A v \in Worker :
          req'[v] \in Frame /\ (FrameFits(req'[v]) \/ FrameFits(req[v])')
    <3> SUFFICES ASSUME NEW v \in Worker
                 PROVE  /\ req'[v] \in Frame
                        /\ FrameFits(req'[v]) \/ FrameFits(req[v])'
      OBVIOUS
    <3>1. CASE v = w
      <4>1. req'[v] = f
        BY <3>1 DEF Become, TypeOK
      <4> QED
        BY <4>1 DEF FrameFits, RowFits, CallerFits, CopyFits, NewConfigFits,
                    Following
    <3>2. CASE v # w
      BY <3>2 DEF RequestsFit, TypeOK, Become
    <3> QED
      BY <3>1, <3>2
  <2> QED
    BY <1>2, <2>1, FitsForGood
<1>8. RowsPublished'
  BY <1>0 DEF RowsPublished
<1> QED
  BY <1>1, <1>3, <1>4, <1>5, <1>7, <1>8

-----------------------------------------------------------------------------
\* One lemma per group of actions: each step preserves the invariant.

\* The empty table satisfies the invariant.
LEMMA InitInv == Init => Inv
<1> SUFFICES ASSUME Init PROVE Inv
  OBVIOUS
<1> USE DEF Init
<1>1. TypeOK
  BY NoRowType, IdleType DEF TypeOK, ConfigOf, NoRow, NewRow, Version
<1>2. KeysUnique /\ IdentityGranted
  BY DEF KeysUnique, IdentityGranted
<1>3. ConfigCoherent
  BY DEF ConfigCoherent, Coherent, NoRow, NewRow, Idle
<1>4. RequestsFit
  BY DEF RequestsFit, FrameFits, RowFits, CallerFits, CopyFits, NewConfigFits,
         HasRow, HoldsCopy, Reconciling, Idle
<1>5. RowsPublished
  BY DEF RowsPublished
<1> QED
  BY <1>1, <1>2, <1>3, <1>4, <1>5 DEF Inv

\* The frame of a worker without a request.
LEMMA IdleFits == FrameFits(Idle) /\ Coherent(Idle.d)
BY DEF FrameFits, RowFits, CallerFits, CopyFits, NewConfigFits, HasRow,
       HoldsCopy, Reconciling, Idle, Coherent, NoRow, NewRow

\* A request that ends.
LEMMA FinishStep ==
  ASSUME Inv, NEW w \in Worker, Finish(w), UNCHANGED <<table, templates, history>>
  PROVE  Inv'
BY IdleType, IdleFits, RequestStep DEF Finish, Inv, TypeOK, history

\* Looking a key up leaves the request with the uuid that has it, or none.
LEMMA RegisterInv ==
  ASSUME Inv, NEW w \in Worker, NEW k \in Key, NEW n \in Name \cup {NoName},
         Register(w, k, n)
  PROVE  Inv'
<1> USE DEF Inv
<1>1. PICK f : /\ Become(w, f)
               /\ \/ f = [Idle EXCEPT !.pc = "rg_insert", !.op = "register",
                                      !.key = k, !.name = n]
                  \/ \E u \in WithKey(k), l \in {"rc_load", "rg_update"} :
                       f = [Idle EXCEPT !.pc = l, !.op = "register",
                                        !.uuid = u, !.key = k, !.name = n]
  BY DEF Register
<1>2. f \in Frame
  <2>1. [Idle EXCEPT !.pc = "rg_insert", !.op = "register",
                     !.key = k, !.name = n] \in Frame
    BY IdleType DEF Frame, Label, Handler
  <2>2. \A u \in UUID, l \in {"rc_load", "rg_update"} :
          [Idle EXCEPT !.pc = l, !.op = "register", !.uuid = u, !.key = k,
                       !.name = n] \in Frame
    BY IdleType DEF Frame, Label, Handler
  <2>3. \A u \in WithKey(k) : u \in UUID
    BY DEF WithKey, TypeOK
  <2>4. CASE \E u \in WithKey(k), l \in {"rc_load", "rg_update"} :
               f = [Idle EXCEPT !.pc = l, !.op = "register", !.uuid = u,
                                !.key = k, !.name = n]
    <3>1. PICK u \in WithKey(k), l \in {"rc_load", "rg_update"} :
            f = [Idle EXCEPT !.pc = l, !.op = "register", !.uuid = u,
                             !.key = k, !.name = n]
      BY <2>4
    <3>2. u \in UUID
      BY <2>3
    <3> QED
      BY ONLY <3>1, <3>2, <2>2
  <2> QED
    BY <1>1, <2>1, <2>4
<1>3. f.d = Idle.d /\ f.op = "register" /\ f.key = k
  BY <1>1 DEF Idle
<1>4. FrameFits(f)
  BY <1>1, <1>3 DEF FrameFits, RowFits, CallerFits, CopyFits, NewConfigFits,
     HasRow, HoldsCopy, Reconciling, WithKey, TypeOK, Idle
<1> QED
  BY <1>1, <1>2, <1>3, <1>4, IdleFits, RequestStep
     DEF Register, TypeOK, history

\* Renaming touches neither key nor configuration.
LEMMA RegisterUpdateInv ==
  ASSUME Inv, NEW w \in Worker, RegisterUpdate(w)
  PROVE  Inv'
<1> USE DEF Inv
<1> DEFINE r == req[w]
           d == [devices[r.uuid] EXCEPT !.name = r.name]
           f == [r EXCEPT !.pc = "rc_load"]
<1>1. r \in Frame /\ FrameFits(r) /\ r.pc = "rg_update"
  BY DEF TypeOK, RequestsFit, RegisterUpdate, At
<1>2. r.uuid \in inserted /\ r.uuid \in UUID /\ r.op = "register"
  BY <1>1 DEF FrameFits, RowFits, CallerFits, HasRow, TypeOK
<1>3. SameConfig(d, devices[r.uuid]) /\ Coherent(d)
  <2>1. devices[r.uuid] \in Row /\ r.name \in Name \cup {NoName}
        /\ Coherent(devices[r.uuid])
    BY <1>1, <1>2 DEF TypeOK, Frame, ConfigCoherent
  <2>2. SameConfig(d, devices[r.uuid])
    BY <2>1, OtherColumns DEF Age, Status
  <2> QED
    BY <2>1, <2>2, SameConfigCoherent DEF SameConfig
<1>4. f \in Frame /\ f.d = r.d
  BY <1>1 DEF Frame, Label
<1>5. FrameFits(f)
  BY <1>1, <1>2 DEF FrameFits, RowFits, CallerFits, CopyFits, NewConfigFits,
     HasRow, HoldsCopy, Reconciling, Frame
<1>6. Coherent(f.d)
  BY <1>4 DEF ConfigCoherent
<1>7. Save(r.uuid, d)
  BY <1>2 DEF Save, RegisterUpdate, TypeOK
<1>8. ConfigOf(d) \in published[r.uuid]
  BY <1>2, <1>3 DEF RowsPublished, SameConfig
<1>9. Become(w, f) /\ UNCHANGED <<inserted, templates, history>>
  BY DEF RegisterUpdate, Goto
<1> HIDE DEF d, f
<1> QED
  BY <1>2, <1>3, <1>4, <1>5, <1>6, <1>7, <1>8, <1>9, SaveStep
     DEF history, SameConfig

\* The unique index keeps keys unique; the new row has the key asked for.
LEMMA RegisterInsertInv ==
  ASSUME Inv, NEW w \in Worker, RegisterInsert(w)
  PROVE  Inv'
<1> USE DEF Inv
<1> DEFINE r == req[w]
<1>1. /\ r \in Frame /\ FrameFits(r) /\ Coherent(r.d)
      /\ r.pc = "rg_insert" /\ r.op = "register" /\ r.key \in Key
  BY DEF TypeOK, RequestsFit, ConfigCoherent, RegisterInsert, At, FrameFits,
         CallerFits
<1>2. CASE WithKey(r.key) # {}
  <2> DEFINE f == [r EXCEPT !.pc = "rg_reread"]
  <2>1. /\ f \in Frame
        /\ f.pc = "rg_reread" /\ f.op = r.op /\ f.key = r.key /\ f.d = r.d
    BY <1>1 DEF Frame, Label
  <2>2. Become(w, f) /\ UNCHANGED <<table, templates, history>>
    BY <1>2 DEF RegisterInsert, Goto
  <2> HIDE DEF f
  <2>3. FrameFits(f)
    BY <1>1, <2>1 DEF FrameFits, RowFits, CallerFits, CopyFits,
       NewConfigFits, HasRow, HoldsCopy, Reconciling
  <2> QED
    BY <1>1, <2>1, <2>2, <2>3, RequestStep DEF TypeOK, history
<1>3. CASE WithKey(r.key) = {}
  <2> DEFINE d == NewRow(r.key, r.name)
  <2>1. PICK u \in UUID \ inserted :
          /\ inserted' = inserted \cup {u}
          /\ Save(u, d)
          /\ Become(w, [r EXCEPT !.pc = "rc_load", !.uuid = u])
          /\ UNCHANGED <<templates, history>>
    BY <1>3 DEF RegisterInsert, UnusedUUIDs
  <2>2. PICK f : f = [r EXCEPT !.pc = "rc_load", !.uuid = u]
    OBVIOUS
  <2>3. /\ f \in Frame /\ f.pc = "rc_load" /\ f.uuid = u
        /\ f.op = r.op /\ f.key = r.key /\ f.d = r.d
    BY <1>1, <2>2 DEF Frame, Label
  <2>4. /\ d \in Row /\ d.key = r.key /\ ConfigOf(d) = ConfigOf(NoRow)
        /\ Coherent(d)
    <3>1. r.key \in Key \cup {NoKey} /\ r.name \in Name \cup {NoName}
      BY <1>1 DEF Frame
    <3> QED
      BY <3>1, NewRowType DEF NewRow, NoRow, ConfigOf, Coherent
  <2>5. devices'[u].key = r.key
    BY <2>1, <2>4 DEF Save, TypeOK
  <2> HIDE DEF d
  <2>6. FrameFits(f)'
    BY <1>1, <2>1, <2>3, <2>5 DEF FrameFits, RowFits, CallerFits, CopyFits,
       NewConfigFits, HasRow, HoldsCopy, Reconciling
  <2> QED
    BY <1>1, <1>3, <2>1, <2>2, <2>3, <2>4, <2>6, InsertStep
<1> QED
  BY <1>2, <1>3

\* Reading again finds the row that has the key.
LEMMA RegisterRereadInv ==
  ASSUME Inv, NEW w \in Worker, RegisterReread(w)
  PROVE  Inv'
<1> USE DEF Inv
<1> DEFINE r == req[w]
<1>1. /\ r \in Frame /\ FrameFits(r) /\ Coherent(r.d)
      /\ r.pc = "rg_reread" /\ r.op = "register" /\ r.key \in Key
  BY DEF TypeOK, RequestsFit, ConfigCoherent, RegisterReread, At, FrameFits,
         CallerFits
<1>2. PICK u \in WithKey(r.key) :
        Become(w, [r EXCEPT !.pc = "rc_load", !.uuid = u])
  BY DEF RegisterReread
<1>3. u \in inserted /\ u \in UUID /\ devices[u].key = r.key
  BY DEF WithKey, TypeOK
<1> DEFINE f == [r EXCEPT !.pc = "rc_load", !.uuid = u]
<1>4. /\ f \in Frame /\ f.pc = "rc_load" /\ f.uuid = u
      /\ f.op = r.op /\ f.key = r.key /\ f.d = r.d
  BY <1>1, <1>3 DEF Frame, Label
<1>5. Become(w, f) /\ UNCHANGED <<table, templates, history>>
  BY <1>2 DEF RegisterReread
<1> HIDE DEF f
<1>6. FrameFits(f)
  BY <1>1, <1>3, <1>4 DEF FrameFits, RowFits, CallerFits, CopyFits,
     NewConfigFits, HasRow, HoldsCopy, Reconciling
<1> QED
  BY <1>1, <1>4, <1>5, <1>6, RequestStep DEF TypeOK, history

\* What is answered is the only uuid this key has, and keeps it.
LEMMA RegisterReplyInv ==
  ASSUME Inv, NEW w \in Worker, RegisterReply(w)
  PROVE  Inv'
<1> USE DEF Inv
<1> DEFINE r == req[w]
<1>1. /\ r.key \in Key /\ r.uuid \in inserted /\ r.uuid \in UUID
      /\ devices[r.uuid].key = r.key
  BY DEF TypeOK, RequestsFit, RegisterReply, At, FrameFits, CallerFits
<1>2. /\ granted' = granted \cup {<<r.key, r.uuid>>}
      /\ Become(w, Idle)
      /\ UNCHANGED <<table, templates, served, claimed, published>>
  BY DEF RegisterReply, Finish
<1>3. TypeOK'
  BY <1>1, <1>2, IdleType DEF TypeOK, Become, table
<1>4. IdentityGranted'
  <2>1. granted \subseteq Key \X UUID
    BY DEF TypeOK
  <2>2. \A g \in granted' : /\ g[2] \in inserted
                            /\ devices[g[2]].key = g[1]
    BY <1>1, <1>2, <2>1 DEF IdentityGranted, ValidateKey
  <2>3. \A g, h \in granted' : h[1] = g[1] => h[2] = g[2]
    BY <2>2 DEF KeysUnique
  <2> QED
    BY <1>2, <2>2, <2>3 DEF IdentityGranted, ValidateKey, table
<1>5. KeysUnique' /\ RowsPublished'
  BY <1>2 DEF KeysUnique, RowsPublished, table
<1>6. ConfigCoherent'
  BY <1>2, IdleFits DEF ConfigCoherent, Become, TypeOK, table
<1>7. RequestsFit'
  <2>1. \A v \in Worker : req'[v] \in Frame /\ FrameFits(req'[v])
    BY <1>2, IdleType, IdleFits DEF RequestsFit, TypeOK, Become
  <2> QED
    BY <1>2, <2>1, FitsForGood DEF table
<1> QED
  BY <1>3, <1>4, <1>5, <1>6, <1>7

\* What a reconciliation that returns leaves its caller with.
LEMMA ResumeFits ==
  ASSUME Inv, NEW w \in Worker, req[w].pc \in Reconciling, Resume(w),
         req[w].op = "register" => req[w].uuid \in inserted
  PROVE  \E f \in Frame : Become(w, f) /\ FrameFits(f) /\ Coherent(f.d)
<1> USE DEF Inv
<1> DEFINE r == req[w]
<1>1. /\ r \in Frame /\ FrameFits(r) /\ Coherent(r.d)
      /\ r.op \in {"register", "checksum", "reconcile"} /\ r.uuid \in UUID
  BY DEF TypeOK, RequestsFit, ConfigCoherent, FrameFits, RowFits
<1>2. CASE AfterReconcile(r.op) = "idle"
  BY <1>2, IdleType, IdleFits DEF Resume, Finish
<1>3. CASE AfterReconcile(r.op) # "idle"
  <2> DEFINE f == [r EXCEPT !.pc = AfterReconcile(r.op)]
  <2>1. \/ r.op = "register" /\ AfterReconcile(r.op) = "rg_reply"
        \/ r.op = "checksum" /\ AfterReconcile(r.op) = "ck_read"
    BY <1>1, <1>3 DEF AfterReconcile
  <2>2. /\ f \in Frame /\ f.pc = AfterReconcile(r.op) /\ f.op = r.op
        /\ f.uuid = r.uuid /\ f.key = r.key /\ f.d = r.d
    BY <1>1, <2>1 DEF Frame, Label
  <2>3. Become(w, f)
    BY <1>3 DEF Resume, Goto
  <2> HIDE DEF f
  <2>4. FrameFits(f)
    <3>1. RowFits(f) /\ CopyFits(f) /\ NewConfigFits(f)
      BY <1>1, <2>1, <2>2 DEF RowFits, CopyFits, NewConfigFits, HasRow,
         HoldsCopy, Reconciling
    <3>2. CallerFits(f)
      BY <1>1, <2>1, <2>2 DEF FrameFits, CallerFits, Reconciling
    <3> QED
      BY <3>1, <3>2 DEF FrameFits
  <2> QED
    BY <1>1, <2>2, <2>3, <2>4
<1> QED
  BY <1>2, <1>3

\* A request that goes on after a reconciliation that changed nothing.
LEMMA ResumeStep ==
  ASSUME Inv, NEW w \in Worker, req[w].pc \in Reconciling, Resume(w),
         UNCHANGED <<table, templates, history>>
  PROVE  Inv'
<1>1. req[w].op = "register" => req[w].uuid \in inserted
  BY DEF Inv, RequestsFit, FrameFits, CallerFits, Reconciling
<1> QED
  BY <1>1, ResumeFits, RequestStep DEF Inv, TypeOK, history

\* The admin API starts a reconciliation.
LEMMA ReconcileInv ==
  ASSUME Inv, NEW w \in Worker, NEW u \in UUID, Reconcile(w, u)
  PROVE  Inv'
<1> DEFINE f == [Idle EXCEPT !.pc = "rc_load", !.op = "reconcile", !.uuid = u]
<1>1. /\ f \in Frame /\ f.pc = "rc_load" /\ f.op = "reconcile"
      /\ f.uuid = u /\ f.d = Idle.d
  BY IdleType DEF Frame, Label, Handler
<1>2. Become(w, f) /\ UNCHANGED <<table, templates, history>>
  BY DEF Reconcile
<1> HIDE DEF f
<1>3. FrameFits(f)
  BY <1>1 DEF FrameFits, RowFits, CallerFits, CopyFits, NewConfigFits,
     HasRow, HoldsCopy, Reconciling
<1> QED
  BY <1>1, <1>2, <1>3, IdleFits, RequestStep DEF Inv, TypeOK, history

\* A reconciliation holds a copy of a row with its key and configuration.
LEMMA ReconcileLoadInv ==
  ASSUME Inv, NEW w \in Worker, ReconcileLoad(w)
  PROVE  Inv'
<1> USE DEF Inv
<1> DEFINE r == req[w]
<1>1. /\ r \in Frame /\ FrameFits(r) /\ r.pc = "rc_load"
      /\ r.op \in {"register", "checksum", "reconcile"}
  BY DEF TypeOK, RequestsFit, ReconcileLoad, At, FrameFits, RowFits,
         Reconciling
<1>2. CASE r.uuid \notin inserted
  BY <1>1, <1>2, ResumeStep DEF ReconcileLoad, Reconciling
<1>3. CASE r.uuid \in inserted
  <2> DEFINE d == devices[r.uuid]
             f == [r EXCEPT !.pc = "rc_render", !.d = d]
  <2>1. r.uuid \in UUID /\ d \in Row /\ Coherent(d)
        /\ ConfigOf(d) \in published[r.uuid]
    BY <1>3 DEF TypeOK, ConfigCoherent, RowsPublished
  <2>2. /\ f \in Frame /\ f.pc = "rc_render" /\ f.op = r.op
        /\ f.uuid = r.uuid /\ f.key = r.key /\ f.d = d
    BY <1>1, <2>1 DEF Frame, Label
  <2>3. Become(w, f) /\ UNCHANGED <<table, templates, history>>
    BY <1>3 DEF ReconcileLoad, Keep
  <2> HIDE DEF f
  <2>4. FrameFits(f)
    BY <1>1, <1>3, <2>1, <2>2 DEF FrameFits, RowFits, CallerFits, CopyFits,
       NewConfigFits, HasRow, HoldsCopy, Reconciling
  <2> QED
    BY <2>1, <2>2, <2>3, <2>4, RequestStep DEF TypeOK, history
<1> QED
  BY <1>2, <1>3

\* The number it chooses follows one that was published.
LEMMA ReconcileRenderInv ==
  ASSUME Inv, NEW w \in Worker, ReconcileRender(w)
  PROVE  Inv'
<1> USE DEF Inv
<1> DEFINE r == req[w]
           tar == Render(r.d, templates)
<1>1. /\ r \in Frame /\ FrameFits(r) /\ r.pc = "rc_render"
      /\ r.op \in {"register", "checksum", "reconcile"}
      /\ r.uuid \in inserted /\ r.uuid \in UUID
  BY DEF TypeOK, RequestsFit, ReconcileRender, At, FrameFits, RowFits,
         Reconciling, HasRow
<1>2. CASE templates \notin Decodable \/ Sha256(tar) = r.d.checksum
  BY <1>1, <1>2, ResumeStep DEF ReconcileRender, Reconciling
<1>3. CASE templates \in Decodable /\ Sha256(tar) # r.d.checksum
  <2> DEFINE n == NextVersion(r.d.version)
             f == [r EXCEPT !.pc = "rc_put", !.tar = tar, !.ver = n,
                            !.d = NoRow]
  <2>1. r.d \in Row /\ r.d.version \in Version
    BY <1>1 DEF Frame, Row
  <2>2. tar \in Archive /\ n \in Version /\ n > 0
    BY <1>3, <2>1, RenderType, NextVersionType
  <2>3. Following(r.uuid, n)
    <3>1. ConfigOf(r.d) \in published[r.uuid]
      BY <1>1 DEF FrameFits, CopyFits, HoldsCopy
    <3> QED
      BY <3>1 DEF Following, ConfigOf
  <2>4. Become(w, f) /\ UNCHANGED <<table, templates, history>>
    BY <1>3 DEF ReconcileRender
  <2> HIDE DEF tar, n
  <2>5. /\ f \in Frame /\ f.pc = "rc_put" /\ f.op = r.op /\ f.tar = tar
        /\ f.ver = n /\ f.uuid = r.uuid /\ f.key = r.key /\ f.d = NoRow
    BY <1>1, <2>2, NoRowType DEF Frame, Label
  <2> HIDE DEF f
  <2>6. FrameFits(f)
    <3>1. RowFits(f) /\ CopyFits(f)
      BY <1>1, <2>5 DEF RowFits, CopyFits, HasRow, HoldsCopy, Reconciling
    <3>2. CallerFits(f)
      BY <1>1, <2>5 DEF FrameFits, CallerFits
    <3>3. NewConfigFits(f)
      BY <2>2, <2>3, <2>5 DEF NewConfigFits
    <3> QED
      BY <3>1, <3>2, <3>3 DEF FrameFits
  <2> QED
    BY <2>4, <2>5, <2>6, IdleFits, RequestStep DEF TypeOK, history, Idle
<1> QED
  BY <1>2, <1>3

\* The row it will save carries the new archive with its checksum and number.
LEMMA PutConfigTarReadInv ==
  ASSUME Inv, NEW w \in Worker, PutConfigTarRead(w)
  PROVE  Inv'
<1> USE DEF Inv
<1> DEFINE r == req[w]
           e == devices[r.uuid]
           d == [e EXCEPT !.archive = r.tar, !.checksum = Sha256(r.tar),
                          !.version = r.ver]
           f == [r EXCEPT !.pc = "rc_save", !.d = d]
<1>1. /\ r \in Frame /\ FrameFits(r) /\ r.pc = "rc_put"
      /\ r.uuid \in inserted /\ r.uuid \in UUID
      /\ r.tar \in Archive /\ r.ver > 0 /\ r.ver \in Version
  BY DEF TypeOK, RequestsFit, PutConfigTarRead, At, FrameFits, RowFits,
         NewConfigFits, HasRow, Frame
<1>2. e \in Row
  BY <1>1 DEF TypeOK
<1>3. Sha256(r.tar) \in Sum
  BY <1>1 DEF Sha256, Sum
<1>4. /\ d \in Row /\ d.key = e.key /\ d.archive = r.tar
      /\ d.checksum = Sha256(r.tar) /\ d.version = r.ver
  BY <1>1, <1>2, <1>3 DEF Row
<1>5. Become(w, f) /\ UNCHANGED <<table, templates, history>>
  BY DEF PutConfigTarRead, Keep
<1> HIDE DEF d
<1>6. /\ f \in Frame /\ f.pc = "rc_save" /\ f.op = r.op /\ f.tar = r.tar
      /\ f.ver = r.ver /\ f.uuid = r.uuid /\ f.key = r.key /\ f.d = d
  BY <1>1, <1>4 DEF Frame, Label
<1> HIDE DEF f
<1>7. FrameFits(f)
  <2>1. RowFits(f) /\ CopyFits(f)
    BY <1>1, <1>6 DEF FrameFits, RowFits, CopyFits, HasRow, HoldsCopy,
       Reconciling
  <2>2. CallerFits(f)
    BY <1>1, <1>6 DEF FrameFits, CallerFits
  <2>3. NewConfigFits(f)
    BY <1>1, <1>4, <1>6 DEF FrameFits, NewConfigFits, ConfigOf
  <2> QED
    BY <2>1, <2>2, <2>3 DEF FrameFits
<1>8. Coherent(f.d)
  BY <1>1, <1>4, <1>6, SentinelAssumption DEF Coherent
<1> QED
  BY <1>5, <1>6, <1>7, <1>8, RequestStep DEF TypeOK, history

\* The configuration saved is published in the same step.
LEMMA PutConfigTarSaveInv ==
  ASSUME Inv, NEW w \in Worker, PutConfigTarSave(w)
  PROVE  Inv'
<1> USE DEF Inv
<1> DEFINE r == req[w]
<1>1. /\ r \in Frame /\ FrameFits(r) /\ r.pc = "rc_save"
      /\ r.uuid \in inserted /\ Coherent(r.d) /\ r.d \in Row
      /\ r.d.key = devices[r.uuid].key
  BY DEF TypeOK, RequestsFit, PutConfigTarSave, At, FrameFits, RowFits,
         NewConfigFits, HasRow, Frame, ConfigCoherent
<1>2. PICK f \in Frame : Become(w, f) /\ FrameFits(f) /\ Coherent(f.d)
  BY <1>1, ResumeFits DEF PutConfigTarSave, Reconciling
<1>3. ConfigOf(r.d) \in [archive : Archive \cup {NoArchive},
                        checksum : Sum \cup {NoSum}, version : Version]
  BY <1>1 DEF ConfigOf, Row
<1>4. /\ Save(r.uuid, r.d)
      /\ published' = [published EXCEPT ![r.uuid] = @ \cup {ConfigOf(r.d)}]
      /\ UNCHANGED <<inserted, templates, granted, served, claimed>>
  BY DEF PutConfigTarSave
<1> QED
  BY <1>1, <1>2, <1>3, <1>4, SaveStep

\* A poll starts with a reconciliation.
LEMMA ChecksumInv ==
  ASSUME Inv, NEW w \in Worker, NEW u \in UUID, NEW k \in Key \cup {NoKey},
         Checksum(w, u, k)
  PROVE  Inv'
<1> DEFINE f == [Idle EXCEPT !.pc = "rc_load", !.op = "checksum",
                             !.uuid = u, !.key = k]
<1>1. /\ f \in Frame /\ f.pc = "rc_load" /\ f.op = "checksum"
      /\ f.uuid = u /\ f.d = Idle.d
  BY IdleType DEF Frame, Label, Handler
<1>2. Become(w, f) /\ UNCHANGED <<table, templates, history>>
  BY DEF Checksum
<1> HIDE DEF f
<1>3. FrameFits(f)
  BY <1>1 DEF FrameFits, RowFits, CallerFits, CopyFits, NewConfigFits,
     HasRow, HoldsCopy, Reconciling
<1> QED
  BY <1>1, <1>2, <1>3, IdleFits, RequestStep DEF Inv, TypeOK, history

\* The answer to a poll changes no row.
LEMMA GetChecksumInv ==
  ASSUME Inv, NEW w \in Worker, GetChecksum(w)
  PROVE  Inv'
<1> USE DEF Inv
<1> DEFINE r == req[w]
           f == [r EXCEPT !.pc = "seen", !.d = NoRow]
<1>1. r \in Frame /\ FrameFits(r) /\ r.pc = "ck_read"
  BY DEF TypeOK, RequestsFit, GetChecksum, At
<1>2. \/ Finish(w)
      \/ Become(w, f) /\ r.uuid \in inserted
  BY DEF GetChecksum, ValidateKey
<1>3. UNCHANGED <<table, templates, history>>
  BY DEF GetChecksum
<1>4. /\ f \in Frame /\ f.pc = "seen" /\ f.op = r.op /\ f.uuid = r.uuid
      /\ f.key = r.key /\ f.d = NoRow
  BY <1>1, NoRowType DEF Frame, Label
<1> HIDE DEF f
<1>5. ASSUME r.uuid \in inserted PROVE FrameFits(f)
  BY <1>1, <1>4, <1>5 DEF FrameFits, RowFits, CallerFits, CopyFits,
     NewConfigFits, HasRow, HoldsCopy, Reconciling
<1>6. Coherent(NoRow)
  BY IdleFits DEF Idle
<1> QED
  BY <1>2, <1>3, <1>4, <1>5, <1>6, FinishStep, RequestStep DEF TypeOK, history

\* A download changes no row; what was sent is remembered.
LEMMA DownloadInv ==
  ASSUME Inv, NEW w \in Worker, NEW u \in UUID, NEW k \in Key \cup {NoKey},
         Download(w, u, k)
  PROVE  Inv'
<1> USE DEF Inv
<1> DEFINE f == [Idle EXCEPT !.pc = "seen", !.op = "download", !.uuid = u]
<1>1. /\ f \in Frame /\ f.pc = "seen" /\ f.op = "download"
      /\ f.uuid = u /\ f.d = Idle.d
  BY IdleType DEF Frame, Label, Handler
<1>2. /\ Become(w, f)
      /\ u \in inserted
      /\ served' = [served EXCEPT ![u] = @ \cup {Sha256(devices[u].archive)}]
      /\ UNCHANGED <<table, templates, granted, claimed, published>>
  BY DEF Download, ValidateKey
<1> HIDE DEF f
<1>3. FrameFits(f)
  BY <1>1, <1>2 DEF FrameFits, RowFits, CallerFits, CopyFits, NewConfigFits,
     HasRow, HoldsCopy, Reconciling
<1>4. Sha256(devices[u].archive) \in Sum
  BY DEF Download, TypeOK, Row, Sha256, Sum
<1>5. served' \in [UUID -> SUBSET Sum]
  BY <1>2, <1>4 DEF TypeOK
<1> QED
  BY <1>1, <1>2, <1>3, <1>5, IdleFits, RequestStep DEF TypeOK

\* A heartbeat writes two columns of one row.
LEMMA MarkSeenInv ==
  ASSUME Inv, NEW w \in Worker, MarkSeen(w)
  PROVE  Inv'
<1> USE DEF Inv
<1> DEFINE r == req[w]
           e == devices[r.uuid]
           d == [e EXCEPT !.seen = 0, !.status = "online"]
<1>1. r \in Frame /\ r.uuid \in inserted /\ r.uuid \in UUID
  BY DEF TypeOK, RequestsFit, MarkSeen, At, FrameFits, RowFits, HasRow
<1>2. e \in Row /\ Coherent(e) /\ ConfigOf(e) \in published[r.uuid]
  BY <1>1 DEF TypeOK, ConfigCoherent, RowsPublished
<1>3. SameConfig(d, e)
  BY <1>2, OtherColumns, ZeroAge
<1>4. Coherent(d)
  BY <1>2, <1>3, SameConfigCoherent DEF SameConfig
<1>5. Save(r.uuid, d)
  BY <1>1 DEF Save, MarkSeen, TypeOK
<1>6. Become(w, Idle) /\ UNCHANGED <<inserted, templates, history>>
  BY DEF MarkSeen, Finish
<1> HIDE DEF d
<1> QED
  BY <1>1, <1>2, <1>3, <1>4, <1>5, <1>6, IdleType, IdleFits, SaveStep
     DEF history, SameConfig

\* A report holds a copy of the row, with another status.
LEMMA ReportStatusInv ==
  ASSUME Inv, NEW w \in Worker, NEW u \in UUID, NEW k \in Key \cup {NoKey},
         NEW st \in {"online", "offline"}, NEW a \in BOOLEAN,
         NEW sum \in ReportedSums \cup {NoSum},
         ReportStatus(w, u, k, st, a, sum)
  PROVE  Inv'
<1> USE DEF Inv
<1> DEFINE e == devices[u]
           d == [e EXCEPT !.seen = 0, !.status = st]
           f == [Idle EXCEPT !.pc = "rs_save", !.op = "report", !.uuid = u,
                             !.key = k, !.applied = a, !.sum = sum, !.d = d]
<1>1. /\ u \in inserted /\ Become(w, f)
      /\ claimed' = [claimed EXCEPT ![u] = @ \cup {x \in {sum} : a}]
      /\ UNCHANGED <<table, templates, granted, served, published>>
  BY DEF ReportStatus, ValidateKey
<1>2. e \in Row /\ Coherent(e) /\ ConfigOf(e) \in published[u]
  BY DEF TypeOK, ConfigCoherent, RowsPublished
<1>3. SameConfig(d, e)
  BY <1>2, OtherColumns, ZeroAge
<1>4. d \in Row /\ Coherent(d)
  BY <1>2, <1>3, SameConfigCoherent DEF SameConfig
<1> HIDE DEF d
<1>5. /\ f \in Frame /\ f.pc = "rs_save" /\ f.op = "report"
      /\ f.uuid = u /\ f.d = d
  <2> DEFINE g == [Idle EXCEPT !.uuid = u, !.key = k, !.sum = sum, !.d = d]
             h == [g EXCEPT !.pc = "rs_save", !.op = "report"]
  <2>1. g \in Frame /\ g.uuid = u /\ g.d = d
    BY <1>4, IdleType DEF Frame
  <2>2. f = [h EXCEPT !.applied = a]
    BY DEF Idle
  <2> HIDE DEF f, g
  <2>3. h \in Frame /\ h.pc = "rs_save" /\ h.op = "report"
        /\ h.uuid = u /\ h.d = d
    BY <2>1 DEF Frame, Label, Handler
  <2> HIDE DEF h
  <2> QED
    BY <2>2, <2>3 DEF Frame
<1> HIDE DEF f
<1>6. FrameFits(f)
  BY <1>1, <1>2, <1>3, <1>5 DEF FrameFits, RowFits, CallerFits, CopyFits,
     NewConfigFits, HasRow, HoldsCopy, Reconciling, SameConfig
<1>7. claimed' \in [UUID -> SUBSET (ReportedSums \cup {NoSum})]
  BY <1>1 DEF TypeOK
<1> QED
  BY <1>1, <1>4, <1>5, <1>6, <1>7, RequestStep DEF TypeOK

\* The three handlers that save the copy of a row they read before.
LEMMA SaveCopyStep ==
  ASSUME Inv, NEW w \in Worker, req[w].pc \in {"rs_save", "ra_save", "ad_save"},
         Save(req[w].uuid, req[w].d), UNCHANGED <<inserted, templates, history>>,
         NEW f \in Frame, Become(w, f), FrameFits(f), Coherent(f.d)
  PROVE  Inv'
<1> USE DEF Inv
<1>1. /\ req[w] \in Frame /\ FrameFits(req[w]) /\ Coherent(req[w].d)
  BY DEF TypeOK, RequestsFit, ConfigCoherent
<1>2. /\ req[w].uuid \in inserted /\ req[w].d \in Row
      /\ req[w].d.key = devices[req[w].uuid].key
      /\ ConfigOf(req[w].d) \in published[req[w].uuid]
  BY <1>1 DEF FrameFits, RowFits, CopyFits, HasRow, HoldsCopy, Frame
<1> QED
  BY <1>1, <1>2, SaveStep DEF history

\* Saving a report leaves the key and brings a published configuration.
LEMMA ReportStatusSaveInv ==
  ASSUME Inv, NEW w \in Worker, ReportStatusSave(w)
  PROVE  Inv'
<1> USE DEF Inv
<1> DEFINE r == req[w]
           f == [r EXCEPT !.pc = "ra_read", !.d = NoRow]
<1>1. /\ r \in Frame /\ FrameFits(r) /\ r.pc = "rs_save"
      /\ r.uuid \in inserted
  BY DEF TypeOK, RequestsFit, ReportStatusSave, At, FrameFits, RowFits, HasRow
<1>2. /\ Save(r.uuid, r.d) /\ UNCHANGED <<inserted, templates, history>>
      /\ Become(w, f) \/ Become(w, Idle)
  BY DEF ReportStatusSave, Finish
<1>3. /\ f \in Frame /\ f.pc = "ra_read" /\ f.op = r.op /\ f.uuid = r.uuid
      /\ f.key = r.key /\ f.d = NoRow
  BY <1>1, NoRowType DEF Frame, Label
<1> HIDE DEF f
<1>4. FrameFits(f)
  BY <1>1, <1>3 DEF FrameFits, RowFits, CallerFits, CopyFits,
     NewConfigFits, HasRow, HoldsCopy, Reconciling
<1>5. Coherent(NoRow)
  BY IdleFits DEF Idle
<1> QED
  BY <1>1, <1>2, <1>3, <1>4, <1>5, IdleType, IdleFits, SaveCopyStep

\* The second half of a report holds a new copy of the row.
LEMMA ReportAppliedInv ==
  ASSUME Inv, NEW w \in Worker, ReportApplied(w)
  PROVE  Inv'
<1> USE DEF Inv
<1> DEFINE r == req[w]
           e == devices[r.uuid]
           a == IF r.sum = NoSum THEN e.checksum ELSE r.sum
           d == [e EXCEPT !.applied = a, !.status = "online"]
           f == [r EXCEPT !.pc = "ra_save", !.d = d]
<1>1. /\ r \in Frame /\ FrameFits(r) /\ r.pc = "ra_read"
      /\ r.uuid \in inserted /\ r.uuid \in UUID
  BY DEF TypeOK, RequestsFit, ReportApplied, At, FrameFits, RowFits, HasRow
<1>2. e \in Row /\ Coherent(e) /\ ConfigOf(e) \in published[r.uuid]
  BY <1>1 DEF TypeOK, ConfigCoherent, RowsPublished
<1>3. a \in AppliedSum
  BY <1>1, <1>2 DEF Frame, Row, AppliedSum
<1>4. Finish(w) \/ Become(w, f)
  BY DEF ReportApplied, Keep
<1>5. UNCHANGED <<table, templates, history>>
  BY DEF ReportApplied
<1> HIDE DEF a
<1>6. SameConfig(d, e)
  BY <1>2, <1>3, OtherColumns, ZeroAge
<1>7. d \in Row /\ Coherent(d)
  BY <1>2, <1>6, SameConfigCoherent DEF SameConfig
<1> HIDE DEF d
<1>8. /\ f \in Frame /\ f.pc = "ra_save" /\ f.op = r.op /\ f.uuid = r.uuid
      /\ f.key = r.key /\ f.d = d
  BY <1>1, <1>7 DEF Frame, Label
<1> HIDE DEF f
<1>9. FrameFits(f)
  BY <1>1, <1>2, <1>6, <1>8 DEF FrameFits, RowFits, CallerFits, CopyFits,
     NewConfigFits, HasRow, HoldsCopy, Reconciling, SameConfig
<1> QED
  BY <1>4, <1>5, <1>7, <1>8, <1>9, FinishStep, RequestStep DEF TypeOK, history

\* The two handlers that save a copy and end.
LEMMA SaveAndFinishInv ==
  ASSUME Inv, NEW w \in Worker, ReportAppliedSave(w) \/ AdoptSave(w)
  PROVE  Inv'
<1>1. /\ req[w].pc \in {"ra_save", "ad_save"}
      /\ Save(req[w].uuid, req[w].d) /\ Become(w, Idle)
      /\ UNCHANGED <<inserted, templates, history>>
  BY DEF ReportAppliedSave, AdoptSave, At, Finish
<1> QED
  BY <1>1, IdleType, IdleFits, SaveCopyStep

\* An adoption holds a copy of the row, or a new row without a key.
LEMMA AdoptInv ==
  ASSUME Inv, NEW w \in Worker, NEW u \in UUID, NEW n \in Name \cup {NoName},
         Adopt(w, u, n)
  PROVE  Inv'
<1> USE DEF Inv
<1> DEFINE e == IF u \in inserted THEN devices[u] ELSE NewRow(NoKey, n)
           s == [e EXCEPT !.seen = 0, !.status = "online"]
           m == IF n = NoName THEN s.name ELSE n
           d == IF u \in inserted THEN [s EXCEPT !.name = m] ELSE s
           l == IF u \in inserted THEN "ad_save" ELSE "ad_create"
           f == [Idle EXCEPT !.pc = l, !.op = "adopt", !.uuid = u, !.d = d]
<1>1. /\ e \in Row /\ Coherent(e)
      /\ u \in inserted => ConfigOf(e) \in published[u]
      /\ u \notin inserted => e.key = NoKey /\ ConfigOf(e) = ConfigOf(NoRow)
  <2>1. CASE u \in inserted
    BY <2>1 DEF TypeOK, ConfigCoherent, RowsPublished
  <2>2. CASE u \notin inserted
    BY <2>2, NewRowType DEF NewRow, NoRow, ConfigOf, Coherent
  <2> QED
    BY <2>1, <2>2
<1>2. Become(w, f) /\ UNCHANGED <<table, templates, history>>
  BY DEF Adopt
<1> HIDE DEF e
<1>3. SameConfig(s, e)
  BY <1>1, OtherColumns, ZeroAge
<1>4. s \in Row
  BY <1>3 DEF SameConfig
<1>5. m \in Name \cup {NoName}
  BY <1>4 DEF Row
<1> HIDE DEF s, m
<1>6. SameConfig(d, s)
  BY <1>4, <1>5, OtherColumns DEF SameConfig
<1>7. SameConfig(d, e) /\ d \in Row /\ Coherent(d)
  BY <1>1, <1>3, <1>6, SameConfigCoherent DEF SameConfig
<1> HIDE DEF d
<1>8. f \in Frame /\ f.pc = l /\ f.op = "adopt" /\ f.uuid = u /\ f.d = d
  <2>1. l \in Label
    BY DEF Label
  <2> HIDE DEF l
  <2> QED
    BY <1>7, <2>1, IdleType DEF Frame, Handler
<1> HIDE DEF f
<1>9. FrameFits(f)
  <2>1. CASE u \in inserted
    <3>1. e = devices[u]
      BY <2>1 DEF e
    <3> QED
      BY <1>1, <1>7, <1>8, <2>1, <3>1 DEF FrameFits, RowFits, CallerFits,
         CopyFits, NewConfigFits, HasRow, HoldsCopy, Reconciling, SameConfig
  <2>2. CASE u \notin inserted
    BY <1>1, <1>7, <1>8, <2>2 DEF FrameFits, RowFits, CallerFits,
       CopyFits, NewConfigFits, HasRow, HoldsCopy, Reconciling, SameConfig
  <2> QED
    BY <2>1, <2>2
<1> QED
  BY <1>2, <1>7, <1>8, <1>9, RequestStep DEF TypeOK, history

\* A row without a key is stored only when no other row lacks one.
LEMMA AdoptCreateInv ==
  ASSUME Inv, NEW w \in Worker, AdoptCreate(w)
  PROVE  Inv'
<1> USE DEF Inv
<1> DEFINE r == req[w]
<1>1. /\ r \in Frame /\ Coherent(r.d) /\ r.d \in Row /\ r.uuid \in UUID
      /\ r.d.key = NoKey /\ ConfigOf(r.d) = ConfigOf(NoRow)
  BY DEF TypeOK, RequestsFit, ConfigCoherent, AdoptCreate, At, FrameFits,
         RowFits, CopyFits, Frame
<1>2. CASE r.uuid \in inserted \/ WithKey(NoKey) # {}
  BY <1>2, FinishStep DEF AdoptCreate
<1>3. CASE r.uuid \notin inserted /\ WithKey(NoKey) = {}
  <2>1. /\ inserted' = inserted \cup {r.uuid} /\ Save(r.uuid, r.d)
        /\ Become(w, Idle) /\ UNCHANGED <<templates, history>>
    BY <1>3 DEF AdoptCreate, Finish
  <2>2. FrameFits(Idle)'
    BY DEF FrameFits, RowFits, CallerFits, CopyFits, NewConfigFits, HasRow,
       HoldsCopy, Reconciling, Idle
  <2>3. PICK f : f = Idle
    OBVIOUS
  <2>4. f \in Frame /\ FrameFits(f)' /\ Coherent(f.d)
    BY <2>2, <2>3, IdleType, IdleFits DEF FrameFits, RowFits, CallerFits,
       CopyFits, NewConfigFits, Following
  <2> QED
    BY <1>1, <1>3, <2>1, <2>3, <2>4, InsertStep
<1> QED
  BY <1>2, <1>3

\* Steps that touch other columns only, in any row, and in copies of rows.
LEMMA ColumnStep ==
  ASSUME Inv, devices' \in [UUID -> Row], req' \in [Worker -> Frame],
         templates' \in Template,
         \A u \in UUID : SameConfig(devices'[u], devices[u]),
         \A v \in Worker :
           \/ req'[v] = Idle
           \/ /\ SameConfig(req'[v].d, req[v].d)
              /\ req'[v].pc = req[v].pc /\ req'[v].op = req[v].op
              /\ req'[v].uuid = req[v].uuid /\ req'[v].key = req[v].key
              /\ req'[v].tar = req[v].tar /\ req'[v].ver = req[v].ver,
         UNCHANGED <<inserted, history>>
  PROVE  Inv'
<1> USE DEF Inv, history
<1>0. inserted \subseteq UUID
  BY DEF TypeOK
<1>1. TypeOK'
  BY DEF TypeOK
<1>2. \A u \in inserted : devices'[u].key = devices[u].key
  BY <1>0 DEF SameConfig
<1>3. KeysUnique'
  BY <1>2 DEF KeysUnique
<1>4. IdentityGranted'
  BY <1>2 DEF IdentityGranted, ValidateKey
<1>5. ConfigCoherent'
  <2>1. ASSUME NEW u \in UUID PROVE Coherent(devices'[u])
    BY SameConfigCoherent DEF ConfigCoherent, TypeOK
  <2>2. ASSUME NEW v \in Worker PROVE Coherent(req'[v].d)
    <3>1. req'[v].d \in Row /\ req[v].d \in Row
      BY DEF TypeOK, Frame
    <3> QED
      BY <3>1, SameConfigCoherent, IdleFits DEF ConfigCoherent
  <2> QED
    BY <2>1, <2>2 DEF ConfigCoherent
<1>6. RequestsFit'
  <2>1. \A v \in Worker : req'[v] \in Frame /\ FrameFits(req'[v])
    <3> SUFFICES ASSUME NEW v \in Worker, req'[v] # Idle
                 PROVE  FrameFits(req'[v])
      BY IdleFits
    <3>1. FrameFits(req[v])
      BY DEF RequestsFit
    <3> QED
      BY <3>1 DEF FrameFits, RowFits, CallerFits, CopyFits, NewConfigFits,
         SameConfig
  <2> QED
    BY <1>2, <2>1, FitsForGood
<1>7. RowsPublished'
  BY DEF RowsPublished, SameConfig
<1> QED
  BY <1>1, <1>3, <1>4, <1>5, <1>6, <1>7

\* A row has its own configuration.
LEMMA SameConfigItself == ASSUME NEW d \in Row PROVE SameConfig(d, d)
BY DEF SameConfig

\* The sweeper writes the status of rows and nothing else.
LEMMA OfflineSweepInv ==
  ASSUME Inv, NEW w \in Worker, OfflineSweep(w)
  PROVE  Inv'
<1> USE DEF Inv
<1>1. ASSUME NEW u \in UUID PROVE SameConfig(devices'[u], devices[u])
  <2>1. \/ devices'[u] = [devices[u] EXCEPT !.status = "offline"]
        \/ devices'[u] = devices[u]
    BY DEF OfflineSweep
  <2>2. devices[u] \in Row
    BY DEF TypeOK
  <2> QED
    BY <2>1, <2>2, OtherColumns, ZeroAge, SameConfigItself
<1>2. devices' \in [UUID -> Row]
  <2>1. DOMAIN devices' = UUID
    BY DEF OfflineSweep
  <2>2. \A u \in UUID : devices'[u] \in Row
    BY <1>1 DEF SameConfig
  <2>3. devices' = [u \in UUID |-> devices'[u]]
    BY DEF OfflineSweep
  <2> QED
    BY <2>2, <2>3
<1>3. \A v \in Worker : SameConfig(req[v].d, req[v].d)
  BY SameConfigItself DEF TypeOK, Frame
<1> QED
  BY <1>1, <1>2, <1>3, ColumnStep DEF OfflineSweep, TypeOK

\* Templates are not part of the table of devices.
LEMMA EditTemplatesInv ==
  ASSUME Inv, NEW t \in Template, EditTemplates(t)
  PROVE  Inv'
<1>1. \A v \in Worker : SameConfig(req[v].d, req[v].d)
  BY SameConfigItself DEF Inv, TypeOK, Frame
<1>2. \A u \in UUID : SameConfig(devices[u], devices[u])
  BY SameConfigItself DEF Inv, TypeOK
<1> QED
  BY <1>1, <1>2, ColumnStep DEF EditTemplates, Inv, TypeOK, table

\* A restart loses requests, and no row.
LEMMA CrashInv ==
  ASSUME Inv, Crash
  PROVE  Inv'
<1>1. \A u \in UUID : SameConfig(devices[u], devices[u])
  BY SameConfigItself DEF Inv, TypeOK
<1> QED
  BY <1>1, IdleType, ColumnStep DEF Crash, Inv, TypeOK, table

\* Time changes no configuration and no key.
LEMMA OlderSameConfig ==
  ASSUME NEW e \in Row
  PROVE  SameConfig([e EXCEPT !.seen = Older(@)], e)
<1>1. Older(e.seen) \in Age \cup {NeverSeen}
  BY OlderType DEF Row
<1>2. SameConfig([e EXCEPT !.seen = Older(e.seen)], e)
  BY <1>1, OtherColumns
<1> QED
  BY <1>2

\* Time passes in rows and in copies of rows.
LEMMA TickInv ==
  ASSUME Inv, Tick
  PROVE  Inv'
<1> USE DEF Inv
<1>2. ASSUME NEW u \in UUID
      PROVE  /\ devices'[u] = [devices[u] EXCEPT !.seen = Older(@)]
             /\ SameConfig(devices'[u], devices[u])
  BY OlderSameConfig DEF Tick, TypeOK
<1>3. devices' \in [UUID -> Row]
  <2>1. \A u \in UUID : devices'[u] \in Row
    BY <1>2 DEF SameConfig
  <2>2. devices' = [u \in UUID |-> devices'[u]]
    BY DEF Tick
  <2> QED
    BY <2>1, <2>2
<1>4. ASSUME NEW v \in Worker
      PROVE  /\ SameConfig(req'[v].d, req[v].d) /\ req'[v] \in Frame
             /\ req'[v].pc = req[v].pc /\ req'[v].op = req[v].op
             /\ req'[v].uuid = req[v].uuid /\ req'[v].key = req[v].key
             /\ req'[v].tar = req[v].tar /\ req'[v].ver = req[v].ver
  <2> DEFINE r == req[v]
             e == [r.d EXCEPT !.seen = Older(@)]
  <2>1. r \in Frame /\ r.d \in Row
    BY DEF TypeOK, Frame
  <2>2. SameConfig(e, r.d) /\ e \in Row
    BY <2>1, OlderSameConfig DEF SameConfig
  <2>3. req'[v] = [r EXCEPT !.d = e]
    BY <2>1 DEF Tick, Frame
  <2> HIDE DEF e
  <2> QED
    BY <2>1, <2>2, <2>3 DEF Frame
<1>5. req' \in [Worker -> Frame]
  <2>1. req' = [v \in Worker |-> req'[v]]
    BY DEF Tick
  <2> QED
    BY <1>4, <2>1
<1> QED
  BY <1>2, <1>3, <1>4, <1>5, ColumnStep DEF Tick, TypeOK

\* A failed statement ends the request or lets its caller go on.
LEMMA StatementFailsInv ==
  ASSUME Inv, NEW w \in Worker, StatementFails(w)
  PROVE  Inv'
<1> USE DEF Inv
<1> DEFINE r == req[w]
           f == [r EXCEPT !.pc = "rc_load"]
<1>0. UNCHANGED <<table, templates, history>>
  BY DEF StatementFails
<1>1. CASE r.pc \in Reconciling /\ Resume(w)
  BY <1>0, <1>1, ResumeStep
<1>2. CASE Finish(w)
  BY <1>0, <1>2, FinishStep
<1>3. CASE r.pc = "rg_update" /\ Goto(w, "rc_load")
  <2>1. r \in Frame /\ FrameFits(r) /\ Coherent(r.d)
    BY DEF TypeOK, RequestsFit, ConfigCoherent
  <2>2. /\ f \in Frame /\ f.pc = "rc_load" /\ f.op = r.op /\ f.uuid = r.uuid
        /\ f.key = r.key /\ f.d = r.d
    BY <2>1 DEF Frame, Label
  <2>3. Become(w, f)
    BY <1>3 DEF Goto
  <2> HIDE DEF f
  <2>4. FrameFits(f)
    BY <1>3, <2>1, <2>2 DEF FrameFits, RowFits, CallerFits, CopyFits,
       NewConfigFits, HasRow, HoldsCopy, Reconciling, TypeOK
  <2> QED
    BY <1>0, <2>1, <2>2, <2>3, <2>4, RequestStep DEF TypeOK, history
<1> QED
  BY <1>1, <1>2, <1>3 DEF StatementFails, At, Reconciling

-----------------------------------------------------------------------------
\* Every step preserves the invariant.
LEMMA InvNext == Inv /\ [Next]_vars => Inv'
<1> SUFFICES ASSUME Inv, [Next]_vars PROVE Inv'
  OBVIOUS
<1>1. CASE \E w \in Worker : Arrive(w)
  <2>1. PICK w \in Worker : Arrive(w)
    BY <1>1
  <2>2. CASE \E k \in Key, n \in Name \cup {NoName} : Register(w, k, n)
    BY <2>2, RegisterInv
  <2>3. CASE \E u \in UUID : Reconcile(w, u)
    BY <2>3, ReconcileInv
  <2>4. CASE \E u \in UUID, k \in Key \cup {NoKey} : Checksum(w, u, k)
    BY <2>4, ChecksumInv
  <2>5. CASE \E u \in UUID, k \in Key \cup {NoKey} : Download(w, u, k)
    BY <2>5, DownloadInv
  <2>6. CASE \E u \in UUID, k \in Key \cup {NoKey},
                st \in {"online", "offline"}, a \in BOOLEAN,
                sum \in ReportedSums \cup {NoSum} :
              ReportStatus(w, u, k, st, a, sum)
    BY <2>6, ReportStatusInv
  <2>7. CASE \E u \in UUID, n \in Name \cup {NoName} : Adopt(w, u, n)
    BY <2>7, AdoptInv
  <2> QED
    BY <2>1, <2>2, <2>3, <2>4, <2>5, <2>6, <2>7 DEF Arrive
<1>2. CASE \E w \in Worker : Step(w)
  BY <1>2, RegisterUpdateInv, RegisterInsertInv, RegisterRereadInv,
     RegisterReplyInv, ReconcileLoadInv, ReconcileRenderInv,
     PutConfigTarReadInv, PutConfigTarSaveInv, GetChecksumInv, MarkSeenInv,
     ReportStatusSaveInv, ReportAppliedInv, SaveAndFinishInv, AdoptCreateInv
     DEF Step
<1>3. CASE \E w \in Worker : OfflineSweep(w) \/ StatementFails(w)
  BY <1>3, OfflineSweepInv, StatementFailsInv
<1>4. CASE (\E t \in Template : EditTemplates(t)) \/ Tick \/ Crash
  BY <1>4, EditTemplatesInv, TickInv, CrashInv
<1>5. CASE UNCHANGED vars
  BY <1>5 DEF vars, Inv, TypeOK, KeysUnique, WithKey, IdentityGranted,
     ValidateKey, ConfigCoherent, RequestsFit, FrameFits, RowFits, CallerFits,
     CopyFits, NewConfigFits, Following, RowsPublished
<1> QED
  BY <1>1, <1>2, <1>3, <1>4, <1>5 DEF Next

\* The inductive invariant holds for ever.
THEOREM Invariance == Spec => []Inv
BY InitInv, InvNext, PTL DEF Spec

\* Every column and every field of every request keeps its type.
THEOREM TypeCorrect == Spec => []TypeOK
<1>1. Inv => TypeOK
  BY DEF Inv
<1> QED
  BY <1>1, Invariance, PTL

\* Whoever saves whole rows, and from whatever copies, archive, checksum and
\* version fit together in the table and in every copy.
THEOREM ConfigsCoherent == Spec => []ConfigCoherent
<1>1. Inv => ConfigCoherent
  BY DEF Inv
<1> QED
  BY <1>1, Invariance, PTL

\* However many registrations of one key race, and with restarts: every
\* identity the controller answered with stays valid and is the only one that
\* was answered for its key.
THEOREM IdentitiesLast == Spec => []IdentityGranted
<1>1. Inv => IdentityGranted
  BY DEF Inv
<1> QED
  BY <1>1, Invariance, PTL

-----------------------------------------------------------------------------
\* The detailed specification implements the abstract one.

Current == [u \in UUID |-> ConfigOf(devices[u])]

\* A saved copy with a published configuration is a Restore of the abstract store.
LEMMA RestoreStep ==
  ASSUME NEW u \in UUID, NEW d, ConfigOf(d) \in published[u], TypeOK,
         Save(u, d), published' = published
  PROVE  Promise!Restore(u)
<1>1. \A v \in UUID : devices'[v] = IF v = u THEN d ELSE devices[v]
  BY DEF Save, TypeOK
<1>2. Current' = [Current EXCEPT ![u] = ConfigOf(d)]
  BY <1>1 DEF Current
<1> QED
  BY <1>2 DEF Promise!Restore, Current

\* A step that leaves all configurations and what is published is a stutter.
LEMMA SameConfigsStep ==
  ASSUME \A u \in UUID : ConfigOf(devices'[u]) = ConfigOf(devices[u]),
         published' = published
  PROVE  UNCHANGED Promise!abstractVars
BY DEF Promise!abstractVars

\* Saving a new archive under the next number is a Publish.
LEMMA PublishStep ==
  ASSUME Inv, NEW w \in Worker, PutConfigTarSave(w)
  PROVE  Promise!Next
<1> DEFINE r == req[w]
           c == [archive |-> r.tar, checksum |-> Sha256(r.tar),
                 version |-> r.ver]
<1>1. /\ r.uuid \in UUID /\ r.tar \in Archive /\ ConfigOf(r.d) = c
      /\ Following(r.uuid, r.ver)
  BY DEF Inv, TypeOK, RequestsFit, FrameFits, RowFits, NewConfigFits,
         PutConfigTarSave, At, HasRow
<1>2. /\ Save(r.uuid, r.d)
      /\ published' = [published EXCEPT ![r.uuid] = @ \cup {ConfigOf(r.d)}]
  BY DEF PutConfigTarSave
<1>3. \A v \in UUID : devices'[v] = IF v = r.uuid THEN r.d ELSE devices[v]
  BY <1>1, <1>2 DEF Save, Inv, TypeOK
<1>4. Current' = [Current EXCEPT ![r.uuid] = c]
  BY <1>1, <1>3 DEF Current
<1>5. PICK p \in published[r.uuid] : r.ver = NextVersion(p.version)
  BY <1>1 DEF Following
<1>6. Promise!Publish(r.uuid, r.tar)
  BY <1>1, <1>2, <1>4, <1>5 DEF Promise!Publish, Current
<1> QED
  BY <1>1, <1>6 DEF Promise!Next

\* Every step is a step of the abstract store or a stutter.
LEMMA AbstractStep ==
  Inv /\ [Next]_vars => [Promise!Next]_(Promise!abstractVars)
<1> SUFFICES ASSUME Inv, [Next]_vars
             PROVE  Promise!Next \/ UNCHANGED Promise!abstractVars
  OBVIOUS
<1> USE DEF Inv
<1>1. ASSUME UNCHANGED devices, UNCHANGED published
      PROVE  UNCHANGED Promise!abstractVars
  BY <1>1, SameConfigsStep
<1>2. ASSUME NEW w \in Worker, Step(w)
      PROVE  Promise!Next \/ UNCHANGED Promise!abstractVars
  <2> DEFINE r == req[w]
  <2>0. r \in Frame /\ FrameFits(r)
    BY DEF TypeOK, RequestsFit
  <2>1. CASE RegisterUpdate(w)
    <3>1. r.uuid \in UUID /\ published' = published
      BY <2>0, <2>1 DEF RegisterUpdate, At, FrameFits, RowFits, HasRow, TypeOK,
         history
    <3>2. r.name \in Name \cup {NoName}
      BY <2>0 DEF Frame
    <3>3. \A u \in UUID : SameConfig(devices'[u], devices[u])
      BY <2>1, <3>1, <3>2, OtherColumns, SameConfigItself
         DEF RegisterUpdate, TypeOK
    <3> QED
      BY <3>1, <3>3, SameConfigsStep DEF SameConfig
  <2>2. CASE RegisterInsert(w)
    <3>1. \/ UNCHANGED devices
          \/ \E u \in UUID : Save(u, NewRow(r.key, r.name))
      BY <2>2 DEF RegisterInsert, UnusedUUIDs, table
    <3>2. published' = published
      BY <2>2 DEF RegisterInsert, history
    <3>3. \A u \in UUID : ConfigOf(NewRow(r.key, r.name)) \in published[u]
      BY DEF RowsPublished, NewRow, NoRow, ConfigOf
    <3> QED
      BY <1>1, <3>1, <3>2, <3>3, RestoreStep DEF Promise!Next
  <2>3. CASE AdoptCreate(w)
    <3>1. \/ UNCHANGED devices
          \/ Save(r.uuid, r.d)
      BY <2>3 DEF AdoptCreate, table
    <3>2. published' = published
      BY <2>3 DEF AdoptCreate, history
    <3>3. r.uuid \in UUID /\ ConfigOf(r.d) \in published[r.uuid]
      BY <2>0, <2>3 DEF AdoptCreate, At, FrameFits, RowFits, CopyFits,
         RowsPublished
    <3> QED
      BY <1>1, <3>1, <3>2, <3>3, RestoreStep DEF Promise!Next
  <2>4. CASE ReportStatusSave(w) \/ ReportAppliedSave(w) \/ AdoptSave(w)
    <3>1. r.pc \in {"rs_save", "ra_save", "ad_save"} /\ Save(r.uuid, r.d)
          /\ published' = published
      BY <2>4 DEF ReportStatusSave, ReportAppliedSave, AdoptSave, At, history
    <3>2. r.uuid \in UUID /\ ConfigOf(r.d) \in published[r.uuid]
      BY <2>0, <3>1 DEF FrameFits, RowFits, CopyFits, HasRow, HoldsCopy, TypeOK
    <3> QED
      BY <3>1, <3>2, RestoreStep DEF Promise!Next
  <2>5. CASE MarkSeen(w)
    <3>1. r.uuid \in UUID /\ published' = published
      BY <2>0, <2>5 DEF MarkSeen, At, FrameFits, RowFits, HasRow, TypeOK,
         history
    <3>2. \A u \in UUID : SameConfig(devices'[u], devices[u])
      <4> SUFFICES ASSUME NEW u \in UUID
                   PROVE  SameConfig(devices'[u], devices[u])
        OBVIOUS
      <4>1. \/ devices'[u] = [devices[u] EXCEPT !.seen = 0, !.status = "online"]
            \/ devices'[u] = devices[u]
        BY <2>5, <3>1 DEF MarkSeen, TypeOK
      <4>2. devices[u] \in Row
        BY DEF TypeOK
      <4>3. SameConfig([devices[u] EXCEPT !.seen = 0, !.status = "online"],
                       devices[u])
        BY <4>2, OtherColumns, ZeroAge
      <4> QED
        BY <4>1, <4>2, <4>3, SameConfigItself
    <3> QED
      BY <3>1, <3>2, SameConfigsStep DEF SameConfig
  <2>6. CASE PutConfigTarSave(w)
    BY <2>6, PublishStep
  <2>7. CASE \/ RegisterReread(w) \/ RegisterReply(w) \/ ReconcileLoad(w)
             \/ ReconcileRender(w) \/ PutConfigTarRead(w) \/ GetChecksum(w)
             \/ ReportApplied(w)
    BY <1>1, <2>7 DEF RegisterReread, RegisterReply, ReconcileLoad,
       ReconcileRender, PutConfigTarRead, GetChecksum, ReportApplied, table,
       history
  <2> QED
    BY <1>2, <2>1, <2>2, <2>3, <2>4, <2>5, <2>6, <2>7 DEF Step
<1>3. ASSUME NEW w \in Worker, Arrive(w)
      PROVE  UNCHANGED Promise!abstractVars
  BY <1>1, <1>3 DEF Arrive, Register, Reconcile, Checksum, Download,
     ReportStatus, Adopt, table, history
<1>4. ASSUME NEW w \in Worker, OfflineSweep(w)
      PROVE  UNCHANGED Promise!abstractVars
  <2>1. ASSUME NEW u \in UUID
        PROVE  ConfigOf(devices'[u]) = ConfigOf(devices[u])
    <3>1. \/ devices'[u] = [devices[u] EXCEPT !.status = "offline"]
          \/ devices'[u] = devices[u]
      BY <1>4 DEF OfflineSweep
    <3>2. devices[u] \in Row
      BY DEF TypeOK
    <3>3. SameConfig([devices[u] EXCEPT !.status = "offline"], devices[u])
      BY <3>2, OtherColumns, ZeroAge
    <3> QED
      BY <3>1, <3>3 DEF SameConfig
  <2> QED
    BY <1>4, <2>1, SameConfigsStep DEF OfflineSweep, history
<1>5. ASSUME NEW w \in Worker, StatementFails(w)
      PROVE  UNCHANGED Promise!abstractVars
  BY <1>1, <1>5 DEF StatementFails, table, history
<1>6. ASSUME \E t \in Template : EditTemplates(t)
      PROVE  UNCHANGED Promise!abstractVars
  BY <1>1, <1>6 DEF EditTemplates, table, history
<1>7. ASSUME Tick
      PROVE  UNCHANGED Promise!abstractVars
  <2>1. ASSUME NEW u \in UUID
        PROVE  ConfigOf(devices'[u]) = ConfigOf(devices[u])
    <3>1. SameConfig(devices'[u], devices[u])
      BY <1>7, OlderSameConfig DEF Tick, TypeOK
    <3> QED
      BY <3>1 DEF SameConfig
  <2> QED
    BY <1>7, <2>1, SameConfigsStep DEF Tick, history
<1>8. ASSUME Crash
      PROVE  UNCHANGED Promise!abstractVars
  BY <1>1, <1>8 DEF Crash, table, history
<1>9. ASSUME UNCHANGED vars
      PROVE  UNCHANGED Promise!abstractVars
  BY <1>1, <1>9 DEF vars
<1> QED
  BY <1>2, <1>3, <1>4, <1>5, <1>6, <1>7, <1>8, <1>9 DEF Next

\* Whatever rows are saved from whatever copies, the configuration a device
\* has is, whole, one that was published for it, and each one published is
\* numbered after one that was.
THEOREM Refinement == Spec => ImplementsVersionedConfig
<1>1. Init => Promise!Init
  BY DEF Init, Promise!Init
<1> QED
  BY <1>1, AbstractStep, Invariance, PTL
     DEF Spec, ImplementsVersionedConfig, Promise!Spec
=============================================================================
