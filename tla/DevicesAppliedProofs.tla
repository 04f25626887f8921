------------------------ MODULE DevicesAppliedProofs ------------------------
(***************************************************************************)
(* Where last_applied_sum comes from: a proof, on top of the invariant of  *)
(* DevicesProofs, that it always is a checksum the device reported or, if  *)
(* it left the checksum blank, one of a configuration published for it.    *)
(***************************************************************************)
EXTENDS DevicesProofs

-----------------------------------------------------------------------------
\* The strengthening: a copy that is going to be saved, and a checksum that is
\* going to be recorded, come from a row or from an agent.
Writes == {"rc_save", "rs_save", "ra_save", "ad_create", "ad_save"}

Reported(sum, u, c, p) ==
  \/ sum = NoSum
  \/ sum \in c[u]
  \/ NoSum \in c[u] /\ \E x \in p[u] : sum = x.checksum

AppliedFits(r, c, p) ==
  /\ r.pc \in Writes => r.uuid \in UUID /\ Reported(r.d.applied, r.uuid, c, p)
  /\ r.pc = "ra_read" \/ (r.pc = "rs_save" /\ r.applied)
       => r.uuid \in UUID /\ r.sum \in c[r.uuid]

AppliedInv == /\ AppliedSumReported
              /\ \A w \in Worker : AppliedFits(req[w], claimed, published)

\* Neither reports nor published configurations are forgotten.
Grown == \A u \in UUID : /\ claimed[u] \subseteq claimed'[u]
                         /\ published[u] \subseteq published'[u]

\* What was reported stays reported.
LEMMA ReportedStill ==
  ASSUME Grown, NEW u \in UUID, NEW sum, Reported(sum, u, claimed, published)
  PROVE  Reported(sum, u, claimed', published')
BY DEF Grown, Reported

\* What a request holds still fits.
LEMMA FitsStill ==
  ASSUME Grown, NEW r, AppliedFits(r, claimed, published)
  PROVE  AppliedFits(r, claimed', published')
BY ReportedStill DEF AppliedFits, Grown

\* The requests of all workers but one stay what they are.
OnlyMoves(w) == \A v \in Worker \ {w} : req'[v] = req[v]

\* A step of one request keeps the invariant if that request and the rows do.
LEMMA AppliedRequestStep ==
  ASSUME TypeOK, AppliedInv, NEW w \in Worker, OnlyMoves(w),
         AppliedFits(req'[w], claimed', published'),
         Grown,
         \A u \in UUID : Reported(devices'[u].applied, u, claimed', published')
  PROVE  AppliedInv'
<1>1. AppliedSumReported'
  BY DEF AppliedSumReported, Reported
<1>2. ASSUME NEW v \in Worker PROVE AppliedFits(req[v], claimed, published)'
  BY FitsStill DEF OnlyMoves, AppliedInv
<1> QED
  BY <1>1, <1>2 DEF AppliedInv

\* The steps that record nothing.
Harmless == Label \ (Writes \cup {"ra_read"})

\* A request that goes on to a step that records nothing.
LEMMA HarmlessStep ==
  ASSUME TypeOK, AppliedInv, NEW w \in Worker, OnlyMoves(w),
         req'[w].pc \in Harmless,
         Grown,
         \A u \in UUID : Reported(devices'[u].applied, u, claimed', published')
  PROVE  AppliedInv'
<1>1. AppliedFits(req'[w], claimed', published')
  BY DEF Harmless, Writes, AppliedFits
<1> QED
  BY <1>1, AppliedRequestStep

\* What Become says of the requests.
LEMMA BecomeMoves ==
  ASSUME TypeOK, NEW w \in Worker, NEW f, Become(w, f)
  PROVE  OnlyMoves(w) /\ req'[w] = f
BY DEF TypeOK, Become, OnlyMoves

\* Labels of requests that record nothing.
LEMMA HarmlessLabels ==
  {"rg_insert", "rg_update", "rc_load", "rc_render", "rc_put", "rg_reread",
   "ck_read", "seen", "idle", "rg_reply"} \subseteq Harmless
BY DEF Harmless, Writes, Label

\* Where requests end and callers of the reconciler go on is harmless.
LEMMA ResumeHarmless ==
  ASSUME TypeOK, NEW w \in Worker, Resume(w) \/ Finish(w)
  PROVE  OnlyMoves(w) /\ req'[w].pc \in Harmless
<1> DEFINE g == [req[w] EXCEPT !.pc = AfterReconcile(req[w].op)]
<1>1. Idle.pc \in Harmless
  BY DEF Idle, Harmless, Writes, Label
<1>2. g.pc \in Harmless
  BY DEF TypeOK, Frame, AfterReconcile, Harmless, Writes, Label
<1>3. Become(w, Idle) \/ Become(w, g)
  BY DEF Resume, Finish, Goto
<1> QED
  BY <1>1, <1>2, <1>3, BecomeMoves

\* The rows keep what was reported for them.
LEMMA RowsReported ==
  ASSUME TypeOK, AppliedInv, Grown,
         \/ UNCHANGED devices
         \/ \E u \in UUID : \E d :
              Save(u, d) /\ Reported(d.applied, u, claimed, published)
         \/ \A u \in UUID : devices'[u].applied = devices[u].applied
  PROVE  \A u \in UUID : Reported(devices'[u].applied, u, claimed', published')
<1>1. \A u \in UUID : Reported(devices[u].applied, u, claimed, published)
  BY DEF AppliedInv, AppliedSumReported, Reported
<1>2. ASSUME NEW u \in UUID, NEW d, Save(u, d),
             Reported(d.applied, u, claimed, published), NEW v \in UUID
      PROVE  Reported(devices'[v].applied, v, claimed, published)
  <2>1. devices'[v] = IF v = u THEN d ELSE devices[v]
    BY <1>2 DEF Save, TypeOK
  <2> QED
    BY <1>1, <1>2, <2>1
<1>3. \A u \in UUID : Reported(devices'[u].applied, u, claimed, published)
  BY <1>1, <1>2
<1> QED
  BY <1>3, ReportedStill

-----------------------------------------------------------------------------
\* Each step records only what was reported.

\* At the start no row has a checksum.
LEMMA InitApplied == Init => AppliedInv
<1> SUFFICES ASSUME Init PROVE AppliedInv
  OBVIOUS
<1>1. AppliedSumReported
  BY DEF Init, AppliedSumReported, NoRow, NewRow
<1>2. \A w \in Worker : AppliedFits(req[w], claimed, published)
  BY DEF Init, AppliedFits, Idle, Writes
<1> QED
  BY <1>1, <1>2 DEF AppliedInv

\* Requests that arrive: a report brings the checksum it names, and that is
\* remembered; the row an adoption works on is a stored
\* or a new one.
LEMMA ArriveApplied ==
  ASSUME Inv, AppliedInv, NEW w \in Worker, Arrive(w)
  PROVE  AppliedInv'
<1>1. TypeOK
  BY DEF Inv
<1>2. UNCHANGED devices
  BY DEF Arrive, Register, Reconcile, Checksum, Download, ReportStatus, Adopt,
         table
<1>3. Grown
  <2>1. ASSUME NEW u \in UUID, NEW k, NEW st, NEW a, NEW sum,
               ReportStatus(w, u, k, st, a, sum)
        PROVE  Grown
    <3>1. claimed' = [claimed EXCEPT ![u] = @ \cup {x \in {sum} : a}]
          /\ published' = published
      BY <2>1 DEF ReportStatus
    <3> QED
      BY <1>1, <3>1 DEF TypeOK, Grown
  <2>2. CASE UNCHANGED <<claimed, published>>
    BY <2>2 DEF Grown
  <2> QED
    BY <2>1, <2>2 DEF Arrive, Register, Reconcile, Checksum, Download, Adopt,
       history
<1>4. \A u \in UUID : Reported(devices'[u].applied, u, claimed', published')
  BY <1>1, <1>2, <1>3, RowsReported
<1>5. CASE OnlyMoves(w) /\ req'[w].pc \in Harmless
  BY <1>1, <1>3, <1>4, <1>5, HarmlessStep
<1>6. ASSUME NEW k \in Key, NEW n \in Name \cup {NoName}, Register(w, k, n)
      PROVE  OnlyMoves(w) /\ req'[w].pc \in Harmless
  <2> DEFINE to(l, u) == [Idle EXCEPT !.pc = l, !.op = "register",
                                      !.uuid = u, !.key = k, !.name = n]
             new == [Idle EXCEPT !.pc = "rg_insert", !.op = "register",
                                 !.key = k, !.name = n]
  <2>1. \/ Become(w, new)
        \/ \E u \in WithKey(k), l \in {"rc_load", "rg_update"} :
             Become(w, to(l, u))
    BY <1>6 DEF Register
  <2>2. new.pc = "rg_insert" /\ \A l, u : to(l, u).pc = l
    BY DEF Idle
  <2> HIDE DEF new, to
  <2> QED
    BY <1>1, <2>1, <2>2, BecomeMoves, HarmlessLabels
<1>7. ASSUME NEW u \in UUID, Reconcile(w, u)
      PROVE  OnlyMoves(w) /\ req'[w].pc \in Harmless
  <2> DEFINE f == [Idle EXCEPT !.pc = "rc_load", !.op = "reconcile",
                               !.uuid = u]
  <2>1. Become(w, f) /\ f.pc = "rc_load"
    BY <1>7 DEF Reconcile, Idle
  <2> HIDE DEF f
  <2> QED
    BY <1>1, <2>1, BecomeMoves, HarmlessLabels
<1>8. ASSUME NEW u \in UUID, NEW k \in Key \cup {NoKey},
             Checksum(w, u, k) \/ Download(w, u, k)
      PROVE  OnlyMoves(w) /\ req'[w].pc \in Harmless
  <2> DEFINE f == [Idle EXCEPT !.pc = "rc_load", !.op = "checksum",
                               !.uuid = u, !.key = k]
             g == [Idle EXCEPT !.pc = "seen", !.op = "download", !.uuid = u]
  <2>1. Become(w, f) \/ Become(w, g)
    BY <1>8 DEF Checksum, Download
  <2>2. f.pc = "rc_load" /\ g.pc = "seen"
    BY DEF Idle
  <2> HIDE DEF f, g
  <2> QED
    BY <1>1, <2>1, <2>2, BecomeMoves, HarmlessLabels
<1>9. ASSUME NEW u \in UUID, NEW k \in Key \cup {NoKey},
             NEW st \in {"online", "offline"}, NEW a \in BOOLEAN,
             NEW sum \in ReportedSums \cup {NoSum},
             ReportStatus(w, u, k, st, a, sum)
      PROVE  AppliedInv'
  <2> DEFINE d == [devices[u] EXCEPT !.seen = 0, !.status = st]
             f == [Idle EXCEPT !.pc = "rs_save", !.op = "report", !.uuid = u,
                               !.key = k, !.applied = a, !.sum = sum, !.d = d]
  <2>1. d.applied = devices[u].applied
    BY <1>1 DEF TypeOK, Row
  <2>2. Reported(d.applied, u, claimed, published)
    BY <2>1 DEF AppliedInv, AppliedSumReported, Reported
  <2>3. a => sum \in claimed'[u]
    <3>1. claimed' = [claimed EXCEPT ![u] = @ \cup {x \in {sum} : a}]
      BY <1>9 DEF ReportStatus
    <3> QED
      BY <1>1, <3>1 DEF TypeOK
  <2>4. Become(w, f) /\ Reported(d.applied, u, claimed', published')
    BY <1>3, <1>9, <2>2, ReportedStill DEF ReportStatus
  <2> HIDE DEF d
  <2>5. AppliedFits(f, claimed', published')
    BY <2>3, <2>4 DEF AppliedFits, Writes, Idle
  <2> HIDE DEF f
  <2> QED
    BY <1>1, <1>3, <1>4, <2>4, <2>5, BecomeMoves, AppliedRequestStep
<1>10. ASSUME NEW u \in UUID, NEW n \in Name \cup {NoName}, Adopt(w, u, n)
       PROVE  AppliedInv'
  <2>1. \A d \in Row, m \in Name \cup {NoName} :
          [[d EXCEPT !.seen = 0, !.status = "online"]
             EXCEPT !.name = m].applied = d.applied
    BY DEF Row
  <2>2. devices[u] \in Row /\ NewRow(NoKey, n) \in Row
        /\ NewRow(NoKey, n).applied = NoSum
    BY <1>1, NewRowType DEF TypeOK, NewRow
  <2> DEFINE e == [[devices[u] EXCEPT !.seen = 0, !.status = "online"]
                     EXCEPT !.name = IF n = NoName THEN @ ELSE n]
             g == [NewRow(NoKey, n) EXCEPT !.seen = 0, !.status = "online"]
             to(l, d) == [Idle EXCEPT !.pc = l, !.op = "adopt", !.uuid = u,
                                      !.d = d]
  <2>3. /\ Become(w, to("ad_save", e)) \/ Become(w, to("ad_create", g))
        /\ UNCHANGED <<claimed, published>>
    BY <1>10 DEF Adopt, history
  <2>4. e.applied = devices[u].applied /\ g.applied = NoSum
    BY <2>2 DEF Row
  <2>5. /\ Reported(e.applied, u, claimed, published)
        /\ Reported(g.applied, u, claimed, published)
    BY <2>4 DEF AppliedInv, AppliedSumReported, Reported
  <2> HIDE DEF e, g
  <2>6. AppliedFits(to("ad_save", e), claimed', published')
        /\ AppliedFits(to("ad_create", g), claimed', published')
    BY <2>3, <2>5 DEF AppliedFits, Writes, Idle
  <2> HIDE DEF to
  <2> QED
    BY <1>1, <1>3, <1>4, <2>3, <2>6, BecomeMoves, AppliedRequestStep
<1> QED
  BY <1>5, <1>6, <1>7, <1>8, <1>9, <1>10 DEF Arrive

\* Requests under way: who saves a row saves one whose checksum was reported.
LEMMA StepApplied ==
  ASSUME Inv, AppliedInv, NEW w \in Worker, Step(w)
  PROVE  AppliedInv'
<1> DEFINE r == req[w]
<1>1. /\ TypeOK /\ r \in Frame /\ FrameFits(r)
      /\ AppliedFits(r, claimed, published)
  BY DEF Inv, TypeOK, RequestsFit, AppliedInv
<1>2. claimed' = claimed
  BY DEF Step, RegisterUpdate, RegisterInsert, RegisterReread, RegisterReply,
     ReconcileLoad, ReconcileRender, PutConfigTarRead, PutConfigTarSave,
     GetChecksum, MarkSeen, ReportStatusSave, ReportApplied,
     ReportAppliedSave, AdoptCreate, AdoptSave, history
<1>3. Grown
  <2>1. \A u, v \in UUID : \A x :
          published[v] \subseteq [published EXCEPT ![u] = @ \cup {x}][v]
    BY <1>1 DEF TypeOK
  <2>2. PutConfigTarSave(w) => r.uuid \in UUID
    BY <1>1 DEF PutConfigTarSave, At, AppliedFits, Writes
  <2>3. published' = published \/ PutConfigTarSave(w)
    BY DEF Step, RegisterUpdate, RegisterInsert, RegisterReread, RegisterReply,
       ReconcileLoad, ReconcileRender, PutConfigTarRead, GetChecksum, MarkSeen,
       ReportStatusSave, ReportApplied, ReportAppliedSave, AdoptCreate,
       AdoptSave, history
  <2> QED
    BY <1>2, <2>1, <2>2, <2>3 DEF Grown, PutConfigTarSave
<1>4. \A u \in UUID : Reported(devices[u].applied, u, claimed, published)
  BY DEF AppliedInv, AppliedSumReported, Reported
<1>5. \A u \in UUID : Reported(devices'[u].applied, u, claimed', published')
  <2>1. CASE UNCHANGED devices
    BY <1>1, <1>3, <2>1, RowsReported
  <2>2. CASE RegisterUpdate(w)
    <3>1. r.uuid \in UUID
      BY <1>1, <2>2 DEF RegisterUpdate, At, FrameFits, RowFits, HasRow, TypeOK
    <3>2. \A u \in UUID : devices'[u].applied = devices[u].applied
      BY <1>1, <2>2, <3>1 DEF RegisterUpdate, TypeOK, Row
    <3> QED
      BY <1>1, <1>3, <3>2, RowsReported
  <2>3. CASE RegisterInsert(w)
    <3>1. \/ UNCHANGED devices
          \/ \E u \in UUID : Save(u, NewRow(r.key, r.name))
      BY <2>3 DEF RegisterInsert, UnusedUUIDs, table
    <3>2. \A u \in UUID : Reported(NewRow(r.key, r.name).applied, u, claimed,
                                 published)
      BY DEF NewRow, Reported
    <3> QED
      BY <1>1, <1>3, <3>1, <3>2, RowsReported
  <2>4. CASE MarkSeen(w)
    <3>1. r.uuid \in UUID
      BY <1>1, <2>4 DEF MarkSeen, At, FrameFits, RowFits, HasRow, TypeOK
    <3>2. \A u \in UUID : devices'[u].applied = devices[u].applied
      BY <1>1, <2>4, <3>1 DEF MarkSeen, TypeOK, Row
    <3> QED
      BY <1>1, <1>3, <3>2, RowsReported
  <2>5. CASE r.pc \in Writes /\ Save(r.uuid, r.d)
    BY <1>1, <1>3, <2>5, RowsReported DEF AppliedFits
  <2> QED
    BY <2>1, <2>2, <2>3, <2>4, <2>5
       DEF Step, RegisterReread, RegisterReply, ReconcileLoad,
       ReconcileRender, PutConfigTarRead, PutConfigTarSave, GetChecksum,
       ReportStatusSave, ReportApplied, ReportAppliedSave, AdoptCreate,
       AdoptSave, At, Writes, table
<1>6. CASE OnlyMoves(w) /\ req'[w].pc \in Harmless
  BY <1>1, <1>5, <1>3, <1>6, HarmlessStep
<1>7. ASSUME NEW l, Goto(w, l)
      PROVE  OnlyMoves(w) /\ req'[w].pc = l
  <2> DEFINE f == [r EXCEPT !.pc = l]
  <2>1. Become(w, f) /\ f.pc = l
    BY <1>1, <1>7 DEF Goto, Frame
  <2> HIDE DEF f
  <2> QED
    BY <1>1, <2>1, BecomeMoves
<1>8. ASSUME NEW l, NEW d, Keep(w, l, d)
      PROVE  /\ OnlyMoves(w) /\ req'[w].pc = l /\ req'[w].d = d
             /\ req'[w].uuid = r.uuid
  <2> DEFINE f == [r EXCEPT !.pc = l, !.d = d]
  <2>1. Become(w, f) /\ f.pc = l /\ f.d = d /\ f.uuid = r.uuid
    BY <1>1, <1>8 DEF Keep, Frame
  <2> HIDE DEF f
  <2> QED
    BY <1>1, <2>1, BecomeMoves
<1>9. CASE Resume(w) \/ Finish(w)
  BY <1>1, <1>6, <1>9, ResumeHarmless
<1>10. CASE RegisterUpdate(w)
  BY <1>6, <1>7, <1>10, HarmlessLabels DEF RegisterUpdate
<1>11. CASE RegisterInsert(w)
  <2>1. CASE Goto(w, "rg_reread")
    BY <1>6, <1>7, <2>1, HarmlessLabels
  <2>2. ASSUME NEW u, Become(w, [r EXCEPT !.pc = "rc_load", !.uuid = u])
        PROVE  AppliedInv'
    <3> DEFINE f == [r EXCEPT !.pc = "rc_load", !.uuid = u]
    <3>1. Become(w, f) /\ f.pc = "rc_load"
      BY <1>1, <2>2 DEF Frame
    <3> HIDE DEF f
    <3> QED
      BY <1>1, <1>6, <3>1, BecomeMoves, HarmlessLabels
  <2> QED
    BY <1>11, <2>1, <2>2 DEF RegisterInsert
<1>12. CASE RegisterReread(w)
  <2>1. PICK u : Become(w, [r EXCEPT !.pc = "rc_load", !.uuid = u])
    BY <1>12 DEF RegisterReread
  <2> DEFINE f == [r EXCEPT !.pc = "rc_load", !.uuid = u]
  <2>2. Become(w, f) /\ f.pc = "rc_load"
    BY <1>1, <2>1 DEF Frame
  <2> HIDE DEF f
  <2> QED
    BY <1>1, <1>6, <2>2, BecomeMoves, HarmlessLabels
<1>13. CASE ReconcileLoad(w)
  BY <1>6, <1>8, <1>9, <1>13, HarmlessLabels DEF ReconcileLoad
<1>14. CASE ReconcileRender(w)
  <2> DEFINE tar == Render(r.d, templates)
             f == [r EXCEPT !.pc = "rc_put", !.tar = tar,
                            !.ver = NextVersion(r.d.version), !.d = NoRow]
  <2>1. Resume(w) \/ Become(w, f)
    BY <1>14 DEF ReconcileRender
  <2>2. f.pc = "rc_put"
    BY <1>1 DEF Frame
  <2> HIDE DEF f
  <2> QED
    BY <1>1, <1>6, <1>9, <2>1, <2>2, BecomeMoves, HarmlessLabels
<1>15. CASE PutConfigTarRead(w)
  <2> DEFINE e == devices[r.uuid]
             d == [e EXCEPT !.archive = r.tar, !.checksum = Sha256(r.tar),
                            !.version = r.ver]
  <2>1. r.uuid \in UUID
    BY <1>1, <1>15 DEF PutConfigTarRead, At, FrameFits, RowFits, HasRow,
       TypeOK
  <2>2. d.applied = e.applied
    BY <1>1, <2>1 DEF TypeOK, Row
  <2>3. Keep(w, "rc_save", d)
    BY <1>15 DEF PutConfigTarRead
  <2> HIDE DEF d
  <2>4. AppliedFits(req'[w], claimed', published')
    BY <1>4, <1>3, <1>8, <2>1, <2>2, <2>3, ReportedStill
       DEF AppliedFits, Writes
  <2> QED
    BY <1>1, <1>5, <1>3, <1>8, <2>3, <2>4, AppliedRequestStep
<1>16. CASE GetChecksum(w)
  <2> DEFINE f == [r EXCEPT !.pc = "seen", !.d = NoRow]
  <2>1. Finish(w) \/ Become(w, f)
    BY <1>16 DEF GetChecksum
  <2>2. f.pc = "seen"
    BY <1>1 DEF Frame
  <2> HIDE DEF f
  <2> QED
    BY <1>1, <1>6, <1>9, <2>1, <2>2, BecomeMoves, HarmlessLabels
<1>17. CASE ReportStatusSave(w)
  <2> DEFINE f == [r EXCEPT !.pc = "ra_read", !.d = NoRow]
  <2>1. Finish(w) \/ (r.applied /\ Become(w, f))
    BY <1>17 DEF ReportStatusSave
  <2>2. f.pc = "ra_read" /\ f.uuid = r.uuid /\ f.sum = r.sum
    BY <1>1 DEF Frame
  <2>3. r.pc = "rs_save"
    BY <1>17 DEF ReportStatusSave, At
  <2> HIDE DEF f
  <2>4. ASSUME r.applied, Become(w, f)
        PROVE  AppliedFits(req'[w], claimed', published')
    <3>1. AppliedFits(f, claimed', published')
      BY <1>1, <1>2, <2>2, <2>3, <2>4 DEF AppliedFits, Writes
    <3> QED
      BY <1>1, <2>4, <3>1, BecomeMoves
  <2> QED
    BY <1>1, <1>5, <1>3, <1>9, <2>1, <2>4, BecomeMoves, AppliedRequestStep
<1>18. CASE ReportApplied(w)
  <2>1. CASE Finish(w)
    BY <1>9, <2>1
  <2>2. CASE ~Finish(w)
    <3> DEFINE a == IF r.sum = NoSum THEN devices[r.uuid].checksum
                    ELSE r.sum
               d == [devices[r.uuid] EXCEPT !.applied = a, !.status = "online"]
    <3>1. Keep(w, "ra_save", d)
      BY <1>18, <2>2 DEF ReportApplied
    <3>2. r.uuid \in UUID /\ r.sum \in claimed[r.uuid]
      BY <1>1, <1>18 DEF ReportApplied, At, AppliedFits
    <3>3. ConfigOf(devices[r.uuid]) \in published[r.uuid]
      BY <3>2 DEF Inv, RowsPublished
    <3>4. Reported(a, r.uuid, claimed, published)
      BY <3>2, <3>3 DEF Reported, ConfigOf
    <3>5. d.applied = a
      BY <1>1, <3>2 DEF TypeOK, Row
    <3> HIDE DEF d
    <3>6. AppliedFits(req'[w], claimed', published')
      BY <1>3, <1>8, <3>1, <3>2, <3>4, <3>5, ReportedStill
         DEF AppliedFits, Writes
    <3> QED
      BY <1>1, <1>5, <1>3, <1>8, <3>1, <3>6, AppliedRequestStep
  <2> QED
    BY <2>1, <2>2
<1>19. CASE MarkSeen(w) \/ RegisterReply(w) \/ PutConfigTarSave(w)
            \/ ReportAppliedSave(w) \/ AdoptCreate(w) \/ AdoptSave(w)
  BY <1>9, <1>19 DEF MarkSeen, RegisterReply, PutConfigTarSave,
     ReportAppliedSave, AdoptCreate, AdoptSave
<1> QED
  BY <1>10, <1>11, <1>12, <1>13, <1>14, <1>15, <1>16, <1>17, <1>18, <1>19
     DEF Step

\* The sweeper, time, edits, failures and restarts leave last_applied_sum,
\* in rows and in copies, as it is.
LEMMA OthersApplied ==
  ASSUME Inv, AppliedInv,
         \/ \E w \in Worker : OfflineSweep(w) \/ StatementFails(w)
         \/ \E t \in Template : EditTemplates(t)
         \/ Tick \/ Crash \/ UNCHANGED vars
  PROVE  AppliedInv'
<1>1. TypeOK
  BY DEF Inv
<1>2. UNCHANGED <<claimed, published>>
  BY DEF OfflineSweep, StatementFails, EditTemplates, Tick, Crash, vars,
         history
<1>3. \A u \in UUID : devices'[u].applied = devices[u].applied
  <2>1. CASE \E w \in Worker : OfflineSweep(w)
    BY <1>1, <2>1 DEF OfflineSweep, TypeOK, Row
  <2>2. CASE Tick
    BY <1>1, <2>2 DEF Tick, TypeOK, Row
  <2> QED
    BY <2>1, <2>2 DEF StatementFails, EditTemplates, Crash, vars, table
<1>4. Grown /\ AppliedSumReported'
  BY <1>2, <1>3 DEF AppliedInv, AppliedSumReported, Grown
<1>5. \A u \in UUID : Reported(devices'[u].applied, u, claimed', published')
  BY <1>4 DEF AppliedSumReported, Reported
<1>6. ASSUME NEW w \in Worker, StatementFails(w)
      PROVE  AppliedInv'
  <2>1. CASE Resume(w) \/ Finish(w)
    BY <1>1, <1>4, <1>5, <2>1, ResumeHarmless, HarmlessStep
  <2>2. CASE Goto(w, "rc_load")
    <3> DEFINE f == [req[w] EXCEPT !.pc = "rc_load"]
    <3>1. Become(w, f) /\ f.pc = "rc_load"
      BY <1>1, <2>2 DEF Goto, TypeOK, Frame
    <3> HIDE DEF f
    <3>2. OnlyMoves(w) /\ req'[w].pc \in Harmless
      BY <1>1, <3>1, BecomeMoves, HarmlessLabels
    <3> QED
      BY <1>1, <1>4, <1>5, <3>2, HarmlessStep
  <2> QED
    BY <1>6, <2>1, <2>2 DEF StatementFails
<1>7. CASE \E w \in Worker : StatementFails(w)
  BY <1>6, <1>7
<1>8. CASE ~\E w \in Worker : StatementFails(w)
  <2>1. ASSUME NEW v \in Worker PROVE AppliedFits(req[v], claimed, published)'
    <3>1. AppliedFits(req[v], claimed, published)
      BY DEF AppliedInv
    <3>2. CASE Crash
      BY <1>2, <3>2 DEF Crash, Idle, AppliedFits, Writes
    <3>3. CASE Tick
      <4>1. /\ req'[v].pc = req[v].pc /\ req'[v].uuid = req[v].uuid
            /\ req'[v].applied = req[v].applied /\ req'[v].sum = req[v].sum
            /\ req'[v].d.applied = req[v].d.applied
        BY <1>1, <3>3 DEF Tick, TypeOK, Frame, Row
      <4> QED
        BY <1>2, <3>1, <4>1 DEF AppliedFits
    <3> QED
      BY <1>2, <1>8, <3>1, <3>2, <3>3 DEF OfflineSweep, EditTemplates, vars
  <2> QED
    BY <1>4, <2>1 DEF AppliedInv
<1> QED
  BY <1>7, <1>8

\* Whatever strings agents send, the checksum recorded as applied is one this
\* device reported or, if it left the checksum blank in a report, the one of a
\* configuration published for it: copies of rows that were read before, saved
\* in any order, and statements that fail record no other.
THEOREM AppliedSumsReported == Spec => []AppliedSumReported
<1>1. Init => Inv /\ AppliedInv
  BY InitInv, InitApplied
<1>2. Inv /\ AppliedInv /\ [Next]_vars => (Inv /\ AppliedInv)'
  <2>1. Inv /\ AppliedInv /\ [Next]_vars => AppliedInv'
    BY ArriveApplied, StepApplied, OthersApplied DEF Next
  <2> QED
    BY <2>1, InvNext
<1>3. Inv /\ AppliedInv => AppliedSumReported
  BY DEF AppliedInv
<1> QED
  BY <1>1, <1>2, <1>3, PTL DEF Spec
=============================================================================
