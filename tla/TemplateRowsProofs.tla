------------------------- MODULE TemplateRowsProofs -------------------------
(***************************************************************************)
(* Lemmas about TemplateRows: each of its steps keeps its invariant, for   *)
(* every set of forms and every number of editors.                         *)
(***************************************************************************)
EXTENDS TemplateRows, TLAPS

USE FormAssumption, RowCapAssumption

RowsInv == RowsOK /\ RowsWhole /\ NamesUnique

\* The table begins empty.
LEMMA RowsInitInv == RowsInit => RowsInv
BY DEF RowsInit, RowsInv, RowsOK, RowsWhole, NamesUnique, NoEdit

\* The end of the process leaves the table as it is.
LEMMA EditsLostInv == RowsInv /\ EditsLost => RowsInv'
BY DEF EditsLost, RowsInv, RowsOK, RowsWhole, NamesUnique, NoEdit

\* Inserting a form keeps its name and its document.
LEMMA InsertedForm ==
  ASSUME NEW f \in Form
  PROVE  /\ f \in Template /\ Inserted(f) \in Template
         /\ Inserted(f).name = f.name /\ Inserted(f).netjson = f.netjson
<1>1. f \in [name : Name, priority : Nat, netjson : Document]
  OBVIOUS
<1>2. Inserted(f).name = f.name /\ Inserted(f).netjson = f.netjson
  BY <1>1 DEF Inserted
<1> QED
  BY <1>2 DEF Template

\* Writing a row whose name no other row has.
LEMMA PutRow ==
  ASSUME RowsInv, NEW id \in Id, NEW t \in Template, t.netjson # NotJSON,
         \A i \in DOMAIN rows \ {id} : rows[i].name # t.name, Put(id, t)
  PROVE  RowsWhole' /\ NamesUnique' /\ DOMAIN rows' \subseteq Id
<1>1. rows' = [i \in DOMAIN rows \cup {id} |-> IF i = id THEN t ELSE rows[i]]
  BY DEF Put
<1>2. DOMAIN rows' = DOMAIN rows \cup {id} /\ rows'[id] = t
      /\ \A i \in DOMAIN rows \ {id} : rows'[i] = rows[i]
  BY <1>1
<1>3. RowsWhole'
  BY <1>2 DEF RowsInv, RowsWhole
<1>4. NamesUnique'
  BY <1>2 DEF RowsInv, NamesUnique
<1> QED
  BY <1>2, <1>3, <1>4 DEF RowsInv, RowsOK

\* A form that is done with, the table being whole.
LEMMA DoneInv ==
  ASSUME RowsInv, NEW e \in Editor, Done(e), nextId' \in 1 .. RowCap + 1,
         RowsWhole', NamesUnique', DOMAIN rows' \subseteq Id
  PROVE  RowsInv'
BY DEF RowsInv, RowsOK, Done, NoEdit

\* The same when nothing was written.
LEMMA UnwrittenInv ==
  ASSUME RowsInv, NEW e \in Editor, Done(e), nextId' \in 1 .. RowCap + 1,
         rows' = rows
  PROVE  RowsInv'
<1>1. RowsWhole' /\ NamesUnique' /\ DOMAIN rows' \subseteq Id
  BY DEF RowsInv, RowsOK, RowsWhole, NamesUnique
<1> QED
  BY <1>1, DoneInv

\* A form comes in.
LEMMA SubmitInv ==
  ASSUME RowsInv, NEW e \in Editor, NEW x \in Edit, Submit(e, x)
  PROVE  RowsInv'
BY DEF RowsInv, RowsOK, RowsWhole, NamesUnique, Submit, Edit, NoEdit

\* A row is created unless its name is taken.
LEMMA CreateInv ==
  ASSUME RowsInv, NEW e \in Editor, APITemplateCreate(e)
  PROVE  RowsInv'
<1> DEFINE f == edits[e].form
<1>1. /\ edits[e].pc = "create" /\ nextId \in Id /\ nextId' = nextId + 1
      /\ Done(e)
  BY DEF APITemplateCreate
<1>2. f \in Form /\ f.netjson # NotJSON
  BY <1>1 DEF RowsInv, RowsOK, Edit, NoEdit
<1>3. nextId' \in 1 .. RowCap + 1
  BY <1>1 DEF Id
<1>4. CASE Taken(f.name, nextId)
  BY <1>1, <1>3, <1>4, UnwrittenInv DEF APITemplateCreate
<1>5. CASE ~Taken(f.name, nextId)
  <2>1. Put(nextId, Inserted(f))
    BY <1>5 DEF APITemplateCreate
  <2>2. RowsWhole' /\ NamesUnique' /\ DOMAIN rows' \subseteq Id
    BY <1>1, <1>2, <1>5, <2>1, InsertedForm, PutRow DEF Taken
  <2> QED
    BY <1>1, <1>3, <2>2, DoneInv
<1> QED
  BY <1>4, <1>5

\* The row is read.
LEMMA UpdateInv ==
  ASSUME RowsInv, NEW e \in Editor, APITemplateUpdate(e)
  PROVE  RowsInv'
<1>1. edits[e].pc = "read" /\ UNCHANGED <<rows, nextId>>
  BY DEF APITemplateUpdate
<1>2. edits[e] \in [pc : {"read", "save"}, id : Id, form : Form]
  BY <1>1 DEF RowsInv, RowsOK, Edit, NoEdit
<1>3. CASE Done(e)
  BY <1>1, <1>3, UnwrittenInv DEF RowsInv, RowsOK
<1>4. CASE edits' = [edits EXCEPT ![e].pc = "save"]
           /\ edits[e].form.netjson # NotJSON
  <2> DEFINE x == [edits[e] EXCEPT !.pc = "save"]
  <2>1. x \in Edit /\ x.pc = "save" /\ x.form = edits[e].form
    BY <1>2 DEF Edit
  <2>2. edits' = [edits EXCEPT ![e] = x]
    BY <1>4
  <2> HIDE DEF x
  <2> QED
    BY <1>1, <1>4, <2>1, <2>2 DEF RowsInv, RowsOK, RowsWhole, NamesUnique
<1> QED
  BY <1>3, <1>4 DEF APITemplateUpdate

\* The row is saved, inserted again, or another one that has its name is
\* overwritten.
LEMMA SaveInv ==
  ASSUME RowsInv, NEW e \in Editor, NEW driver, SaveTemplate(e, driver)
  PROVE  RowsInv'
<1> DEFINE f == edits[e].form
           id == edits[e].id
<1>1. edits[e].pc = "save" /\ Done(e) /\ nextId' = nextId
  BY DEF SaveTemplate
<1>2. f \in Form /\ f.netjson # NotJSON /\ id \in Id
  BY <1>1 DEF RowsInv, RowsOK, Edit, NoEdit
<1>3. nextId' \in 1 .. RowCap + 1
  BY <1>1 DEF RowsInv, RowsOK
<1>4. ASSUME NEW i \in Id, NEW t \in {f, Inserted(f)}, Put(i, t),
             \A j \in DOMAIN rows \ {i} : rows[j].name # f.name
      PROVE  RowsInv'
  <2>1. t \in Template /\ t.name = f.name /\ t.netjson # NotJSON
    BY <1>2, InsertedForm
  <2>2. RowsWhole' /\ NamesUnique' /\ DOMAIN rows' \subseteq Id
    BY <1>4, <2>1, PutRow
  <2> QED
    BY <1>1, <1>3, <2>2, DoneInv
<1>5. CASE ~Taken(f.name, id)
  <2>1. PICK t \in {f, Inserted(f)} : Put(id, t)
    BY <1>5 DEF SaveTemplate
  <2> QED
    BY <1>2, <1>4, <1>5, <2>1 DEF Taken
<1>6. CASE Taken(f.name, id) /\ rows' = rows
  BY <1>1, <1>3, <1>6, UnwrittenInv
<1>7. ASSUME NEW i \in DOMAIN rows, rows[i].name = f.name, Put(i, Inserted(f))
      PROVE  RowsInv'
  <2>1. i \in Id /\ \A j \in DOMAIN rows \ {i} : rows[j].name # f.name
    BY <1>7 DEF RowsInv, RowsOK, NamesUnique
  <2> QED
    BY <1>4, <1>7, <2>1
<1> QED
  BY <1>5, <1>6, <1>7 DEF SaveTemplate

\* A row is deleted.
LEMMA DeleteInv ==
  ASSUME RowsInv, NEW e \in Editor, APITemplateDelete(e)
  PROVE  RowsInv'
<1>1. /\ Done(e) /\ nextId' = nextId
      /\ rows' = [i \in DOMAIN rows \ {edits[e].id} |-> rows[i]]
  BY DEF APITemplateDelete
<1>2. RowsWhole' /\ NamesUnique' /\ DOMAIN rows' \subseteq Id
  BY <1>1 DEF RowsInv, RowsOK, RowsWhole, NamesUnique
<1> QED
  BY <1>1, <1>2, DoneInv DEF RowsInv, RowsOK

\* Every step of a form.
LEMMA EditStepInv ==
  ASSUME RowsInv, NEW e \in Editor, NEW driver, EditStep(e, driver)
  PROVE  RowsInv'
<1>1. CASE EditFails(e)
  BY <1>1, UnwrittenInv DEF EditFails, RowsInv, RowsOK
<1> QED
  BY <1>1, CreateInv, UpdateInv, SaveInv, DeleteInv DEF EditStep
=============================================================================
