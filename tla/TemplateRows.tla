---------------------------- MODULE TemplateRows ----------------------------
(***************************************************************************)
(* The table config_templates and the forms of the admin pages that edit   *)
(* it, one statement per step (admin/handler.go, models/templates.go).     *)
(***************************************************************************)
EXTENDS Naturals

CONSTANTS
  Editor,          \* browsers, each waits for its answer
  Name, Document,  \* what a template may be called, and what it may say
  Form,            \* what they may submit
  NotJSON,         \* a document that is not JSON
  RowCap           \* bound: rows are created up to this id

ASSUME FormAssumption ==
  Form \subseteq [name : Name, priority : Nat, netjson : Document]
ASSUME RowCapAssumption == RowCap \in Nat

Id == 1 .. RowCap

\* gorm inserts the default of the column for a priority of 0.
Inserted(f) == IF f.priority = 0 THEN [f EXCEPT !.priority = 100] ELSE f

\* A row is what a form said, all of it.
Template == Form \cup {Inserted(f) : f \in Form}

\* A form: to create a row, to update one, read first and saved then, or to
\* delete one.
Edit == [pc : {"create"}, form : Form]
        \cup [pc : {"read", "save"}, id : Id, form : Form]
        \cup [pc : {"delete"}, id : Id]
NoEdit == [pc |-> "idle"]

VARIABLES
  rows,    \* the table, by id
  nextId,  \* the sequence of ids
  edits    \* the form each editor has submitted

rowVars == <<rows, nextId, edits>>

Editing(e) == edits[e].pc # "idle"
Done(e) == edits' = [edits EXCEPT ![e] = NoEdit]

-----------------------------------------------------------------------------
\* A name is taken by one row only.
Taken(name, id) == \E i \in DOMAIN rows \ {id} : rows[i].name = name

Put(id, t) ==
  rows' = [i \in DOMAIN rows \cup {id} |-> IF i = id THEN t ELSE rows[i]]

\* A form comes in. A new template that is not JSON is refused.
Submit(e, x) ==
  /\ ~Editing(e)
  /\ x.pc # "save"
  /\ x.pc = "create" => x.form.netjson # NotJSON
  /\ edits' = [edits EXCEPT ![e] = x]
  /\ UNCHANGED <<rows, nextId>>

APITemplateCreate(e) ==
  /\ edits[e].pc = "create"
  /\ nextId \in Id
  /\ nextId' = nextId + 1
  /\ IF Taken(edits[e].form.name, nextId)
     THEN UNCHANGED rows
     ELSE Put(nextId, Inserted(edits[e].form))
  /\ Done(e)

\* The row is read, then the document looked at.
APITemplateUpdate(e) ==
  /\ edits[e].pc = "read"
  /\ IF edits[e].id \in DOMAIN rows /\ edits[e].form.netjson # NotJSON
     THEN edits' = [edits EXCEPT ![e].pc = "save"]
     ELSE Done(e)
  /\ UNCHANGED <<rows, nextId>>

\* Slip: Updates in the place of Save leaves out what is zero.
SaveTemplateNonZero(e, driver) ==
  /\ edits[e].pc = "save"
  /\ LET id == edits[e].id
         f == edits[e].form
     IN IF id \in DOMAIN rows /\ ~Taken(f.name, id)
        THEN Put(id, IF f.priority = 0
                     THEN [f EXCEPT !.priority = rows[id].priority] ELSE f)
        ELSE UNCHANGED rows
  /\ Done(e)
  /\ UNCHANGED nextId

\* Save writes the whole row. When it is gone, it is inserted again; a row that
\* has the name by then makes that fail, or is overwritten where the database
\* takes any unique column for the conflict.
SaveTemplate(e, driver) ==
  /\ edits[e].pc = "save"
  /\ LET id == edits[e].id
         f == edits[e].form
     IN \/ /\ ~Taken(f.name, id)
           /\ Put(id, IF id \in DOMAIN rows THEN f ELSE Inserted(f))
        \/ /\ Taken(f.name, id)
           /\ IF id \in DOMAIN rows \/ driver # "mysql"
              THEN UNCHANGED rows
              ELSE \E i \in DOMAIN rows :
                     rows[i].name = f.name /\ Put(i, Inserted(f))
  /\ Done(e)
  /\ UNCHANGED nextId

APITemplateDelete(e) ==
  /\ edits[e].pc = "delete"
  /\ rows' = [i \in DOMAIN rows \ {edits[e].id} |-> rows[i]]
  /\ Done(e)
  /\ UNCHANGED nextId

\* A statement fails.
EditFails(e) == Editing(e) /\ Done(e) /\ UNCHANGED <<rows, nextId>>

EditStep(e, driver) ==
  \/ APITemplateCreate(e) \/ APITemplateUpdate(e) \/ SaveTemplate(e, driver)
  \/ APITemplateDelete(e) \/ EditFails(e)

\* The process ends: the table stays.
EditsLost ==
  /\ edits' = [e \in Editor |-> NoEdit]
  /\ UNCHANGED <<rows, nextId>>

RowsInit ==
  /\ rows = <<>> /\ nextId = 1
  /\ edits = [e \in Editor |-> NoEdit]

-----------------------------------------------------------------------------
RowsOK ==
  /\ DOMAIN rows \subseteq Id
  /\ nextId \in 1 .. RowCap + 1
  /\ edits \in [Editor -> Edit \cup {NoEdit}]
  /\ \A e \in Editor :
       edits[e].pc \in {"create", "save"} => edits[e].form.netjson # NotJSON

\* A row is what one form said, and JSON, although forms that change the same
\* row or its name, or delete it, come in between an update's two statements.
RowsWhole ==
  \A i \in DOMAIN rows :
    /\ rows[i] \in Template
    /\ rows[i].netjson # NotJSON

\* Rows have names of their own.
NamesUnique ==
  \A i, j \in DOMAIN rows : rows[i].name = rows[j].name => i = j
=============================================================================
