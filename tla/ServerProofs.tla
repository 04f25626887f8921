---------------------------- MODULE ServerProofs ----------------------------
(***************************************************************************)
(* Proofs about Server, for every set of callers, devices, editors, forms  *)
(* and secrets: its inductive invariant, what follows from it, and that    *)
(* the store implements Directory whenever the process is stopped.         *)
(***************************************************************************)
EXTENDS Server, OWStoreProofs, TemplateRowsProofs

\* What the invariant says of the process and of who is under way.
Process ==
  /\ phase \in Phase /\ config \in Config
  /\ signalled \in BOOLEAN /\ broken \in BOOLEAN /\ exit \in Exit
  /\ Accepted(config)
  /\ phase \in {"draining", "late"} => signalled

Called ==
  \A w \in Caller :
    Busy(w) => /\ ~HasDB /\ phase \in {"serving", "draining", "late"}
               /\ calls[w].bearer = config.secret

Edited ==
  \A e \in Editor :
    Editing(e) => HasDB /\ phase \in {"serving", "draining", "late"}

\* The invariant, by its parts.
LEMMA InvParts == Inv <=> Process /\ StoreInv /\ RowsInv /\ Called /\ Edited
BY DEF Inv, TypeOK, Process, StoreInv, RowsInv, Called, Edited

\* The same after a step.
LEMMA InvPartsNext ==
  Inv' <=> Process' /\ StoreInv' /\ RowsInv' /\ Called' /\ Edited'
BY DEF Inv, TypeOK, Process, StoreInv, RowsInv, Called, Edited

\* The names of phases and ends.
LEMMA Names ==
  /\ Phase = {"down", "starting", "binding", "serving", "draining", "late"}
  /\ Exit = {"none", "killed", "http error", "panic", "drained", "deadline"}
  /\ Idle.pc = "idle" /\ NoEdit.pc = "idle"
BY DEF Phase, Exit, Idle, NoEdit

\* A call under way keeps its secret, or ends.
LEMMA BearerStays ==
  ASSUME StoreInv, NEW w \in Caller, Work(w) \/ Acquire(w), NEW v \in Caller
  PROVE  Busy(v)' => Busy(v) /\ calls'[v].bearer = calls[v].bearer
<1>1. StoreOK /\ {"enter", "insert", "checksum", "unlock"} \subseteq Label
  BY Labels DEF StoreInv
<1>2. ASSUME NEW l \in Label, Busy(w), Goto(w, l)
      PROVE  Busy(v)' => Busy(v) /\ calls'[v].bearer = calls[v].bearer
  <2>1. calls'[w].bearer = calls[w].bearer
        /\ \A u \in Caller \ {w} : calls'[u] = calls[u]
    BY <1>1, <1>2, GotoCall
  <2> QED
    BY <1>2, <2>1 DEF Busy
<1>3. CASE Unlock(w)
  <2>1. calls'[w] = Idle /\ \A u \in Caller \ {w} : calls'[u] = calls[u]
    BY <1>1, <1>3 DEF Unlock, Finish, StoreOK
  <2> QED
    BY <2>1, Names DEF Busy
<1>4. CASE \/ Acquire(w) \/ Adopt(w) \/ AdoptInsert(w) \/ GetConfig(w)
           \/ AckConfig(w) \/ AckConfigSum(w)
  <2>1. Busy(w)
    BY <1>4 DEF Acquire, Adopt, AdoptInsert, GetConfig, AckConfig, AckConfigSum,
                Busy
  <2>2. \E l \in {"enter", "insert", "checksum", "unlock"} : Goto(w, l)
    BY <1>4 DEF Acquire, Adopt, AdoptInsert, GetConfig, AckConfig, AckConfigSum
  <2> QED
    BY <1>1, <1>2, <2>1, <2>2
<1> QED
  BY <1>3, <1>4 DEF Work

\* A form under way is still the same editor's, or ends.
LEMMA EditStays ==
  ASSUME RowsInv, NEW e \in Editor, NEW driver, EditStep(e, driver),
         NEW x \in Editor
  PROVE  Editing(x)' => Editing(x)
<1>1. Editing(e)
  BY DEF EditStep, APITemplateCreate, APITemplateUpdate, SaveTemplate,
         APITemplateDelete, EditFails, Editing
<1>2. \A y \in Editor \ {e} : edits'[y] = edits[y]
  BY DEF EditStep, APITemplateCreate, APITemplateUpdate, SaveTemplate,
         APITemplateDelete, EditFails, Done, RowsInv, RowsOK
<1> QED
  BY <1>1, <1>2 DEF Editing

\* When the process ends nobody is under way.
LEMMA EndsInv ==
  ASSUME Inv, NEW reason \in Exit, Ends(reason)
  PROVE  Inv'
<1>1. Process'
  BY InvParts, Names DEF Ends, Process, Accepted
<1>2. StoreInv' /\ RowsInv'
  BY InvParts, StoreLostInv, EditsLostInv DEF Ends
<1>3. Called' /\ Edited'
  BY Names DEF Ends, StoreLost, EditsLost, Called, Edited, Busy, Editing
<1> QED
  BY <1>1, <1>2, <1>3, InvPartsNext

\* Steps of the process that touch neither store nor table.
LEMMA AwayInv ==
  ASSUME Inv, Process', UNCHANGED <<storeVars, rowVars>>,
         \/ ~InFlight
         \/ UNCHANGED config /\ (phase' \in {"serving", "draining", "late"}
                                 \/ UNCHANGED phase)
  PROVE  Inv'
<1>1. StoreInv' /\ RowsInv'
  BY InvParts DEF storeVars, rowVars, StoreInv, RowsInv, StoreOK, RowsOK,
     LockHeld, Numbered, RowsWhole, NamesUnique, Busy, Writing, Found
<1>2. Called' /\ Edited'
  BY InvParts DEF storeVars, rowVars, Called, Edited, Busy, Editing, HasDB,
     InFlight
<1> QED
  BY <1>1, <1>2, InvPartsNext

\* Nobody is under way before the process listens.
LEMMA Quiet ==
  ASSUME Inv, phase \notin {"serving", "draining", "late"}
  PROVE  ~InFlight
BY InvParts DEF Called, Edited, InFlight

\* A step of the process itself keeps the invariant.
LEMMA ProcessInv ==
  ASSUME Inv,
         \/ \E c \in Config : Initialize(c)
         \/ Run \/ Bind \/ ListenFails \/ Fatal \/ Signal \/ Stopping
         \/ SweeperPanics \/ Killed
  PROVE  Inv'
<1>1. ASSUME NEW c \in Config, Initialize(c) PROVE Inv'
  <2>1. ~InFlight
    BY <1>1, Quiet DEF Initialize
  <2>2. Process'
    BY <1>1, Names DEF Initialize, Process, Accepted
  <2> QED
    BY <1>1, <2>1, <2>2, AwayInv DEF Initialize
<1>2. ASSUME NEW p \in Phase, Enter(p),
             p \in {"draining", "late"} => signalled,
             ~InFlight \/ p \in {"serving", "draining", "late"}
      PROVE  Inv'
  <2>1. Process'
    BY <1>2, InvParts DEF Enter, Process, Accepted
  <2> QED
    BY <1>2, <2>1, AwayInv DEF Enter
<1>3. CASE Run
  BY <1>2, <1>3, Quiet, Names DEF Run
<1>4. CASE Bind
  BY <1>2, <1>4, Names DEF Bind
<1>5. CASE Shutdown \/ DeadlinePasses
  BY <1>2, <1>5, InvParts, Names DEF Shutdown, DeadlinePasses, Process
<1>6. CASE Fatal \/ Drained \/ GiveUp \/ SweeperPanics \/ Killed
  BY <1>6, EndsInv, Names DEF Fatal, Drained, GiveUp, SweeperPanics, Killed
<1>7. CASE Signal \/ ListenFails
  <2>1. Process'
    BY <1>7, InvParts DEF Signal, ListenFails, Process, Accepted
  <2> QED
    BY <1>7, <2>1, AwayInv DEF Signal, ListenFails
<1> QED
  BY <1>1, <1>3, <1>4, <1>5, <1>6, <1>7 DEF Stopping

\* A request that comes in, of either kind, keeps the invariant.
LEMMA RequestInv ==
  ASSUME Inv, Request
  PROVE  Inv'
<1>1. UNCHANGED processVars /\ phase = "serving"
  BY DEF Request
<1>2. Process'
  BY <1>1, InvParts DEF Process, processVars, Accepted
<1>3. ASSUME NEW w \in Caller, NEW op \in Op, NEW u \in UUID, NEW n \in Version,
             NEW b \in Secret, Receive(w, op, u, n, b, config.secret),
             ~HasDB, UNCHANGED rowVars
      PROVE  Inv'
  <2> DEFINE c == [pc |-> "wait", op |-> op, uuid |-> u, n |-> n, bearer |-> b]
  <2>1. StoreInv'
    BY <1>3, InvParts, ReceiveInv
  <2>2. RowsInv' /\ Edited'
    BY <1>1, <1>3, InvParts DEF rowVars, processVars, RowsInv, RowsOK, RowsWhole,
       NamesUnique, Edited, Editing, HasDB
  <2>3. b = config.secret
    BY <1>3, InvParts DEF Receive, Authorized, Process, Accepted, Validate
  <2>4. calls' = [calls EXCEPT ![w] = c]
    BY <1>3 DEF Receive
  <2>5. c.bearer = b
    OBVIOUS
  <2> HIDE DEF c
  <2>6. calls'[w] = c /\ \A v \in Caller \ {w} : calls'[v] = calls[v]
    BY <2>4, InvParts DEF StoreInv, StoreOK
  <2>7. Called'
    BY <1>1, <1>3, <2>3, <2>5, <2>6, InvParts DEF Called, Busy, HasDB, processVars
  <2> QED
    BY <1>2, <2>1, <2>2, <2>7, InvPartsNext
<1>4. ASSUME NEW e \in Editor, NEW x \in Edit, Submit(e, x),
             HasDB, UNCHANGED storeVars
      PROVE  Inv'
  <2>1. RowsInv'
    BY <1>4, InvParts, SubmitInv
  <2>2. StoreInv' /\ Called'
    BY <1>1, <1>4, InvParts DEF storeVars, processVars, StoreInv, StoreOK,
       LockHeld, Numbered, Busy, Writing, Found, Called, HasDB
  <2>3. Edited'
    BY <1>1, <1>4 DEF Edited, HasDB, processVars
  <2> QED
    BY <1>2, <2>1, <2>2, <2>3, InvPartsNext
<1> QED
  BY <1>3, <1>4 DEF Request

\* What requests under way do keeps the invariant.
LEMMA UnderWayInv ==
  ASSUME Inv,
         Editors \/ \E w \in Caller : Locking(w) \/ StoreStep(w)
  PROVE  Inv'
<1>1. UNCHANGED processVars
  BY DEF Editors, Locking, StoreStep
<1>2. Process'
  BY <1>1, InvParts DEF Process, processVars, Accepted
<1>3. CASE Editors
  <2>1. PICK e \in Editor : EditStep(e, config.driver)
    BY <1>3 DEF Editors
  <2>2. RowsInv' /\ \A x \in Editor : Editing(x)' => Editing(x)
    BY <2>1, InvParts, EditStepInv, EditStays
  <2>3. StoreInv' /\ Called'
    BY <1>1, <1>3, InvParts DEF Editors, storeVars, processVars, StoreInv,
       StoreOK, LockHeld, Numbered, Busy, Writing, Found, Called, HasDB
  <2>4. Edited'
    BY <1>1, <2>2, InvParts DEF Edited, HasDB, processVars
  <2> QED
    BY <1>2, <2>2, <2>3, <2>4, InvPartsNext
<1>4. ASSUME NEW w \in Caller, Acquire(w) \/ Work(w), UNCHANGED rowVars
      PROVE  Inv'
  <2>1. StoreInv'
    BY <1>4, InvParts, AcquireInv, WorkInv
  <2>2. \A v \in Caller :
          Busy(v)' => Busy(v) /\ calls'[v].bearer = calls[v].bearer
    BY <1>4, InvParts, BearerStays
  <2>3. Called'
    BY <1>1, <2>2, InvParts DEF Called, HasDB, processVars
  <2>4. RowsInv' /\ Edited'
    BY <1>1, <1>4, InvParts DEF rowVars, processVars, RowsInv, RowsOK, RowsWhole,
       NamesUnique, Edited, Editing, HasDB
  <2> QED
    BY <1>2, <2>1, <2>3, <2>4, InvPartsNext
<1> QED
  BY <1>3, <1>4 DEF Locking, StoreStep

\* The inductive invariant holds in every state, however many callers, editors
\* and devices there are, and whenever the process is stopped and started.
THEOREM Invariance == Spec => []Inv
<1>1. Init => Inv
  <2> SUFFICES ASSUME Init PROVE Inv
    OBVIOUS
  <2>1. StoreInv /\ RowsInv
    BY StoreInitInv, RowsInitInv DEF Init
  <2>2. Process /\ Called /\ Edited
    BY Names DEF Init, Process, Called, Edited, StoreInit, RowsInit, Busy,
       Editing
  <2> QED
    BY <2>1, <2>2, InvParts
<1>2. Inv /\ [Next]_vars => Inv'
  <2> SUFFICES ASSUME Inv, [Next]_vars PROVE Inv'
    OBVIOUS
  <2>1. CASE UNCHANGED vars
    <3>1. Process'
      BY <2>1, InvParts DEF vars, processVars, Process, Accepted
    <3> QED
      BY <2>1, <3>1, AwayInv DEF vars, processVars
  <2>2. CASE Next
    BY <2>2, ProcessInv, RequestInv, UnderWayInv DEF Next
  <2> QED
    BY <2>1, <2>2
<1> QED
  BY <1>1, <1>2, PTL DEF Spec

\* Without a database the controller API works only for those who know the
\* secret, and the secret is neither blank nor the one in the defaults.
THEOREM SecretHeld == Spec => []OnlyHolders
<1>1. Inv => OnlyHolders
  BY InvParts DEF OnlyHolders, Called, Process, Accepted, Validate
<1> QED
  BY <1>1, Invariance, PTL

\* Every row of config_templates is what one form said, whatever forms come in
\* between the two statements of an update.
THEOREM RowsStayWhole == Spec => []RowsWhole
<1>1. Inv => RowsWhole
  BY DEF Inv
<1> QED
  BY <1>1, Invariance, PTL

\* A process that was asked to stop cuts off no request before its five seconds
\* are over.
THEOREM NoEarlyCut == Spec => CutOnlyAtDeadline
<1>1. Inv /\ [Next]_vars =>
        [phase' = "down" /\ phase # "down" /\ InFlight =>
           phase = "late" \/ broken \/ exit' \in {"killed", "panic"}]_vars
  <2> SUFFICES ASSUME Inv, Next, phase' = "down", phase # "down", InFlight
               PROVE  phase = "late" \/ broken \/ exit' \in {"killed", "panic"}
    OBVIOUS
  <2>1. phase \in {"serving", "draining", "late"}
    BY Quiet
  <2> QED
    BY <2>1, Names DEF Next, Initialize, Run, Bind, ListenFails, Fatal, Signal,
       Stopping, Shutdown, Drained, DeadlinePasses, GiveUp, SweeperPanics,
       Killed, Enter, Ends, Request, Editors, Locking, StoreStep, processVars
<1> QED
  BY <1>1, Invariance, PTL DEF Spec, CutOnlyAtDeadline

\* What callers of the controller API are answered is what one store would
\* answer in which every call takes effect at once: the store under its lock
\* implements Directory, through stops and starts.
THEOREM Refinement == Spec => ImplementsDirectory
<1>1. Init => Promised!Init
  BY StoreInitRefines DEF Init
<1>2. Inv /\ [Next]_vars => [Promised!Next]_(Promised!directory)
  <2> SUFFICES ASSUME Inv, [Next]_vars
               PROVE  Promised!Next \/ UNCHANGED Promised!directory
    OBVIOUS
  <2>1. CASE UNCHANGED storeVars
    BY <2>1 DEF storeVars, Promised!directory, Known, Acked, Asked
  <2>2. CASE StoreLost
    BY <2>2, StoreLostRefines
  <2>3. ASSUME NEW w \in Caller, Acquire(w) \/ Work(w)
        PROVE  Promised!Next \/ UNCHANGED Promised!directory
    BY <2>3, InvParts, AcquireRefines, WorkRefines
  <2>4. ASSUME NEW w \in Caller, NEW op \in Op, NEW u \in UUID,
               NEW n \in Version, NEW b \in Secret,
               Receive(w, op, u, n, b, config.secret)
        PROVE  Promised!Next
    BY <2>4, InvParts, ReceiveRefines
  <2>5. CASE Request
    BY <2>1, <2>4, <2>5 DEF Request
  <2>6. CASE \/ \E c \in Config : Initialize(c)
             \/ Run \/ Bind \/ ListenFails \/ Fatal \/ Signal \/ Stopping
             \/ SweeperPanics \/ Killed
    BY <2>1, <2>2, <2>6 DEF Initialize, Run, Bind, ListenFails, Fatal, Signal,
       Stopping, Shutdown, Drained, DeadlinePasses, GiveUp, SweeperPanics,
       Killed, Enter, Ends, storeVars
  <2>7. CASE Editors \/ \E w \in Caller : Locking(w) \/ StoreStep(w)
    BY <2>1, <2>3, <2>7 DEF Editors, Locking, StoreStep
  <2>8. CASE UNCHANGED vars
    BY <2>1, <2>8 DEF vars
  <2> QED
    BY <2>5, <2>6, <2>7, <2>8 DEF Next
<1> QED
  BY <1>1, <1>2, Invariance, PTL DEF Spec, ImplementsDirectory, Promised!Spec
=============================================================================
