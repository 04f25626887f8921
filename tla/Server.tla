------------------------------- MODULE Server -------------------------------
(***************************************************************************)
(* The life of the process: it checks its configuration, opens the         *)
(* database, listens, and stops when it is asked to, with requests under   *)
(* way (config/init.go, db/db.go, server/app.go, main.go).  Without a      *)
(* database it serves the controller API from memory (OWStore), with one   *)
(* the forms of the admin pages (TemplateRows); what the database does for *)
(* devices is module Devices.                                              *)
(***************************************************************************)
EXTENDS OWStore, TemplateRows

CONSTANTS Driver  \* what database.driver may say

\* The configuration is read anew at every start.
Config == [secret : Secret, driver : Driver]

VARIABLES
  phase,     \* how far the process has got
  config,    \* the configuration of this life of the process
  signalled, \* SIGINT or SIGTERM has come in since it began to run
  broken,    \* ListenAndServe has returned an error of its own
  exit       \* why it ended

processVars == <<phase, config, signalled, broken, exit>>
vars == <<processVars, storeVars, rowVars>>

Phase == {"down", "starting", "binding", "serving", "draining", "late"}
Running == phase \in {"binding", "serving"}
Exit == {"none", "killed", "http error", "panic", "drained", "deadline"}

-----------------------------------------------------------------------------
\* Slip: a blank secret passes.
ValidateDefault(c) == c.secret # "CHANGE_ME"

\* validate, of what the modules tell apart: the addresses are not blank.
Validate(c) == c.secret \notin {"", "CHANGE_ME"}

Open(driver) == IF driver \in {"mysql", "postgres"} THEN "handle"
                ELSE IF driver = "" THEN "nil" ELSE "error"

Accepted(c) == Validate(c) /\ Open(c.driver) # "error"
HasDB == Open(config.driver) = "handle"

\* The process ends, and with it what is in memory.
Ends(reason) ==
  /\ phase' = "down"
  /\ exit' = reason
  /\ UNCHANGED <<config, signalled, broken>>
  /\ StoreLost /\ EditsLost

Enter(p) ==
  /\ phase' = p
  /\ UNCHANGED <<config, signalled, broken, exit, storeVars, rowVars>>

\* MustLoad and Initialize: a configuration that is refused, a database that is
\* not opened, end the process before it does anything.  Bound: the driver is
\* the one of the last life; the tables are out of reach without one.
Initialize(c) ==
  /\ phase = "down"
  /\ Accepted(c) /\ c.driver = config.driver
  /\ phase' = "starting" /\ config' = c
  /\ signalled' = FALSE /\ broken' = FALSE /\ exit' = "none"
  /\ UNCHANGED <<storeVars, rowVars>>

\* Run: from here on signals are received, and the listener is opened by a
\* goroutine of its own.
Run == phase = "starting" /\ Enter("binding")
Bind == phase = "binding" /\ ~broken /\ Enter("serving")

\* The listener cannot be opened, or fails for good while it serves.
ListenFails ==
  /\ Running /\ ~broken
  /\ broken' = TRUE
  /\ UNCHANGED <<phase, config, signalled, exit, storeVars, rowVars>>

\* Fatalf, by the goroutine that listened, whatever the others are doing.
Fatal == phase # "down" /\ broken /\ Ends("http error")

\* Further signals stay in the channel, or are dropped.
Signal ==
  /\ Running
  /\ signalled' = TRUE
  /\ UNCHANGED <<phase, config, broken, exit, storeVars, rowVars>>

\* Slip: the error ListenAndServe returns then ends the process.
ShutdownFatal == Running /\ signalled /\ Ends("http error")

\* The listener is closed; what ListenAndServe returns then is no error.
Shutdown == Running /\ signalled /\ Enter("draining")

InFlight == (\E w \in Caller : Busy(w)) \/ (\E e \in Editor : Editing(e))

Drained == phase = "draining" /\ ~InFlight /\ Ends("drained")

\* Slip: the deadline is only looked at when there is nothing to wait for.
DeadlinePassesIdle == phase = "draining" /\ ~InFlight /\ Enter("late")

\* Five seconds have passed.
DeadlinePasses == phase = "draining" /\ Enter("late")
GiveUp == phase = "late" /\ Ends("deadline")

\* The sweeper's goroutine uses the handle whether there is one or not; nobody
\* recovers from its panic. (With a handle it changes devices only.)
SweeperPanics == phase # "down" /\ ~HasDB /\ Ends("panic")

\* The process is killed, or stops while it starts.
Killed == phase # "down" /\ Ends("killed")

-----------------------------------------------------------------------------
\* Requests come in while the process listens, on open connections even when its
\* listener has failed, and go on while it drains.
\* Without a handle forms panic, and the recovery middleware answers.
Request ==
  /\ phase = "serving"
  /\ \/ /\ ~HasDB
        /\ \E w \in Caller, op \in Op, u \in UUID, n \in Version,
              bearer \in Secret :
             Receive(w, op, u, n, bearer, config.secret)
        /\ UNCHANGED rowVars
     \/ /\ HasDB
        /\ \E e \in Editor, x \in Edit : Submit(e, x)
        /\ UNCHANGED storeVars
  /\ UNCHANGED processVars

StoreStep(w) == Work(w) /\ UNCHANGED <<processVars, rowVars>>
Locking(w) == Acquire(w) /\ UNCHANGED <<processVars, rowVars>>
Editors == /\ \E e \in Editor : EditStep(e, config.driver)
           /\ UNCHANGED <<processVars, storeVars>>

Init == /\ phase = "down" /\ config \in {c \in Config : Accepted(c)}
        /\ signalled = FALSE /\ broken = FALSE /\ exit = "none"
        /\ StoreInit /\ RowsInit

Stopping == Shutdown \/ Drained \/ DeadlinePasses \/ GiveUp

Next == \/ \E c \in Config : Initialize(c)
        \/ Run \/ Bind \/ ListenFails \/ Fatal
        \/ Signal \/ Stopping
        \/ SweeperPanics \/ Killed
        \/ Request \/ Editors
        \/ \E w \in Caller : Locking(w) \/ StoreStep(w)

\* The goroutine that waits for the signal, the deadline's timer and goroutines
\* past the lock go on; the lock lets everybody in, in the end. The database
\* need not answer.
Fairness == /\ WF_vars(Stopping)
            /\ \A w \in Caller : WF_vars(StoreStep(w)) /\ SF_vars(Locking(w))

Spec == Init /\ [][Next]_vars /\ Fairness

-----------------------------------------------------------------------------
TypeOK ==
  /\ phase \in Phase /\ config \in Config
  /\ signalled \in BOOLEAN /\ broken \in BOOLEAN /\ exit \in Exit
  /\ StoreOK /\ RowsOK

\* The inductive invariant: the store is used without a database and the table
\* with one, by a process that is there and was configured; it drains only when
\* it was asked to.
Inv ==
  /\ TypeOK /\ LockHeld /\ Numbered /\ NamesUnique /\ RowsWhole
  /\ Accepted(config)
  /\ phase \in {"draining", "late"} => signalled
  /\ \A w \in Caller :
       Busy(w) => /\ ~HasDB /\ phase \in {"serving", "draining", "late"}
                  /\ calls[w].bearer = config.secret
  /\ \A e \in Editor :
       Editing(e) => HasDB /\ phase \in {"serving", "draining", "late"}

\* Whatever the controller API does without a database it does for somebody who
\* knows the secret, and the secret is neither blank, which would let everybody
\* pass, nor the one everybody can read in the defaults.
OnlyHolders ==
  \A w \in Caller :
    Busy(w) => /\ calls[w].bearer = config.secret
               /\ config.secret \notin {"", "CHANGE_ME"}

\* A process does not cut off a request before the five seconds a stop gives it
\* are over: it goes down with requests under way only if they are, if its
\* listener failed, which closing it does not count as, if it is killed, or if
\* the sweeper panics.
CutOnlyAtDeadline ==
  [][phase' = "down" /\ phase # "down" /\ InFlight =>
       phase = "late" \/ broken \/ exit' \in {"killed", "panic"}]_vars

\* What callers of the API are answered is what one store, in which every call
\* takes effect at once, would answer.
ImplementsDirectory == Promised!Spec

\* A process that gets the signal is gone, in the end, even if the database
\* never answers a request again.
SignalStops == signalled ~> phase = "down"

\* Every call of the API ends, in the end: none keeps the lock from the others.
CallsAnswered == \A w \in Caller : Busy(w) ~> ~Busy(w)
=============================================================================
