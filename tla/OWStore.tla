------------------------------ MODULE OWStore -------------------------------
(***************************************************************************)
(* The OpenWISP controller API over the store it has when there is no      *)
(* database: a map under a read-write lock (owctrl/handlers.go, auth.go,   *)
(* store_memory.go).  Requests are goroutines of their own; what they do   *)
(* under the lock is one access of the map per step.                       *)
(***************************************************************************)
EXTENDS Naturals, FiniteSets

CONSTANTS
  Caller,   \* clients, each waits for its answer
  UUID,     \* the devices they ask about
  Version,  \* the versions they acknowledge
  Secret,   \* what they may present as the shared secret
  Nobody    \* holds no lock

ASSUME VersionAssumption == Version \subseteq Nat
ASSUME NobodyAssumption == Nobody \notin Caller

-----------------------------------------------------------------------------
Op == {"adopt", "get", "ack"}
Label == {"wait", "enter", "insert", "checksum", "unlock"}

\* A request: what it asks for, of which device, with which secret.
Call == [pc : Label, op : Op, uuid : UUID, n : Version, bearer : Secret]
Idle == [pc |-> "idle"]

\* A device; its checksum stands for the acknowledgement it came with.
MemDevice == [id : Nat, version : Version \cup {1}, checksum : Version \cup {0}]

VARIABLES
  devices,  \* the map of the store
  writer,   \* the call that holds the lock to write or waits for its readers
  readers,  \* the calls that hold it to read
  calls,    \* the request each caller waits for
  answer    \* what each caller was answered last; 0 is an error, or none yet

storeVars == <<devices, writer, readers, calls, answer>>

Goto(w, label) == calls' = [calls EXCEPT ![w].pc = label]
Answer(w, a) == answer' = [answer EXCEPT ![w] = a]
Finish(w) == calls' = [calls EXCEPT ![w] = Idle]
Busy(w) == calls[w].pc # "idle"

-----------------------------------------------------------------------------
\* Slip: adoption takes the lock as readers do.
ExclusiveAck == {"ack"}
Exclusive == {"adopt", "ack"}

\* The middleware compares the secret; without one everybody passes.
Authorized(bearer, secret) == secret = "" \/ bearer = secret

\* A request comes in. What does not decode, and an adoption without a uuid, is
\* refused before the store is asked.
Receive(w, op, u, n, bearer, secret) ==
  /\ ~Busy(w)
  /\ Authorized(bearer, secret)
  /\ calls' = [calls EXCEPT ![w] = [pc |-> "wait", op |-> op, uuid |-> u,
                                    n |-> n, bearer |-> bearer]]
  /\ Answer(w, 0)
  /\ UNCHANGED <<devices, writer, readers>>

\* Nobody comes in while a writer holds the lock or waits for its readers.
Acquire(w) ==
  /\ calls[w].pc = "wait"
  /\ writer = Nobody
  /\ IF calls[w].op \in Exclusive
     THEN writer' = w /\ UNCHANGED readers
     ELSE readers' = readers \cup {w} /\ UNCHANGED writer
  /\ Goto(w, "enter")
  /\ UNCHANGED <<devices, answer>>

\* A writer goes on when the readers have left.
Inside(w) == w \in readers \/ (writer = w /\ readers = {})

Found(w) == calls[w].uuid \in DOMAIN devices

\* A known device is told its number, a new one is given the next.
Adopt(w) ==
  /\ calls[w].pc = "enter" /\ calls[w].op = "adopt" /\ Inside(w)
  /\ IF Found(w)
     THEN Answer(w, devices[calls[w].uuid].id) /\ Goto(w, "unlock")
     ELSE Goto(w, "insert") /\ UNCHANGED answer
  /\ UNCHANGED <<devices, writer, readers>>

AdoptInsert(w) ==
  /\ calls[w].pc = "insert"
  /\ LET id == Cardinality(DOMAIN devices) + 1
         u == calls[w].uuid
     IN /\ devices' = [v \in DOMAIN devices \cup {u} |->
                         IF v = u
                         THEN [id |-> id, version |-> 1, checksum |-> 0]
                         ELSE devices[v]]
        /\ Answer(w, id)
  /\ Goto(w, "unlock")
  /\ UNCHANGED <<writer, readers>>

\* The configuration of every device is the same; its version is not.
GetConfig(w) ==
  /\ calls[w].pc = "enter" /\ calls[w].op = "get" /\ Inside(w)
  /\ Answer(w, IF Found(w) THEN devices[calls[w].uuid].version ELSE 0)
  /\ Goto(w, "unlock")
  /\ UNCHANGED <<devices, writer, readers>>

\* Slip: an unknown device is refused without giving the lock back.
AckConfigKeepsLock(w) ==
  /\ calls[w].pc = "enter" /\ calls[w].op = "ack" /\ Inside(w)
  /\ IF Found(w)
     THEN /\ devices' = [devices EXCEPT ![calls[w].uuid].version = calls[w].n]
          /\ Answer(w, 1) /\ Goto(w, "checksum")
     ELSE Answer(w, 0) /\ Finish(w) /\ UNCHANGED devices
  /\ UNCHANGED <<writer, readers>>

AckConfig(w) ==
  /\ calls[w].pc = "enter" /\ calls[w].op = "ack" /\ Inside(w)
  /\ IF Found(w)
     THEN /\ devices' = [devices EXCEPT ![calls[w].uuid].version = calls[w].n]
          /\ Answer(w, 1) /\ Goto(w, "checksum")
     ELSE Answer(w, 0) /\ Goto(w, "unlock") /\ UNCHANGED devices
  /\ UNCHANGED <<writer, readers>>

AckConfigSum(w) ==
  /\ calls[w].pc = "checksum"
  /\ devices' = [devices EXCEPT ![calls[w].uuid].checksum = calls[w].n]
  /\ Goto(w, "unlock")
  /\ UNCHANGED <<writer, readers, answer>>

\* The deferred unlock, and the reply.
Unlock(w) ==
  /\ calls[w].pc = "unlock"
  /\ writer' = IF writer = w THEN Nobody ELSE writer
  /\ readers' = readers \ {w}
  /\ Finish(w)
  /\ UNCHANGED <<devices, answer>>

Work(w) == \/ Adopt(w) \/ AdoptInsert(w) \/ GetConfig(w)
           \/ AckConfig(w) \/ AckConfigSum(w) \/ Unlock(w)

\* The process ends: requests and store are gone.
StoreLost ==
  /\ devices' = <<>> /\ writer' = Nobody /\ readers' = {}
  /\ calls' = [w \in Caller |-> Idle]
  /\ answer' = [w \in Caller |-> 0]

StoreInit ==
  /\ devices = <<>> /\ writer = Nobody /\ readers = {}
  /\ calls = [w \in Caller |-> Idle]
  /\ answer = [w \in Caller |-> 0]

-----------------------------------------------------------------------------
StoreOK ==
  /\ DOMAIN devices \subseteq UUID /\ IsFiniteSet(DOMAIN devices)
  /\ \A u \in DOMAIN devices : devices[u] \in MemDevice
  /\ writer \in Caller \cup {Nobody}
  /\ readers \subseteq Caller
  /\ calls \in [Caller -> Call \cup {Idle}]
  /\ answer \in [Caller -> Nat]

\* Devices are numbered as they come.
Numbered ==
  \A u \in DOMAIN devices : devices[u].id \in 1 .. Cardinality(DOMAIN devices)

\* A writer past the lock is alone.
Writing(w) == writer = w /\ readers = {}

\* Who is past the lock holds it, and what a writer found when it came in is
\* still so when it writes.
LockHeld ==
  \A w \in Caller :
    /\ w \in readers => Busy(w) /\ calls[w].op = "get"
    /\ calls[w].pc \in {"enter", "unlock"} => w = writer \/ w \in readers
    /\ calls[w].pc = "insert" =>
         Writing(w) /\ ~Found(w) /\ calls[w].op = "adopt"
    /\ calls[w].pc = "checksum" =>
         Writing(w) /\ Found(w) /\ devices[calls[w].uuid].version = calls[w].n

\* The store as its callers may think of it: an acknowledgement under way has
\* been made already.
Acked(u) == \E w \in Caller : calls[w].pc = "checksum" /\ calls[w].uuid = u

Known ==
  [u \in DOMAIN devices |->
     [id |-> devices[u].id, version |-> devices[u].version,
      checksum |-> IF Acked(u) THEN devices[u].version
                   ELSE devices[u].checksum]]

\* A call waits for its answer until it has taken effect.
Waiting == {"wait", "enter", "insert"}

Asked ==
  [w \in Caller |->
     IF calls[w].pc \in Waiting
     THEN [op |-> calls[w].op, uuid |-> calls[w].uuid, n |-> calls[w].n]
     ELSE [op |-> "nothing"]]

Promised == INSTANCE Directory WITH known <- Known, asked <- Asked
=============================================================================
