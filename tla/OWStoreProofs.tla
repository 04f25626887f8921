---------------------------- MODULE OWStoreProofs ----------------------------
(***************************************************************************)
(* Lemmas about OWStore, for every number of callers and devices: each of  *)
(* its steps keeps its invariant and is a step of Directory, or none.      *)
(***************************************************************************)
EXTENDS OWStore, FiniteSetTheorems, TLAPS

USE VersionAssumption, NobodyAssumption

StoreInv == StoreOK /\ LockHeld /\ Numbered

\* What the invariant says of one caller.
HoldsLock(w) ==
  /\ w \in readers => Busy(w) /\ calls[w].op = "get"
  /\ calls[w].pc \in {"enter", "unlock"} => w = writer \/ w \in readers
  /\ calls[w].pc = "insert" =>
       Writing(w) /\ ~Found(w) /\ calls[w].op = "adopt"
  /\ calls[w].pc = "checksum" =>
       Writing(w) /\ Found(w) /\ devices[calls[w].uuid].version = calls[w].n

\* A request that is busy is a Call.
LEMMA BusyCall ==
  ASSUME StoreOK, NEW w \in Caller, Busy(w)
  PROVE  calls[w] \in Call
BY DEF StoreOK, Busy, Idle

\* A request moves to another label and stays what it is.
LEMMA GotoCall ==
  ASSUME StoreOK, NEW w \in Caller, Busy(w), NEW l \in Label, Goto(w, l)
  PROVE  /\ calls' \in [Caller -> Call \cup {Idle}]
         /\ calls'[w] \in Call /\ calls'[w].pc = l
         /\ calls'[w].op = calls[w].op /\ calls'[w].uuid = calls[w].uuid
         /\ calls'[w].n = calls[w].n /\ calls'[w].bearer = calls[w].bearer
         /\ \A v \in Caller \ {w} : calls'[v] = calls[v]
<1>1. calls[w] \in Call
  BY BusyCall
<1>2. [calls[w] EXCEPT !.pc = l] \in Call
  BY <1>1 DEF Call
<1> QED
  BY <1>1, <1>2 DEF StoreOK, Goto, Call

\* Labels of requests under way.
LEMMA Labels ==
  /\ Label = {"wait", "enter", "insert", "checksum", "unlock"}
  /\ Idle.pc = "idle" /\ Exclusive = {"adopt", "ack"}
  /\ Op = {"adopt", "get", "ack"}
BY DEF Label, Idle, Exclusive, Op

\* Changing one column of a device.
LEMMA DeviceColumns ==
  ASSUME NEW d \in MemDevice, NEW n \in Version
  PROVE  /\ [d EXCEPT !.version = n] \in MemDevice
         /\ [d EXCEPT !.version = n].version = n
         /\ [d EXCEPT !.version = n].id = d.id
         /\ [d EXCEPT !.checksum = n] \in MemDevice
         /\ [d EXCEPT !.checksum = n].checksum = n
         /\ [d EXCEPT !.checksum = n].version = d.version
         /\ [d EXCEPT !.checksum = n].id = d.id
         /\ d.version \in Nat /\ d.id \in Nat
BY DEF MemDevice

\* The store begins empty and unlocked.
LEMMA StoreInitInv == StoreInit => StoreInv
<1> SUFFICES ASSUME StoreInit PROVE StoreInv
  OBVIOUS
<1>1. DOMAIN devices = {}
  BY DEF StoreInit
<1>2. IsFiniteSet(DOMAIN devices)
  BY <1>1, FS_EmptySet
<1>3. StoreOK
  BY <1>1, <1>2 DEF StoreInit, StoreOK
<1>4. LockHeld /\ Numbered
  BY <1>1 DEF StoreInit, LockHeld, Idle, Numbered
<1> QED
  BY <1>3, <1>4 DEF StoreInv

\* The process ends: as it began.
LEMMA StoreLostInv == StoreLost => StoreInv'
<1> SUFFICES ASSUME StoreLost PROVE StoreInv'
  OBVIOUS
<1>1. DOMAIN devices' = {}
  BY DEF StoreLost
<1>2. IsFiniteSet(DOMAIN devices')
  BY <1>1, FS_EmptySet
<1>3. StoreOK'
  BY <1>1, <1>2 DEF StoreLost, StoreOK
<1>4. LockHeld' /\ Numbered'
  BY <1>1 DEF StoreLost, LockHeld, Idle, Numbered
<1> QED
  BY <1>3, <1>4 DEF StoreInv

\* A request comes in.
LEMMA ReceiveInv ==
  ASSUME StoreInv, NEW w \in Caller, NEW op \in Op, NEW u \in UUID,
         NEW n \in Version, NEW b \in Secret, NEW s, Receive(w, op, u, n, b, s)
  PROVE  StoreInv'
<1> DEFINE c == [pc |-> "wait", op |-> op, uuid |-> u, n |-> n, bearer |-> b]
<1>1. c \in Call /\ c.pc = "wait"
  BY Labels DEF Call
<1>2. calls' = [calls EXCEPT ![w] = c] /\ ~Busy(w)
  BY DEF Receive
<1> HIDE DEF c
<1>3. calls' \in [Caller -> Call \cup {Idle}] /\ calls'[w] = c
      /\ \A v \in Caller \ {w} : calls'[v] = calls[v]
  BY <1>1, <1>2 DEF StoreInv, StoreOK
<1>4. UNCHANGED <<devices, writer, readers>> /\ Answer(w, 0)
  BY DEF Receive
<1>5. StoreOK' /\ Numbered'
  BY <1>3, <1>4 DEF StoreInv, StoreOK, Numbered, Answer
<1>6. ASSUME NEW v \in Caller PROVE HoldsLock(v)'
  <2>1. HoldsLock(v) /\ w \notin readers
    BY <1>2 DEF StoreInv, LockHeld, HoldsLock
  <2>2. CASE v = w
    BY <1>1, <1>3, <1>4, <2>1, <2>2 DEF HoldsLock, Busy
  <2>3. CASE v # w
    BY <1>3, <1>4, <2>1, <2>3 DEF HoldsLock, Busy, Writing, Found
  <2> QED
    BY <2>2, <2>3
<1> QED
  BY <1>5, <1>6 DEF StoreInv, LockHeld, HoldsLock

\* The lock lets in a reader, or a writer when there is none.
LEMMA AcquireInv ==
  ASSUME StoreInv, NEW w \in Caller, Acquire(w)
  PROVE  StoreInv'
<1>1. Busy(w) /\ calls[w].pc = "wait" /\ writer = Nobody /\ StoreOK
  BY DEF Acquire, Busy, StoreInv
<1>2. Goto(w, "enter") /\ UNCHANGED <<devices, answer>> /\ "enter" \in Label
  BY Labels DEF Acquire
<1>3. /\ calls' \in [Caller -> Call \cup {Idle}]
      /\ calls'[w].pc = "enter" /\ calls'[w].op = calls[w].op
      /\ \A v \in Caller \ {w} : calls'[v] = calls[v]
  BY <1>1, <1>2, GotoCall
<1>4. calls[w] \in Call /\ calls[w].op \in Op
  BY <1>1, BusyCall DEF Call
<1>5. StoreOK' /\ Numbered'
  BY <1>1, <1>2, <1>3 DEF StoreOK, Acquire, StoreInv, Numbered
<1>6. ASSUME NEW v \in Caller PROVE HoldsLock(v)'
  <2>1. HoldsLock(v) /\ HoldsLock(w)
    BY DEF StoreInv, LockHeld, HoldsLock
  <2>2. calls[v].pc \notin {"insert", "checksum"}
    BY <1>1, <2>1 DEF HoldsLock, Writing
  <2>3. CASE calls[w].op \in Exclusive
    <3>1. writer' = w /\ readers' = readers
      BY <2>3 DEF Acquire
    <3>2. w \notin readers
      BY <2>1, <2>3, Labels DEF HoldsLock
    <3>3. calls[v].pc \in {"enter", "unlock"} => v \in readers
      BY <1>1, <2>1 DEF HoldsLock
    <3> QED
      BY <1>3, <2>1, <2>2, <3>1, <3>2, <3>3 DEF HoldsLock, Busy
  <2>4. CASE calls[w].op \notin Exclusive
    <3>1. readers' = readers \cup {w} /\ writer' = writer /\ calls[w].op = "get"
      BY <1>4, <2>4, Labels DEF Acquire
    <3> QED
      BY <1>3, <2>1, <2>2, <3>1 DEF HoldsLock, Busy
  <2> QED
    BY <2>3, <2>4
<1> QED
  BY <1>5, <1>6 DEF StoreInv, LockHeld, HoldsLock

\* A call that leaves the map alone and goes on under the lock it has.
LEMMA StaysInside ==
  ASSUME StoreInv, NEW w \in Caller, calls[w].pc = "enter",
         NEW l \in {"insert", "unlock"}, Goto(w, l), answer' \in [Caller -> Nat],
         UNCHANGED <<devices, writer, readers>>,
         l = "insert" => Writing(w) /\ ~Found(w) /\ calls[w].op = "adopt"
  PROVE  StoreInv'
<1>1. Busy(w) /\ StoreOK /\ l \in Label
  BY Labels DEF Busy, StoreInv
<1>2. /\ calls' \in [Caller -> Call \cup {Idle}] /\ calls'[w].pc = l
      /\ calls'[w].op = calls[w].op /\ calls'[w].uuid = calls[w].uuid
      /\ \A v \in Caller \ {w} : calls'[v] = calls[v]
  BY <1>1, GotoCall
<1>3. StoreOK' /\ Numbered'
  BY <1>1, <1>2 DEF StoreOK, StoreInv, Numbered
<1>4. ASSUME NEW v \in Caller PROVE HoldsLock(v)'
  <2>1. HoldsLock(v)
    BY DEF StoreInv, LockHeld, HoldsLock
  <2>2. CASE v = w
    BY <1>2, <2>1, <2>2 DEF HoldsLock, Busy, Writing, Found
  <2>3. CASE v # w
    BY <1>2, <2>1, <2>3 DEF HoldsLock, Busy, Writing, Found
  <2> QED
    BY <2>2, <2>3
<1> QED
  BY <1>3, <1>4 DEF StoreInv, LockHeld, HoldsLock

\* Adoption of a known device, or going on to insert a new one.
LEMMA AdoptInv ==
  ASSUME StoreInv, NEW w \in Caller, Adopt(w)
  PROVE  StoreInv'
<1>1. /\ calls[w].pc = "enter" /\ calls[w].op = "adopt" /\ Inside(w)
      /\ UNCHANGED <<devices, writer, readers>>
  BY DEF Adopt
<1>2. Writing(w)
  BY <1>1 DEF StoreInv, LockHeld, Inside, Writing
<1>3. CASE Found(w)
  <2>1. Answer(w, devices[calls[w].uuid].id) /\ Goto(w, "unlock")
    BY <1>3 DEF Adopt
  <2>2. devices[calls[w].uuid].id \in Nat
    BY <1>3 DEF StoreInv, StoreOK, MemDevice, Found
  <2>3. answer' \in [Caller -> Nat]
    BY <2>1, <2>2 DEF StoreInv, StoreOK, Answer
  <2> QED
    BY <1>1, <2>1, <2>3, StaysInside
<1>4. CASE ~Found(w)
  <2>1. Goto(w, "insert") /\ answer' = answer
    BY <1>4 DEF Adopt
  <2> QED
    BY <1>1, <1>2, <1>4, <2>1, StaysInside DEF StoreInv, StoreOK
<1> QED
  BY <1>3, <1>4

\* Reading the configuration.
LEMMA GetConfigInv ==
  ASSUME StoreInv, NEW w \in Caller, GetConfig(w)
  PROVE  StoreInv'
<1>1. /\ calls[w].pc = "enter" /\ Goto(w, "unlock")
      /\ UNCHANGED <<devices, writer, readers>>
      /\ Answer(w, IF Found(w) THEN devices[calls[w].uuid].version ELSE 0)
  BY DEF GetConfig
<1>2. Found(w) => devices[calls[w].uuid].version \in Nat
  BY DeviceColumns DEF StoreInv, StoreOK, MemDevice, Found
<1>3. answer' \in [Caller -> Nat]
  BY <1>1, <1>2 DEF StoreInv, StoreOK, Answer
<1> QED
  BY <1>1, <1>3, StaysInside

\* A writer alone in the store changes it and goes on: the others wait.
LEMMA WriterMoves ==
  ASSUME StoreInv, NEW w \in Caller, Writing(w), NEW l \in {"checksum", "unlock"},
         Busy(w), Goto(w, l), StoreOK', Numbered', UNCHANGED <<writer, readers>>,
         l = "checksum" =>
           /\ calls[w].uuid \in DOMAIN devices'
           /\ devices'[calls[w].uuid].version = calls[w].n
  PROVE  StoreInv'
<1>1. StoreOK /\ l \in Label
  BY Labels DEF StoreInv
<1>2. /\ calls'[w].pc = l /\ calls'[w].uuid = calls[w].uuid
      /\ calls'[w].op = calls[w].op /\ calls'[w].n = calls[w].n
      /\ \A v \in Caller \ {w} : calls'[v] = calls[v]
  BY <1>1, GotoCall
<1>3. ASSUME NEW v \in Caller PROVE HoldsLock(v)'
  <2>1. HoldsLock(v)
    BY DEF StoreInv, LockHeld, HoldsLock
  <2>2. CASE v = w
    BY <1>2, <2>2 DEF HoldsLock, Busy, Writing, Found
  <2>3. CASE v # w
    <3>1. calls[v].pc \notin {"insert", "checksum"}
      BY <2>1, <2>3 DEF HoldsLock, Writing
    <3> QED
      BY <1>2, <2>1, <2>3, <3>1 DEF HoldsLock, Busy
  <2> QED
    BY <2>2, <2>3
<1> QED
  BY <1>3 DEF StoreInv, LockHeld, HoldsLock

\* Insertion gives the number after those given already.
LEMMA AdoptInsertInv ==
  ASSUME StoreInv, NEW w \in Caller, AdoptInsert(w)
  PROVE  StoreInv'
<1> DEFINE id == Cardinality(DOMAIN devices) + 1
           u == calls[w].uuid
           new == [id |-> id, version |-> 1, checksum |-> 0]
<1>1. /\ Busy(w) /\ calls[w].pc = "insert" /\ Goto(w, "unlock")
      /\ Answer(w, id) /\ UNCHANGED <<writer, readers>>
      /\ devices' = [v \in DOMAIN devices \cup {u} |->
                        IF v = u THEN new ELSE devices[v]]
  BY DEF AdoptInsert, Busy
<1>2. StoreOK /\ Writing(w) /\ u \in UUID /\ "unlock" \in Label
  BY <1>1, BusyCall, Labels DEF StoreInv, LockHeld, Call
<1>3. id \in Nat
  BY <1>2, FS_CardinalityType DEF StoreOK
<1>4. IsFiniteSet(DOMAIN devices')
  <2>1. DOMAIN devices' = DOMAIN devices \cup {u}
    BY <1>1
  <2> QED
    BY <1>2, <2>1, FS_AddElement DEF StoreOK
<1>5. new \in MemDevice
  BY <1>3 DEF MemDevice
<1> HIDE DEF id, new
<1>6. \A v \in DOMAIN devices' : devices'[v] \in MemDevice
  BY <1>1, <1>2, <1>5 DEF StoreOK
<1>7. answer' \in [Caller -> Nat]
  BY <1>1, <1>2, <1>3 DEF StoreOK, Answer
<1>8. calls' \in [Caller -> Call \cup {Idle}]
  BY <1>1, <1>2, GotoCall
<1>9. StoreOK'
  BY <1>1, <1>2, <1>4, <1>6, <1>7, <1>8 DEF StoreOK
<1>10. Numbered'
  <2>1. DOMAIN devices' = DOMAIN devices \cup {u} /\ u \notin DOMAIN devices
    BY <1>1 DEF StoreInv, LockHeld, Found
  <2>2. Cardinality(DOMAIN devices') = id
    BY <1>2, <2>1, FS_AddElement DEF StoreOK, id
  <2>3. \A v \in DOMAIN devices : devices[v].id \in 1 .. id
    BY <1>2, FS_CardinalityType DEF StoreInv, StoreOK, Numbered, id
  <2>4. new.id = id /\ id \in 1 .. id
    BY <1>2, FS_CardinalityType DEF new, id, StoreOK
  <2> QED
    BY <1>1, <2>1, <2>2, <2>3, <2>4 DEF Numbered
<1> QED
  BY <1>1, <1>2, <1>9, <1>10, WriterMoves

\* The first write of an acknowledgement, or its refusal.
LEMMA AckConfigInv ==
  ASSUME StoreInv, NEW w \in Caller, AckConfig(w)
  PROVE  StoreInv'
<1> DEFINE u == calls[w].uuid
           n == calls[w].n
<1>1. /\ Busy(w) /\ calls[w].pc = "enter" /\ calls[w].op = "ack" /\ Inside(w)
      /\ UNCHANGED <<writer, readers>>
  BY DEF AckConfig, Busy
<1>2. Writing(w) /\ StoreOK /\ n \in Version /\ {"checksum", "unlock"} \subseteq Label
  BY <1>1, BusyCall, Labels DEF StoreInv, LockHeld, Inside, Writing, Call
<1>3. CASE Found(w)
  <2>1. /\ devices' = [devices EXCEPT ![u].version = n]
        /\ Answer(w, 1) /\ Goto(w, "checksum")
    BY <1>3 DEF AckConfig
  <2>2. /\ DOMAIN devices' = DOMAIN devices /\ u \in DOMAIN devices
        /\ devices'[u].version = n
        /\ \A v \in DOMAIN devices :
             devices'[v] \in MemDevice /\ devices'[v].id = devices[v].id
    <3>1. u \in DOMAIN devices /\ devices[u] \in MemDevice
      BY <1>2, <1>3 DEF Found, StoreOK
    <3>2. [devices[u] EXCEPT !.version = n] \in MemDevice
          /\ [devices[u] EXCEPT !.version = n].version = n
          /\ [devices[u] EXCEPT !.version = n].id = devices[u].id
      BY <1>2, <3>1, DeviceColumns
    <3>3. devices' = [devices EXCEPT ![u] = [devices[u] EXCEPT !.version = n]]
      BY <2>1
    <3> QED
      BY <1>2, <3>1, <3>2, <3>3 DEF StoreOK
  <2>3. answer' \in [Caller -> Nat]
    BY <1>2, <2>1 DEF StoreOK, Answer
  <2>4. calls' \in [Caller -> Call \cup {Idle}]
    BY <1>1, <1>2, <2>1, GotoCall
  <2>5. StoreOK' /\ Numbered'
    BY <1>1, <1>2, <2>2, <2>3, <2>4 DEF StoreOK, StoreInv, Numbered
  <2> QED
    BY <1>1, <1>2, <2>1, <2>2, <2>5, WriterMoves
<1>4. CASE ~Found(w)
  <2>1. Answer(w, 0) /\ Goto(w, "unlock") /\ devices' = devices
    BY <1>4 DEF AckConfig
  <2>2. answer' \in [Caller -> Nat]
    BY <1>2, <2>1 DEF StoreOK, Answer
  <2> QED
    BY <1>1, <2>1, <2>2, StaysInside
<1> QED
  BY <1>3, <1>4

\* The second write.
LEMMA AckConfigSumInv ==
  ASSUME StoreInv, NEW w \in Caller, AckConfigSum(w)
  PROVE  StoreInv'
<1> DEFINE u == calls[w].uuid
           n == calls[w].n
<1>1. /\ Busy(w) /\ calls[w].pc = "checksum" /\ Goto(w, "unlock")
      /\ devices' = [devices EXCEPT ![u].checksum = n]
      /\ UNCHANGED <<writer, readers, answer>>
  BY DEF AckConfigSum, Busy
<1>2. /\ StoreOK /\ Writing(w) /\ n \in Version /\ "unlock" \in Label
      /\ u \in DOMAIN devices
  BY <1>1, BusyCall, Labels DEF StoreInv, LockHeld, Call, Found
<1>3. /\ DOMAIN devices' = DOMAIN devices
      /\ \A v \in DOMAIN devices :
           devices'[v] \in MemDevice /\ devices'[v].id = devices[v].id
  <2>1. /\ [devices[u] EXCEPT !.checksum = n] \in MemDevice
        /\ [devices[u] EXCEPT !.checksum = n].id = devices[u].id
    BY <1>2, DeviceColumns DEF StoreOK
  <2>2. devices' = [devices EXCEPT ![u] = [devices[u] EXCEPT !.checksum = n]]
    BY <1>1
  <2> QED
    BY <1>2, <2>1, <2>2 DEF StoreOK
<1>4. calls' \in [Caller -> Call \cup {Idle}]
  BY <1>1, <1>2, GotoCall
<1>5. StoreOK' /\ Numbered'
  BY <1>1, <1>2, <1>3, <1>4 DEF StoreOK, StoreInv, Numbered
<1> QED
  BY <1>1, <1>2, <1>5, WriterMoves

\* The lock is given back.
LEMMA UnlockInv ==
  ASSUME StoreInv, NEW w \in Caller, Unlock(w)
  PROVE  StoreInv'
<1>1. /\ calls[w].pc = "unlock" /\ readers' = readers \ {w}
      /\ writer' = IF writer = w THEN Nobody ELSE writer
      /\ calls' = [calls EXCEPT ![w] = Idle]
      /\ UNCHANGED <<devices, answer>>
  BY DEF Unlock, Finish
<1>2. StoreOK' /\ Numbered'
  BY <1>1 DEF StoreInv, StoreOK, Numbered
<1>3. calls'[w] = Idle /\ \A v \in Caller \ {w} : calls'[v] = calls[v]
  BY <1>1 DEF StoreInv, StoreOK
<1>4. ASSUME NEW v \in Caller PROVE HoldsLock(v)'
  <2>1. HoldsLock(v) /\ HoldsLock(w)
    BY DEF StoreInv, LockHeld, HoldsLock
  <2>2. CASE v = w
    BY <1>1, <1>3, <2>2, Labels DEF HoldsLock
  <2>3. CASE v # w
    <3>1. calls[v].pc \notin {"insert", "checksum"}
      BY <1>1, <2>1, <2>3 DEF HoldsLock, Writing
    <3> QED
      BY <1>1, <1>3, <2>1, <2>3, <3>1 DEF HoldsLock, Busy
  <2> QED
    BY <2>2, <2>3
<1> QED
  BY <1>2, <1>4 DEF StoreInv, LockHeld, HoldsLock

\* Every step under the lock.
LEMMA WorkInv == ASSUME StoreInv, NEW w \in Caller, Work(w) PROVE StoreInv'
BY AdoptInv, AdoptInsertInv, GetConfigInv, AckConfigInv, AckConfigSumInv,
   UnlockInv DEF Work
-----------------------------------------------------------------------------
\* The store implements the directory.

\* Who moves without touching the map, and neither into nor out of the middle of
\* an acknowledgement, leaves the directory alone.
LEMMA KnownStays ==
  ASSUME NEW w \in Caller, devices' = devices,
         calls[w].pc # "checksum", calls'[w].pc # "checksum",
         \A v \in Caller \ {w} : calls'[v] = calls[v]
  PROVE  Known' = Known
<1>1. \A u : Acked(u)' <=> Acked(u)
  BY DEF Acked
<1> HIDE DEF Acked
<1> QED
  BY <1>1 DEF Known

\* The same for a request that moves to another label.
LEMMA GotoStays ==
  ASSUME StoreInv, NEW w \in Caller, devices' = devices,
         NEW l \in {"enter", "insert", "unlock"}, Goto(w, l),
         calls[w].pc \in {"wait", "enter"}
  PROVE  Known' = Known
<1>1. StoreOK /\ Busy(w) /\ l \in Label
  BY Labels DEF StoreInv, Busy
<1>2. calls'[w].pc = l /\ \A v \in Caller \ {w} : calls'[v] = calls[v]
  BY <1>1, GotoCall
<1> QED
  BY <1>2, KnownStays

\* Who moves on but has not had its effect yet still asks the same.
LEMMA AskedStays ==
  ASSUME StoreInv, NEW w \in Caller, NEW l \in Label, Busy(w), Goto(w, l),
         l \in Waiting <=> calls[w].pc \in Waiting
  PROVE  Asked' = Asked
<1>1. StoreOK
  BY DEF StoreInv
<1>2. /\ calls'[w].pc = l /\ calls'[w].op = calls[w].op
      /\ calls'[w].uuid = calls[w].uuid /\ calls'[w].n = calls[w].n
      /\ \A v \in Caller \ {w} : calls'[v] = calls[v]
  BY <1>1, GotoCall
<1> QED
  BY <1>2 DEF Asked

\* What a caller asks, and that it does not any more once it is answered.
LEMMA Answered ==
  ASSUME StoreInv, NEW w \in Caller, NEW l \in {"checksum", "unlock"},
         calls[w].pc \in Waiting, Goto(w, l)
  PROVE  /\ Asked[w].op = calls[w].op /\ Asked[w].uuid = calls[w].uuid
         /\ Asked[w].n = calls[w].n
         /\ Asked' = [Asked EXCEPT ![w] = Promised!Nothing]
<1>1. StoreOK /\ Busy(w) /\ l \in Label /\ l \notin Waiting
  BY Labels DEF StoreInv, Busy, Waiting
<1>2. /\ calls'[w].pc = l
      /\ \A v \in Caller \ {w} : calls'[v] = calls[v]
  BY <1>1, GotoCall
<1>3. Asked[w] = [op |-> calls[w].op, uuid |-> calls[w].uuid, n |-> calls[w].n]
  BY DEF Asked
<1>4. Asked' = [Asked EXCEPT ![w] = Promised!Nothing]
  BY <1>1, <1>2 DEF Asked, Promised!Nothing
<1> QED
  BY <1>3, <1>4

\* A writer is the only one in the middle of an acknowledgement.
LEMMA NobodyElseAcks ==
  ASSUME StoreInv, NEW w \in Caller, Writing(w),
         NEW v \in Caller \ {w}
  PROVE  calls[v].pc # "checksum"
BY DEF StoreInv, LockHeld, Writing

\* At first nobody is known.
LEMMA StoreInitRefines == StoreInit => Promised!Init
<1> SUFFICES ASSUME StoreInit PROVE Promised!Init
  OBVIOUS
<1>1. DOMAIN devices = {} /\ answer = [w \in Caller |-> 0]
  BY DEF StoreInit
<1>2. Known = <<>>
  BY <1>1 DEF Known
<1>3. Asked = [w \in Caller |-> Promised!Nothing]
  BY Labels DEF StoreInit, Asked, Waiting, Promised!Nothing
<1> QED
  BY <1>1, <1>2, <1>3 DEF Promised!Init

\* The end of the process forgets.
LEMMA StoreLostRefines == StoreLost => Promised!Next
<1> SUFFICES ASSUME StoreLost PROVE Promised!Forget
  BY DEF Promised!Next
<1>1. DOMAIN devices' = {} /\ answer' = [w \in Caller |-> 0]
  BY DEF StoreLost
<1>2. Known' = <<>>
  BY <1>1 DEF Known
<1>3. Asked' = [w \in Caller |-> Promised!Nothing]
  BY Labels DEF StoreLost, Asked, Waiting, Promised!Nothing
<1> QED
  BY <1>1, <1>2, <1>3 DEF Promised!Forget

\* A request that comes in asks, and changes nothing else.
LEMMA ReceiveRefines ==
  ASSUME StoreInv, NEW w \in Caller, NEW op \in Op, NEW u \in UUID,
         NEW n \in Version, NEW b \in Secret, NEW s, Receive(w, op, u, n, b, s)
  PROVE  Promised!Next
<1> DEFINE c == [pc |-> "wait", op |-> op, uuid |-> u, n |-> n, bearer |-> b]
<1>1. /\ calls' = [calls EXCEPT ![w] = c] /\ ~Busy(w)
      /\ c.pc = "wait" /\ c.op = op /\ c.uuid = u /\ c.n = n
      /\ devices' = devices /\ answer' = [answer EXCEPT ![w] = 0]
  BY DEF Receive, Answer
<1> HIDE DEF c
<1>2. calls'[w] = c /\ \A v \in Caller \ {w} : calls'[v] = calls[v]
  BY <1>1 DEF StoreInv, StoreOK
<1>3. Known' = Known
  BY <1>1, <1>2, KnownStays DEF Busy
<1>4. /\ Asked[w] = Promised!Nothing
      /\ Asked' = [Asked EXCEPT ![w] = [op |-> op, uuid |-> u, n |-> n]]
  BY <1>1, <1>2 DEF Asked, Busy, Waiting, Promised!Nothing
<1>5. Promised!Ask(w, op, u, n)
  BY <1>1, <1>3, <1>4 DEF Promised!Ask
<1> QED
  BY <1>5 DEF Promised!Next, Promised!Op, Op

\* The lock is not of the directory.
LEMMA AcquireRefines ==
  ASSUME StoreInv, NEW w \in Caller, Acquire(w)
  PROVE  UNCHANGED Promised!directory
<1>1. /\ calls[w].pc = "wait" /\ Goto(w, "enter")
      /\ devices' = devices /\ answer' = answer
  BY DEF Acquire
<1>2. Known' = Known
  BY <1>1, GotoStays
<1>3. Asked' = Asked
  BY <1>1, AskedStays, Labels DEF Busy, Waiting
<1> QED
  BY <1>1, <1>2, <1>3 DEF Promised!directory

\* Leaving the lock changes nothing.
LEMMA UnlockRefines ==
  ASSUME StoreInv, NEW w \in Caller, Unlock(w)
  PROVE  UNCHANGED Promised!directory
<1>1. /\ calls' = [calls EXCEPT ![w] = Idle] /\ calls[w].pc = "unlock"
      /\ devices' = devices /\ answer' = answer
  BY DEF Unlock, Finish
<1>2. calls'[w].pc = "idle" /\ \A v \in Caller \ {w} : calls'[v] = calls[v]
  BY <1>1, Labels DEF StoreInv, StoreOK
<1>3. Known' = Known
  BY <1>1, <1>2, KnownStays
<1>4. Asked' = Asked
  BY <1>1, <1>2 DEF Asked, Waiting
<1> QED
  BY <1>1, <1>3, <1>4 DEF Promised!directory

\* A known device is told its number.
LEMMA AdoptRefines ==
  ASSUME StoreInv, NEW w \in Caller, Adopt(w)
  PROVE  Promised!Next \/ UNCHANGED Promised!directory
<1>1. /\ calls[w].pc = "enter" /\ calls[w].op = "adopt" /\ devices' = devices
      /\ calls[w].pc \in Waiting /\ Busy(w)
  BY DEF Adopt, Busy, Waiting
<1>2. CASE Found(w)
  <2> DEFINE u == calls[w].uuid
  <2>1. Answer(w, devices[u].id) /\ Goto(w, "unlock")
    BY <1>2 DEF Adopt
  <2>2. Known' = Known
    BY <1>1, <2>1, GotoStays
  <2>3. u \in DOMAIN Known /\ Known[u].id = devices[u].id
    BY <1>2 DEF Known, Found
  <2>4. /\ Asked[w].op = "adopt" /\ Asked[w].uuid = u
        /\ Asked' = [Asked EXCEPT ![w] = Promised!Nothing]
    BY <1>1, <2>1, Answered
  <2>5. Promised!AdoptKnown(w)
    BY <2>1, <2>2, <2>3, <2>4
       DEF Promised!AdoptKnown, Promised!Answer, Answer
  <2> QED
    BY <2>5 DEF Promised!Next
<1>3. CASE ~Found(w)
  <2>1. Goto(w, "insert") /\ answer' = answer
    BY <1>3 DEF Adopt
  <2>2. Known' = Known
    BY <1>1, <2>1, GotoStays
  <2>3. Asked' = Asked
    BY <1>1, <2>1, AskedStays, Labels DEF Waiting
  <2> QED
    BY <2>1, <2>2, <2>3 DEF Promised!directory
<1> QED
  BY <1>2, <1>3

\* What is read is the last version.
LEMMA GetConfigRefines ==
  ASSUME StoreInv, NEW w \in Caller, GetConfig(w)
  PROVE  Promised!Next
<1> DEFINE u == calls[w].uuid
<1>1. /\ calls[w].pc = "enter" /\ calls[w].op = "get" /\ devices' = devices
      /\ Answer(w, IF Found(w) THEN devices[u].version ELSE 0)
      /\ Goto(w, "unlock") /\ calls[w].pc \in Waiting
  BY DEF GetConfig, Waiting
<1>2. Known' = Known
  BY <1>1, GotoStays
<1>5. /\ Asked[w].op = "get" /\ Asked[w].uuid = u
      /\ Asked' = [Asked EXCEPT ![w] = Promised!Nothing]
  BY <1>1, Answered
<1>3. CASE Found(w)
  <2>1. u \in DOMAIN Known /\ Known[u].version = devices[u].version
    BY <1>3 DEF Known, Found
  <2>2. Promised!GetConfig(w)
    BY <1>1, <1>2, <1>3, <1>5, <2>1
       DEF Promised!GetConfig, Promised!Answer, Answer
  <2> QED
    BY <2>2 DEF Promised!Next
<1>4. CASE ~Found(w)
  <2>1. u \notin DOMAIN Known
    BY <1>4 DEF Known, Found
  <2>2. Promised!NotFound(w)
    BY <1>1, <1>2, <1>4, <1>5, <2>1
       DEF Promised!NotFound, Promised!Answer, Answer
  <2> QED
    BY <2>2 DEF Promised!Next
<1> QED
  BY <1>3, <1>4

\* An insertion is the adoption of a new device.
LEMMA AdoptInsertRefines ==
  ASSUME StoreInv, NEW w \in Caller, AdoptInsert(w)
  PROVE  Promised!Next
<1> DEFINE u == calls[w].uuid
           id == Cardinality(DOMAIN devices) + 1
           new == [id |-> id, version |-> 1, checksum |-> 0]
<1>1. /\ calls[w].pc = "insert" /\ Goto(w, "unlock") /\ Answer(w, id)
      /\ calls[w].pc \in Waiting
      /\ devices' = [v \in DOMAIN devices \cup {u} |->
                        IF v = u THEN new ELSE devices[v]]
  BY DEF AdoptInsert, Waiting
<1>2. /\ calls[w].op = "adopt" /\ Writing(w) /\ u \notin DOMAIN devices
      /\ StoreOK /\ Busy(w) /\ "unlock" \in Label
  BY <1>1, Labels DEF StoreInv, LockHeld, Busy, Found
<1>3. /\ calls'[w].pc = "unlock"
      /\ \A v \in Caller \ {w} : calls'[v] = calls[v]
  BY <1>1, <1>2, GotoCall
<1>4. \A v : ~Acked(v) /\ ~Acked(v)'
  BY <1>1, <1>2, <1>3, NobodyElseAcks DEF Acked
<1> HIDE DEF Acked
<1>5. DOMAIN Known = DOMAIN devices
  BY DEF Known
<1>6. new.id = id /\ new.version = 1 /\ new.checksum = 0
  OBVIOUS
<1>7. Known' = [v \in DOMAIN Known \cup {u} |->
                  IF v = u THEN [id |-> id, version |-> 1, checksum |-> 0]
                  ELSE Known[v]]
  <2> HIDE DEF new, id
  <2> QED
    BY <1>1, <1>2, <1>4, <1>5, <1>6 DEF Known
<1>8. id \in Nat \ {0} /\ \A v \in DOMAIN Known : Known[v].id # id
  <2>1. Cardinality(DOMAIN devices) \in Nat
    BY <1>2, FS_CardinalityType DEF StoreOK
  <2>2. \A v \in DOMAIN Known : Known[v].id \in 1 .. Cardinality(DOMAIN devices)
    BY DEF Known, StoreInv, Numbered
  <2> QED
    BY <2>1, <2>2
<1> HIDE DEF id
<1>9. answer' = [answer EXCEPT ![w] = id] /\ answer'[w] = id
  BY <1>1, <1>2 DEF StoreOK, Answer
<1>10. /\ Asked[w].op = "adopt" /\ Asked[w].uuid = u
       /\ Asked' = [Asked EXCEPT ![w] = Promised!Nothing]
  BY <1>1, <1>2, Answered
<1>11. Promised!AdoptNew(w)
  BY <1>2, <1>5, <1>7, <1>8, <1>9, <1>10
     DEF Promised!AdoptNew, Promised!Answer
<1> QED
  BY <1>11 DEF Promised!Next

\* The first write of an acknowledgement makes it.
LEMMA AckConfigRefines ==
  ASSUME StoreInv, NEW w \in Caller, AckConfig(w)
  PROVE  Promised!Next
<1> DEFINE u == calls[w].uuid
           n == calls[w].n
<1>1. /\ calls[w].pc = "enter" /\ Busy(w) /\ calls[w].op = "ack" /\ Inside(w)
      /\ StoreOK /\ {"checksum", "unlock"} \subseteq Label
      /\ calls[w].pc \in Waiting
  BY Labels DEF AckConfig, Busy, StoreInv, Waiting
<1>2. Writing(w) /\ n \in Version
  BY <1>1, BusyCall DEF StoreInv, LockHeld, Inside, Writing, Call
<1>3. CASE Found(w)
  <2>1. /\ devices' = [devices EXCEPT ![u].version = n]
        /\ Answer(w, 1) /\ Goto(w, "checksum")
    BY <1>3 DEF AckConfig
  <2>2. /\ calls'[w].pc = "checksum" /\ calls'[w].uuid = u
        /\ \A v \in Caller \ {w} : calls'[v] = calls[v]
    BY <1>1, <2>1, GotoCall
  <2>3. \A v : ~Acked(v) /\ (Acked(v)' <=> v = u)
    BY <1>1, <1>2, <2>2, NobodyElseAcks DEF Acked
  <2> HIDE DEF Acked
  <2>4. /\ u \in DOMAIN devices /\ DOMAIN devices' = DOMAIN devices
        /\ devices'[u].version = n /\ devices'[u].id = devices[u].id
        /\ \A v \in DOMAIN devices \ {u} : devices'[v] = devices[v]
    <3>1. u \in DOMAIN devices /\ devices[u] \in MemDevice
      BY <1>1, <1>3 DEF Found, StoreOK
    <3>2. devices' = [devices EXCEPT ![u] = [devices[u] EXCEPT !.version = n]]
      BY <2>1
    <3>3. /\ [devices[u] EXCEPT !.version = n].version = n
          /\ [devices[u] EXCEPT !.version = n].id = devices[u].id
      BY <1>2, <3>1, DeviceColumns
    <3> QED
      BY <3>1, <3>2, <3>3
  <2>5. Known' = [Known EXCEPT ![u] = [id |-> Known[u].id, version |-> n,
                                       checksum |-> n]]
    BY <2>3, <2>4 DEF Known
  <2>6. u \in DOMAIN Known
    BY <2>4 DEF Known
  <2>7. /\ Asked[w].op = "ack" /\ Asked[w].uuid = u /\ Asked[w].n = n
        /\ Asked' = [Asked EXCEPT ![w] = Promised!Nothing]
    BY <1>1, <2>1, Answered
  <2>8. Promised!AckConfig(w)
    BY <2>1, <2>5, <2>6, <2>7 DEF Promised!AckConfig, Promised!Answer, Answer
  <2> QED
    BY <2>8 DEF Promised!Next
<1>4. CASE ~Found(w)
  <2>1. Answer(w, 0) /\ Goto(w, "unlock") /\ devices' = devices
    BY <1>4 DEF AckConfig
  <2>2. Known' = Known
    BY <1>1, <2>1, GotoStays
  <2>3. u \notin DOMAIN Known
    BY <1>4 DEF Known, Found
  <2>4. /\ Asked[w].op = "ack" /\ Asked[w].uuid = u
        /\ Asked' = [Asked EXCEPT ![w] = Promised!Nothing]
    BY <1>1, <2>1, Answered
  <2>5. Promised!NotFound(w)
    BY <2>1, <2>2, <2>3, <2>4 DEF Promised!NotFound, Promised!Answer, Answer
  <2> QED
    BY <2>5 DEF Promised!Next
<1> QED
  BY <1>3, <1>4

\* The second write shows nobody anything new.
LEMMA AckConfigSumRefines ==
  ASSUME StoreInv, NEW w \in Caller, AckConfigSum(w)
  PROVE  UNCHANGED Promised!directory
<1> DEFINE u == calls[w].uuid
           n == calls[w].n
<1>1. /\ calls[w].pc = "checksum" /\ Goto(w, "unlock") /\ answer' = answer
      /\ devices' = [devices EXCEPT ![u].checksum = n]
  BY DEF AckConfigSum
<1>2. /\ Writing(w) /\ u \in DOMAIN devices /\ devices[u].version = n
      /\ n \in Version /\ StoreOK /\ Busy(w) /\ "unlock" \in Label
  BY <1>1, BusyCall, Labels DEF StoreInv, LockHeld, Busy, Call, Found
<1>3. /\ calls'[w].pc = "unlock"
      /\ \A v \in Caller \ {w} : calls'[v] = calls[v]
  BY <1>1, <1>2, GotoCall
<1>4. \A v : ~Acked(v)' /\ (Acked(v) <=> v = u)
  BY <1>1, <1>2, <1>3, NobodyElseAcks DEF Acked
<1> HIDE DEF Acked
<1>5. /\ DOMAIN devices' = DOMAIN devices /\ devices'[u].checksum = n
      /\ devices'[u].version = n /\ devices'[u].id = devices[u].id
      /\ \A v \in DOMAIN devices \ {u} : devices'[v] = devices[v]
  <2>1. devices[u] \in MemDevice
    BY <1>2 DEF StoreOK
  <2>2. devices' = [devices EXCEPT ![u] = [devices[u] EXCEPT !.checksum = n]]
    BY <1>1
  <2>3. /\ [devices[u] EXCEPT !.checksum = n].checksum = n
        /\ [devices[u] EXCEPT !.checksum = n].version = devices[u].version
        /\ [devices[u] EXCEPT !.checksum = n].id = devices[u].id
    BY <1>2, <2>1, DeviceColumns
  <2> QED
    BY <1>2, <2>1, <2>2, <2>3
<1>6. Known' = Known
  BY <1>2, <1>4, <1>5 DEF Known
<1>7. Asked' = Asked
  BY <1>1, <1>2, AskedStays DEF Waiting
<1> QED
  BY <1>1, <1>6, <1>7 DEF Promised!directory

\* Every step under the lock is a step of the directory, or none.
LEMMA WorkRefines ==
  ASSUME StoreInv, NEW w \in Caller, Work(w)
  PROVE  Promised!Next \/ UNCHANGED Promised!directory
BY AdoptRefines, AdoptInsertRefines, GetConfigRefines, AckConfigRefines,
   AckConfigSumRefines, UnlockRefines DEF Work
=============================================================================
