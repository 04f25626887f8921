--------------------------- MODULE HMACAuthProofs ---------------------------
(***************************************************************************)
(* Proofs about HMACAuth, for every set of requests, every number of       *)
(* goroutines, and all windows that satisfy NonceWindowAssumption.         *)
(***************************************************************************)
EXTENDS HMACAuth, TLAPS

USE MessageAssumption, TimeAssumption, EmptyAssumption

\* The empty table satisfies the invariant.
LEMMA InitInv == Init => Inv
BY DEF Init, Inv, TypeOK, ExecutedOnce, Idle, Entry

\* A request that reaches the nonce check is still young enough for its nonce
\* to be remembered: this is where the three durations meet.
LEMMA StillYoung ==
  ASSUME Inv, NEW w \in Worker, req[w].pc # "idle"
  PROVE  req[w].msg.date >= now - TTL
<1>1. /\ now \in Int /\ req[w].since \in Int /\ req[w].msg.date \in Int
      /\ now <= req[w].since + MaxDelay
      /\ req[w].msg.date >= req[w].since - MaxSkew
  BY DEF Inv, TypeOK
<1> QED
  BY <1>1, NonceWindowAssumption

\* A request that passes the clock check is young enough.
LEMMA ReceiveInv ==
  ASSUME Inv, NEW w \in Worker, NEW m \in Message, Receive(w, m)
  PROVE  Inv'
<1> DEFINE f == [pc |-> "lookup", msg |-> m, since |-> now]
<1>1. /\ \A v \in Worker : req'[v] = IF v = w THEN f ELSE req[v]
      /\ req' \in [Worker -> [pc : {"idle", "lookup", "nonce"},
                              msg : Message \cup {NoMessage}, since : Nat]]
      /\ UNCHANGED <<now, issued, revoked, keys, nonces, executed>>
  BY DEF Receive, Inv, TypeOK
<1>2. now \in Nat /\ m.date \in Int /\ m.date >= now - MaxSkew
  BY DEF Receive, Inv, TypeOK
<1>3. TypeOK'
  BY <1>1 DEF Inv, TypeOK
<1>4. \A v \in Worker : req'[v].pc # "idle" =>
        /\ req'[v].since <= now /\ now <= req'[v].since + MaxDelay
        /\ req'[v].msg.date >= req'[v].since - MaxSkew
  BY <1>1, <1>2 DEF Inv
<1>5. UNCHANGED <<now, nonces, executed>>
  BY <1>1
<1>6. \A v \in Worker : req'[v].pc # "idle" =>
        /\ req'[v].since <= now' /\ now' <= req'[v].since + MaxDelay
        /\ req'[v].msg.date >= req'[v].since - MaxSkew
  BY <1>4, <1>5
<1> HIDE DEF f
<1> QED
  BY <1>3, <1>5, <1>6 DEF Inv, ExecutedOnce

\* Looking a key up changes nothing that is remembered.
LEMMA LookupInv ==
  ASSUME Inv, NEW w \in Worker, Lookup(w)
  PROVE  Inv'
<1>1. /\ req' \in [Worker -> [pc : {"idle", "lookup", "nonce"},
                              msg : Message \cup {NoMessage}, since : Nat]]
      /\ \A v \in Worker : \/ req'[v] = Idle
                           \/ /\ req[v].pc # "idle"
                              /\ req'[v].msg = req[v].msg
                              /\ req'[v].since = req[v].since
                           \/ req'[v] = req[v]
      /\ UNCHANGED <<now, issued, revoked, keys, nonces, executed>>
  BY DEF Lookup, Inv, TypeOK, Idle
<1>2. TypeOK'
  <2>1. \A v \in Worker : req'[v].pc # "idle" => req'[v].msg \in Message
    BY <1>1 DEF Inv, TypeOK, Idle
  <2> QED
    BY <1>1, <2>1 DEF Inv, TypeOK
<1>3. \A v \in Worker : req'[v].pc # "idle" =>
        /\ req'[v].since <= now /\ now <= req'[v].since + MaxDelay
        /\ req'[v].msg.date >= req'[v].since - MaxSkew
  BY <1>1 DEF Inv, Idle
<1> QED
  BY <1>1, <1>2, <1>3 DEF Inv, ExecutedOnce

\* A request let through was not remembered, hence never let through before, and is remembered now.
LEMMA SeenNonceInv ==
  ASSUME Inv, NEW w \in Worker, SeenNonce(w)
  PROVE  Inv'
<1> USE DEF Inv
<1> DEFINE m == req[w].msg
           entry == [nonce |-> m.nonce, date |-> m.date]
           seen == \E e \in Recent(m.key) : e.nonce = m.nonce
<1>1. /\ m \in Message /\ m.key \in KeyId /\ m.date \in Int /\ entry \in Entry
      /\ m.date >= now - TTL /\ now \in Nat
  BY StillYoung DEF SeenNonce, TypeOK, Entry
<1>2. /\ nonces \in [KeyId -> SUBSET Entry] /\ executed \in [Message -> Nat]
      /\ Recent(m.key) \subseteq nonces[m.key]
  BY <1>1 DEF TypeOK, Recent
<1>3. /\ nonces' = [nonces EXCEPT ![m.key] = IF seen THEN Recent(m.key)
                                    ELSE Recent(m.key) \cup {entry}]
      /\ executed' = IF seen THEN executed
                     ELSE [executed EXCEPT ![m] = @ + 1]
      /\ req' = [req EXCEPT ![w] = Idle]
      /\ UNCHANGED <<now, issued, revoked, keys>>
  BY DEF SeenNonce
<1> HIDE DEF m
<1>4. TypeOK'
  <2>1. nonces' \in [KeyId -> SUBSET Entry]
    BY <1>1, <1>2, <1>3
  <2>2. executed' \in [Message -> Nat]
    BY <1>1, <1>2, <1>3
  <2>3. /\ req' \in [Worker -> [pc : {"idle", "lookup", "nonce"},
                                msg : Message \cup {NoMessage}, since : Nat]]
        /\ \A v \in Worker : req'[v].pc # "idle" => req'[v].msg \in Message
    BY <1>3 DEF TypeOK, Idle
  <2> QED
    BY <1>3, <2>1, <2>2, <2>3 DEF TypeOK
<1>5. seen \/ executed[m] = 0
  <2>1. executed[m] > 0 => entry \in nonces[m.key]
    BY <1>1
  <2>2. executed[m] > 0 => entry \in Recent(m.key)
    BY <1>1, <2>1 DEF Recent
  <2>3. executed[m] \in Nat
    BY <1>1, <1>2
  <2> QED
    BY <2>2, <2>3
<1>6. ExecutedOnce'
  <2> SUFFICES ASSUME NEW x \in Message PROVE executed'[x] <= 1
    BY DEF ExecutedOnce
  <2> QED
    BY <1>1, <1>2, <1>3, <1>5 DEF ExecutedOnce
<1>7. \A x \in Message : executed'[x] > 0 =>
        \/ [nonce |-> x.nonce, date |-> x.date] \in nonces'[x.key]
        \/ x.date < now' - TTL
  <2> SUFFICES ASSUME NEW x \in Message, executed'[x] > 0,
                      ~(x.date < now - TTL)
               PROVE  [nonce |-> x.nonce, date |-> x.date] \in nonces'[x.key]
    BY <1>3
  <2>0. x.key \in KeyId /\ x.date \in Int
    BY DEF TypeOK
  <2>1. CASE x = m /\ ~seen
    BY <1>1, <1>2, <1>3, <2>1
  <2>2. CASE x # m \/ seen
    <3>1. executed[x] > 0
      BY <1>1, <1>2, <1>3, <2>2
    <3>2. [nonce |-> x.nonce, date |-> x.date] \in nonces[x.key]
      BY <3>1
    <3>3. CASE x.key = m.key
      <4>1. [nonce |-> x.nonce, date |-> x.date] \in Recent(m.key)
        BY <1>1, <2>0, <3>2, <3>3 DEF Recent
      <4> QED
        BY <1>1, <1>2, <1>3, <3>3, <4>1
    <3>4. CASE x.key # m.key
      BY <1>2, <1>3, <2>0, <3>2, <3>4
    <3> QED
      BY <3>3, <3>4
  <2> QED
    BY <2>1, <2>2
<1>8. \A v \in Worker : req'[v].pc # "idle" =>
        /\ req'[v].since <= now' /\ now' <= req'[v].since + MaxDelay
        /\ req'[v].msg.date >= req'[v].since - MaxSkew
  BY <1>3 DEF TypeOK, Idle
<1>9. \A k \in KeyId : \A e \in nonces'[k] :
        \E x \in Message : x.key = k /\ x.nonce = e.nonce /\ executed'[x] > 0
  <2> SUFFICES ASSUME NEW k \in KeyId, NEW e \in nonces'[k]
               PROVE  \E x \in Message : /\ x.key = k /\ x.nonce = e.nonce
                                         /\ executed'[x] > 0
    OBVIOUS
  <2>1. \A x \in Message : executed[x] > 0 => executed'[x] > 0
    BY <1>1, <1>2, <1>3
  <2>2. CASE e \in nonces[k]
    BY <2>1, <2>2
  <2>3. CASE e \notin nonces[k]
    <3>1. k = m.key /\ e = entry /\ ~seen
      BY <1>1, <1>2, <1>3, <2>3
    <3>2. executed'[m] > 0
      BY <1>1, <1>2, <1>3, <3>1
    <3> QED
      BY <1>1, <3>1, <3>2
  <2> QED
    BY <2>2, <2>3
<1> QED
  BY <1>4, <1>6, <1>7, <1>8, <1>9

\* Every step preserves the invariant.
LEMMA InvNext == Inv /\ [Next]_vars => Inv'
<1> SUFFICES ASSUME Inv, [Next]_vars PROVE Inv'
  OBVIOUS
<1>1. CASE \E w \in Worker : \/ \E m \in Message : Receive(w, m)
                             \/ Lookup(w) \/ SeenNonce(w)
  BY <1>1, ReceiveInv, LookupInv, SeenNonceInv
<1>2. CASE \E d \in Device, k \in KeyId : Put(d, k) \/ APISecretIssue(d, k)
  BY <1>2 DEF Put, APISecretIssue, Inv, TypeOK, ExecutedOnce
<1>3. CASE \E d \in Device : APISecretRevokeAll(d)
  BY <1>3 DEF APISecretRevokeAll, Inv, TypeOK, ExecutedOnce
<1>4. CASE Tick
  <2>1. /\ now \in Nat /\ now' = now + 1
        /\ \A w \in Worker : req[w].pc # "idle" =>
             now < req[w].since + MaxDelay /\ req[w].since \in Nat
        /\ UNCHANGED <<issued, revoked, keys, nonces, req, executed>>
    BY <1>4 DEF Tick, Inv, TypeOK
  <2>2. TypeOK'
    BY <2>1 DEF Inv, TypeOK
  <2>3. \A m \in Message : m.date \in Int
    OBVIOUS
  <2> QED
    BY <2>1, <2>2, <2>3 DEF Inv, ExecutedOnce
<1>5. CASE Restart
  BY <1>5 DEF Restart, Inv, TypeOK, ExecutedOnce, Idle, Entry
<1>6. CASE UNCHANGED vars
  BY <1>6 DEF vars, Inv, TypeOK, ExecutedOnce
<1> QED
  BY <1>1, <1>2, <1>3, <1>4, <1>5, <1>6 DEF Next

\* The invariant that links executions, remembered nonces and the clock.
THEOREM Invariance == Spec => []Inv
BY InitInv, InvNext, PTL DEF Spec

\* No request is let through twice while the program runs, however many copies
\* of it arrive and however their handling interleaves.
THEOREM NoRepetition == Spec => []ExecutedOnce
<1>1. Inv => ExecutedOnce
  BY DEF Inv
<1> QED
  BY <1>1, Invariance, PTL

\* A request is refused as repeated only when its key and nonce were used.
THEOREM NoFalseAlarm == Spec => RefusedOnlyIfUsed
<1>1. ASSUME Inv, NEW w \in Worker, SeenNonce(w), executed' = executed
      PROVE  \E m \in Message : /\ executed[m] > 0
                                /\ m.key = req[w].msg.key
                                /\ m.nonce = req[w].msg.nonce
  <2> DEFINE m == req[w].msg
  <2>1. m \in Message /\ m.key \in KeyId /\ executed[m] \in Nat
    BY <1>1 DEF SeenNonce, Inv, TypeOK
  <2>2. PICK e \in Recent(m.key) : e.nonce = m.nonce
    <3>1. CASE \E e \in Recent(m.key) : e.nonce = m.nonce
      BY <3>1
    <3>2. CASE ~ \E e \in Recent(m.key) : e.nonce = m.nonce
      <4>1. executed' = [executed EXCEPT ![m] = @ + 1]
        BY <1>1, <3>2 DEF SeenNonce
      <4>2. executed'[m] = executed[m] + 1
        BY <1>1, <2>1, <4>1 DEF Inv, TypeOK
      <4> QED
        BY <1>1, <2>1, <4>2
    <3> QED
      BY <3>1, <3>2
  <2>3. e \in nonces[m.key]
    BY <2>2 DEF Recent
  <2> QED
    BY <1>1, <2>1, <2>2, <2>3 DEF Inv
<1>2. Inv => [\A w \in Worker :
                SeenNonce(w) /\ executed' = executed =>
                  \E m \in Message : /\ executed[m] > 0
                                     /\ m.key = req[w].msg.key
                                     /\ m.nonce = req[w].msg.nonce]_vars
  BY <1>1
<1> QED
  BY <1>2, Invariance, PTL DEF RefusedOnlyIfUsed
=============================================================================
