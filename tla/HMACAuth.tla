------------------------------ MODULE HMACAuth ------------------------------
(***************************************************************************)
(* The middleware in front of the configuration endpoints of the           *)
(* controller (internal/owctrl/auth_hmac.go), the provider of keys and     *)
(* nonces it asks (hmac_mem_provider.go), and the secrets the admin pages  *)
(* issue (internal/secrets).                                               *)
(*                                                                         *)
(* An agent signs a request with the secret of its key and sends its clock *)
(* and a nonce along.  The network may deliver a request again, at once or *)
(* much later: a client that got no answer sends it again.  The clock is   *)
(* checked when a copy comes in; its nonce is checked later, under the     *)
(* mutex of the provider, after the body was read and the key looked up.   *)
(***************************************************************************)
EXTENDS Integers, FiniteSets

CONSTANTS
  Device, KeyId, Nonce,
  Message,      \* the signed requests agents send
  Worker,       \* the goroutines that handle requests
  Provisioned,  \* the devices someone calls Put for; server/app.go: none
  MaxSkew,      \* the difference of clocks accepted (5 minutes)
  TTL,          \* for how long a nonce is remembered (10 minutes)
  MaxDelay,     \* the read timeout of the server: a body comes in by then
  Horizon,      \* bound: the last moment considered
  NoKeyId, NoMessage

ASSUME MessageAssumption ==
  Message \subseteq [device : Device, key : KeyId, nonce : Nonce, date : Int,
                     valid : BOOLEAN]   \* the signature is the expected one
ASSUME TimeAssumption == /\ MaxSkew \in Nat /\ TTL \in Nat /\ MaxDelay \in Nat
                         /\ Horizon \in Nat
\* 5 minutes and 15 seconds are less than 10 minutes.
ASSUME NonceWindowAssumption == MaxSkew + MaxDelay <= TTL
ASSUME EmptyAssumption == NoKeyId \notin KeyId /\ NoMessage \notin Message
                          /\ Provisioned \subseteq Device

VARIABLES
  now,
  issued,    \* device_secrets: the <<device, key id>> with revoked_at NULL
  revoked,   \* ... and those with a revoked_at
  keys,      \* MemKeyProvider.keys: per device, its key id
  nonces,    \* MemKeyProvider.nonces: per key id, nonces and their dates
  req,       \* the request each worker is handling
  executed   \* history: how often each request was let through since the start

vars == <<now, issued, revoked, keys, nonces, req, executed>>

Idle == [pc |-> "idle", msg |-> NoMessage, since |-> 0]
Entry == [nonce : Nonce, date : Int]

\* Slips, each the next operation as a plausible mistake would have it: the
\* run is shown to notice every one of them.  Here nonces are remembered for
\* as long as clocks may differ.
RecentForSkew(k) == {e \in nonces[k] : e.date >= now - MaxSkew}

\* The nonce map of a key, after the old nonces are dropped.
Recent(k) == {e \in nonces[k] : e.date >= now - TTL}

\* Slip: only clocks that are ahead are refused.
ReceiveOld(w, m) ==
  /\ req[w].pc = "idle"
  /\ m.date <= now + MaxSkew
  /\ req' = [req EXCEPT ![w] = [pc |-> "lookup", msg |-> m, since |-> now]]
  /\ UNCHANGED <<now, issued, revoked, keys, nonces, executed>>

\* A copy of a request comes in; its headers and its clock are checked.
Receive(w, m) ==
  /\ req[w].pc = "idle"
  /\ m.date <= now + MaxSkew
  /\ m.date >= now - MaxSkew
  /\ req' = [req EXCEPT ![w] = [pc |-> "lookup", msg |-> m, since |-> now]]
  /\ UNCHANGED <<now, issued, revoked, keys, nonces, executed>>

\* Slip: the nonce is noted before the signature is compared.
LookupNotesNonce(w) ==
  /\ req[w].pc = "lookup"
  /\ LET m == req[w].msg
     IN /\ req' = [req EXCEPT ![w] = IF keys[m.device] = m.key /\ m.valid
                                     THEN [@ EXCEPT !.pc = "nonce"] ELSE Idle]
        /\ nonces' = IF keys[m.device] = m.key /\ ~m.valid
                     THEN [nonces EXCEPT ![m.key] =
                            @ \cup {[nonce |-> m.nonce, date |-> m.date]}]
                     ELSE nonces
  /\ UNCHANGED <<now, issued, revoked, keys, executed>>

\* The body has been read; the key is looked up and the signature compared.
Lookup(w) ==
  /\ req[w].pc = "lookup"
  /\ LET m == req[w].msg
     IN req' = [req EXCEPT ![w] = IF keys[m.device] = m.key /\ m.valid
                                  THEN [@ EXCEPT !.pc = "nonce"] ELSE Idle]
  /\ UNCHANGED <<now, issued, revoked, keys, nonces, executed>>

\* Old nonces of the key are dropped, then this one is looked for and noted.
SeenNonce(w) ==
  /\ req[w].pc = "nonce"
  /\ LET m == req[w].msg
         seen == \E e \in Recent(m.key) : e.nonce = m.nonce
     IN IF seen
        THEN /\ nonces' = [nonces EXCEPT ![m.key] = Recent(m.key)]
             /\ UNCHANGED executed
        ELSE /\ nonces' = [nonces EXCEPT ![m.key] =
                  Recent(m.key) \cup {[nonce |-> m.nonce, date |-> m.date]}]
             /\ executed' = [executed EXCEPT ![m] = @ + 1]
  /\ req' = [req EXCEPT ![w] = Idle]
  /\ UNCHANGED <<now, issued, revoked, keys>>

Put(d, k) ==
  /\ d \in Provisioned
  /\ keys' = [keys EXCEPT ![d] = k]
  /\ UNCHANGED <<now, issued, revoked, nonces, req, executed>>

\* The admin page shows a new secret once and stores its hash.
APISecretIssue(d, k) ==
  /\ \A e \in Device : <<e, k>> \notin issued \cup revoked
  /\ issued' = issued \cup {<<d, k>>}
  /\ UNCHANGED <<now, revoked, keys, nonces, req, executed>>

APISecretRevokeAll(d) ==
  /\ issued' = issued \ ({d} \X KeyId)
  /\ revoked' = revoked \cup (issued \cap ({d} \X KeyId))
  /\ UNCHANGED <<now, keys, nonces, req, executed>>

\* Time passes; no request is read for longer than the server's timeout.
Tick ==
  /\ now < Horizon
  /\ \A w \in Worker : req[w].pc # "idle" => now < req[w].since + MaxDelay
  /\ now' = now + 1
  /\ UNCHANGED <<issued, revoked, keys, nonces, req, executed>>

\* Keys and nonces are in memory only.
Restart ==
  /\ keys' = [d \in Device |-> NoKeyId]
  /\ nonces' = [k \in KeyId |-> {}]
  /\ req' = [w \in Worker |-> Idle]
  /\ executed' = [m \in Message |-> 0]
  /\ UNCHANGED <<now, issued, revoked>>

Init ==
  /\ now = 0
  /\ issued = {} /\ revoked = {}
  /\ keys = [d \in Device |-> NoKeyId]
  /\ nonces = [k \in KeyId |-> {}]
  /\ req = [w \in Worker |-> Idle]
  /\ executed = [m \in Message |-> 0]

Next ==
  \/ \E w \in Worker : \/ \E m \in Message : Receive(w, m)
                       \/ Lookup(w) \/ SeenNonce(w)
  \/ \E d \in Device, k \in KeyId : Put(d, k) \/ APISecretIssue(d, k)
  \/ \E d \in Device : APISecretRevokeAll(d)
  \/ Tick
  \/ Restart

Spec == Init /\ [][Next]_vars

-----------------------------------------------------------------------------
TypeOK ==
  /\ now \in Nat
  /\ issued \subseteq Device \X KeyId /\ revoked \subseteq Device \X KeyId
  /\ keys \in [Device -> KeyId \cup {NoKeyId}]
  /\ nonces \in [KeyId -> SUBSET Entry]
  /\ req \in [Worker -> [pc : {"idle", "lookup", "nonce"},
                         msg : Message \cup {NoMessage}, since : Nat]]
  /\ \A w \in Worker : req[w].pc # "idle" => req[w].msg \in Message
  /\ executed \in [Message -> Nat]

\* However often a request is delivered, and whichever goroutines handle the
\* copies, it is let through at most once until the program is restarted: its
\* nonce is not forgotten before the last copy with an acceptable clock has
\* been dealt with.
ExecutedOnce == \A m \in Message : executed[m] <= 1

\* A request is refused as a repetition only if its nonce was indeed used.
RefusedOnlyIfUsed ==
  [][\A w \in Worker :
       SeenNonce(w) /\ executed' = executed =>
         \E m \in Message : /\ executed[m] > 0
                            /\ m.key = req[w].msg.key
                            /\ m.nonce = req[w].msg.nonce]_vars

\* A request the agent signed with a secret issued to it, and not revoked, is
\* let through to the nonce check.
IssuedKeyAccepted ==
  [][\A w \in Worker :
       Lookup(w) /\ req[w].msg.valid
         /\ <<req[w].msg.device, req[w].msg.key>> \in issued
         => req'[w].pc = "nonce"]_vars

\* The inductive invariant: what was executed is remembered, or so old that no
\* copy of it passes the clock check any more or is still being handled.
Inv ==
  /\ TypeOK
  /\ ExecutedOnce
  /\ \A m \in Message : executed[m] > 0 =>
       \/ [nonce |-> m.nonce, date |-> m.date] \in nonces[m.key]
       \/ m.date < now - TTL
  /\ \A w \in Worker : req[w].pc # "idle" =>
       /\ req[w].since <= now /\ now <= req[w].since + MaxDelay
       /\ req[w].msg.date >= req[w].since - MaxSkew
  /\ \A k \in KeyId : \A e \in nonces[k] :
       \E m \in Message : m.key = k /\ m.nonce = e.nonce /\ executed[m] > 0
=============================================================================
