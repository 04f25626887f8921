----------------------------- MODULE Directory ------------------------------
(***************************************************************************)
(* What the in-memory store of the OpenWISP controller API promises: every *)
(* call takes effect at once, some time after it was made, and its caller  *)
(* is answered what that effect on the device it named was.                *)
(***************************************************************************)
EXTENDS Naturals

CONSTANTS Caller, UUID, Version

VARIABLES
  known,   \* the devices adopted in this life of the process
  asked,   \* what each caller waits to be answered
  answer   \* what each caller was answered last; 0 is an error, or none yet

directory == <<known, asked, answer>>

Op == {"adopt", "get", "ack"}
Nothing == [op |-> "nothing"]

\* A caller makes one call at a time.
Ask(w, op, u, n) ==
  /\ asked[w] = Nothing
  /\ asked' = [asked EXCEPT ![w] = [op |-> op, uuid |-> u, n |-> n]]
  /\ answer' = [answer EXCEPT ![w] = 0]
  /\ UNCHANGED known

Answer(w, a) == /\ answer' = [answer EXCEPT ![w] = a]
                /\ asked' = [asked EXCEPT ![w] = Nothing]

\* The first adoption of a device gives it a number no other device has.
AdoptNew(w) ==
  /\ asked[w].op = "adopt" /\ asked[w].uuid \notin DOMAIN known
  /\ LET id == answer'[w]
         u == asked[w].uuid
     IN /\ id \in Nat \ {0} /\ \A v \in DOMAIN known : known[v].id # id
        /\ known' = [v \in DOMAIN known \cup {u} |->
                       IF v = u THEN [id |-> id, version |-> 1, checksum |-> 0]
                       ELSE known[v]]
        /\ Answer(w, id)

\* Later ones tell it again.
AdoptKnown(w) ==
  /\ asked[w].op = "adopt" /\ asked[w].uuid \in DOMAIN known
  /\ Answer(w, known[asked[w].uuid].id)
  /\ UNCHANGED known

\* The version is the one acknowledged last.
GetConfig(w) ==
  /\ asked[w].op = "get" /\ asked[w].uuid \in DOMAIN known
  /\ Answer(w, known[asked[w].uuid].version)
  /\ UNCHANGED known

\* Version and checksum are acknowledged together.
AckConfig(w) ==
  /\ asked[w].op = "ack" /\ asked[w].uuid \in DOMAIN known
  /\ LET n == asked[w].n
     IN known' = [known EXCEPT ![asked[w].uuid] =
                    [id |-> @.id, version |-> n, checksum |-> n]]
  /\ Answer(w, 1)

\* Only a device nobody adopted is not found.
NotFound(w) ==
  /\ asked[w].op \in {"get", "ack"} /\ asked[w].uuid \notin DOMAIN known
  /\ Answer(w, 0)
  /\ UNCHANGED known

\* The process ends, and the store with it.
Forget == /\ known' = <<>>
          /\ asked' = [w \in Caller |-> Nothing]
          /\ answer' = [w \in Caller |-> 0]

Init == /\ known = <<>>
        /\ asked = [w \in Caller |-> Nothing]
        /\ answer = [w \in Caller |-> 0]
Next == \/ \E w \in Caller :
             \/ \E op \in Op, u \in UUID, n \in Version : Ask(w, op, u, n)
             \/ AdoptNew(w) \/ AdoptKnown(w) \/ GetConfig(w)
             \/ AckConfig(w) \/ NotFound(w)
        \/ Forget
Spec == Init /\ [][Next]_directory
=============================================================================
