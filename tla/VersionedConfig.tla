-------------------------- MODULE VersionedConfig --------------------------
(***************************************************************************)
(* What the store promises of the configuration of one fleet of devices,   *)
(* whoever writes the rows and in whatever order: the archive, checksum    *)
(* and version a device has at any moment are, together, one configuration *)
(* that was published for that device.  A configuration is published with  *)
(* the checksum of its archive and a number that follows the number of one *)
(* published before.  A writer that saves a row it read earlier may bring  *)
(* an earlier configuration back, whole (the empty one included); it never *)
(* mixes two of them and never gives a device the one of another.          *)
(***************************************************************************)
EXTENDS Naturals

CONSTANTS Device, Archive, Empty, Digest(_), NextNumber(_)

VARIABLES published,   \* per device, the configurations published so far
          current      \* per device, the one its row holds

abstractVars == <<published, current>>

Init == /\ published = [d \in Device |-> {Empty}]
        /\ current = [d \in Device |-> Empty]

Publish(d, a) ==
  \E p \in published[d] :
    LET c == [archive |-> a, checksum |-> Digest(a),
              version |-> NextNumber(p.version)]
    IN /\ published' = [published EXCEPT ![d] = @ \cup {c}]
       /\ current' = [current EXCEPT ![d] = c]

Restore(d) ==
  /\ \E c \in published[d] : current' = [current EXCEPT ![d] = c]
  /\ UNCHANGED published

Next == \E d \in Device : Restore(d) \/ \E a \in Archive : Publish(d, a)

Spec == Init /\ [][Next]_abstractVars
=============================================================================
