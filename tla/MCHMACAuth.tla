----------------------------- MODULE MCHMACAuth -----------------------------
(***************************************************************************)
(* Instances of HMACAuth for TLC.                                          *)
(***************************************************************************)
EXTENDS HMACAuth

CONSTANTS d1, k1, n1, n2

Request(n, t, ok) ==
  [device |-> d1, key |-> k1, nonce |-> n, date |-> t, valid |-> ok]

\* Two requests that use one nonce, close enough for both clocks to be good;
\* one with a nonce of its own, from a clock that is ahead; one badly signed.
Requests == {Request(n1, 1, TRUE), Request(n1, 2, TRUE), Request(n2, 4, TRUE),
             Request(n2, 3, FALSE)}
OneRequest == {Request(n1, 1, TRUE)}
=============================================================================
