SPECIFICATION Spec
CONSTANTS
  d1 = d1
  k1 = k1
  n1 = n1
  n2 = n2
  Device = {d1}
  KeyId = {k1}
  Nonce = {n1, n2}
  Message <- Requests
  Worker = {w1, w2}
  Provisioned = {d1}
  MaxSkew = 2
  TTL = 3
  MaxDelay = 1
  Horizon = 8
  NoKeyId = NoKeyId
  NoMessage = NoMessage
INVARIANTS ExecutedOnce Inv
PROPERTY RefusedOnlyIfUsed
