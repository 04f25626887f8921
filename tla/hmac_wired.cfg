SPECIFICATION Spec
CONSTANTS
  d1 = d1
  k1 = k1
  n1 = n1
  n2 = n2
  Device = {d1}
  KeyId = {k1, k2}
  Nonce = {n1, n2}
  Message <- OneRequest
  Worker = {w1, w2}
  Provisioned = {}
  MaxSkew = 2
  TTL = 3
  MaxDelay = 1
  Horizon = 4
  NoKeyId = NoKeyId
  NoMessage = NoMessage
PROPERTY IssuedKeyAccepted
