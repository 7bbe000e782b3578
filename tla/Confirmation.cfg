SPECIFICATION Spec
CONSTANTS
  Token = {t1, t2}
  Action = {a1, a2}
  Call = {c1, c2}
  TTL = 2
  NoAction = NoAction
  NoToken = NoToken
INVARIANTS TypeOK AtMostOnce
PROPERTIES NoResurrection ImplementsPromise Drained
