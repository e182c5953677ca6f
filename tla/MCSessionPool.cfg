CONSTANTS
 Workers = {w1, w2}
 Clients = {c1, c2}
 NoSocket = NoSocket
 UsersMax = 2
 FirstId = 10
 UIntMod = 8
 MaxPackets = 1
SPECIFICATION Spec
SYMMETRY Sym
INVARIANT TypeOK
INVARIANT AcceptExclusive
INVARIANT RegistrationIsFresh
PROPERTY IssuesIdsInOrder
CHECK_DEADLOCK FALSE
