CONSTANTS
 Workers = {w1, w2}
 Clients = {c1, c2}
 NoSocket = NoSocket
 UsersMax = 2
 FirstId = 10
 UIntMod = 8
 MaxPackets = 1
SPECIFICATION Spec
SYMMETRY Sym
INVARIANT CleansOriginalClient
CHECK_DEADLOCK FALSE
