CONSTANTS
 Workers = {w1}
 Clients = {c1, c2}
 NoSocket = NoSocket
 UsersMax = 2
 FirstId = 10
 UIntMod = 8
 MaxPackets = 1
SPECIFICATION Spec
SYMMETRY Sym
INVARIANT UniqueIds
CHECK_DEADLOCK FALSE
