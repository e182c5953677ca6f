CONSTANTS
 Workers = {w1, w2}
 Clients = {c1, c2}
 NoSocket = NoSocket
 UsersMax = 1
 FirstId = 10
 UIntMod = 8
 MaxPackets = 1
SPECIFICATION FairSpec
CHECK_DEADLOCK FALSE
PROPERTY ListensAgain
