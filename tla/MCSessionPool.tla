---- MODULE MCSessionPool ----
EXTENDS SessionPool, TLC
Sym == Permutations(Workers) \cup Permutations(Clients)
====
