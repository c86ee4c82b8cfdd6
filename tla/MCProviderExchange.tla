-------------------------- MODULE MCProviderExchange --------------------------
EXTENDS ProviderExchange, TLC

Symmetry == Permutations(Gateways) \cup Permutations(Handlers)
=============================================================================
