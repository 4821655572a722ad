---------------------------- MODULE MCSimpleCache ----------------------------
EXTENDS SimpleCache, TLC

Symmetric == Permutations(Key) \cup Permutations(Value)
==============================================================================
