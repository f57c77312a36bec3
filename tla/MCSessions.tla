----------------------------- MODULE MCSessions -----------------------------
EXTENDS Sessions, TLC

Interchangeable == Permutations(Requests)
=============================================================================
