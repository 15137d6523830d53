------------------------------ MODULE MCSentinel ------------------------------
EXTENDS SentinelHistory, TLC

\* Contexts are only compared, so any renaming of them maps behaviours to
\* behaviours; the runs that use it check invariants and step properties only.
ContextSymmetry == Permutations(Contexts)
=============================================================================
