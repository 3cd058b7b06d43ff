------------------------------- MODULE MCFat --------------------------------
EXTENDS Fat

\* Processes and names are interchangeable.
Symmetry == Permutations(Procs) \cup Permutations(Names)

\* No step depends on the last call, and no property on the one before it.
View == <<vol, open>>
=============================================================================
