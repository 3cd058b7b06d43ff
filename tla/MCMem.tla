------------------------------- MODULE MCMem --------------------------------
EXTENDS Mem, TLC

\* Pages are interchangeable: pmAlloc() may take any free one.
PageSymmetry == Permutations(Pages)
ReadOnly == {{}}
=============================================================================
