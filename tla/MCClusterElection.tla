-------------------------- MODULE MCClusterElection --------------------------
EXTENDS ClusterElection, TLC

\* The replicas are interchangeable, and so are the masters.
Symmetry == Permutations(Replicas) \union Permutations(Masters)

=============================================================================
