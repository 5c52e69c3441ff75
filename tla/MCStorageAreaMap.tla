--------------------------- MODULE MCStorageAreaMap ---------------------------
\* Instances of StorageAreaMap for TLC.
EXTENDS StorageAreaMap, TLC

Symmetry == Permutations(Keys) \cup Permutations(Values) \cup Permutations(Writers)
            \cup Permutations(Processes \ Writers)

=============================================================================
