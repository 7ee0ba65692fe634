-------------------------- MODULE MCBulkSolrStorage --------------------------
EXTENDS BulkSolrStorage, TLC
Symmetry == Permutations(Rec)
=============================================================================
