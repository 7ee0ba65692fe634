----------------------------- MODULE MCWebCrawl -----------------------------
EXTENDS WebCrawl, TLC
Symmetry == Permutations(Worker) \union Permutations(Url)
=============================================================================
