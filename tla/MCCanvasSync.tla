---------------------------- MODULE MCCanvasSync -----------------------------
\* The instances of CanvasSync that TLC checks; pages and fields are symmetric.
EXTENDS CanvasSync, TLC

Symmetry == Permutations(Client) \union Permutations(Field)
==============================================================================
