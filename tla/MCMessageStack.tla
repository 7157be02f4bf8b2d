--------------------------- MODULE MCMessageStack ---------------------------
EXTENDS MessageStack, TLC

TextSymmetry == Permutations(Texts)
=============================================================================
