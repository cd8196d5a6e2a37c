--------------------------- MODULE MCQuoteCaches ---------------------------
EXTENDS QuoteCaches, TLC

CONSTANTS c1, l1, l2

MCSymmetry == Permutations({l1, l2})
==============================================================================
