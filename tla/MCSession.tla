------------------------------ MODULE MCSession ------------------------------
EXTENDS Session, TLC

CONSTANTS core1, core2

\* The two tasks of the core are alike.
Alike == Permutations({core1, core2})
=============================================================================
