----------------------------- MODULE MCG15Worker -----------------------------
\* G15Worker with the keys the runs press.
EXTENDS G15Worker

MCPageKeys == {"L1", "M1", "G1"}
MCCommandKeys == {"G1", "G2"}
=============================================================================
