---------------------------- MODULE MCIncidents ----------------------------
\* Two signatures, one a success of the action retracts and one only the end of
\* the flow does; two promises at a time beside the drain.
EXTENDS Incidents, TLC
CONSTANTS blocked, findings, p1, p2

MCSignature == {blocked, findings}
MCRecoverable == {blocked}
MCTask == {p1, p2}
MCSymmetry == Permutations(MCTask)
=============================================================================
