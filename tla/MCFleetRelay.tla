---------------------------- MODULE MCFleetRelay ----------------------------
\* Instances of FleetRelay: one signal to two nodes, or two signals to one,
\* which fill files of one row.
EXTENDS FleetRelay, TLC

MCSymmetry == Permutations(Signals) \cup Permutations(Recipients)
=============================================================================
