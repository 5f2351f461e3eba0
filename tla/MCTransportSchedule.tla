---- MODULE MCTransportSchedule ----
\* TransportSchedule instantiated for TLC.
EXTENDS TransportSchedule, TLC
Symmetry == Permutations(Ids)
====
