---------------------------- MODULE MCReadThrough ----------------------------
\* Instances of ReadThrough for TLC.
EXTENDS ReadThrough

CONSTANTS station, system

SystemOfStation == [l \in {station} |-> system]

=============================================================================
