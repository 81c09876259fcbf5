------------------------ MODULE MCCompressorSessions ------------------------
(* Small instances of CompressorSessions for TLC.                            *)
EXTENDS CompressorSessions

CONSTANTS t1, t2, h1

\* How often the miners of t1 and of the other turns may ask.
TwoThenNone   == [t \in Turns |-> IF t = t1 THEN 2 ELSE 0]
ThreeThenNone == [t \in Turns |-> IF t = t1 THEN 3 ELSE 0]

=============================================================================
