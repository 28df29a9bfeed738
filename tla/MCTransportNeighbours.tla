----------------------- MODULE MCTransportNeighbours -----------------------
(* Two sessions of one plugin and one of another.                          *)
EXTENDS TransportNeighbours

CONSTANTS s1, s2, s3

MCTransport == [s \in Sessions |-> IF s = s3 THEN 2 ELSE 1]
=============================================================================
