-------------------------- MODULE MCFlightRecorder --------------------------
EXTENDS FlightRecorder, TLC
CONSTANTS w1, w2, w3
\* Two writers share a shard, the third has one of its own.
MCThreadHash == w1 :> 0 @@ w2 :> 2 @@ w3 :> 1
=============================================================================
