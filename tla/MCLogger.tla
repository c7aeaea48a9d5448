------------------------------ MODULE MCLogger ------------------------------
(* Instances of Logger for TLC.                                            *)
EXTENDS Logger, TLC

CONSTANTS p1, p2

TwoProducers == {p1, p2}
OneProducer == {p1}
=============================================================================
