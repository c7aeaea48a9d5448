---------------------------- MODULE MCHttpServer ----------------------------
(* Instances of HttpServer for TLC.                                        *)
EXTENDS HttpServer, TLC

CONSTANTS c1, c2

MCClients == {c1, c2}
MCAsks == <<"users", "health">>

ClientSymmetry == Permutations(MCClients)
=============================================================================
