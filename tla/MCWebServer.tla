----------------------------- MODULE MCWebServer ----------------------------
(* Instance of WebServer for TLC: three handlers, two sign-ins, three      *)
(* sockets, one trade, and a clock that lets a session expire.             *)
EXTENDS WebServer, TLC

Symmetry == Permutations(Handlers)
=============================================================================
