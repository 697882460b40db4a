-------------------------- MODULE MCRequestHandler --------------------------
(* Small instances of RequestHandler for TLC.                              *)
EXTENDS RequestHandler
=============================================================================
