---------------------------- MODULE MCHttpServer ----------------------------
(* Root module of the runs of HttpServer.                                  *)
EXTENDS HttpServer
=============================================================================
