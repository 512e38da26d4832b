---------------------------- MODULE MCLspServer ----------------------------
(* Root module of the runs of LspServer.                                   *)
EXTENDS LspServer
=============================================================================
