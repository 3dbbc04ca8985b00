----------------------------- MODULE MCRequests -----------------------------
(* Requests with two calls and room for one of them at a time.             *)
EXTENDS Requests
=============================================================================
