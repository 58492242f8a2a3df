------------------------------- MODULE MCHttp1 -------------------------------
(* The parser and its sender for TLC: a HEAD, a GET and a CONNECT request are  *)
(* answered, in this order.                                                   *)
EXTENDS Http1Connection

MCRequests == <<"HEAD", "GET", "CONNECT">>
=============================================================================
