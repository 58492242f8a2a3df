------------------------------ MODULE MCTransport ------------------------------
(***************************************************************************)
(* Small instances of Transport: what happens together.                    *)
(***************************************************************************)
EXTENDS Transport

CONSTANTS a, b, push

\* Two calls, one of which may be cancelled, or that meet GOAWAY or a failure; a
\* call against Close, with a push or a context that ends; a call with a body or
\* trailers that meets GOAWAY and write errors; a response in many parts; and two
\* uploads to a peer that opens windows and does not answer.
Mixed ==
  {{a, b, "answer", "cancel"}, {a, b, "answer", "goaway", "fail"},
   {a, push, "answer", "close"}, {a, "answer", "cancel", "close"},
   {a, "upload", "answer", "cancel", "goaway"}, {a, "upload", "answer", "break"},
   {a, "trailers", "answer", "cancel", "goaway", "break"},
   {a, "answer", "parts", "cancel", "fail"}, {a, b, "upload"}}
===============================================================================
