------------------------------- MODULE MCCredit -------------------------------
(***************************************************************************)
(* Small instances of ConnectionCredit, with the sections and SETTINGS of  *)
(* MCSession.                                                              *)
(***************************************************************************)
EXTENDS ConnectionCredit, MCSession
===============================================================================
