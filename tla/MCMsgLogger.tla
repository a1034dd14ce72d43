------------------------------ MODULE MCMsgLogger ------------------------------
(***************************************************************************)
(* Small instances of MsgLogger for TLC.                                   *)
(***************************************************************************)
EXTENDS MsgLogger
===============================================================================
