------------------------------- MODULE MCStop --------------------------------
(***************************************************************************)
(* Sessions that are paused and stopped, with two threads and a window     *)
(* that stays open.                                                        *)
(***************************************************************************)
EXTENDS Session
=============================================================================
