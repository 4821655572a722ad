---------------------------- MODULE MCEpollQueue -----------------------------
(***************************************************************************)
(* An instance of the queue: two elements, timeouts of one and of two      *)
(* periods and one that never passes.                                      *)
(***************************************************************************)
EXTENDS EpollQueue
==============================================================================
