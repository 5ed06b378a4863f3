-------------------------- MODULE MCReceiveService --------------------------
(***************************************************************************)
(* A small instance of ReceiveService.                                     *)
(***************************************************************************)
EXTENDS ReceiveService
============================================================================
