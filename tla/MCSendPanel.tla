---------------------------- MODULE MCSendPanel ----------------------------
(***************************************************************************)
(* A small instance of SendPanel.                                          *)
(***************************************************************************)
EXTENDS SendPanel
============================================================================
