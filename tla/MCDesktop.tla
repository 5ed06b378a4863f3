----------------------------- MODULE MCDesktop -----------------------------
(***************************************************************************)
(* A small instance of Desktop: two names, one other device, two starts.   *)
(***************************************************************************)
EXTENDS Desktop
============================================================================
