------------------------- MODULE MCTransferSession -------------------------
(***************************************************************************)
(* Small instances of TransferSession: a file of one chunk, and an empty    *)
(* file after it, which is a LAST_CHUNK only.  In a behaviour either nothing *)
(* goes wrong or anything may.                                              *)
(***************************************************************************)
EXTENDS TransferSession

TwoFiles == <<"data", "last", "last">>
OneFile == <<"data", "last">>

Calm == {{}}
DiskFaults == {{"io"}}
CalmOrAnything == {{}, Faults}
============================================================================
