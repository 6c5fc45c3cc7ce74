-------------------------- MODULE MCTransferQueue ---------------------------
(* Two entries, copied together or one of them alone.                      *)
EXTENDS TransferQueue

CONSTANTS f, g

MCBatch == {<<f, g>>, <<f>>}
=============================================================================
