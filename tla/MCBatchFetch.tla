---------------------------- MODULE MCBatchFetch ----------------------------
(***************************************************************************)
(* A small blob that is uploaded meanwhile, a larger one that fits beside  *)
(* it if no other frame precedes them, one larger than any response may    *)
(* be, and a file larger than any upload.                                  *)
(***************************************************************************)
EXTENDS BatchFetch, TLC

CONSTANTS small, large, oversize, unframeable

MCSizeOf == small :> 2 @@ large :> 3 @@ oversize :> 7 @@ unframeable :> 9
=============================================================================
