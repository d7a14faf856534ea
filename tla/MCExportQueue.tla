--------------------------- MODULE MCExportQueue ---------------------------
(***************************************************************************)
(* Small instances of ExportQueue for TLC: w1 claims batches as cmd/worker *)
(* does, w2 one job at a time as cmd/lambda-export does.                   *)
(***************************************************************************)
EXTENDS ExportQueue, TLC

CONSTANTS w1, w2, t1, t2

MCBatchSize == w1 :> 2 @@ w2 :> 1
=============================================================================
