--------------------------- MODULE MCExportNotify ---------------------------
(***************************************************************************)
(* Small instances of ExportNotify for TLC.                                *)
(***************************************************************************)
EXTENDS ExportNotify

CONSTANTS l1, l2, p1
=============================================================================
