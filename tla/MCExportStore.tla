---------------------------- MODULE MCExportStore ----------------------------
(* Instances of ExportStore for TLC. *)
EXTENDS ExportStore, TLC
CallSymmetry == Permutations(Call)
=============================================================================
