-------------------------- MODULE MCConvertFromOld --------------------------
(***************************************************************************)
(* The conversion loop on every 16-bit word: primary kMaxLevel 6, compact  *)
(* kMaxLevel 4, so the inputs include invalid words, face cells (the       *)
(* root-marker case), every compact level and the two primary levels the   *)
(* compact layout cannot hold.                                             *)
(***************************************************************************)
EXTENDS ConvertFromOld

MCOldInputs == 0..(IdSpace - 1)

=============================================================================
