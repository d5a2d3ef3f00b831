-------------------------------- MODULE MCSheets --------------------------------
(* Instances of Sheets for TLC. *)
EXTENDS Sheets

CONSTANTS a, b

================================================================================
