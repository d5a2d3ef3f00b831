----------------------------- MODULE MCNativeBridge -----------------------------
(* Instances of NativeBridge for TLC. *)
EXTENDS NativeBridge

================================================================================
