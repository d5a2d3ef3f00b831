----------------------------- MODULE MCClientBridge -----------------------------
(* Instances of ClientBridge for TLC. *)
EXTENDS ClientBridge

================================================================================
