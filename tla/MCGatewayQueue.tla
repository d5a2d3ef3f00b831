----------------------------- MODULE MCGatewayQueue -----------------------------
(* Instances of GatewayQueue for TLC: a file_ref is a model value. *)
EXTENDS GatewayQueue, TLC

\* file_refs and handlers are interchangeable.
Symmetry == Permutations(File) \cup Permutations(Handler)

================================================================================
