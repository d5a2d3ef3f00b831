----------------------------- MODULE MCCorrelation -----------------------------
(* Values of the constants of Correlation for TLC. *)
EXTENDS Correlation

CONSTANTS m1, r1, r2, e1, d1

\* The units the configurations choose from: a message m1, a reply r1 to it and a
\* reply r2 to that, an edit e1 of r2 and a delete d1 of m1.
MCKind == [u \in Unit |->
    CASE u = m1 -> "message"
      [] u \in {r1, r2} -> "reply"
      [] u = e1 -> "edit"
      [] u = d1 -> "delete"]

MCDep == [u \in Unit |->
    CASE u = m1 -> NoUnit
      [] u \in {r1, d1} -> m1
      [] u = r2 -> r1
      [] u = e1 -> r2]
================================================================================
