------------------------------- MODULE MCUserbot -------------------------------
(* Values of the constants of Userbot for TLC. *)
EXTENDS Userbot

\* Plain messages only.
MCNoFiles == [e \in Event |-> 0]

\* The first event carries one attachment, or two.
MCOneFile  == [e \in Event |-> IF e = 1 THEN 1 ELSE 0]
MCTwoFiles == [e \in Event |-> IF e = 1 THEN 2 ELSE 0]
================================================================================
