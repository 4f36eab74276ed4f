------------------------------ MODULE MCActor ------------------------------
(* Instances of Actor for TLC.                                             *)
EXTENDS Actor, TLC


=============================================================================
