---------------------------- MODULE MCTasqClient ----------------------------
(* Model-checking instance of TasqClient: the constants are given model   *)
(* values in the .cfg files; the job names are interchangeable.           *)
EXTENDS TasqClient, TLC

MCThreads1 == {"t1"}
MCThreads2 == {"t1", "t2"}

(* Job names are only compared for equality: permuting them is sound.     *)
NameSymmetry == Permutations(Names \ {NoName})
=============================================================================
