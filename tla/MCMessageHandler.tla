-------------------------- MODULE MCMessageHandler --------------------------
(* Instances of MessageHandler for TLC.                                    *)
EXTENDS MessageHandler, TLC

ThreadSymmetry == Permutations(Threads)
PutOffKinds == {"killed_before", "killed_as_event"}
=============================================================================
