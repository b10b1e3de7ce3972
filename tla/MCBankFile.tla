----------------------------- MODULE MCBankFile -----------------------------
(***************************************************************************)
(* Small instances of BankFile for the configurations MCBankFile_*.cfg:    *)
(* one session on one machine, or two sessions on two machines that share  *)
(* the archive.                                                            *)
(***************************************************************************)
EXTENDS BankFile

CONSTANTS S1, S2, Home, Away

MCOneMachine  == [s \in Sessions |-> Home]
MCTwoMachines == [s \in Sessions |-> IF s = S1 THEN Home ELSE Away]

\* Everywhere but between truncating and writing the plain file, and between
\* the two writes of a baseline.
MCAlmostAnywhere == Phases \ {"writing", "cutting"}
MCAnywhere       == Phases
MCNotCutting     == Phases \ {"cutting"}
\* Where a crash leaves no plain file behind.
MCNoPlain        == {"loading", "offer", "idle", "confirmed"}
=============================================================================
