--------------------------- MODULE MCSCMCommandQueue ---------------------------
(* Model values for SCMCommandQueue: one merge and one un-draft command. *)
EXTENDS SCMCommandQueue
CONSTANTS m1, u1, d1, d2
MCCommands == {m1, u1}
MCMergeCommands == {m1}
MCDispatchers == {d1, d2}
=============================================================================
