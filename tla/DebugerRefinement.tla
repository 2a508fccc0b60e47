------------------------- MODULE DebugerRefinement -------------------------
(***************************************************************************)
(* Debuger implements DebugMode.  The mode is the word in shared memory, a  *)
(* process shows its log when its logger holds the MsgQueueStream, and it   *)
(* owes a look while it has a message waiting, is in check_debug_mode, or a *)
(* broadcast is on its way.                                                 *)
(***************************************************************************)
EXTENDS Debuger

DM == INSTANCE DebugMode WITH mode <- debug_mode,
                              up   <- Up,
                              view <- registered,
                              owed <- Owed

\* Every step of the protocol is a step the abstract specification allows,
\* or one it does not see: a stream is added or removed only by a process
\* that owes a look, and no look at an old word frees a process.
ImplementsDebugMode == DM!Spec
=============================================================================
