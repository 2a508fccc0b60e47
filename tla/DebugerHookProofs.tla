-------------------------- MODULE DebugerHookProofs --------------------------
(* Proofs about DebugerHook. *)
EXTENDS DebugerHook, TLAPS

\* Callers take turns, and shutdown comes after them.
Turns ==
  /\ \A t, u \in Setters : spc[t] # "idle" /\ spc[u] # "idle" => t = u
  /\ \A t \in Setters : spc[t] # "idle" => mpc = "up"

\* There is one stream at most; while it is in the logger the flag is up and
\* the Debuger not shut down.
OneStream ==
  /\ live = {hook_log_stream_} \ {NULL}
  /\ added \subseteq live
  /\ added # {} => hook_streamed_ /\ mpc \in {"up", "del"}

\* What is being written to is in the logger.
LoggerWrites == writing # NULL => writing \in added

\* What a call has done by the time it is where it is.
CallSoFar ==
  \A t \in Setters :
    /\ spc[t] = "idle" => hook[t] = NULL
    /\ spc[t] \in {"new", "set", "flag", "add"} => hook[t] # NULL
    /\ spc[t] \in {"del", "unset", "unflag"} => hook[t] = NULL
    /\ spc[t] = "new" => hook_log_stream_ = NULL
    /\ spc[t] \in {"flag", "add"} => callback_[hook_log_stream_] = hook[t]
    /\ spc[t] = "add" => hook_streamed_
    /\ spc[t] \in {"unset", "unflag"} => added = {}

\* A function in use is the one that was set last, or the one being set.
Current(h) ==
  h = set \/ \E t \in Setters : spc[t] \in {"flag", "add"} /\ h = hook[t]

InUse ==
  /\ added # {} => /\ callback_[hook_log_stream_] # NULL
                   /\ \/ callback_[hook_log_stream_] = set
                      \/ \E t \in Setters : spc[t] \in {"flag", "add"}
  /\ wpc = "calling" => called # NULL /\ Current(called)

HookInv ==
  /\ HookTypeOK
  /\ clean => Turns /\ OneStream /\ LoggerWrites /\ CallSoFar /\ InUse

Clean == Turns /\ OneStream /\ LoggerWrites /\ CallSoFar /\ InUse
-----------------------------------------------------------------------------
LEMMA HookInitially == HookInit => HookInv
<1>1. SUFFICES ASSUME HookInit PROVE HookInv
  OBVIOUS
<1>2. HookTypeOK
  BY <1>1, HookAssumption, Zenon DEF HookInit, HookTypeOK
<1>3. Turns /\ OneStream /\ LoggerWrites
  BY <1>1, HookAssumption DEF HookInit, Turns, OneStream, LoggerWrites
<1>4. CallSoFar /\ InUse
  BY <1>1, HookAssumption DEF HookInit, CallSoFar, InUse
<1> QED BY <1>2, <1>3, <1>4 DEF HookInv

\* Types are kept by every step.
LEMMA HookTypes == ASSUME HookTypeOK, [HookNext]_hookVars PROVE HookTypeOK'
<1> USE HookAssumption DEF HookTypeOK
<1>1. ASSUME NEW t \in Setters, SetterStep(t) PROVE HookTypeOK'
  <2> USE DEF Goto, Return, debugerVars, loggerVars, writeVars
  <2>1. CASE Test(t) BY <2>1 DEF Test
  <2>2. CASE New(t)
    <3>1. PICK s \in Streams \ live :
            /\ hook_log_stream_' = s
            /\ live' = live \cup {s}
            /\ callback_' = [callback_ EXCEPT ![s] = NULL]
      BY <2>2 DEF New
    <3>2. callback_' \in [Streams -> Hooks \cup {NULL}]
      BY <3>1
    <3> QED BY <2>2, <3>1, <3>2 DEF New
  <2>3. CASE SetLogDump(t) BY <2>3 DEF SetLogDump
  <2>4. CASE Flag(t)
    <3>1. hook_streamed_' \in BOOLEAN
      BY <2>4, Zenon DEF Flag
    <3> QED BY <2>4, <3>1 DEF Flag
  <2>5. CASE AddStream(t) BY <2>5 DEF AddStream
  <2>6. CASE DelStream(t) BY <2>6 DEF DelStream
  <2>7. CASE Unflag(t)
    <3>1. hook_streamed_' \in BOOLEAN
      BY <2>7, Zenon DEF Unflag
    <3> QED BY <2>7, <3>1 DEF Unflag
  <2> QED BY <1>1, <2>1, <2>2, <2>3, <2>4, <2>5, <2>6, <2>7 DEF SetterStep
<1>2. ASSUME NEW t \in Setters, NEW h \in Hooks \cup {NULL}, SetLogHook(t, h) PROVE HookTypeOK'
  <2>1. clean' \in BOOLEAN
    BY <1>2, Zenon DEF SetLogHook
  <2> QED BY <1>2, <2>1 DEF SetLogHook, debugerVars, loggerVars, writeVars
<1>3. CASE MainStep
  <2>1. clean' \in BOOLEAN
    BY <1>3, Zenon DEF MainStep, Shutdown, ShutdownDel, Destroy, Construct
  <2> USE <2>1 DEF debugerVars, loggerVars, writeVars
  <2>2. CASE Shutdown BY <2>2 DEF Shutdown
  <2>3. CASE ShutdownDel BY <2>3 DEF ShutdownDel
  <2>4. CASE Destroy BY <2>4 DEF Destroy, Quiet
  <2>5. CASE Construct BY <2>5 DEF Construct
  <2> QED BY <1>3, <2>2, <2>3, <2>4, <2>5 DEF MainStep
<1>4. CASE WriteStep
  <2> USE DEF Writing, debugerVars
  <2>1. ASSUME NEW s \in Streams, Write(s) PROVE HookTypeOK'
    BY <2>1 DEF Write
  <2>2. CASE Check BY <2>2 DEF Check
  <2>3. CASE CallHook
    <3>1. called' \in Hooks \cup {NULL}
      BY <2>3 DEF CallHook
    <3> QED BY <2>3, <3>1 DEF CallHook
  <2>4. CASE HookReturns BY <2>4 DEF HookReturns
  <2> QED BY <1>4, <2>1, <2>2, <2>3, <2>4 DEF WriteStep
<1>5. CASE UNCHANGED hookVars
  BY <1>5 DEF hookVars, debugerVars, loggerVars, writeVars
<1> QED BY <1>1, <1>2, <1>3, <1>4, <1>5 DEF HookNext
-----------------------------------------------------------------------------
\* Where a call that stays clean goes, and what it needs of the others.
LEMMA SetterKeeps ==
  ASSUME HookTypeOK, Clean, NEW t \in Setters, SetterStep(t)
  PROVE Clean'
<1> USE HookAssumption
<1>1. \A u \in Setters : u # t => spc[u] = "idle"
  BY DEF Clean, Turns, SetterStep, Test, New, SetLogDump, Flag, AddStream, DelStream, Unflag
<1>2. mpc = "up" /\ mpc' = mpc
  BY DEF Clean, Turns, SetterStep, Test, New, SetLogDump, Flag, AddStream, DelStream, Unflag, Goto, Return
<1>3. \A u \in Setters : u # t => spc'[u] = "idle" /\ hook'[u] = hook[u]
  BY <1>1 DEF SetterStep, Test, New, SetLogDump, Flag, AddStream, DelStream, Unflag, Goto, Return, HookTypeOK
<1>4. Turns'
  BY <1>2, <1>3 DEF Turns
<1> USE <1>1, <1>2, <1>3, <1>4 DEF debugerVars, loggerVars, writeVars, Current
<1>5. CASE Test(t)
  BY <1>5 DEF Test, Goto, HookTypeOK, Clean, OneStream, LoggerWrites, CallSoFar, InUse
<1>6. CASE New(t)
  <2>1. PICK s \in Streams \ live :
          /\ hook_log_stream_' = s
          /\ live' = live \cup {s}
          /\ callback_' = [callback_ EXCEPT ![s] = NULL]
    BY <1>6 DEF New
  <2>2. added = {} /\ writing = NULL /\ wpc = "idle" /\ live = {}
    BY <1>6 DEF New, HookTypeOK, Clean, OneStream, LoggerWrites, CallSoFar
  <2> QED
    BY <1>6, <2>1, <2>2 DEF New, Goto, HookTypeOK, Clean, OneStream, LoggerWrites, CallSoFar, InUse
<1>7. CASE SetLogDump(t)
  BY <1>7 DEF SetLogDump, Goto, HookTypeOK, Clean, OneStream, LoggerWrites, CallSoFar, InUse
<1>8. CASE Flag(t)
  BY <1>8 DEF Flag, Goto, HookTypeOK, Clean, OneStream, LoggerWrites, CallSoFar, InUse
<1>9. CASE AddStream(t)
  BY <1>9 DEF AddStream, LoggerFree, Return, HookTypeOK, Clean, OneStream, LoggerWrites, CallSoFar, InUse
<1>10. CASE DelStream(t)
  BY <1>10 DEF DelStream, LoggerFree, Goto, HookTypeOK, Clean, OneStream, LoggerWrites, CallSoFar, InUse
<1>11. CASE Unflag(t)
  BY <1>11 DEF Unflag, Return, HookTypeOK, Clean, OneStream, LoggerWrites, CallSoFar, InUse
<1> QED BY <1>5, <1>6, <1>7, <1>8, <1>9, <1>10, <1>11 DEF SetterStep

LEMMA OthersKeep ==
  ASSUME HookTypeOK, Clean, clean',
         \/ \E t \in Setters, h \in Hooks \cup {NULL} : SetLogHook(t, h)
         \/ MainStep
         \/ WriteStep
         \/ UNCHANGED hookVars
  PROVE Clean'
<1> USE HookAssumption DEF debugerVars, loggerVars, writeVars, Current
<1>1. ASSUME NEW t \in Setters, NEW h \in Hooks \cup {NULL}, SetLogHook(t, h) PROVE Clean'
  <2>1. Quiet /\ mpc = "up"
    BY <1>1 DEF SetLogHook
  <2> QED
    BY <1>1, <2>1 DEF SetLogHook, Quiet, HookTypeOK, Clean, Turns, OneStream, LoggerWrites, CallSoFar, InUse
<1>2. CASE Shutdown
  <2>1. Quiet
    BY <1>2 DEF Shutdown
  <2> QED
    BY <1>2, <2>1 DEF Shutdown, Quiet, HookTypeOK, Clean, Turns, OneStream, LoggerWrites, CallSoFar, InUse
<1>3. CASE ShutdownDel
  BY <1>3 DEF ShutdownDel, LoggerFree, HookTypeOK, Clean, Turns, OneStream, LoggerWrites, CallSoFar, InUse
<1>4. CASE Destroy
  BY <1>4 DEF Destroy, Quiet, HookTypeOK, Clean, Turns, OneStream, LoggerWrites, CallSoFar, InUse
<1>5. CASE Construct
  BY <1>5 DEF Construct, HookTypeOK, Clean, Turns, OneStream, LoggerWrites, CallSoFar, InUse
<1>6. CASE WriteStep
  <2> USE DEF Writing
  <2>1. Turns' /\ OneStream' /\ CallSoFar'
    BY <1>6 DEF WriteStep, Write, Check, CallHook, HookReturns, Clean, Turns, OneStream, CallSoFar
  <2>2. ASSUME NEW s \in Streams, Write(s) PROVE LoggerWrites' /\ InUse'
    BY <2>2 DEF Write, LoggerFree, HookTypeOK, Clean, LoggerWrites, InUse
  <2>3. CASE Check
    <3>1. LoggerWrites'
      <4>1. added' = added /\ writing' \in {writing, NULL}
        BY <2>3 DEF Check
      <4> QED BY <4>1 DEF Clean, LoggerWrites
    <3>2. wpc' # "calling"
      BY <2>3 DEF Check
    <3>3. InUse'
      BY <2>3, <3>2 DEF Check, Clean, InUse
    <3> QED BY <2>1, <3>1, <3>3 DEF Clean
  <2>4. CASE CallHook
    BY <2>1, <2>4 DEF CallHook, HookTypeOK, Clean, OneStream, LoggerWrites, CallSoFar, InUse
  <2>5. CASE HookReturns
    BY <2>1, <2>5 DEF HookReturns, HookTypeOK, Clean, LoggerWrites, InUse
  <2> QED BY <1>6, <2>1, <2>2, <2>3, <2>4, <2>5 DEF WriteStep, Clean
<1>7. CASE UNCHANGED hookVars
  BY <1>7 DEF hookVars, Clean, Turns, OneStream, LoggerWrites, CallSoFar, InUse
<1> QED BY <1>1, <1>2, <1>3, <1>4, <1>5, <1>6, <1>7 DEF MainStep

\* Once two calls have overlapped it is never clean again.
LEMMA NeverCleanAgain == ASSUME HookTypeOK, [HookNext]_hookVars, clean' PROVE clean
BY Zenon
DEF HookTypeOK, HookNext, SetterStep, Test, New, SetLogDump, Flag, AddStream, DelStream, Unflag,
    SetLogHook, MainStep, Shutdown, ShutdownDel, Destroy, Construct,
    WriteStep, Write, Check, CallHook, HookReturns, Writing, Goto, Return, hookVars

LEMMA HookKeeps == HookInv /\ [HookNext]_hookVars => HookInv'
<1> SUFFICES ASSUME HookInv, [HookNext]_hookVars PROVE HookInv'
  OBVIOUS
<1>1. HookTypeOK'
  BY HookTypes DEF HookInv
<1>2. ASSUME clean' PROVE Clean'
  <2>1. HookTypeOK /\ Clean
    BY <1>2, NeverCleanAgain DEF HookInv, Clean
  <2> QED BY <1>2, <2>1, SetterKeeps, OthersKeep DEF HookNext
<1> QED BY <1>1, <1>2 DEF HookInv, Clean

THEOREM HookInvariant == HookSpec => []HookInv
BY HookInitially, HookKeeps, PTL DEF HookSpec
-----------------------------------------------------------------------------
\* The types of the hook and its threads.
THEOREM HookTypeCorrect == HookSpec => []HookTypeOK
<1>1. HookInv => HookTypeOK
  BY DEF HookInv
<1> QED BY <1>1, HookInvariant, PTL

\* No stream of the hook is deleted while the logger holds it or writes to
\* it, for callers that take turns.
THEOREM HookStreamsAlive == HookSpec => []HookAlive
<1>1. HookInv => HookAlive
  BY DEF HookInv, HookAlive, OneStream, LoggerWrites
<1> QED BY <1>1, HookInvariant, PTL

\* write calls no null pointer.
THEOREM HookCallsFunctions == HookSpec => []HookNotNull
<1>1. HookInv => HookNotNull
  BY DEF HookInv, HookNotNull, InUse
<1> QED BY <1>1, HookInvariant, PTL

\* A function that was replaced or taken away is not in use any more when
\* the call that did so has returned.
THEOREM HookLetsGo == HookSpec => []HookForgotten
<1>1. HookInv => HookForgotten
  BY DEF HookInv, HookForgotten, InUse, Current, Quiet
<1> QED BY <1>1, HookInvariant, PTL
=============================================================================
