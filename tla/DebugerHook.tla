---------------------------- MODULE DebugerHook ----------------------------
(***************************************************************************)
(* The log hook of Debuger.cpp: set_log_hook and HookLogStream, used by      *)
(* threads of one process while others log and the main thread shuts the    *)
(* Debuger down.                                                            *)
(*                                                                          *)
(* The logger is library code, modelled from its use here: it writes one    *)
(* line at a time (all threads share buf_), and add_stream and del_stream   *)
(* wait for the line being written (a stream is deleted right after         *)
(* del_stream).  Adding a stream that is there, or removing one that is     *)
(* not, does nothing.                                                       *)
(***************************************************************************)
EXTENDS Naturals

CONSTANTS
  Setters,  \* threads that call set_log_hook
  Hooks,    \* functions they set
  Streams,  \* addresses of HookLogStream objects
  NULL

ASSUME HookAssumption == NULL \notin Hooks \cup Streams

VARIABLES
  \* the Debuger
  hook_log_stream_, hook_streamed_,
  live,       \* the HookLogStream objects there are
  callback_,  \* of each of them
  \* the logger
  added,      \* the HookLogStream objects it holds
  writing,    \* the one it is writing a line to, or NULL
  wpc,        \* where that write is
  called,     \* the function it calls
  \* the threads
  mpc,        \* the main thread
  spc, hook,  \* the setters: where they are, and the argument
  \* history
  clean,      \* no call of set_log_hook has overlapped another or a shutdown
  set         \* what the last call that has returned has set

debugerVars == <<hook_log_stream_, hook_streamed_, live, callback_>>
writeVars   == <<writing, wpc, called>>
loggerVars  == <<added, writeVars>>
hookVars    == <<debugerVars, loggerVars, mpc, spc, hook, clean, set>>

HookInit ==
  /\ hook_log_stream_ = NULL
  /\ hook_streamed_ = FALSE
  /\ live = {}
  /\ callback_ = [s \in Streams |-> NULL]
  /\ added = {}
  /\ writing = NULL
  /\ wpc = "idle"
  /\ called = NULL
  /\ mpc = "up"
  /\ spc = [t \in Setters |-> "idle"]
  /\ hook = [t \in Setters |-> NULL]
  /\ clean = TRUE
  /\ set = NULL

Quiet == \A t \in Setters : spc[t] = "idle"

\* add_stream and del_stream wait for the logger.
LoggerFree == wpc = "idle"
-----------------------------------------------------------------------------
(* A thread t in set_log_hook(h). *)

Goto(t, place) ==
  /\ spc' = [spc EXCEPT ![t] = place]
  /\ UNCHANGED <<hook, mpc, clean, set>>

Return(t) ==
  /\ spc' = [spc EXCEPT ![t] = "idle"]
  /\ hook' = [hook EXCEPT ![t] = NULL]
  /\ set' = hook[t]
  /\ UNCHANGED <<mpc, clean>>

SetLogHook(t, h) ==
  /\ spc[t] = "idle"
  /\ mpc # "none"
  /\ spc' = [spc EXCEPT ![t] = "test"]
  /\ hook' = [hook EXCEPT ![t] = h]
  /\ clean' = (clean /\ Quiet /\ mpc = "up")
  /\ UNCHANGED <<debugerVars, loggerVars, mpc, set>>

\* Wrong on purpose: takes the hook away and leaves the stream in place.
TestNoDel(t) ==
  /\ spc[t] = "test"
  /\ Goto(t, CASE hook[t] = NULL -> IF hook_log_stream_ = NULL THEN "unflag" ELSE "unset"
               [] hook[t] # NULL -> IF hook_log_stream_ = NULL THEN "new" ELSE "set")
  /\ UNCHANGED <<debugerVars, loggerVars>>

\* Wrong on purpose: takes away a hook that may never have been set.
TestOnlyNew(t) ==
  /\ spc[t] = "test"
  /\ Goto(t, CASE hook[t] = NULL -> "del"
               [] hook[t] # NULL -> IF hook_log_stream_ = NULL THEN "new" ELSE "set")
  /\ UNCHANGED <<debugerVars, loggerVars>>

\* if (hook_log_stream_)
Test(t) ==
  /\ spc[t] = "test"
  /\ Goto(t, CASE hook[t] = NULL -> IF hook_log_stream_ = NULL THEN "unflag" ELSE "del"
               [] hook[t] # NULL -> IF hook_log_stream_ = NULL THEN "new" ELSE "set")
  /\ UNCHANGED <<debugerVars, loggerVars>>

\* hook_log_stream_ = new HookLogStream
New(t) ==
  /\ spc[t] = "new"
  /\ \E s \in Streams \ live :
       /\ hook_log_stream_' = s
       /\ live' = live \cup {s}
       /\ callback_' = [callback_ EXCEPT ![s] = NULL]
  /\ Goto(t, "set")
  /\ UNCHANGED <<hook_streamed_, loggerVars>>

\* set_log_dump(hook, level).  level_ is the logger's, and left out.
SetLogDump(t) ==
  /\ spc[t] \in {"set", "unset"}
  /\ callback_' = [callback_ EXCEPT ![hook_log_stream_] = hook[t]]
  /\ Goto(t, IF hook[t] = NULL THEN "unflag" ELSE "flag")
  /\ UNCHANGED <<hook_log_stream_, hook_streamed_, live, loggerVars>>

\* hook_streamed_ = true
Flag(t) ==
  /\ spc[t] = "flag"
  /\ hook_streamed_' = TRUE
  /\ Goto(t, "add")
  /\ UNCHANGED <<hook_log_stream_, live, callback_, loggerVars>>

\* Wrong on purpose: does not add what the logger has.
AddNew(t) ==
  /\ spc[t] = "add"
  /\ LoggerFree \/ hook_log_stream_ \in added
  /\ added' = added \cup {hook_log_stream_}
  /\ Return(t)
  /\ UNCHANGED <<debugerVars, writeVars>>

AddStream(t) ==
  /\ spc[t] = "add"
  /\ LoggerFree
  /\ added' = added \cup {hook_log_stream_}
  /\ Return(t)
  /\ UNCHANGED <<debugerVars, writeVars>>

DelStream(t) ==
  /\ spc[t] = "del"
  /\ LoggerFree
  /\ added' = added \ {hook_log_stream_}
  /\ Goto(t, "unset")
  /\ UNCHANGED <<debugerVars, writeVars>>

\* hook_streamed_ = false
Unflag(t) ==
  /\ spc[t] = "unflag"
  /\ hook_streamed_' = FALSE
  /\ Return(t)
  /\ UNCHANGED <<hook_log_stream_, live, callback_, loggerVars>>
-----------------------------------------------------------------------------
(* The main thread. *)

\* Wrong on purpose: leaves the stream to ~Debuger.
ShutdownNoDel ==
  /\ mpc = "up"
  /\ mpc' = "down"
  /\ clean' = (clean /\ Quiet)
  /\ set' = NULL
  /\ UNCHANGED <<debugerVars, loggerVars, spc, hook>>

\* if (hook_streamed_)
Shutdown ==
  /\ mpc = "up"
  /\ mpc' = IF hook_streamed_ THEN "del" ELSE "down"
  /\ clean' = (clean /\ Quiet)
  /\ set' = IF hook_streamed_ THEN set ELSE NULL
  /\ UNCHANGED <<debugerVars, loggerVars, spc, hook>>

ShutdownDel ==
  /\ mpc = "del"
  /\ LoggerFree
  /\ added' = added \ {hook_log_stream_}
  /\ mpc' = "down"
  /\ set' = NULL
  /\ UNCHANGED <<debugerVars, writeVars, spc, hook, clean>>

\* ~Debuger, when no thread is in the Debuger any more.
Destroy ==
  /\ mpc = "down"
  /\ Quiet
  /\ mpc' = "none"
  /\ live' = live \ {hook_log_stream_}
  /\ hook_log_stream_' = NULL
  /\ UNCHANGED <<hook_streamed_, callback_, loggerVars, spc, hook, clean, set>>

\* Another Debuger in the same process.
Construct ==
  /\ mpc = "none"
  /\ mpc' = "up"
  /\ hook_streamed_' = FALSE
  /\ UNCHANGED <<hook_log_stream_, live, callback_, loggerVars, spc, hook,
                 clean, set>>
-----------------------------------------------------------------------------
(* A line goes to one of the streams: HookLogStream::write. *)

Writing(place) ==
  /\ wpc' = place
  /\ UNCHANGED <<debugerVars, added, mpc, spc, hook, clean, set>>

Write(s) ==
  /\ LoggerFree
  /\ s \in added \cap live
  /\ writing' = s
  /\ Writing("check")
  /\ UNCHANGED called

\* if (!callback_) return;
Check ==
  /\ wpc = "check"
  /\ IF callback_[writing] = NULL
     THEN writing' = NULL /\ Writing("idle")
     ELSE writing' = writing /\ Writing("copied")
  /\ UNCHANGED called

\* The text is in buf_ and callback_ is read once more, to be called.
CallHook ==
  /\ wpc = "copied"
  /\ called' = callback_[writing]
  /\ Writing("calling")
  /\ UNCHANGED writing

HookReturns ==
  /\ wpc = "calling"
  /\ called' = NULL
  /\ writing' = NULL
  /\ Writing("idle")
-----------------------------------------------------------------------------
SetterStep(t) ==
  \/ Test(t)
  \/ New(t)
  \/ SetLogDump(t)
  \/ Flag(t)
  \/ AddStream(t)
  \/ DelStream(t)
  \/ Unflag(t)

MainStep == Shutdown \/ ShutdownDel \/ Destroy \/ Construct

WriteStep == (\E s \in Streams : Write(s)) \/ Check \/ CallHook \/ HookReturns

HookNext ==
  \/ \E t \in Setters : SetterStep(t) \/ \E h \in Hooks \cup {NULL} : SetLogHook(t, h)
  \/ MainStep
  \/ WriteStep

HookSpec == HookInit /\ [][HookNext]_hookVars
-----------------------------------------------------------------------------
(* Properties.  They are for callers that take turns, which nothing in the  *)
(* code enforces: two calls of set_log_hook at once may leave a stream in   *)
(* the logger with the flag down, and a call during or after shutdown may   *)
(* add one behind its back; ~Debuger then deletes it while the logger holds it.     *)

\* Types; and a call that uses hook_log_stream_ finds that there is one.
HookTypeOK ==
  /\ hook_log_stream_ \in Streams \cup {NULL}
  /\ hook_streamed_ \in BOOLEAN
  /\ live \subseteq Streams
  /\ callback_ \in [Streams -> Hooks \cup {NULL}]
  /\ added \subseteq Streams
  /\ writing \in Streams \cup {NULL}
  /\ wpc \in {"idle", "check", "copied", "calling"}
  /\ called \in Hooks \cup {NULL}
  /\ mpc \in {"up", "del", "down", "none"}
  /\ spc \in [Setters -> {"idle", "test", "new", "set", "flag", "add", "del",
                         "unset", "unflag"}]
  /\ hook \in [Setters -> Hooks \cup {NULL}]
  /\ clean \in BOOLEAN
  /\ set \in Hooks \cup {NULL}
  /\ wpc = "idle" <=> writing = NULL
  /\ \A t \in Setters :
       spc[t] \in {"set", "flag", "add", "del", "unset"} => hook_log_stream_ # NULL

\* The logger never holds, or writes to, a HookLogStream that ~Debuger has
\* deleted: what shutdown goes by, hook_streamed_, is up whenever the stream
\* may be in the logger, through any number of hooks set, changed and taken
\* away.
HookAlive == clean => added \cup ({writing} \ {NULL}) \subseteq live

\* A write that has found a callback_ does not call NULL, although it reads
\* callback_ twice and set_log_hook changes it without waiting.
HookNotNull == clean /\ wpc = "calling" => called # NULL

\* Once set_log_hook or shutdown has returned, the function that was set
\* before is not running any more and is not called again: its owner may
\* forget it.
HookForgotten ==
  clean /\ Quiet /\ mpc # "del" /\ wpc = "calling" => called = set
=============================================================================
