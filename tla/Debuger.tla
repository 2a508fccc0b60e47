------------------------------ MODULE Debuger ------------------------------
(***************************************************************************)
(* The debug-mode protocol of Debuger.cpp.                                  *)
(*                                                                          *)
(* Several processes share one memory segment.  It holds the debug mode     *)
(* word (object 102), one message queue per process (the queue its          *)
(* CommonModule opens) and one queue named "Debuger".  A thread that calls  *)
(* change_debug_mode writes the word, broadcasts a MSGTYPEDEBUG message to  *)
(* every process queue and collects the answers on the "Debuger" queue,     *)
(* for at most TimeOut naps.  The io thread of every process answers on a   *)
(* timer: it pops one message, looks at the word, adds its MsgQueueStream   *)
(* to (or removes it from) the logger and pushes the answer.                *)
(*                                                                          *)
(* The queue itself is library code, modelled from its use here: push and   *)
(* pop are atomic, a message with no receiver goes to every open queue but  *)
(* the sender's, push returns how many it reached, and pop takes the first  *)
(* message of the wanted type.  Since every pop names a type, a queue is    *)
(* the product of one channel per type.  The messages of one channel differ *)
(* at most in their sender, so notice[p] counts the MSGTYPEDEBUG messages   *)
(* in the queue of p, acks[p] the answers of p and logs the log lines in    *)
(* the "Debuger" queue.                                                     *)
(***************************************************************************)
EXTENDS Naturals, FiniteSets

CONSTANTS
  Procs,       \* processes that run a CommonModule and a Debuger
  Changers,    \* threads, other than io threads, that call change_debug_mode
  Home,        \* the process of each such thread
  TimeOut,     \* naps change_debug_mode takes before it gives up (30)
  MaxLogs,     \* log lines the segment has room for
  Crowding,    \* whether these leave no room for other messages
  MaxChanges,  \* bound: calls of change_debug_mode
  MaxCrashes   \* bound: crashes

ASSUME DebugerAssumption ==
  /\ IsFiniteSet(Procs)
  /\ Home \in [Changers -> Procs]
  /\ {TimeOut, MaxLogs, MaxChanges, MaxCrashes} \subseteq Nat

VARIABLES
  \* in shared memory
  debug_mode,        \* the word *debug_mode_
  attached,          \* processes whose queue is open in the segment
  notice,            \* MSGTYPEDEBUG messages waiting in each process queue
  acks,              \* MSGTYPEDEBUG messages of each process in "Debuger"
  logs,              \* MSGTYPELOG messages in "Debuger"
  \* the main / io thread of each process and what it owns
  pc,                \* where that thread is
  resume,            \* the statement after the current check_debug_mode()
  debug_log_stream,  \* whether debug_log_stream_ points to a stream
  out_streamed,      \* out_streamed_
  registered,        \* processes whose logger holds their MsgQueueStream
  \* the calls of change_debug_mode
  cpc, arg, number, time_out,
  \* history
  awaited,           \* processes whose answer the call has yet to pop
  torn,              \* the last broadcast was cut off, or found no room
  clean,             \* no call overlapped or timed out, or found no room
                     \* for its broadcast, and nothing crashed
  calls, crashes     \* what the two bounds count

shmVars  == <<debug_mode, attached, notice, acks, logs>>
procVars == <<pc, resume, debug_log_stream, out_streamed, registered>>
callVars == <<cpc, arg, number, time_out, awaited>>
histVars == <<torn, clean, calls, crashes>>
vars     == <<shmVars, procVars, callVars, histVars>>

Checking == {"check1", "check0", "enter", "leave"}
Dead     == {"down", "stopped"}
Up       == {p \in Procs : pc[p] \notin Dead}

\* The Debuger of p exists: its constructor has returned.
Constructed(p) ==
  pc[p] \notin Dead /\ (pc[p] \in Checking => resume[p] # "constructed")

\* A log line of a process goes to the "Debuger" queue if the stream is on
\* and the segment has room (push drops the message otherwise).
\* What push does with a message that finds no room is up to the library:
\* it may reach nobody, or some of its receivers.
NoRoom == Crowding /\ logs >= MaxLogs

OneMoreLine == IF logs < MaxLogs THEN logs + 1 ELSE logs
Logged(p)   == IF p \in registered THEN OneMoreLine ELSE logs

\* The locals of change_debug_mode go out of scope in the threads T.
ForgetLocals(T) ==
  /\ arg' = [t \in Changers |-> IF t \in T THEN 0 ELSE arg[t]]
  /\ number' = [t \in Changers |-> IF t \in T THEN 0 ELSE number[t]]
  /\ time_out' = [t \in Changers |-> IF t \in T THEN 0 ELSE time_out[t]]
  /\ awaited' = [t \in Changers |-> IF t \in T THEN {} ELSE awaited[t]]

Init ==
  /\ debug_mode = 0
  /\ attached = {}
  /\ notice = [p \in Procs |-> 0]
  /\ acks = [p \in Procs |-> 0]
  /\ logs = 0
  /\ pc = [p \in Procs |-> "down"]
  /\ resume = [p \in Procs |-> "constructed"]
  /\ debug_log_stream = [p \in Procs |-> FALSE]
  /\ out_streamed = [p \in Procs |-> FALSE]
  /\ registered = {}
  /\ cpc = [t \in Changers |-> "idle"]
  /\ arg = [t \in Changers |-> 0]
  /\ number = [t \in Changers |-> 0]
  /\ time_out = [t \in Changers |-> 0]
  /\ awaited = [t \in Changers |-> {}]
  /\ torn = FALSE
  /\ clean = TRUE
  /\ calls = 0
  /\ crashes = 0
-----------------------------------------------------------------------------
(* The life of a process. *)

\* CommonModule opens the queue, then Debuger::Debuger takes the word and
\* calls check_debug_mode.  The first process finds no segment: it gets
\* fresh queues and a word set to 0 (the window between alloc_with_id and
\* that store is not part of this module).
Construct(p) ==
  /\ pc[p] = "down"
  /\ pc' = [pc EXCEPT ![p] = "check1"]
  /\ resume' = [resume EXCEPT ![p] = "constructed"]
  /\ debug_log_stream' = [debug_log_stream EXCEPT ![p] = FALSE]
  /\ out_streamed' = [out_streamed EXCEPT ![p] = FALSE]
  /\ \/ /\ \E q \in Procs : pc[q] # "down"
        /\ attached' = attached \cup {p}
        /\ UNCHANGED <<debug_mode, notice, acks, logs, torn, clean>>
     \/ /\ \A q \in Procs : pc[q] = "down"
        /\ attached' = {p}
        /\ debug_mode' = 0
        /\ notice' = [q \in Procs |-> 0]
        /\ acks' = [q \in Procs |-> 0]
        /\ logs' = 0
        /\ torn' = FALSE
        /\ clean' = TRUE
  /\ UNCHANGED <<registered, callVars, calls, crashes>>

\* Debuger::startup starts the timer and checks the mode once more.
Startup(p) ==
  /\ pc[p] = "constructed"
  /\ pc' = [pc EXCEPT ![p] = "check1"]
  /\ resume' = [resume EXCEPT ![p] = "idle"]
  /\ UNCHANGED <<shmVars, debug_log_stream, out_streamed, registered,
                 callVars, histVars>>

\* Wrong on purpose: goes by the word instead of out_streamed_.
ShutdownByWord(p) ==
  /\ pc[p] = "idle"
  /\ \A t \in Changers : Home[t] = p => cpc[t] = "idle"
  /\ pc' = [pc EXCEPT ![p] = "stopped"]
  /\ IF debug_mode = 1
     THEN logs' = Logged(p) /\ registered' = registered \ {p}
     ELSE UNCHANGED <<logs, registered>>
  /\ UNCHANGED <<debug_mode, attached, notice, acks, resume,
                 debug_log_stream, out_streamed, callVars, histVars>>

\* Debuger::shutdown, once no thread of the process is in the Debuger.
\* out_streamed_ keeps its value.
Shutdown(p) ==
  /\ pc[p] = "idle"
  /\ \A t \in Changers : Home[t] = p => cpc[t] = "idle"
  /\ pc' = [pc EXCEPT ![p] = "stopped"]
  /\ IF out_streamed[p]
     THEN logs' = Logged(p) /\ registered' = registered \ {p}
     ELSE UNCHANGED <<logs, registered>>
  /\ UNCHANGED <<debug_mode, attached, notice, acks, resume,
                 debug_log_stream, out_streamed, callVars, histVars>>

\* Debuger::~Debuger deletes the stream and the process exits.  Whether the
\* name of its queue outlives it is up to the library: both are possible.
Destroy(p) ==
  /\ pc[p] = "stopped"
  /\ pc' = [pc EXCEPT ![p] = "down"]
  /\ resume' = [resume EXCEPT ![p] = "constructed"]
  /\ debug_log_stream' = [debug_log_stream EXCEPT ![p] = FALSE]
  /\ out_streamed' = [out_streamed EXCEPT ![p] = FALSE]
  /\ \/ UNCHANGED <<attached, notice>>
     \/ /\ attached' = attached \ {p}
        /\ notice' = [notice EXCEPT ![p] = 0]
  /\ UNCHANGED <<debug_mode, acks, logs, registered, callVars, histVars>>

\* A process dies.  What it put in the segment stays there.
Crash(p) ==
  /\ pc[p] # "down"
  /\ crashes < MaxCrashes
  /\ crashes' = crashes + 1
  /\ pc' = [pc EXCEPT ![p] = "down"]
  /\ debug_log_stream' = [debug_log_stream EXCEPT ![p] = FALSE]
  /\ out_streamed' = [out_streamed EXCEPT ![p] = FALSE]
  /\ resume' = [resume EXCEPT ![p] = "constructed"]
  /\ registered' = registered \ {p}
  /\ LET mine == {t \in Changers : Home[t] = p} IN
       /\ cpc' = [t \in Changers |-> IF t \in mine THEN "idle" ELSE cpc[t]]
       /\ torn' = (torn \/ \E t \in mine : cpc[t] \in {"clear", "push"})
       /\ ForgetLocals(mine)
  /\ clean' = FALSE
  /\ UNCHANGED <<shmVars, calls>>

\* Any thread of the process logs something: MsgQueueStream::write.
Log(p) ==
  /\ p \in registered
  /\ logs < MaxLogs
  /\ logs' = Logged(p)
  /\ UNCHANGED <<debug_mode, attached, notice, acks, procVars, callVars,
                 histVars>>
-----------------------------------------------------------------------------
(* The io thread: handle_timer and check_debug_mode. *)

\* Wrong on purpose: no second look while the stream is on already.
HandleTimerOnce(p) ==
  /\ pc[p] = "idle"
  /\ notice[p] > 0
  /\ notice' = [notice EXCEPT ![p] = @ - 1]
  /\ pc' = [pc EXCEPT ![p] = IF out_streamed[p] THEN "ack" ELSE "check1"]
  /\ resume' = [resume EXCEPT ![p] = "ack"]
  /\ UNCHANGED <<debug_mode, attached, acks, logs, debug_log_stream,
                 out_streamed, registered, callVars, histVars>>

\* handle_timer finds a message; with none it does nothing.
HandleTimer(p) ==
  /\ pc[p] = "idle"
  /\ notice[p] > 0
  /\ notice' = [notice EXCEPT ![p] = @ - 1]
  /\ pc' = [pc EXCEPT ![p] = "check1"]
  /\ resume' = [resume EXCEPT ![p] = "ack"]
  /\ UNCHANGED <<debug_mode, attached, acks, logs, debug_log_stream,
                 out_streamed, registered, callVars, histVars>>

\* if (*debug_mode_ == 1)
CheckOne(p) ==
  /\ pc[p] = "check1"
  /\ pc' = [pc EXCEPT ![p] = IF debug_mode = 1 THEN "enter" ELSE "check0"]
  /\ UNCHANGED <<shmVars, resume, debug_log_stream, out_streamed, registered,
                 callVars, histVars>>

\* else if (*debug_mode_ == 0 && debug_log_stream_): a second read
CheckZero(p) ==
  /\ pc[p] = "check0"
  /\ pc' = [pc EXCEPT ![p] = IF debug_mode = 0 /\ debug_log_stream[p]
                             THEN "leave" ELSE resume[p]]
  /\ UNCHANGED <<shmVars, resume, debug_log_stream, out_streamed, registered,
                 callVars, histVars>>

\* The stream is made if there is none, added, and the change logged to it.
EnterDebug(p) ==
  /\ pc[p] = "enter"
  /\ debug_log_stream' = [debug_log_stream EXCEPT ![p] = TRUE]
  /\ out_streamed' = [out_streamed EXCEPT ![p] = TRUE]
  /\ registered' = registered \cup {p}
  /\ logs' = OneMoreLine
  /\ pc' = [pc EXCEPT ![p] = resume[p]]
  /\ UNCHANGED <<debug_mode, attached, notice, acks, resume, callVars,
                 histVars>>

\* The change is logged, then the stream removed.
LeaveDebug(p) ==
  /\ pc[p] = "leave"
  /\ logs' = Logged(p)
  /\ out_streamed' = [out_streamed EXCEPT ![p] = FALSE]
  /\ registered' = registered \ {p}
  /\ pc' = [pc EXCEPT ![p] = resume[p]]
  /\ UNCHANGED <<debug_mode, attached, notice, acks, resume,
                 debug_log_stream, callVars, histVars>>

\* The end of handle_timer: the answer, if there is room, and a log line.
Ack(p) ==
  /\ pc[p] = "ack"
  /\ \/ acks' = [acks EXCEPT ![p] = @ + 1]
     \/ NoRoom /\ UNCHANGED acks
  /\ logs' = Logged(p)
  /\ pc' = [pc EXCEPT ![p] = "idle"]
  /\ resume' = [resume EXCEPT ![p] = "idle"]
  /\ UNCHANGED <<debug_mode, attached, notice, debug_log_stream,
                 out_streamed, registered, callVars, histVars>>
-----------------------------------------------------------------------------
(* A thread t in change_debug_mode(b = 1). *)

Call(t, b) ==
  /\ cpc[t] = "idle"
  /\ Constructed(Home[t])
  /\ calls < MaxChanges
  /\ calls' = calls + 1
  /\ cpc' = [cpc EXCEPT ![t] = "write"]
  /\ arg' = [arg EXCEPT ![t] = b]
  /\ clean' = (clean /\ \A u \in Changers : cpc[u] = "idle")
  /\ UNCHANGED <<shmVars, procVars, number, time_out, awaited, torn, crashes>>

\* *debug_mode_ = bdebug
WriteMode(t) ==
  /\ cpc[t] = "write"
  /\ debug_mode' = arg[t]
  /\ cpc' = [cpc EXCEPT ![t] = "clear"]
  /\ UNCHANGED <<attached, notice, acks, logs, procVars, arg, number,
                 time_out, awaited, histVars>>

\* msg_queue_.clear(): answers and log lines alike
ClearQueue(t) ==
  /\ cpc[t] = "clear"
  /\ acks' = [p \in Procs |-> 0]
  /\ logs' = 0
  /\ cpc' = [cpc EXCEPT ![t] = "push"]
  /\ UNCHANGED <<debug_mode, attached, notice, procVars, arg, number,
                 time_out, awaited, histVars>>

\* Wrong on purpose: expects no answer from the caller's own process.
PushNoticeToOthers(t) ==
  /\ cpc[t] = "push"
  /\ notice' = [p \in Procs |-> IF p \in attached THEN notice[p] + 1
                                                  ELSE notice[p]]
  /\ number' = [number EXCEPT ![t] = Cardinality(attached \ {Home[t]})]
  /\ time_out' = [time_out EXCEPT ![t] = TimeOut]
  /\ awaited' = [awaited EXCEPT ![t] = attached]
  /\ torn' = FALSE
  /\ cpc' = [cpc EXCEPT ![t] = "wait"]
  /\ UNCHANGED <<debug_mode, attached, acks, logs, procVars, arg, clean,
                 calls, crashes>>

\* number = msg_queue_.push(msg_push), time_out = 30
PushNotice(t) ==
  /\ cpc[t] = "push"
  /\ \E got \in IF NoRoom THEN SUBSET attached ELSE {attached} :
       /\ notice' = [p \in Procs |-> IF p \in got THEN notice[p] + 1
                                                 ELSE notice[p]]
       /\ number' = [number EXCEPT ![t] = Cardinality(got)]
       /\ awaited' = [awaited EXCEPT ![t] = got]
       /\ torn' = (got # attached)
       /\ clean' = (clean /\ got = attached)
  /\ time_out' = [time_out EXCEPT ![t] = TimeOut]
  /\ cpc' = [cpc EXCEPT ![t] = "wait"]
  /\ UNCHANGED <<debug_mode, attached, acks, logs, procVars, arg, calls,
                 crashes>>

\* Wrong on purpose: the loop looks at time_out alone.
WaitingForTime(t) == cpc[t] = "wait" /\ time_out[t] # 0

Waiting(t) == cpc[t] = "wait" /\ number[t] # 0 /\ time_out[t] # 0

\* pop(msg_pop) succeeds; the caller does not look at the sender.
PopAck(t) ==
  /\ Waiting(t)
  /\ \E p \in Procs :
       /\ acks[p] > 0
       /\ acks' = [acks EXCEPT ![p] = @ - 1]
       /\ awaited' = [awaited EXCEPT ![t] = @ \ {p}]
  /\ number' = [number EXCEPT ![t] = @ - 1]
  /\ UNCHANGED <<debug_mode, attached, notice, logs, procVars, cpc, arg,
                 time_out, histVars>>

\* pop fails: a nap of 100 ms
Nap(t) ==
  /\ Waiting(t)
  /\ \A p \in Procs : acks[p] = 0
  /\ time_out' = [time_out EXCEPT ![t] = @ - 1]
  /\ UNCHANGED <<shmVars, procVars, cpc, arg, number, awaited, histVars>>

\* Wrong on purpose: no time-out.
ReturnAnswered(t) ==
  /\ cpc[t] = "wait"
  /\ number[t] = 0
  /\ cpc' = [cpc EXCEPT ![t] = "idle"]
  /\ UNCHANGED clean
  /\ ForgetLocals({t})
  /\ UNCHANGED <<shmVars, procVars, torn, calls, crashes>>

Return(t) ==
  /\ cpc[t] = "wait"
  /\ number[t] = 0 \/ time_out[t] = 0
  /\ cpc' = [cpc EXCEPT ![t] = "idle"]
  /\ clean' = (clean /\ number[t] = 0)
  /\ ForgetLocals({t})
  /\ UNCHANGED <<shmVars, procVars, torn, calls, crashes>>

\* get_debug_msg(msgs, 1, NULL, 5) finds a log line.
GetDebugMsg(t) ==
  /\ cpc[t] = "idle"
  /\ Constructed(Home[t])
  /\ logs > 0
  /\ logs' = logs - 1
  /\ UNCHANGED <<debug_mode, attached, notice, acks, procVars, callVars,
                 histVars>>
-----------------------------------------------------------------------------
IoStep(p) ==
  \/ HandleTimer(p)
  \/ CheckOne(p)
  \/ CheckZero(p)
  \/ EnterDebug(p)
  \/ LeaveDebug(p)
  \/ Ack(p)

Lifecycle(p) ==
  \/ Construct(p)
  \/ Startup(p)
  \/ Shutdown(p)
  \/ Destroy(p)
  \/ Crash(p)

CallStep(t) ==
  \/ WriteMode(t)
  \/ ClearQueue(t)
  \/ PushNotice(t)
  \/ PopAck(t)
  \/ Nap(t)
  \/ Return(t)

Next ==
  \/ \E p \in Procs : IoStep(p) \/ Lifecycle(p) \/ Log(p)
  \/ \E t \in Changers :
       CallStep(t) \/ GetDebugMsg(t) \/ \E b \in {0, 1} : Call(t, b)

Spec == Init /\ [][Next]_vars

\* The timer of a live process keeps firing and a thread inside
\* change_debug_mode keeps running; nobody has to call it, log, start or stop.
Fairness ==
  /\ \A p \in Procs : WF_vars(IoStep(p))
  /\ \A t \in Changers : WF_vars(CallStep(t))

FairSpec == Spec /\ Fairness
-----------------------------------------------------------------------------
(* Properties. *)

TypeOK ==
  /\ debug_mode \in {0, 1}
  /\ attached \subseteq Procs
  /\ notice \in [Procs -> Nat]
  /\ acks \in [Procs -> Nat]
  /\ logs \in Nat
  /\ pc \in [Procs -> Checking \cup Dead \cup {"constructed", "idle", "ack"}]
  /\ resume \in [Procs -> {"constructed", "idle", "ack"}]
  /\ debug_log_stream \in [Procs -> BOOLEAN]
  /\ out_streamed \in [Procs -> BOOLEAN]
  /\ registered \subseteq Procs
  /\ cpc \in [Changers -> {"idle", "write", "clear", "push", "wait"}]
  /\ arg \in [Changers -> {0, 1}]
  /\ number \in [Changers -> Nat]
  /\ time_out \in [Changers -> Nat]
  /\ awaited \in [Changers -> SUBSET Procs]
  /\ torn \in BOOLEAN
  /\ clean \in BOOLEAN
  /\ calls \in Nat
  /\ crashes \in Nat

\* A new mode is in the word and its broadcast is still to come, or was cut
\* off by a crash or by a segment full of lines.
Pending == torn \/ \E t \in Changers : cpc[t] \in {"clear", "push"}

\* The processes that have yet to look at the word again.
Owed == {p \in Up : Pending \/ notice[p] > 0 \/ pc[p] \in Checking}

\* No change of the mode is missed: a process whose logger does not do what
\* the word says has a message waiting or is looking at the word right now.
\* It rests on the order of the word and the broadcast in the caller, of the
\* queue and the first look in the constructor, and of pop and look in the
\* timer, with any number of callers.
ModeNotLost ==
  \A p \in Up \ Owed : (p \in registered) <=> (debug_mode = 1)

\* When change_debug_mode has counted all the answers it asked for, and no
\* earlier call left any behind, every started process does what it was told.
AnswersMeanApplied ==
  \A t \in Changers :
    clean /\ cpc[t] = "wait" /\ number[t] = 0 =>
      \A p \in Procs : pc[p] \in {"idle", "ack"} =>
                         ((p \in registered) <=> (arg[t] = 1))

\* The logger never holds a stream that ~Debuger has deleted: shutdown takes
\* it out, whatever mode the process is in by then.
StreamAlive == \A p \in registered : debug_log_stream[p]

\* A process out of step with the word does not stay so, unless a caller
\* died between the word and the broadcast, or lines nobody has read left
\* no room for that.
OutOfStep(p) == pc[p] = "idle" /\ ~((p \in registered) <=> (debug_mode = 1))
ModeConverges == \A p \in Procs : OutOfStep(p) ~> (~OutOfStep(p) \/ torn)

\* change_debug_mode returns, even when a process that has the message died
\* or an answer found no room.
CallReturns == \A t \in Changers : cpc[t] # "idle" ~> cpc[t] = "idle"
=============================================================================
