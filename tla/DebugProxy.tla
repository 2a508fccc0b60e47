----------------------------- MODULE DebugProxy -----------------------------
(***************************************************************************)
(* The log viewer of DebugProxy.cpp, on top of Debuger.                     *)
(*                                                                          *)
(* A process may run a DebugProxy: an acceptor and one worker thread that   *)
(* serves one connection at a time.  A Firefox client turns the debug mode  *)
(* on for the time it is connected and is sent the log lines of the         *)
(* "Debuger" queue.  The worker is the thread that calls                    *)
(* change_debug_mode, so the proxies are the Changers of Debuger.           *)
(*                                                                          *)
(* shutdown runs on the io thread of the process: it sets exit_, wakes the  *)
(* worker out of accept by a connection of its own, closes the acceptor and *)
(* joins the worker, all before the Debuger of the process shuts down.      *)
(*                                                                          *)
(* Sockets are external: a read or write of the worker ends well, ends in   *)
(* an error, or does not end for as long as the client likes.               *)
(***************************************************************************)
EXTENDS Debuger, Sequences

CONSTANTS
  Reaches,    \* the proxies a connect to 127.0.0.1:addr_.port() may end at
  MaxClients  \* bound: clients that connect

ASSUME DebugProxyAssumption ==
  /\ \A t, u \in Changers : Home[t] = Home[u] => t = u
  /\ Reaches \in [Changers -> SUBSET Changers]
  /\ MaxClients \in Nat

VARIABLES
  wpc,      \* where the worker is
  spc,      \* how far startup and shutdown have come
  exit_,    \* exit_
  open,     \* whether the acceptor is open
  backlog,  \* connections the worker has yet to accept
  conn,     \* the connection socket_ holds
  cut,      \* history: shutdown ended a session, or a crash did
  missed,   \* history: proxies whose wake-up connection failed, or ended at
            \* another's acceptor, while their own was open
  clients   \* what the bound counts

proxyVars == <<wpc, spc, exit_, open, backlog, conn, cut, missed, clients>>
allVars   == <<vars, proxyVars>>

\* The worker is inside change_debug_mode: the call and what comes after it.
Changing == {"turn_on", "turn_off_end", "turn_off_next"}

\* The worker waits for the client.
ClientOps == {"read", "refuse", "write_head", "write_line"}

\* The worker has turned the mode on, and is not yet turning it off.
Session == {"turn_on", "write_head", "stream", "write_line"}

ShuttingDown == {"waking", "closing", "joining"}

ProxyInit ==
  /\ Init
  /\ wpc = [t \in Changers |-> "none"]
  /\ spc = [t \in Changers |-> "down"]
  /\ exit_ = [t \in Changers |-> FALSE]
  /\ open = [t \in Changers |-> FALSE]
  /\ backlog = [t \in Changers |-> <<>>]
  /\ conn = [t \in Changers |-> "none"]
  /\ cut = FALSE
  /\ missed = {}
  /\ clients = 0
-----------------------------------------------------------------------------
(* The steps of Debuger.  They leave the proxies alone, except that a       *)
(* process that goes away takes its proxy with it; the io thread is busy    *)
(* while it shuts the proxy down.                                           *)

\* No proxy of process p, up or half shut down, keeps its io thread busy.
IoFree(p) == \A t \in Changers : Home[t] = p => spc[t] \notin ShuttingDown

ProxyIoStep(p) == IoFree(p) /\ IoStep(p) /\ UNCHANGED proxyVars

\* The modules start in one order and shut down in the other.
ProcessStep(p) ==
  /\ \/ Construct(p)
     \/ Startup(p)
     \/ Shutdown(p) /\ \A t \in Changers : Home[t] = p => spc[t] = "done"
     \/ Log(p)
  /\ UNCHANGED proxyVars

\* The worker, the acceptor and the connections of p are gone.
ForgetProxy(p) ==
  LET gone(f, none) ==
        [t \in Changers |-> IF Home[t] = p THEN none ELSE f[t]]
  IN /\ wpc' = gone(wpc, "none")
     /\ spc' = gone(spc, "down")
     /\ exit_' = gone(exit_, FALSE)
     /\ open' = gone(open, FALSE)
     /\ backlog' = gone(backlog, <<>>)
     /\ conn' = gone(conn, "none")
     /\ missed' = {t \in missed : Home[t] # p}
     /\ UNCHANGED clients

ProcessEnds(p) ==
  /\ \/ Destroy(p) /\ UNCHANGED cut
     \/ /\ Crash(p)
        /\ cut' = (cut \/ \E t \in Changers :
                            Home[t] = p /\ wpc[t] \in Session \cup Changing)
  /\ ForgetProxy(p)
-----------------------------------------------------------------------------
(* The io thread: startup and shutdown. *)

\* If the acceptor does not open there is no worker; startup succeeds.
ProxyStartup(t) ==
  /\ spc[t] = "down"
  /\ pc[Home[t]] = "idle"
  /\ spc' = [spc EXCEPT ![t] = "up"]
  /\ \/ /\ open' = [open EXCEPT ![t] = TRUE]
        /\ wpc' = [wpc EXCEPT ![t] = "loop"]
     \/ UNCHANGED <<open, wpc>>
  /\ UNCHANGED <<vars, exit_, backlog, conn, cut, missed, clients>>

\* The lock is taken and exit_ set.
ProxyShutdown(t) ==
  /\ spc[t] = "up"
  /\ pc[Home[t]] = "idle"
  /\ spc' = [spc EXCEPT ![t] = "waking"]
  /\ exit_' = [exit_ EXCEPT ![t] = TRUE]
  /\ UNCHANGED <<vars, wpc, open, backlog, conn, cut, missed, clients>>

\* Wrong on purpose: relies on close to end a blocked accept.
NoConnect(t) ==
  /\ spc[t] = "waking"
  /\ spc' = [spc EXCEPT ![t] = "closing"]
  /\ UNCHANGED <<vars, wpc, exit_, open, backlog, conn, cut, missed, clients>>

\* client.connect(addr, ec): it reaches an acceptor that is open, or fails --
\* for want of one, of a descriptor or of room in the backlog.  Nothing looks
\* at the error.
WakeConnect(t) ==
  /\ spc[t] = "waking"
  /\ spc' = [spc EXCEPT ![t] = "closing"]
  /\ \/ \E u \in Reaches[t] :
          /\ open[u]
          /\ backlog' = [backlog EXCEPT ![u] = Append(@, "wake")]
          /\ missed' = IF open[t] /\ u # t THEN missed \cup {t} ELSE missed
     \/ /\ missed' = IF open[t] THEN missed \cup {t} ELSE missed
        /\ UNCHANGED backlog
  /\ UNCHANGED <<vars, wpc, exit_, open, conn, cut, clients>>

\* acceptor_.close, socket_.cancel (which no blocking call notices), and the
\* lock is released.
CloseAcceptor(t) ==
  /\ spc[t] = "closing"
  /\ spc' = [spc EXCEPT ![t] = "joining"]
  /\ open' = [open EXCEPT ![t] = FALSE]
  /\ UNCHANGED <<vars, wpc, exit_, backlog, conn, cut, missed, clients>>

\* Wrong on purpose: the worker is deleted, not joined.
Detach(t) ==
  /\ spc[t] = "joining"
  /\ spc' = [spc EXCEPT ![t] = "done"]
  /\ UNCHANGED <<vars, wpc, exit_, open, backlog, conn, cut, missed, clients>>

Join(t) ==
  /\ spc[t] = "joining"
  /\ wpc[t] \in {"none", "ended"}
  /\ spc' = [spc EXCEPT ![t] = "done"]
  /\ UNCHANGED <<vars, wpc, exit_, open, backlog, conn, cut, missed, clients>>
-----------------------------------------------------------------------------
(* The worker. *)

Connect(t) ==
  /\ open[t]
  /\ clients < MaxClients
  /\ clients' = clients + 1
  /\ backlog' = [backlog EXCEPT ![t] = Append(@, "client")]
  /\ UNCHANGED <<vars, wpc, spc, exit_, open, conn, cut, missed>>

\* Wrong on purpose: exit_ is left to be seen behind accept.
LoopOn(t) ==
  /\ wpc[t] = "loop"
  /\ wpc' = [wpc EXCEPT ![t] = "accept"]
  /\ UNCHANGED <<vars, spc, exit_, open, backlog, conn, cut, missed, clients>>

\* while (!exit_)
Loop(t) ==
  /\ wpc[t] = "loop"
  /\ wpc' = [wpc EXCEPT ![t] = IF exit_[t] THEN "ended" ELSE "accept"]
  /\ UNCHANGED <<vars, spc, exit_, open, backlog, conn, cut, missed, clients>>

Accept(t) ==
  /\ wpc[t] = "accept"
  /\ backlog[t] # <<>>
  /\ wpc' = [wpc EXCEPT ![t] = "gate"]
  /\ conn' = [conn EXCEPT ![t] = Head(backlog[t])]
  /\ backlog' = [backlog EXCEPT ![t] = Tail(@)]
  /\ UNCHANGED <<vars, spc, exit_, open, cut, missed, clients>>

\* accept fails: on a closed acceptor, or for want of a descriptor.
AcceptFails(t) ==
  /\ wpc[t] = "accept"
  /\ wpc' = [wpc EXCEPT ![t] = "gate"]
  /\ UNCHANGED <<vars, spc, exit_, open, backlog, conn, cut, missed, clients>>

\* Wrong on purpose: only an error of accept ends the worker.
GateOnError(t) ==
  /\ wpc[t] = "gate"
  /\ spc[t] \notin {"waking", "closing"}
  /\ wpc' = [wpc EXCEPT ![t] = IF conn[t] = "none" THEN "ended" ELSE "read"]
  /\ UNCHANGED <<vars, spc, exit_, open, backlog, conn, cut, missed, clients>>

\* exit_ is looked at under the lock; an error or an exit ends the worker.
Gate(t) ==
  /\ wpc[t] = "gate"
  /\ spc[t] \notin {"waking", "closing"}
  /\ IF exit_[t] \/ conn[t] = "none"
     THEN /\ wpc' = [wpc EXCEPT ![t] = "ended"]
          /\ conn' = [conn EXCEPT ![t] = "none"]
     ELSE wpc' = [wpc EXCEPT ![t] = "read"] /\ UNCHANGED conn
  /\ UNCHANGED <<vars, spc, exit_, open, backlog, cut, missed, clients>>

\* The connection is closed and the worker goes to the given place.
CloseAndGo(t, there) ==
  /\ wpc' = [wpc EXCEPT ![t] = there]
  /\ conn' = [conn EXCEPT ![t] = "none"]
  /\ UNCHANGED <<spc, exit_, open, backlog, cut, missed, clients>>

Go(t, there) ==
  /\ wpc' = [wpc EXCEPT ![t] = there]
  /\ UNCHANGED <<spc, exit_, open, backlog, conn, cut, missed, clients>>

\* The head of the request.  An error ends the worker.  The wake-up
\* connection of a shutdown is closed at once: reading it is an error.
ReadHead(t) ==
  /\ wpc[t] = "read"
  /\ \/ CloseAndGo(t, "ended") /\ UNCHANGED vars
     \/ conn[t] = "client" /\ Go(t, "refuse") /\ UNCHANGED vars
     \/ conn[t] = "client" /\ Go(t, "turn_on") /\ Call(t, 1)

\* Not Firefox.  Failing to write the head ends the worker, failing to write
\* the text does not.
Refuse(t) ==
  /\ wpc[t] = "refuse"
  /\ CloseAndGo(t, "ended") \/ CloseAndGo(t, "loop")
  /\ UNCHANGED vars

WriteHead(t) ==
  /\ wpc[t] = "write_head"
  /\ \/ Go(t, "stream") /\ UNCHANGED vars
     \/ CloseAndGo(t, "turn_off_end") /\ Call(t, 0)

\* One round of the inner loop.  Out of it by exit_, the worker neither
\* closes the connection nor turns the mode off.
Stream(t) ==
  /\ wpc[t] = "stream"
  /\ \/ /\ exit_[t]
        /\ wpc' = [wpc EXCEPT ![t] = "loop"]
        /\ cut' = TRUE
        /\ UNCHANGED <<vars, spc, exit_, open, backlog, conn, missed, clients>>
     \/ ~exit_[t] /\ Go(t, "write_line") /\ GetDebugMsg(t)

\* Wrong on purpose: an error of the data is taken like one of the request.
WriteLineOrEnd(t) ==
  /\ wpc[t] = "write_line"
  /\ Go(t, "stream") \/ CloseAndGo(t, "ended")
  /\ UNCHANGED vars

WriteLine(t) ==
  /\ wpc[t] = "write_line"
  /\ \/ Go(t, "stream") /\ UNCHANGED vars
     \/ CloseAndGo(t, "turn_off_next") /\ Call(t, 0)

\* Wrong on purpose: no break after the data could not be written.
AfterNoBreak(place) ==
  CASE place = "turn_on"       -> "write_head"
    [] place = "turn_off_end"  -> "ended"
    [] place = "turn_off_next" -> "stream"

\* Where the worker goes when change_debug_mode returns.
After(place) ==
  CASE place = "turn_on"       -> "write_head"
    [] place = "turn_off_end"  -> "ended"
    [] place = "turn_off_next" -> "loop"

\* Wrong on purpose: goes on when the broadcast is out, without the answers.
WorkerBroadcasts(t) ==
  /\ wpc[t] \in Changing
  /\ CallStep(t)
  /\ IF PushNotice(t) THEN Go(t, After(wpc[t])) ELSE UNCHANGED proxyVars

\* The worker in change_debug_mode, up to its return.
WorkerInCall(t) ==
  /\ wpc[t] \in Changing
  /\ CallStep(t)
  /\ IF Return(t) THEN Go(t, After(wpc[t])) ELSE UNCHANGED proxyVars
-----------------------------------------------------------------------------
WaitsForClient(t) ==
  \/ ReadHead(t)
  \/ Refuse(t)
  \/ WriteHead(t)
  \/ WriteLine(t)

\* What the worker does by itself.
WorkerStep(t) ==
  \/ Loop(t)
  \/ Accept(t)
  \/ Gate(t)
  \/ Stream(t)
  \/ WorkerInCall(t)

ShutdownStep(t) ==
  \/ WakeConnect(t)
  \/ CloseAcceptor(t)
  \/ Join(t)

ProxyNext ==
  \/ \E p \in Procs : ProxyIoStep(p) \/ ProcessStep(p) \/ ProcessEnds(p)
  \/ \E t \in Changers :
       \/ ProxyStartup(t)
       \/ ProxyShutdown(t)
       \/ ShutdownStep(t)
       \/ Connect(t)
       \/ AcceptFails(t)
       \/ WorkerStep(t)
       \/ WaitsForClient(t)

ProxySpec == ProxyInit /\ [][ProxyNext]_allVars

\* Threads run; clients do what they like, and nobody has to shut down.
ProxyFairness ==
  /\ \A p \in Procs : WF_allVars(ProxyIoStep(p))
  /\ \A t \in Changers : WF_allVars(WorkerStep(t)) /\ WF_allVars(ShutdownStep(t))

ProxyFairSpec == ProxySpec /\ ProxyFairness
-----------------------------------------------------------------------------
(* Properties. *)

Places == {"none", "loop", "accept", "gate", "stream", "ended"}
            \cup ClientOps \cup Changing

\* Types; and a worker is in change_debug_mode exactly while its call runs.
ProxyTypeOK ==
  /\ wpc \in [Changers -> Places]
  /\ spc \in [Changers -> {"down", "up", "done"} \cup ShuttingDown]
  /\ exit_ \in [Changers -> BOOLEAN]
  /\ open \in [Changers -> BOOLEAN]
  /\ backlog \in [Changers -> Seq({"client", "wake"})]
  /\ conn \in [Changers -> {"none", "client", "wake"}]
  /\ cut \in BOOLEAN
  /\ missed \subseteq Changers
  /\ clients \in Nat
  /\ \A t \in Changers : wpc[t] \in Changing <=> cpc[t] # "idle"

\* The worker does not read a request from the connection its own shutdown
\* made to wake it, however accept, exit_ and the lock interleave -- if that
\* connection ends at the acceptor of its own process.
WakeNotServed ==
  (\A t \in Changers : Reaches[t] = {t}) =>
    \A t \in Changers : wpc[t] \in ClientOps => conn[t] = "client"

\* The worker never runs without its Debuger: it has started before the
\* worker does and stays until the worker has been joined.
WorkerHasDebuger ==
  \A t \in Changers :
    wpc[t] \notin {"none", "ended"} => pc[Home[t]] \notin Dead

\* The debug mode is on only for a client that is being served, unless a
\* shutdown or a crash has cut a session short.
ModeOnMeansServed ==
  debug_mode = 1 /\ ~cut => \E t \in Changers : wpc[t] \in Session \cup Changing

\* A client that is served has the mode on, if there is no other proxy to
\* turn it off.
ServedMeansModeOn ==
  (\A t, u \in Changers : t = u) =>
    \A t \in Changers :
      wpc[t] \in {"write_head", "stream", "write_line"} => debug_mode = 1

\* A worker that shutdown finds, or will find, blocked in accept has a
\* connection to wake up for: close does not wake it, and the one shutdown
\* makes is neither made before the acceptor is there nor spent on a worker
\* that comes back for another.  The exception is a connection that was not
\* made, or went to another process: nothing tries again.
NoLostWake ==
  \A t \in Changers \ missed :
    spc[t] \in {"closing", "joining"} /\ wpc[t] = "accept" => backlog[t] # <<>>

\* How many places a worker that has to end may still come to.
Remaining(place) ==
  CASE place \in {"none", "ended"}                                  -> 0
    [] place \in {"loop", "gate", "turn_off_end"}                   -> 1
    [] place \in {"accept", "refuse", "stream", "turn_off_next"}    -> 2
    [] place \in {"write_head", "write_line"}                       -> 3
    [] place = "turn_on"                                            -> 4
    [] place = "read"                                               -> 5

\* Once exit_ is set every move of the worker brings it nearer to its end:
\* it serves at most the client it has, sends that at most one line more, and
\* no order of errors, answers and clients leads it back.
ExitWindsDown ==
  [][\A t \in Changers :
       exit_[t] /\ exit_'[t] /\ wpc'[t] # wpc[t] =>
         Remaining(wpc'[t]) < Remaining(wpc[t])]_allVars

\* shutdown returns; or the worker waits for ever for one client, or in
\* accept, for the connection that shutdown failed to make.
ShutdownJoins ==
  \A t \in Changers :
    \/ spc[t] = "joining" ~> spc[t] # "joining"
    \/ <>[](spc[t] = "joining" /\ wpc[t] \in ClientOps)
    \/ <>[](spc[t] = "joining" /\ wpc[t] = "accept" /\ t \in missed)
=============================================================================
