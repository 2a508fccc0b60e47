---------------------------- MODULE MCDebugProxy ----------------------------
(* Instances of DebugProxy for TLC. *)
EXTENDS DebugProxy, TLC

CONSTANTS p1, p2, t1, t2

\* The proxy t1 is in p1 and t2 in p2.
MCHome == [t \in Changers |-> IF t = t1 THEN p1 ELSE p2]

\* addr_ names the port the acceptor is bound to.
MCOwnPort == [t \in Changers |-> {t}]

\* addr_ names a port any of the proxies may be bound to.
MCAnyPort == [t \in Changers |-> Changers]

\* The two processes and their proxies are alike: p1 changes places with p2
\* when t1 does with t2.
MCSymmetry ==
  {f \in Permutations({p1, p2, t1, t2}) :
     {<<f[p1], f[t1]>>, <<f[p2], f[t2]>>} = {<<p1, t1>>, <<p2, t2>>}}

\* Bound: a process without a proxy is not seen past its shutdown.
MCOtherStays ==
  \A p \in Procs : pc[p] # "stopped" \/ \E t \in Changers : Home[t] = p

\* Bound: no process is seen past the shutdown of its Debuger, at most one
\* proxy shuts down, and the proxies have started when a client connects.
MCOneShutdown ==
  /\ \A p \in Procs : pc[p] # "stopped"
  /\ \A t, u \in Changers : exit_[t] /\ exit_[u] => t = u
  /\ clients > 0 => \A t \in Changers : spc[t] # "down"

\* The properties of the proxy do not go by the history of the calls, and no
\* action does: states that differ in it alone are taken as one.
MCNoHistory ==
  <<shmVars, procVars, cpc, arg, number, time_out, calls, crashes, proxyVars>>

\* With TimeOut = 0 nobody pops an answer, so these do not count either.
MCView ==
  <<debug_mode, attached, notice, logs, procVars, cpc, arg, calls, proxyVars>>
=============================================================================
