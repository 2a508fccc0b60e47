-------------------------- MODULE DebugProxyProofs --------------------------
(***************************************************************************)
(* Proofs about DebugProxy, for any processes, proxies and bounds.          *)
(***************************************************************************)
EXTENDS DebugProxy, DebugerProofs

\* A proxy changes nothing of Debuger except through the operations of
\* Debuger.
LEMMA ProxyStepMaps ==
  ASSUME [ProxyNext]_allVars
  PROVE  [Next]_vars
<1>1. ASSUME NEW p \in Procs,
             ProxyIoStep(p) \/ ProcessStep(p) \/ ProcessEnds(p)
      PROVE  Next
  BY <1>1, Zenon DEF ProxyIoStep, ProcessStep, ProcessEnds, Next, Lifecycle
<1>2. ASSUME NEW t \in Changers,
             ProxyStartup(t) \/ ProxyShutdown(t) \/ ShutdownStep(t)
               \/ Connect(t) \/ AcceptFails(t) \/ Loop(t) \/ Accept(t)
               \/ Gate(t) \/ Refuse(t)
      PROVE  UNCHANGED vars
  BY <1>2, Zenon DEF ProxyStartup, ProxyShutdown, ShutdownStep, WakeConnect,
     CloseAcceptor, Join, Connect, AcceptFails, Loop, Accept, Gate, Refuse
<1>3. ASSUME NEW t \in Changers,
             ReadHead(t) \/ WriteHead(t) \/ WriteLine(t) \/ Stream(t)
               \/ WorkerInCall(t)
      PROVE  Next \/ UNCHANGED vars
  <2>1. 0 \in {0, 1} /\ 1 \in {0, 1}
    OBVIOUS
  <2>. QED
    BY <1>3, <2>1, Zenon DEF ReadHead, WriteHead, WriteLine, Stream,
       WorkerInCall, Next
<1>4. CASE UNCHANGED allVars
  BY <1>4 DEF allVars
<1>. QED
  BY <1>1, <1>2, <1>3, <1>4, Zenon DEF ProxyNext, WorkerStep, WaitsForClient

\* With proxies as the callers, Debuger keeps everything that is proved of
\* it: NoChangeLost, AnswersApplied, StreamsAlive, Implements.
THEOREM ProxyUsesDebuger == ProxySpec => Spec
<1>1. ProxyInit => Init
  BY DEF ProxyInit
<1>. QED
  BY <1>1, ProxyStepMaps, PTL DEF ProxySpec, Spec

\* With proxies as its callers Debuger misses no change of the mode, counts
\* only answers that mean an applied change, never logs to a stream that is
\* gone, and implements DebugMode.
THEOREM DebugerUnderProxies ==
  ProxySpec => /\ [](ModeNotLost /\ AnswersMeanApplied /\ StreamAlive)
               /\ ImplementsDebugMode
BY ProxyUsesDebuger, NoChangeLost, AnswersApplied, StreamsAlive, Implements, PTL
-----------------------------------------------------------------------------
(***************************************************************************)
(* The life of the worker is nested in the life of its proxy, and that in   *)
(* the life of the process.                                                 *)
(***************************************************************************)
Started == {"idle", "ack"} \cup Checking

Nested ==
  /\ \A p \in Procs : pc[p] \in {"idle", "ack"} => resume[p] # "constructed"
  /\ \A t \in Changers :
       /\ wpc[t] \notin {"none", "ended"} => spc[t] \in {"up"} \cup ShuttingDown
       /\ spc[t] \in {"up"} \cup ShuttingDown =>
            pc[Home[t]] \in Started /\ resume[Home[t]] # "constructed"
       /\ spc[t] \in ShuttingDown => pc[Home[t]] = "idle"

\* What the worker, the client and shutdown do to the two nested lives.
LEMMA WorkerKeepsNested ==
  ASSUME TypeOK, ProxyTypeOK, Nested, NEW t \in Changers,
         UNCHANGED <<pc, resume, spc>>,
         \A u \in Changers : u # t => wpc'[u] = wpc[u],
         wpc[t] \notin {"none", "ended"}
  PROVE  Nested'
BY DebugerAssumption DEF Nested, TypeOK, ProxyTypeOK

LEMMA NestedInductive ==
  ASSUME TypeOK, ProxyTypeOK, Nested, [ProxyNext]_allVars
  PROVE  Nested'
<1> USE DEF Checking, Dead, Started, ShuttingDown, shmVars, procVars,
        callVars, histVars, vars, proxyVars
<1>0. /\ pc \in [Procs -> Checking \cup Dead \cup {"constructed", "idle", "ack"}]
      /\ resume \in [Procs -> {"constructed", "idle", "ack"}]
      /\ wpc \in [Changers -> Places]
      /\ spc \in [Changers -> {"down", "up", "done"} \cup ShuttingDown]
      /\ Home \in [Changers -> Procs]
  BY DebugerAssumption DEF TypeOK, ProxyTypeOK
<1>1. ASSUME NEW p \in Procs, ProxyIoStep(p)
      PROVE  Nested'
  <2>1. UNCHANGED <<wpc, spc>> /\ IoStep(p) /\ IoFree(p)
    BY <1>1 DEF ProxyIoStep
  <2>2. CASE HandleTimer(p)
    BY <1>0, <2>1, <2>2 DEF HandleTimer, Nested, IoFree
  <2>3. CASE CheckOne(p)
    BY <1>0, <2>1, <2>3 DEF CheckOne, Nested, IoFree
  <2>4. CASE CheckZero(p)
    <3>1. /\ resume' = resume
          /\ pc[p] = "check0"
          /\ pc' = [pc EXCEPT ![p] = pc'[p]]
          /\ pc'[p] = "leave" \/ pc'[p] = resume[p]
      BY <1>0, <2>4 DEF CheckZero
    <3>. QED
      BY <1>0, <2>1, <3>1 DEF Nested, IoFree
  <2>5. CASE EnterDebug(p) \/ LeaveDebug(p)
    <3>1. /\ resume' = resume
          /\ pc[p] \in {"enter", "leave"}
          /\ pc' = [pc EXCEPT ![p] = resume[p]]
      BY <1>0, <2>5 DEF EnterDebug, LeaveDebug
    <3>. QED
      BY <1>0, <2>1, <3>1 DEF Nested, IoFree
  <2>6. CASE Ack(p)
    BY <1>0, <2>1, <2>6 DEF Ack, Nested, IoFree
  <2>. QED
    BY <2>1, <2>2, <2>3, <2>4, <2>5, <2>6 DEF IoStep
<1>2. ASSUME NEW p \in Procs, ProcessStep(p)
      PROVE  Nested'
  <2>1. UNCHANGED <<wpc, spc>>
    BY <1>2 DEF ProcessStep
  <2>2. CASE Construct(p)
    BY <1>0, <2>1, <2>2 DEF Construct, Nested
  <2>3. CASE Startup(p)
    BY <1>0, <2>1, <2>3 DEF Startup, Nested
  <2>4. CASE Shutdown(p) /\ \A t \in Changers : Home[t] = p => spc[t] = "done"
    BY <1>0, <2>1, <2>4 DEF Shutdown, Nested
  <2>5. CASE Log(p)
    BY <2>1, <2>5 DEF Log, Nested
  <2>. QED
    BY <1>2, <2>2, <2>3, <2>4, <2>5 DEF ProcessStep
<1>3. ASSUME NEW p \in Procs, ProcessEnds(p)
      PROVE  Nested'
  <2>1. \A t \in Changers :
          /\ wpc'[t] = IF Home[t] = p THEN "none" ELSE wpc[t]
          /\ spc'[t] = IF Home[t] = p THEN "down" ELSE spc[t]
    BY <1>3 DEF ProcessEnds, ForgetProxy
  <2>2. /\ pc' = [pc EXCEPT ![p] = "down"]
        /\ resume' = [resume EXCEPT ![p] = "constructed"]
    BY <1>3 DEF ProcessEnds, Destroy, Crash
  <2>. QED
    BY <1>0, <2>1, <2>2 DEF Nested
<1>4. ASSUME NEW t \in Changers, ProxyStartup(t) \/ ProxyShutdown(t)
                                 \/ ShutdownStep(t) \/ Connect(t)
      PROVE  Nested'
  <2>1. UNCHANGED <<pc, resume>>
    BY <1>4 DEF ProxyStartup, ProxyShutdown, ShutdownStep, WakeConnect,
       CloseAcceptor, Join, Connect
  <2>2. CASE ProxyStartup(t)
    BY <1>0, <2>1, <2>2 DEF ProxyStartup, Nested
  <2>3. CASE ProxyShutdown(t)
    BY <1>0, <2>1, <2>3 DEF ProxyShutdown, Nested
  <2>4. CASE ShutdownStep(t)
    BY <1>0, <2>1, <2>4
    DEF ShutdownStep, WakeConnect, CloseAcceptor, Join, Nested
  <2>5. CASE Connect(t)
    BY <1>0, <2>1, <2>5 DEF Connect, Nested
  <2>. QED
    BY <1>4, <2>2, <2>3, <2>4, <2>5
<1>5. ASSUME NEW t \in Changers,
             AcceptFails(t) \/ WorkerStep(t) \/ WaitsForClient(t)
      PROVE  Nested'
  <2>1. \/ AcceptFails(t) \/ Loop(t) \/ Accept(t) \/ Gate(t)
        \/ Stream(t) \/ WorkerInCall(t)
        \/ ReadHead(t) \/ Refuse(t) \/ WriteHead(t) \/ WriteLine(t)
    BY <1>5 DEF WorkerStep, WaitsForClient
  <2>2. UNCHANGED <<pc, resume>>
    BY <2>1 DEF AcceptFails, Loop, Accept, Gate, Stream, WorkerInCall,
       CallStep, WriteMode, ClearQueue, PushNotice, PopAck, Nap, Return,
       GetDebugMsg, Call, ReadHead, Refuse, WriteHead, WriteLine
  <2>3. UNCHANGED spc
    BY <2>1 DEF AcceptFails, Loop, Accept, Gate, Stream, WorkerInCall,
       ReadHead, Refuse, WriteHead, WriteLine, Go, CloseAndGo
  <2>4. \A u \in Changers : u # t => wpc'[u] = wpc[u]
    BY <1>0, <2>1 DEF AcceptFails, Loop, Accept, Gate, Stream, WorkerInCall,
       ReadHead, Refuse, WriteHead, WriteLine, Go, CloseAndGo
  <2>5. wpc[t] \notin {"none", "ended"}
    BY <2>1 DEF AcceptFails, Loop, Accept, Gate, Stream, WorkerInCall,
       ReadHead, Refuse, WriteHead, WriteLine, Changing
  <2>. QED
    BY <2>2, <2>3, <2>4, <2>5, WorkerKeepsNested
<1>6. CASE UNCHANGED allVars
  BY <1>6 DEF allVars, Nested
<1>. QED
  BY <1>1, <1>2, <1>3, <1>4, <1>5, <1>6 DEF ProxyNext, WorkerStep
-----------------------------------------------------------------------------
(***************************************************************************)
(* Type correctness.  The places of the worker and its call of              *)
(* change_debug_mode go together: In names the steps that begin, go through *)
(* and end a call.                                                          *)
(***************************************************************************)
\* Steps that leave every call alone.
LEMMA OutsideCalls ==
  ASSUME [ProxyNext]_allVars
  PROVE  \/ UNCHANGED cpc
         \/ \E t \in Changers :
              \/ ReadHead(t) \/ WriteHead(t) \/ WriteLine(t)
              \/ WorkerInCall(t)
         \/ \E p \in Procs : ProcessEnds(p)
<1> USE DEF shmVars, procVars, callVars, histVars, vars, allVars
<1>1. ASSUME NEW p \in Procs, ProxyIoStep(p)
      PROVE  UNCHANGED cpc
  BY <1>1 DEF ProxyIoStep, IoStep, HandleTimer, CheckOne, CheckZero,
     EnterDebug, LeaveDebug, Ack
<1>2. ASSUME NEW p \in Procs, ProcessStep(p)
      PROVE  UNCHANGED cpc
  BY <1>2 DEF ProcessStep, Construct, Startup, Shutdown, Log
<1>3. ASSUME NEW t \in Changers,
             ProxyStartup(t) \/ ProxyShutdown(t) \/ ShutdownStep(t)
               \/ Connect(t) \/ AcceptFails(t) \/ Loop(t) \/ Accept(t)
               \/ Gate(t) \/ Refuse(t) \/ Stream(t)
      PROVE  UNCHANGED cpc
  BY <1>3 DEF ProxyStartup, ProxyShutdown, ShutdownStep, WakeConnect,
     CloseAcceptor, Join, Connect, AcceptFails, Loop, Accept, Gate, Refuse,
     Stream, GetDebugMsg
<1>. QED
  BY <1>1, <1>2, <1>3, Zenon DEF ProxyNext, WorkerStep, WaitsForClient

\* What Append, Head and Tail do to the type of a backlog.
LEMMA BacklogTyped ==
  ASSUME NEW S, NEW q \in Seq(S), NEW e \in S
  PROVE  /\ Append(q, e) \in Seq(S)
         /\ q # <<>> => Head(q) \in S /\ Tail(q) \in Seq(S)
OBVIOUS

\* A worker that moves without beginning or ending a call.
LEMMA WorkerMoves ==
  ASSUME ProxyTypeOK, NEW t \in Changers, NEW x \in Places \ Changing,
         UNCHANGED <<cpc, spc, exit_, open>>, wpc[t] \notin Changing,
         wpc' = [wpc EXCEPT ![t] = x],
         backlog' \in [Changers -> Seq({"client", "wake"})],
         conn' \in [Changers -> {"none", "client", "wake"}],
         cut' \in BOOLEAN, missed' \subseteq Changers, clients' \in Nat
  PROVE  ProxyTypeOK'
BY DEF ProxyTypeOK

\* A worker that begins or ends a call, or goes on with it.
LEMMA WorkerCalls ==
  ASSUME ProxyTypeOK, NEW t \in Changers, NEW x \in Places,
         UNCHANGED <<spc, exit_, open, backlog, cut, missed, clients>>,
         \A u \in Changers : u # t => cpc'[u] = cpc[u],
         x \in Changing <=> cpc'[t] # "idle",
         wpc' = [wpc EXCEPT ![t] = x],
         conn' \in [Changers -> {"none", "client", "wake"}]
  PROVE  ProxyTypeOK'
BY DEF ProxyTypeOK

LEMMA ProxyTypeInductive ==
  ASSUME TypeOK, Owns, ProxyTypeOK, Nested, [ProxyNext]_allVars
  PROVE  ProxyTypeOK'
<1> USE DEF proxyVars
<1>1. ASSUME NEW p \in Procs, ProxyIoStep(p) \/ ProcessStep(p)
      PROVE  ProxyTypeOK'
  <2>1. UNCHANGED proxyVars
    BY <1>1 DEF ProxyIoStep, ProcessStep
  <2>2. UNCHANGED cpc
    BY <1>1 DEF ProxyIoStep, IoStep, HandleTimer, CheckOne, CheckZero,
       EnterDebug, LeaveDebug, Ack, ProcessStep, Construct, Startup, Shutdown,
       Log, callVars
  <2>. QED
    BY <2>1, <2>2 DEF ProxyTypeOK
<1>2. ASSUME NEW p \in Procs, ProcessEnds(p)
      PROVE  ProxyTypeOK'
  <2>1. /\ cut' \in BOOLEAN
        /\ missed' \subseteq Changers
        /\ clients' = clients
    <3>1. cut' \in BOOLEAN
      BY <1>2, Zenon DEF ProcessEnds, ForgetProxy, ProxyTypeOK
    <3>2. missed' \subseteq Changers /\ clients' = clients
      BY <1>2 DEF ProcessEnds, ForgetProxy, ProxyTypeOK
    <3>. QED
      BY <3>1, <3>2
  <2>2. \A t \in Changers :
          wpc'[t] = IF Home[t] = p THEN "none" ELSE wpc[t]
    BY <1>2 DEF ProcessEnds, ForgetProxy
  <2>3. \A t \in Changers :
          cpc'[t] = IF Home[t] = p THEN "idle" ELSE cpc[t]
    BY <1>2 DEF ProcessEnds, Destroy, Crash, callVars, Owns, Dead
  <2>4. /\ exit_' \in [Changers -> BOOLEAN]
        /\ open' \in [Changers -> BOOLEAN]
    BY <1>2 DEF ProcessEnds, ForgetProxy, ProxyTypeOK
  <2>5. /\ backlog' \in [Changers -> Seq({"client", "wake"})]
        /\ conn' \in [Changers -> {"none", "client", "wake"}]
    BY <1>2 DEF ProcessEnds, ForgetProxy, ProxyTypeOK
  <2>6. /\ wpc' \in [Changers -> Places]
        /\ spc' \in [Changers -> {"down", "up", "done"} \cup ShuttingDown]
    BY <1>2 DEF ProcessEnds, ForgetProxy, ProxyTypeOK, Places
  <2>7. \A t \in Changers : wpc'[t] \in Changing <=> cpc'[t] # "idle"
    BY <2>2, <2>3 DEF ProxyTypeOK, Changing
  <2>. QED
    BY <2>1, <2>4, <2>5, <2>6, <2>7 DEF ProxyTypeOK
<1>3. ASSUME NEW t \in Changers, ProxyStartup(t)
      PROVE  ProxyTypeOK'
  <2>1. open' \in [Changers -> BOOLEAN]
    BY <1>3 DEF ProxyStartup, ProxyTypeOK
  <2>2. spc' \in [Changers -> {"down", "up", "done"} \cup ShuttingDown]
    BY <1>3 DEF ProxyStartup, ProxyTypeOK
  <2>3. UNCHANGED <<cpc, exit_, backlog, conn, cut, missed, clients>>
    BY <1>3 DEF ProxyStartup, vars, callVars
  <2>4. CASE UNCHANGED wpc
    BY <2>1, <2>2, <2>3, <2>4 DEF ProxyTypeOK
  <2>5. CASE wpc' = [wpc EXCEPT ![t] = "loop"]
    <3>1. wpc[t] \notin Changing
      BY <1>3 DEF ProxyStartup, Nested, ShuttingDown, Changing
    <3>. QED
      BY <2>1, <2>2, <2>3, <2>5, <3>1 DEF ProxyTypeOK, Places, Changing
  <2>. QED
    BY <1>3, <2>4, <2>5 DEF ProxyStartup
<1>4. ASSUME NEW t \in Changers, ProxyShutdown(t)
      PROVE  ProxyTypeOK'
  <2>1. exit_' \in [Changers -> BOOLEAN]
    BY <1>4 DEF ProxyShutdown, ProxyTypeOK
  <2>2. spc' \in [Changers -> {"down", "up", "done"} \cup ShuttingDown]
    BY <1>4 DEF ProxyShutdown, ProxyTypeOK, ShuttingDown
  <2>3. UNCHANGED <<wpc, cpc, open, backlog, conn, cut, missed, clients>>
    BY <1>4 DEF ProxyShutdown, vars, callVars
  <2>. QED
    BY <2>1, <2>2, <2>3 DEF ProxyTypeOK
<1>5. ASSUME NEW t \in Changers, ShutdownStep(t)
      PROVE  ProxyTypeOK'
  <2>1. CASE WakeConnect(t)
    <3>1. backlog' \in [Changers -> Seq({"client", "wake"})]
      <4>1. "wake" \in {"client", "wake"}
        OBVIOUS
      <4>2. CASE UNCHANGED backlog
        BY <4>2 DEF ProxyTypeOK
      <4>3. ASSUME NEW u \in Reaches[t],
                   backlog' = [backlog EXCEPT ![u] = Append(@, "wake")]
            PROVE  backlog' \in [Changers -> Seq({"client", "wake"})]
        <5>1. u \in Changers
          BY DebugProxyAssumption
        <5>2. Append(backlog[u], "wake") \in Seq({"client", "wake"})
          BY <4>1, <5>1, BacklogTyped DEF ProxyTypeOK
        <5>. QED
          BY <4>3, <5>1, <5>2 DEF ProxyTypeOK
      <4>. QED
        BY <2>1, <4>2, <4>3 DEF WakeConnect
    <3>2. missed' \subseteq Changers
      BY <2>1 DEF WakeConnect, ProxyTypeOK
    <3>3. /\ spc' = [spc EXCEPT ![t] = "closing"]
          /\ UNCHANGED <<cpc, wpc, exit_, open, conn, cut, clients>>
      BY <2>1 DEF WakeConnect, vars, callVars
    <3>. QED
      BY <3>1, <3>2, <3>3 DEF ProxyTypeOK, ShuttingDown
  <2>2. CASE CloseAcceptor(t) \/ Join(t)
    BY <2>2 DEF CloseAcceptor, Join, ProxyTypeOK, vars, callVars, ShuttingDown
  <2>. QED
    BY <1>5, <2>1, <2>2 DEF ShutdownStep
<1>6. ASSUME NEW t \in Changers, Connect(t)
      PROVE  ProxyTypeOK'
  <2>1. backlog' \in [Changers -> Seq({"client", "wake"})]
    <3>1. "client" \in {"client", "wake"}
      OBVIOUS
    <3>. QED
      BY <1>6, <3>1, BacklogTyped DEF Connect, ProxyTypeOK
  <2>. QED
    BY <1>6, <2>1 DEF Connect, ProxyTypeOK, vars, callVars
<1>7. ASSUME NEW t \in Changers,
             AcceptFails(t) \/ Loop(t) \/ Gate(t) \/ Refuse(t) \/ Stream(t)
      PROVE  ProxyTypeOK'
  <2> USE DEF ProxyTypeOK, Places, ClientOps, Changing, vars, callVars
  <2>1. CASE AcceptFails(t)
    BY <2>1, WorkerMoves DEF AcceptFails
  <2>2. CASE Loop(t)
    BY <2>2, WorkerMoves DEF Loop
  <2>3. CASE Gate(t)
    BY <2>3, WorkerMoves DEF Gate
  <2>4. CASE Refuse(t)
    BY <2>4, WorkerMoves DEF Refuse, CloseAndGo
  <2>5. CASE Stream(t)
    BY <2>5, WorkerMoves DEF Stream, Go, GetDebugMsg
  <2>. QED
    BY <1>7, <2>1, <2>2, <2>3, <2>4, <2>5
<1>8. ASSUME NEW t \in Changers, Accept(t)
      PROVE  ProxyTypeOK'
  <2>1. /\ backlog' \in [Changers -> Seq({"client", "wake"})]
        /\ conn' \in [Changers -> {"none", "client", "wake"}]
    <3>1. /\ Head(backlog[t]) \in {"client", "wake"}
          /\ Tail(backlog[t]) \in Seq({"client", "wake"})
      BY <1>8 DEF Accept, ProxyTypeOK
    <3>. QED
      BY <1>8, <3>1 DEF Accept, ProxyTypeOK
  <2>. QED
    BY <1>8, <2>1, WorkerMoves
    DEF Accept, ProxyTypeOK, Places, Changing, vars, callVars
<1>9. ASSUME NEW t \in Changers, ReadHead(t) \/ WriteHead(t) \/ WriteLine(t)
      PROVE  ProxyTypeOK'
  <2> USE DEF Places, ClientOps, Changing, vars, callVars
  <2>1. CASE UNCHANGED vars
    <3>1. PICK x \in Places \ Changing : wpc' = [wpc EXCEPT ![t] = x]
      BY <1>9, <2>1 DEF ReadHead, WriteHead, WriteLine, Go, CloseAndGo, Call,
         TypeOK
    <3>. QED
      BY <1>9, <2>1, <3>1, WorkerMoves
      DEF ReadHead, WriteHead, WriteLine, Go, CloseAndGo, ProxyTypeOK
  <2>2. CASE \E b \in {0, 1} : Call(t, b)
    <3>1. PICK x \in Changing : wpc' = [wpc EXCEPT ![t] = x]
      BY <1>9, <2>2 DEF ReadHead, WriteHead, WriteLine, Go, CloseAndGo, Call,
         TypeOK
    <3>2. cpc'[t] = "write" /\ \A u \in Changers : u # t => cpc'[u] = cpc[u]
      BY <2>2 DEF Call, TypeOK
    <3>. QED
      BY <1>9, <3>1, <3>2, WorkerCalls
      DEF ReadHead, WriteHead, WriteLine, Go, CloseAndGo, ProxyTypeOK
  <2>. QED
    BY <1>9, <2>1, <2>2 DEF ReadHead, WriteHead, WriteLine
<1>10. ASSUME NEW t \in Changers, WorkerInCall(t)
      PROVE  ProxyTypeOK'
  <2>1. \A u \in Changers : u # t => cpc'[u] = cpc[u]
    BY <1>10 DEF WorkerInCall, CallStep, WriteMode, ClearQueue, PushNotice,
       PopAck, Nap, Return, TypeOK
  <2>2. CASE Return(t)
    <3>1. After(wpc[t]) \in Places \ Changing
      BY <1>10 DEF WorkerInCall, After, Places, ClientOps, Changing
    <3>2. cpc'[t] = "idle"
      BY <2>2 DEF Return, TypeOK
    <3>. QED
      BY <1>10, <2>1, <2>2, <3>1, <3>2, WorkerCalls
      DEF WorkerInCall, Go, ProxyTypeOK
  <2>3. CASE ~Return(t)
    <3>1. cpc'[t] # "idle"
      BY <1>10, <2>3 DEF WorkerInCall, CallStep, WriteMode, ClearQueue,
         PushNotice, PopAck, Nap, Waiting, TypeOK
    <3>2. UNCHANGED proxyVars /\ wpc[t] \in Changing
      BY <1>10, <2>3 DEF WorkerInCall
    <3>. QED
      BY <2>1, <3>1, <3>2 DEF ProxyTypeOK
  <2>. QED
    BY <2>2, <2>3
<1>11. CASE UNCHANGED allVars
  BY <1>11 DEF allVars, vars, callVars, ProxyTypeOK
<1>. QED
  BY <1>1, <1>2, <1>3, <1>4, <1>5, <1>6, <1>7, <1>8, <1>9, <1>10, <1>11
  DEF ProxyNext, WorkerStep, WaitsForClient

LEMMA TypedAndNested == ProxySpec => [](ProxyTypeOK /\ Nested)
<1>1. ProxyInit => ProxyTypeOK /\ Nested
  <2>1. <<>> \in Seq({"client", "wake"})
    OBVIOUS
  <2>2. cut = FALSE => cut \in BOOLEAN
    BY Zenon
  <2>. QED
    BY <2>1, <2>2 DEF ProxyInit, Init, ProxyTypeOK, Nested, Places, Changing,
       ShuttingDown
<1>. QED
  BY <1>1, ProxyTypeInductive, NestedInductive, ProxyUsesDebuger, TypeCorrect,
     OwnsAlways, PTL DEF ProxySpec

\* Type correctness of the proxies: whatever the clients, shutdown and crashes
\* do, a worker is in change_debug_mode exactly while its call runs.
THEOREM ProxyTypeCorrect == ProxySpec => []ProxyTypeOK
BY TypedAndNested, PTL

\* A worker thread never runs in a process whose Debuger is not there: the
\* join of DebugProxy::shutdown comes before Debuger::shutdown.
THEOREM WorkerNeverAlone == ProxySpec => []WorkerHasDebuger
<1>1. ProxyTypeOK /\ Nested => WorkerHasDebuger
  BY DEF Nested, WorkerHasDebuger, Started, Checking, Dead
<1>. QED
  BY <1>1, TypedAndNested, PTL
-----------------------------------------------------------------------------
(***************************************************************************)
(* Who has the mode on.  A call made to end a session carries 0, a call     *)
(* made to begin one carries 1; and while the word is 1 there is a worker   *)
(* that has a session, or has yet to write the 0 that ends it.              *)
(***************************************************************************)
Holds(t) ==
  wpc[t] \in Session \/ (wpc[t] \in Changing /\ cpc[t] = "write")

ModeHeld ==
  /\ \A t \in Changers :
       wpc[t] \in Changing => arg[t] = IF wpc[t] = "turn_on" THEN 1 ELSE 0
  /\ debug_mode = 1 /\ ~cut => \E t \in Changers : Holds(t)

\* A step that keeps the word and every worker that holds it keeps ModeHeld.
LEMMA HeldFrame ==
  ASSUME ModeHeld,
         debug_mode' = 0 \/ debug_mode' = debug_mode \/ cut',
         cut => cut',
         \A t \in Changers :
           wpc'[t] \in Changing =>
             arg'[t] = IF wpc'[t] = "turn_on" THEN 1 ELSE 0,
         \A t \in Changers : ~cut' /\ debug_mode' # 0 /\ Holds(t) => Holds(t)'
  PROVE  ModeHeld'
BY DEF ModeHeld

LEMMA ModeHeldInductive ==
  ASSUME TypeOK, ProxyTypeOK, Nested, ModeHeld, [ProxyNext]_allVars
  PROVE  ModeHeld'
<1> USE DEF proxyVars, callVars, histVars, vars
<1>0. /\ wpc \in [Changers -> Places]
      /\ cpc \in [Changers -> {"idle", "write", "clear", "push", "wait"}]
      /\ arg \in [Changers -> {0, 1}]
      /\ \A t \in Changers : wpc[t] \in Changing <=> cpc[t] # "idle"
  BY DEF TypeOK, ProxyTypeOK
<1>1. ASSUME NEW p \in Procs, ProxyIoStep(p) \/ ProcessStep(p)
      PROVE  ModeHeld'
  <2>1. UNCHANGED <<wpc, cut>>
    BY <1>1 DEF ProxyIoStep, ProcessStep
  <2>2. /\ UNCHANGED <<cpc, arg>>
        /\ debug_mode' = 0 \/ debug_mode' = debug_mode
    BY <1>1 DEF ProxyIoStep, IoStep, HandleTimer, CheckOne, CheckZero,
       EnterDebug, LeaveDebug, Ack, ProcessStep, Construct, Startup, Shutdown,
       Log, shmVars
  <2>. QED
    BY <2>1, <2>2, HeldFrame DEF Holds, ModeHeld
<1>2. ASSUME NEW p \in Procs, ProcessEnds(p)
      PROVE  ModeHeld'
  <2>1. debug_mode' = debug_mode
    BY <1>2 DEF ProcessEnds, Destroy, Crash, shmVars
  <2>2. \A t \in Changers :
          wpc'[t] = IF Home[t] = p THEN "none" ELSE wpc[t]
    BY <1>2 DEF ProcessEnds, ForgetProxy
  <2>3. \A t \in Changers :
          Home[t] # p => cpc'[t] = cpc[t] /\ arg'[t] = arg[t]
    BY <1>2 DEF ProcessEnds, Destroy, Crash, ForgetLocals
  <2>4. \A t \in Changers : Home[t] = p /\ ~cut' => ~Holds(t)
    <3>1. CASE Destroy(p)
      BY <3>1 DEF Destroy, Nested, Holds, Started, ShuttingDown, Checking,
         Session, Changing
    <3>2. CASE cut' = (cut \/ \E t \in Changers :
                         Home[t] = p /\ wpc[t] \in Session \cup Changing)
      BY <3>2 DEF Holds
    <3>. QED
      BY <1>2, <3>1, <3>2 DEF ProcessEnds
  <2>5. cut => cut'
    BY <1>2, Zenon DEF ProcessEnds
  <2>6. \A t \in Changers :
          wpc'[t] \in Changing =>
            arg'[t] = IF wpc'[t] = "turn_on" THEN 1 ELSE 0
    BY <2>2, <2>3 DEF ModeHeld, Changing
  <2>. QED
    BY <2>1, <2>2, <2>3, <2>4, <2>5, <2>6, HeldFrame DEF Holds
<1>3. ASSUME NEW t \in Changers,
             ProxyStartup(t) \/ ProxyShutdown(t) \/ ShutdownStep(t)
               \/ Connect(t) \/ AcceptFails(t) \/ Loop(t) \/ Accept(t)
               \/ Gate(t) \/ Refuse(t)
      PROVE  ModeHeld'
  <2>1. UNCHANGED <<debug_mode, cpc, arg, cut>>
    BY <1>3 DEF ProxyStartup, ProxyShutdown, ShutdownStep, WakeConnect,
       CloseAcceptor, Join, Connect, AcceptFails, Loop, Accept, Gate, Refuse,
       CloseAndGo, shmVars
  <2>2. \A u \in Changers :
          \/ wpc'[u] = wpc[u]
          \/ ~Holds(u) /\ wpc'[u] \notin Changing
    BY <1>0, <1>3 DEF ProxyStartup, ProxyShutdown, ShutdownStep, WakeConnect,
       CloseAcceptor, Join, Connect, AcceptFails, Loop, Accept, Gate, Refuse,
       CloseAndGo, Nested, ShuttingDown, Holds, Session, Changing
  <2>. QED
    BY <2>1, <2>2, HeldFrame DEF Holds, ModeHeld
<1>4. ASSUME NEW t \in Changers, Stream(t)
      PROVE  ModeHeld'
  <2>1. UNCHANGED <<debug_mode, cpc, arg>>
    BY <1>4 DEF Stream, GetDebugMsg, shmVars
  <2>2. /\ wpc'[t] = "write_line" \/ (cut' /\ wpc'[t] = "loop")
        /\ \A u \in Changers : u # t => wpc'[u] = wpc[u]
    BY <1>0, <1>4 DEF Stream, Go
  <2>3. cut => cut'
    <3>1. cut' = TRUE \/ cut' = cut
      BY <1>4 DEF Stream, Go
    <3>. QED
      BY <3>1, Zenon
  <2>. QED
    BY <2>1, <2>2, <2>3, HeldFrame DEF Holds, ModeHeld, Session, Changing
<1>5. ASSUME NEW t \in Changers, ReadHead(t) \/ WriteHead(t) \/ WriteLine(t)
      PROVE  ModeHeld'
  <2>1. /\ UNCHANGED <<debug_mode, cut>>
        /\ \A u \in Changers : u # t => wpc'[u] = wpc[u]
    BY <1>0, <1>5 DEF ReadHead, WriteHead, WriteLine, Go, CloseAndGo, Call,
       shmVars
  <2>2. CASE UNCHANGED vars
    <3>1. /\ wpc'[t] \notin Changing
          /\ Holds(t) => wpc'[t] = "stream"
      BY <1>0, <1>5, <2>2 DEF ReadHead, WriteHead, WriteLine, Go, CloseAndGo,
         Call, Holds, Session, Changing
    <3>. QED
      BY <2>1, <2>2, <3>1, HeldFrame DEF Holds, ModeHeld, Session
  <2>3. CASE Call(t, 1) /\ wpc' = [wpc EXCEPT ![t] = "turn_on"]
    <3>1. /\ arg'[t] = 1 /\ wpc'[t] = "turn_on"
          /\ \A u \in Changers : u # t => arg'[u] = arg[u] /\ cpc'[u] = cpc[u]
      BY <1>0, <2>3 DEF Call
    <3>. QED
      BY <2>1, <3>1, HeldFrame DEF Holds, ModeHeld, Session
  <2>4. CASE Call(t, 0) /\ wpc'[t] \in {"turn_off_end", "turn_off_next"}
    <3>1. /\ arg'[t] = 0 /\ cpc'[t] = "write"
          /\ \A u \in Changers : u # t => arg'[u] = arg[u] /\ cpc'[u] = cpc[u]
      BY <1>0, <2>4 DEF Call
    <3>. QED
      BY <2>1, <2>4, <3>1, HeldFrame DEF Holds, ModeHeld, Session, Changing
  <2>. QED
    BY <1>0, <1>5, <2>2, <2>3, <2>4
    DEF ReadHead, WriteHead, WriteLine, Go, CloseAndGo
<1>6. ASSUME NEW t \in Changers, WorkerInCall(t)
      PROVE  ModeHeld'
  <2>1. UNCHANGED cut
    BY <1>6 DEF WorkerInCall, Go
  <2>2. \A u \in Changers : u # t => /\ wpc'[u] = wpc[u]
                                     /\ cpc'[u] = cpc[u]
                                     /\ arg'[u] = arg[u]
    BY <1>0, <1>6 DEF WorkerInCall, Go, CallStep, WriteMode, ClearQueue,
       PushNotice, PopAck, Nap, Return, ForgetLocals
  <2>3. CASE WriteMode(t)
    <3>1. /\ debug_mode' = IF wpc[t] = "turn_on" THEN 1 ELSE 0
          /\ UNCHANGED <<wpc, arg>>
      BY <1>6, <2>3 DEF WorkerInCall, WriteMode, Return, ModeHeld
    <3>. QED
      BY <2>1, <2>2, <3>1 DEF ModeHeld, Holds, Session
  <2>4. CASE Return(t)
    <3>1. /\ debug_mode' = debug_mode
          /\ wpc'[t] = After(wpc[t])
          /\ cpc[t] = "wait"
          /\ wpc[t] \in Changing
      BY <1>0, <1>6, <2>4 DEF WorkerInCall, Return, Go, shmVars
    <3>. QED
      BY <2>1, <2>2, <3>1, HeldFrame
      DEF ModeHeld, Holds, Session, Changing, After
  <2>5. CASE ~Return(t) /\ ~WriteMode(t)
    <3>1. /\ UNCHANGED <<debug_mode, arg, wpc>>
          /\ cpc[t] # "write"
      BY <1>6, <2>5 DEF WorkerInCall, CallStep, ClearQueue, PushNotice,
         PopAck, Nap, Waiting, shmVars
    <3>. QED
      BY <2>1, <2>2, <3>1, HeldFrame DEF ModeHeld, Holds
  <2>. QED
    BY <2>3, <2>4, <2>5
<1>7. CASE UNCHANGED allVars
  BY <1>7 DEF allVars, shmVars, ModeHeld, Holds
<1>. QED
  BY <1>1, <1>2, <1>3, <1>4, <1>5, <1>6, <1>7, Zenon
  DEF ProxyNext, WorkerStep, WaitsForClient

\* The debug mode is on only for a client being served, with any number of
\* proxies, unless a shutdown or a crash has cut a session short.
THEOREM ModeOnOnlyForClients == ProxySpec => []ModeOnMeansServed
<1>1. ProxyInit => ModeHeld
  BY DEF ProxyInit, Init, ModeHeld, Changing
<1>2. ModeHeld => ModeOnMeansServed
  BY DEF ModeHeld, Holds, ModeOnMeansServed
<1>. QED
  BY <1>1, <1>2, ModeHeldInductive, TypedAndNested, ProxyUsesDebuger,
     TypeCorrect, PTL DEF ProxySpec
-----------------------------------------------------------------------------
(***************************************************************************)
(* Who has a session has the mode on, from the moment its worker has        *)
(* written the 1, if no other proxy writes the word.                        *)
(***************************************************************************)
OneProxy == \A t, u \in Changers : t = u

TurnedOn(t) ==
  \/ wpc[t] \in {"write_head", "stream", "write_line"}
  \/ wpc[t] = "turn_on" /\ cpc[t] \notin {"idle", "write"}

SessionOn == \A t \in Changers : TurnedOn(t) => debug_mode = 1

LEMMA SessionOnInductive ==
  ASSUME OneProxy, TypeOK, ProxyTypeOK, Nested, ModeHeld, SessionOn,
         [ProxyNext]_allVars
  PROVE  SessionOn'
<1> USE DEF proxyVars, callVars, histVars, vars
<1>0. /\ wpc \in [Changers -> Places]
      /\ cpc \in [Changers -> {"idle", "write", "clear", "push", "wait"}]
      /\ \A t \in Changers : wpc[t] \in Changing <=> cpc[t] # "idle"
  BY DEF TypeOK, ProxyTypeOK
<1>1. ASSUME NEW p \in Procs, ProxyIoStep(p) \/ ProcessStep(p)
      PROVE  SessionOn'
  <2>1. UNCHANGED <<wpc, cpc>>
    BY <1>1 DEF ProxyIoStep, ProcessStep, IoStep, HandleTimer, CheckOne,
       CheckZero, EnterDebug, LeaveDebug, Ack, Construct, Startup, Shutdown, Log
  <2>2. CASE debug_mode' = debug_mode
    BY <2>1, <2>2 DEF SessionOn, TurnedOn
  <2>3. CASE \A q \in Procs : pc[q] = "down"
    <3>1. \A t \in Changers : ~TurnedOn(t)
      BY <2>3, DebugerAssumption DEF Nested, Started, Checking, Dead, TurnedOn
    <3>. QED
      BY <2>1, <3>1 DEF SessionOn, TurnedOn
  <2>. QED
    BY <1>1, <2>2, <2>3 DEF ProxyIoStep, ProcessStep, IoStep, HandleTimer,
       CheckOne, CheckZero, EnterDebug, LeaveDebug, Ack, Construct, Startup,
       Shutdown, Log, shmVars
<1>2. ASSUME NEW p \in Procs, ProcessEnds(p)
      PROVE  SessionOn'
  <2>1. debug_mode' = debug_mode
    BY <1>2 DEF ProcessEnds, Destroy, Crash, shmVars
  <2>2. \A t \in Changers :
          \/ wpc'[t] = "none"
          \/ wpc'[t] = wpc[t] /\ cpc'[t] = cpc[t]
    BY <1>2 DEF ProcessEnds, ForgetProxy, Destroy, Crash
  <2>. QED
    BY <2>1, <2>2 DEF SessionOn, TurnedOn
<1>3. ASSUME NEW t \in Changers,
             ProxyStartup(t) \/ ProxyShutdown(t) \/ ShutdownStep(t)
               \/ Connect(t) \/ AcceptFails(t) \/ Loop(t) \/ Accept(t)
               \/ Gate(t) \/ Refuse(t)
      PROVE  SessionOn'
  <2>1. UNCHANGED <<debug_mode, cpc>>
    BY <1>3 DEF ProxyStartup, ProxyShutdown, ShutdownStep, WakeConnect,
       CloseAcceptor, Join, Connect, AcceptFails, Loop, Accept, Gate, Refuse,
       CloseAndGo, shmVars
  <2>2. \A u \in Changers : wpc'[u] = wpc[u] \/ ~TurnedOn(u)'
    BY <1>0, <1>3 DEF ProxyStartup, ProxyShutdown, ShutdownStep, WakeConnect,
       CloseAcceptor, Join, Connect, AcceptFails, Loop, Accept, Gate, Refuse,
       CloseAndGo, TurnedOn
  <2>. QED
    BY <2>1, <2>2 DEF SessionOn, TurnedOn
<1>4. ASSUME NEW t \in Changers, Stream(t)
      PROVE  SessionOn'
  <2>1. UNCHANGED <<debug_mode, cpc>>
    BY <1>4 DEF Stream, GetDebugMsg, shmVars
  <2>2. wpc[t] = "stream" /\ \A u \in Changers : u # t => wpc'[u] = wpc[u]
    BY <1>0, <1>4 DEF Stream, Go
  <2>. QED
    BY <2>1, <2>2 DEF SessionOn, TurnedOn
<1>5. ASSUME NEW t \in Changers, ReadHead(t) \/ WriteHead(t) \/ WriteLine(t)
      PROVE  SessionOn'
  <2>1. debug_mode' = debug_mode
    BY <1>5 DEF ReadHead, WriteHead, WriteLine, Call, shmVars
  <2>2. \A u \in Changers : u = t
    BY DEF OneProxy
  <2>3. TurnedOn(t)' => TurnedOn(t)
    <3>1. CASE UNCHANGED vars
      BY <1>0, <1>5, <3>1 DEF ReadHead, WriteHead, WriteLine, Go, CloseAndGo,
         Call, TurnedOn, Changing
    <3>2. CASE \E b \in {0, 1} : Call(t, b)
      <4>1. cpc'[t] = "write"
        BY <1>0, <3>2 DEF Call
      <4>2. wpc'[t] \in Changing
        BY <1>0, <1>5, <3>2 DEF ReadHead, WriteHead, WriteLine, Go, CloseAndGo,
           Call, Changing
      <4>. QED
        BY <4>1, <4>2 DEF TurnedOn, Changing
    <3>. QED
      BY <1>5, <3>1, <3>2 DEF ReadHead, WriteHead, WriteLine
  <2>. QED
    BY <2>1, <2>2, <2>3 DEF SessionOn
<1>6. ASSUME NEW t \in Changers, WorkerInCall(t)
      PROVE  SessionOn'
  <2>1. \A u \in Changers : u = t
    BY DEF OneProxy
  <2>2. CASE WriteMode(t)
    <3>1. /\ debug_mode' = IF wpc[t] = "turn_on" THEN 1 ELSE 0
          /\ UNCHANGED wpc
          /\ wpc[t] \in Changing
      BY <1>6, <2>2 DEF WorkerInCall, WriteMode, Return, ModeHeld
    <3>. QED
      BY <2>1, <3>1 DEF SessionOn, TurnedOn, Changing
  <2>3. CASE Return(t)
    <3>1. /\ debug_mode' = debug_mode
          /\ wpc'[t] = After(wpc[t])
          /\ cpc[t] = "wait"
          /\ wpc[t] \in Changing
      BY <1>0, <1>6, <2>3 DEF WorkerInCall, Return, Go, shmVars
    <3>. QED
      BY <2>1, <3>1 DEF SessionOn, TurnedOn, Changing, After
  <2>4. CASE ~Return(t) /\ ~WriteMode(t)
    <3>1. /\ UNCHANGED <<debug_mode, wpc>>
          /\ cpc[t] \notin {"idle", "write"}
      BY <1>6, <2>4 DEF WorkerInCall, CallStep, ClearQueue, PushNotice,
         PopAck, Nap, Waiting, shmVars
    <3>. QED
      BY <2>1, <3>1 DEF SessionOn, TurnedOn
  <2>. QED
    BY <2>2, <2>3, <2>4
<1>7. CASE UNCHANGED allVars
  BY <1>7 DEF allVars, shmVars, SessionOn, TurnedOn
<1>. QED
  BY <1>1, <1>2, <1>3, <1>4, <1>5, <1>6, <1>7, Zenon
  DEF ProxyNext, WorkerStep, WaitsForClient

\* A client that is served has the mode on, if its proxy is the only one.
THEOREM ClientsSeeTheLog == ProxySpec => []ServedMeansModeOn
<1>1. CASE OneProxy
  <2>1. ProxyInit => ModeHeld /\ SessionOn
    BY DEF ProxyInit, Init, ModeHeld, Changing, SessionOn, TurnedOn
  <2>2. TypeOK /\ ProxyTypeOK /\ Nested /\ ModeHeld /\ SessionOn
          /\ [ProxyNext]_allVars => ModeHeld' /\ SessionOn'
    BY <1>1, ModeHeldInductive, SessionOnInductive
  <2>3. SessionOn => ServedMeansModeOn
    BY DEF SessionOn, TurnedOn, ServedMeansModeOn
  <2>. QED
    BY <2>1, <2>2, <2>3, TypedAndNested, ProxyUsesDebuger, TypeCorrect, PTL
    DEF ProxySpec
<1>2. CASE ~OneProxy
  <2>1. ServedMeansModeOn
    BY <1>2 DEF OneProxy, ServedMeansModeOn
  <2>. QED
    BY <2>1, PTL
<1>. QED
  BY <1>1, <1>2
-----------------------------------------------------------------------------
(***************************************************************************)
(* The handshake of shutdown.  exit_ is set before the wake-up connection   *)
(* is made, so whoever finds that connection finds exit_ set.               *)
(***************************************************************************)
WithClient == ClientOps \cup {"turn_on", "stream"}

OwnPorts == \A t \in Changers : Reaches[t] = {t}

ExitFirst ==
  \A t \in Changers :
    /\ spc[t] \in ShuttingDown => exit_[t]
    /\ (\E i \in 1..Len(backlog[t]) : backlog[t][i] = "wake") => exit_[t]
    /\ conn[t] = "wake" => exit_[t]
    /\ wpc[t] \in WithClient => conn[t] = "client"

LEMMA ExitFirstInductive ==
  ASSUME OwnPorts, ProxyTypeOK, Nested, ExitFirst, [ProxyNext]_allVars
  PROVE  ExitFirst'
<1> USE DEF proxyVars, ShuttingDown, ClientOps, WithClient
<1>0. /\ wpc \in [Changers -> Places]
      /\ spc \in [Changers -> {"down", "up", "done"} \cup ShuttingDown]
      /\ exit_ \in [Changers -> BOOLEAN]
      /\ backlog \in [Changers -> Seq({"client", "wake"})]
      /\ conn \in [Changers -> {"none", "client", "wake"}]
  BY DEF ProxyTypeOK
<1>1. ASSUME NEW p \in Procs, ProxyIoStep(p) \/ ProcessStep(p)
      PROVE  ExitFirst'
  <2>1. UNCHANGED proxyVars
    BY <1>1 DEF ProxyIoStep, ProcessStep
  <2>. QED
    BY <2>1 DEF ExitFirst
<1>2. ASSUME NEW p \in Procs, ProcessEnds(p)
      PROVE  ExitFirst'
  BY <1>0, <1>2 DEF ProcessEnds, ForgetProxy, ExitFirst
<1>3. ASSUME NEW t \in Changers, ProxyStartup(t)
      PROVE  ExitFirst'
  <2>1. UNCHANGED <<exit_, backlog, conn>>
    BY <1>3 DEF ProxyStartup
  <2>2. \A u \in Changers : spc'[u] \in ShuttingDown => spc[u] \in ShuttingDown
    BY <1>0, <1>3 DEF ProxyStartup
  <2>3. \A u \in Changers : wpc'[u] \in WithClient => wpc[u] \in WithClient
    BY <1>0, <1>3 DEF ProxyStartup
  <2>. QED
    BY <2>1, <2>2, <2>3 DEF ExitFirst
<1>4. ASSUME NEW t \in Changers, ProxyShutdown(t)
      PROVE  ExitFirst'
  BY <1>0, <1>4 DEF ProxyShutdown, ExitFirst
<1>5. ASSUME NEW t \in Changers, ShutdownStep(t)
      PROVE  ExitFirst'
  <2>1. CASE WakeConnect(t)
    <3>1. exit_[t]
      BY <2>1 DEF WakeConnect, ExitFirst
    <3>2. \A u \in Changers : u # t => backlog'[u] = backlog[u]
      <4>1. \/ UNCHANGED backlog
            \/ backlog' = [backlog EXCEPT ![t] = Append(@, "wake")]
        BY <2>1 DEF WakeConnect, OwnPorts
      <4>. QED
        BY <1>0, <4>1
    <3>3. /\ UNCHANGED <<wpc, exit_, conn>>
          /\ spc' = [spc EXCEPT ![t] = "closing"]
      BY <2>1 DEF WakeConnect
    <3>. QED
      BY <1>0, <3>1, <3>2, <3>3 DEF ExitFirst
  <2>2. CASE CloseAcceptor(t) \/ Join(t)
    BY <1>0, <2>2 DEF CloseAcceptor, Join, ExitFirst
  <2>. QED
    BY <1>5, <2>1, <2>2 DEF ShutdownStep
<1>6. ASSUME NEW t \in Changers, Connect(t)
      PROVE  ExitFirst'
  <2>1. /\ UNCHANGED <<wpc, spc, exit_, conn>>
        /\ backlog' = [backlog EXCEPT ![t] = Append(@, "client")]
    BY <1>6 DEF Connect
  <2>2. (\E i \in 1..Len(backlog'[t]) : backlog'[t][i] = "wake") =>
          \E i \in 1..Len(backlog[t]) : backlog[t][i] = "wake"
    BY <1>0, <2>1
  <2>. QED
    BY <1>0, <2>1, <2>2 DEF ExitFirst
<1>7. ASSUME NEW t \in Changers, Accept(t)
      PROVE  ExitFirst'
  <2>1. /\ UNCHANGED <<spc, exit_>>
        /\ backlog[t] # <<>>
        /\ wpc' = [wpc EXCEPT ![t] = "gate"]
        /\ conn' = [conn EXCEPT ![t] = Head(backlog[t])]
        /\ backlog' = [backlog EXCEPT ![t] = Tail(@)]
    BY <1>7 DEF Accept
  <2>2. Head(backlog[t]) = backlog[t][1] /\ 1 \in 1..Len(backlog[t])
    BY <1>0, <2>1
  <2>3. (\E i \in 1..Len(backlog'[t]) : backlog'[t][i] = "wake") =>
          \E i \in 1..Len(backlog[t]) : backlog[t][i] = "wake"
    BY <1>0, <2>1
  <2>. QED
    BY <1>0, <2>1, <2>2, <2>3 DEF ExitFirst
<1>8. ASSUME NEW t \in Changers,
             AcceptFails(t) \/ Loop(t) \/ Gate(t) \/ Refuse(t) \/ Stream(t)
               \/ ReadHead(t) \/ WriteHead(t) \/ WriteLine(t)
      PROVE  ExitFirst'
  <2>1. UNCHANGED <<spc, exit_, backlog>>
    BY <1>8 DEF AcceptFails, Loop, Gate, Refuse, Stream, ReadHead, WriteHead,
       WriteLine, Go, CloseAndGo
  <2>2. /\ \A u \in Changers : u # t => wpc'[u] = wpc[u] /\ conn'[u] = conn[u]
        /\ conn'[t] \in {conn[t], "none"}
    BY <1>0, <1>8 DEF AcceptFails, Loop, Gate, Refuse, Stream, ReadHead,
       WriteHead, WriteLine, Go, CloseAndGo
  <2>3. wpc'[t] \in WithClient => conn'[t] = "client"
    <3>1. CASE Gate(t)
      BY <1>0, <3>1 DEF Gate, ExitFirst
    <3>2. CASE Stream(t)
      BY <1>0, <3>2 DEF Stream, Go, ExitFirst
    <3>3. CASE AcceptFails(t) \/ Loop(t) \/ Refuse(t) \/ ReadHead(t)
                 \/ WriteHead(t) \/ WriteLine(t)
      BY <1>0, <3>3 DEF AcceptFails, Loop, Refuse, ReadHead, WriteHead,
         WriteLine, Go, CloseAndGo, ExitFirst
    <3>. QED
      BY <1>8, <3>1, <3>2, <3>3
  <2>. QED
    <3>1. ASSUME NEW u \in Changers
          PROVE  /\ conn'[u] = "wake" => exit_[u]
                 /\ wpc'[u] \in WithClient => conn'[u] = "client"
      BY <1>0, <2>2, <2>3 DEF ExitFirst
    <3>. HIDE DEF ShuttingDown, ClientOps, WithClient
    <3>. QED
      BY <2>1, <3>1 DEF ExitFirst
<1>9. ASSUME NEW t \in Changers, WorkerInCall(t)
      PROVE  ExitFirst'
  BY <1>0, <1>9 DEF WorkerInCall, Go, After, Changing, ExitFirst
<1>10. CASE UNCHANGED allVars
  BY <1>10 DEF allVars, ExitFirst
<1>. QED
  BY <1>1, <1>2, <1>3, <1>4, <1>5, <1>6, <1>7, <1>8, <1>9, <1>10, Zenon
  DEF ProxyNext, WorkerStep, WaitsForClient

\* The worker never reads a request from the connection its own shutdown made
\* to wake it up, if every proxy listens at the port its addr_ names.
THEOREM WakeIsNoClient == ProxySpec => []WakeNotServed
<1>1. CASE OwnPorts
  <2>1. ProxyInit => ExitFirst
    BY DEF ProxyInit, ExitFirst, ShuttingDown, WithClient, ClientOps
  <2>2. ProxyTypeOK /\ Nested /\ ExitFirst /\ [ProxyNext]_allVars => ExitFirst'
    BY <1>1, ExitFirstInductive
  <2>3. ExitFirst => WakeNotServed
    BY DEF ExitFirst, WithClient, WakeNotServed
  <2>. QED
    BY <2>1, <2>2, <2>3, TypedAndNested, PTL DEF ProxySpec
<1>2. CASE ~OwnPorts
  <2>1. WakeNotServed
    BY <1>2 DEF OwnPorts, WakeNotServed
  <2>. QED
    BY <2>1, PTL
<1>. QED
  BY <1>1, <1>2
-----------------------------------------------------------------------------
(***************************************************************************)
(* The wake-up is not lost.  The worker runs only while the acceptor is     *)
(* open, so a connection that shutdown makes to it is there for a worker    *)
(* that is in accept; nobody but that worker takes connections off the      *)
(* backlog, and with exit_ set it does not come back to accept.             *)
(***************************************************************************)
\* exit_ is set for as long as the proxy shuts down.
ExitWhileShutting == \A t \in Changers : spc[t] \in ShuttingDown => exit_[t]

LEMMA ExitWhileShuttingInductive ==
  ASSUME ProxyTypeOK, ExitWhileShutting, [ProxyNext]_allVars
  PROVE  ExitWhileShutting'
<1> USE DEF proxyVars, ShuttingDown
<1>0. /\ spc \in [Changers -> {"down", "up", "done"} \cup ShuttingDown]
      /\ exit_ \in [Changers -> BOOLEAN]
  BY DEF ProxyTypeOK
<1>1. ASSUME NEW p \in Procs, ProxyIoStep(p) \/ ProcessStep(p)
      PROVE  ExitWhileShutting'
  BY <1>1 DEF ProxyIoStep, ProcessStep, ExitWhileShutting
<1>2. ASSUME NEW p \in Procs, ProcessEnds(p)
      PROVE  ExitWhileShutting'
  BY <1>0, <1>2 DEF ProcessEnds, ForgetProxy, ExitWhileShutting
<1>3. ASSUME NEW t \in Changers,
             ProxyStartup(t) \/ ProxyShutdown(t) \/ ShutdownStep(t)
      PROVE  ExitWhileShutting'
  BY <1>0, <1>3 DEF ProxyStartup, ProxyShutdown, ShutdownStep, WakeConnect,
     CloseAcceptor, Join, ExitWhileShutting
<1>4. ASSUME NEW t \in Changers,
             Connect(t) \/ AcceptFails(t) \/ WorkerStep(t) \/ WaitsForClient(t)
      PROVE  ExitWhileShutting'
  <2>1. UNCHANGED <<spc, exit_>>
    BY <1>4 DEF Connect, AcceptFails, WorkerStep, WaitsForClient, Loop, Accept,
       Gate, Refuse, Stream, ReadHead, WriteHead, WriteLine, WorkerInCall, Go,
       CloseAndGo
  <2>. QED
    BY <2>1 DEF ExitWhileShutting
<1>5. CASE UNCHANGED allVars
  BY <1>5 DEF allVars, ExitWhileShutting
<1>. QED
  BY <1>1, <1>2, <1>3, <1>4, <1>5, Zenon DEF ProxyNext

\* The acceptor is open for as long as the worker runs, up to the moment
\* shutdown closes it.
OpenWhileRunning ==
  \A t \in Changers :
    wpc[t] \notin {"none", "ended"} /\ spc[t] \in {"up", "waking", "closing"}
      => open[t]

\* Only shutdown closes the acceptor, and only the worker empties the backlog.
LEMMA NoLostWakeInductive ==
  ASSUME ProxyTypeOK, Nested, ExitWhileShutting, OpenWhileRunning, NoLostWake,
         [ProxyNext]_allVars
  PROVE  OpenWhileRunning' /\ NoLostWake'
<1> USE DEF proxyVars, ShuttingDown
<1>0. /\ wpc \in [Changers -> Places]
      /\ spc \in [Changers -> {"down", "up", "done"} \cup ShuttingDown]
      /\ exit_ \in [Changers -> BOOLEAN]
      /\ open \in [Changers -> BOOLEAN]
      /\ backlog \in [Changers -> Seq({"client", "wake"})]
  BY DEF ProxyTypeOK
<1>1. ASSUME NEW p \in Procs, ProxyIoStep(p) \/ ProcessStep(p)
      PROVE  OpenWhileRunning' /\ NoLostWake'
  <2>1. UNCHANGED proxyVars
    BY <1>1 DEF ProxyIoStep, ProcessStep
  <2>. QED
    BY <2>1 DEF OpenWhileRunning, NoLostWake
<1>2. ASSUME NEW p \in Procs, ProcessEnds(p)
      PROVE  OpenWhileRunning' /\ NoLostWake'
  BY <1>0, <1>2 DEF ProcessEnds, ForgetProxy, OpenWhileRunning, NoLostWake
<1>3. ASSUME NEW t \in Changers, ProxyStartup(t)
      PROVE  OpenWhileRunning' /\ NoLostWake'
  <2>1. UNCHANGED <<backlog, missed>> /\ spc' = [spc EXCEPT ![t] = "up"]
    BY <1>3 DEF ProxyStartup
  <2>2. wpc[t] \in {"none", "ended"}
    BY <1>3 DEF ProxyStartup, Nested
  <2>3. \/ open' = [open EXCEPT ![t] = TRUE] /\ wpc' = [wpc EXCEPT ![t] = "loop"]
        \/ UNCHANGED <<open, wpc>>
    BY <1>3 DEF ProxyStartup
  <2>. QED
    BY <1>0, <2>1, <2>2, <2>3 DEF OpenWhileRunning, NoLostWake
<1>4. ASSUME NEW t \in Changers, ProxyShutdown(t) \/ CloseAcceptor(t) \/ Join(t)
      PROVE  OpenWhileRunning' /\ NoLostWake'
  BY <1>0, <1>4
  DEF ProxyShutdown, CloseAcceptor, Join, OpenWhileRunning, NoLostWake
<1>5. ASSUME NEW t \in Changers, WakeConnect(t)
      PROVE  OpenWhileRunning' /\ NoLostWake'
  <2>1. /\ spc[t] = "waking"
        /\ spc' = [spc EXCEPT ![t] = "closing"]
        /\ UNCHANGED <<wpc, open>>
    BY <1>5 DEF WakeConnect
  <2>2. OpenWhileRunning'
    BY <1>0, <2>1 DEF OpenWhileRunning
  <2>3. CASE UNCHANGED backlog /\ missed' = missed \cup {t}
    <3>1. \A u \in Changers \ missed' :
            u \in Changers \ missed /\ spc'[u] = spc[u]
      BY <1>0, <2>1, <2>3
    <3>. QED
      BY <2>1, <2>2, <2>3, <3>1 DEF NoLostWake
  <2>4. CASE ~open[t] /\ UNCHANGED <<backlog, missed>>
    <3>1. wpc[t] # "accept"
      BY <2>1, <2>4 DEF OpenWhileRunning
    <3>2. \A u \in Changers : u # t => spc'[u] = spc[u]
      BY <1>0, <2>1
    <3>. QED
      BY <2>1, <2>2, <2>4, <3>1, <3>2 DEF NoLostWake
  <2>5. ASSUME NEW u \in Changers,
               backlog' = [backlog EXCEPT ![u] = Append(@, "wake")],
               missed' = IF open[t] /\ u # t THEN missed \cup {t} ELSE missed
        PROVE  NoLostWake'
    <3>1. /\ backlog'[u] # <<>>
          /\ \A v \in Changers : v # u => backlog'[v] = backlog[v]
      <4>1. backlog[u] \in Seq({"client", "wake"}) /\ "wake" \in {"client", "wake"}
        BY <1>0
      <4>2. Append(backlog[u], "wake") # <<>>
        BY <4>1
      <4>. QED
        BY <1>0, <2>5, <4>2
    <3>2. \/ t \in missed'
          \/ u = t
          \/ wpc[t] # "accept"
      BY <2>1, <2>5 DEF OpenWhileRunning
    <3>3. missed \subseteq missed'
      BY <2>5
    <3>4. \A v \in Changers : v # t => spc'[v] = spc[v]
      BY <1>0, <2>1
    <3>. QED
      BY <2>1, <3>1, <3>2, <3>3, <3>4 DEF NoLostWake
  <2>6. Reaches[t] \subseteq Changers
    BY DebugProxyAssumption
  <2>. QED
    BY <1>5, <2>2, <2>3, <2>4, <2>5, <2>6 DEF WakeConnect
<1>6. ASSUME NEW t \in Changers, Connect(t)
      PROVE  OpenWhileRunning' /\ NoLostWake'
  <2>1. /\ UNCHANGED <<wpc, spc, open, missed>>
        /\ backlog' = [backlog EXCEPT ![t] = Append(@, "client")]
    BY <1>6 DEF Connect
  <2>2. backlog'[t] # <<>> /\ \A u \in Changers : u # t => backlog'[u] = backlog[u]
    BY <1>0, <2>1
  <2>. QED
    BY <2>1, <2>2 DEF OpenWhileRunning, NoLostWake
<1>7. ASSUME NEW t \in Changers,
             Loop(t) \/ Accept(t) \/ AcceptFails(t) \/ Gate(t) \/ Refuse(t)
               \/ Stream(t) \/ ReadHead(t) \/ WriteHead(t) \/ WriteLine(t)
               \/ WorkerInCall(t)
      PROVE  OpenWhileRunning' /\ NoLostWake'
  <2>1. UNCHANGED <<spc, open, missed>>
    BY <1>7 DEF Loop, Accept, AcceptFails, Gate, Refuse, Stream, ReadHead,
       WriteHead, WriteLine, WorkerInCall, Go, CloseAndGo
  <2>2. \A u \in Changers : u # t => wpc'[u] = wpc[u] /\ backlog'[u] = backlog[u]
    BY <1>0, <1>7 DEF Loop, Accept, AcceptFails, Gate, Refuse, Stream, ReadHead,
       WriteHead, WriteLine, WorkerInCall, Go, CloseAndGo
  <2>3. wpc[t] \notin {"none", "ended"}
    BY <1>7 DEF Loop, Accept, AcceptFails, Gate, Refuse, Stream, ReadHead,
       WriteHead, WriteLine, WorkerInCall, Changing
  <2>4. wpc'[t] = "accept" => spc[t] \notin {"closing", "joining"}
    <3>1. CASE Loop(t)
      BY <1>0, <3>1 DEF Loop, ExitWhileShutting
    <3>2. CASE \/ Accept(t) \/ AcceptFails(t) \/ Gate(t) \/ Refuse(t)
               \/ Stream(t) \/ ReadHead(t) \/ WriteHead(t) \/ WriteLine(t)
      BY <1>0, <3>2 DEF Accept, AcceptFails, Gate, Refuse, Stream, ReadHead,
         WriteHead, WriteLine, Go, CloseAndGo
    <3>3. CASE WorkerInCall(t)
      BY <1>0, <3>3 DEF WorkerInCall, Go, After, Changing
    <3>. QED
      BY <1>7, <3>1, <3>2, <3>3
  <2>. QED
    BY <2>1, <2>2, <2>3, <2>4 DEF OpenWhileRunning, NoLostWake
<1>8. CASE UNCHANGED allVars
  BY <1>8 DEF allVars, OpenWhileRunning, NoLostWake
<1>. QED
  BY <1>1, <1>2, <1>3, <1>4, <1>5, <1>6, <1>7, <1>8, Zenon
  DEF ProxyNext, ShutdownStep, WorkerStep, WaitsForClient

\* A worker that shutdown finds in accept has a connection to wake up for,
\* whatever ports the proxies use, unless the connection was not made or went
\* to another process.
THEOREM WakeNotLost == ProxySpec => []NoLostWake
<1>1. ProxyInit => ExitWhileShutting /\ OpenWhileRunning /\ NoLostWake
  BY DEF ProxyInit, ExitWhileShutting, ShuttingDown, OpenWhileRunning, NoLostWake
<1>2. ProxyTypeOK /\ Nested /\ ExitWhileShutting /\ OpenWhileRunning
        /\ NoLostWake /\ [ProxyNext]_allVars
        => ExitWhileShutting' /\ OpenWhileRunning' /\ NoLostWake'
  BY ExitWhileShuttingInductive, NoLostWakeInductive
<1>. QED
  BY <1>1, <1>2, TypedAndNested, PTL DEF ProxySpec
-----------------------------------------------------------------------------
(***************************************************************************)
(* The way of a worker that has to end, whatever it is doing when exit_ is  *)
(* set: a variant of its moves.                                             *)
(***************************************************************************)
\* exit_ is set by shutdown, and stays set for as long as the proxy is there.
ExitSet ==
  \A t \in Changers : exit_[t] => spc[t] \in ShuttingDown \cup {"done"}

\* A proxy starts with exit_ off, and nothing sets it but shutdown.
LEMMA ExitSetInductive ==
  ASSUME ProxyTypeOK, ExitSet, [ProxyNext]_allVars
  PROVE  ExitSet'
<1> USE DEF proxyVars, ShuttingDown
<1>0. /\ spc \in [Changers -> {"down", "up", "done"} \cup ShuttingDown]
      /\ exit_ \in [Changers -> BOOLEAN]
  BY DEF ProxyTypeOK
<1>1. ASSUME NEW p \in Procs, ProxyIoStep(p) \/ ProcessStep(p)
      PROVE  ExitSet'
  BY <1>1 DEF ProxyIoStep, ProcessStep, ExitSet
<1>2. ASSUME NEW p \in Procs, ProcessEnds(p)
      PROVE  ExitSet'
  BY <1>0, <1>2 DEF ProcessEnds, ForgetProxy, ExitSet
<1>3. ASSUME NEW t \in Changers,
             ProxyStartup(t) \/ ProxyShutdown(t) \/ ShutdownStep(t)
      PROVE  ExitSet'
  BY <1>0, <1>3 DEF ProxyStartup, ProxyShutdown, ShutdownStep, WakeConnect,
     CloseAcceptor, Join, ExitSet
<1>4. ASSUME NEW t \in Changers,
             Connect(t) \/ AcceptFails(t) \/ WorkerStep(t) \/ WaitsForClient(t)
      PROVE  ExitSet'
  <2>1. UNCHANGED <<spc, exit_>>
    BY <1>4 DEF Connect, AcceptFails, WorkerStep, WaitsForClient, Loop, Accept,
       Gate, Refuse, Stream, ReadHead, WriteHead, WriteLine, WorkerInCall, Go,
       CloseAndGo
  <2>. QED
    BY <2>1 DEF ExitSet
<1>5. CASE UNCHANGED allVars
  BY <1>5 DEF allVars, ExitSet
<1>. QED
  BY <1>1, <1>2, <1>3, <1>4, <1>5, Zenon DEF ProxyNext

\* The moves of a worker whose exit_ is set.
LEMMA WindsDown ==
  ASSUME ProxyTypeOK, ExitSet, ProxyNext, NEW t \in Changers,
         exit_[t], exit_'[t], wpc'[t] # wpc[t]
  PROVE  Remaining(wpc'[t]) < Remaining(wpc[t])
<1> USE DEF proxyVars, ShuttingDown
<1>0. /\ wpc \in [Changers -> Places]
      /\ spc \in [Changers -> {"down", "up", "done"} \cup ShuttingDown]
  BY DEF ProxyTypeOK
<1>1. ASSUME NEW p \in Procs, ProxyIoStep(p) \/ ProcessStep(p)
      PROVE  FALSE
  BY <1>1 DEF ProxyIoStep, ProcessStep
<1>2. ASSUME NEW p \in Procs, ProcessEnds(p)
      PROVE  FALSE
  <2>1. wpc'[t] = wpc[t] \/ ~exit_'[t]
    BY <1>2 DEF ProcessEnds, ForgetProxy
  <2>. QED
    BY <2>1
<1>3. ASSUME NEW u \in Changers,
             ProxyStartup(u) \/ ProxyShutdown(u) \/ ShutdownStep(u) \/ Connect(u)
      PROVE  FALSE
  <2>1. CASE ProxyStartup(u)
    <3>1. u # t
      BY <2>1 DEF ProxyStartup, ExitSet
    <3>. QED
      BY <1>0, <2>1, <3>1 DEF ProxyStartup
  <2>2. UNCHANGED wpc \/ ProxyStartup(u)
    BY <1>3 DEF ProxyShutdown, ShutdownStep, WakeConnect, CloseAcceptor, Join,
       Connect
  <2>. QED
    BY <2>1, <2>2
<1>4. ASSUME NEW u \in Changers,
             AcceptFails(u) \/ WorkerStep(u) \/ WaitsForClient(u)
      PROVE  Remaining(wpc'[t]) < Remaining(wpc[t])
  <2>1. \/ Loop(u) \/ Accept(u) \/ AcceptFails(u) \/ Gate(u) \/ Refuse(u)
        \/ Stream(u) \/ ReadHead(u) \/ WriteHead(u) \/ WriteLine(u)
        \/ WorkerInCall(u)
    BY <1>4 DEF WorkerStep, WaitsForClient
  <2>2. u = t
    BY <1>0, <2>1 DEF Loop, Accept, AcceptFails, Gate, Refuse, Stream, ReadHead,
       WriteHead, WriteLine, WorkerInCall, Go, CloseAndGo
  <2>3. \/ wpc[t] = "loop" /\ wpc'[t] = "ended"
        \/ wpc[t] = "accept" /\ wpc'[t] = "gate"
        \/ wpc[t] = "gate" /\ wpc'[t] = "ended"
        \/ wpc[t] = "read" /\ wpc'[t] \in {"ended", "refuse", "turn_on"}
        \/ wpc[t] = "refuse" /\ wpc'[t] \in {"ended", "loop"}
        \/ wpc[t] = "write_head" /\ wpc'[t] \in {"stream", "turn_off_end"}
        \/ wpc[t] = "stream" /\ wpc'[t] = "loop"
        \/ wpc[t] = "write_line" /\ wpc'[t] \in {"stream", "turn_off_next"}
        \/ wpc[t] \in Changing /\ wpc'[t] = After(wpc[t])
    BY <1>0, <2>1, <2>2 DEF Loop, Accept, AcceptFails, Gate, Refuse, Stream,
       ReadHead, WriteHead, WriteLine, WorkerInCall, Go, CloseAndGo
  <2>. QED
    BY <2>3 DEF Remaining, Changing, After
<1>. QED
  BY <1>1, <1>2, <1>3, <1>4, Zenon DEF ProxyNext

\* Every move of a worker that has to end brings it nearer to its end.
THEOREM ExitEndsTheWorker == ProxySpec => ExitWindsDown
<1>1. ProxyInit => ExitSet
  BY DEF ProxyInit, ExitSet
<1>2. ProxyTypeOK /\ ExitSet /\ [ProxyNext]_allVars =>
        [\A t \in Changers :
           exit_[t] /\ exit_'[t] /\ wpc'[t] # wpc[t] =>
             Remaining(wpc'[t]) < Remaining(wpc[t])]_allVars
  BY WindsDown
<1>. QED
  BY <1>1, <1>2, ExitSetInductive, TypedAndNested, PTL
  DEF ProxySpec, ExitWindsDown
=============================================================================
