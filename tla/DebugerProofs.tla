--------------------------- MODULE DebugerProofs ---------------------------
(***************************************************************************)
(* Proofs about Debuger, for any processes, callers and bounds.             *)
(***************************************************************************)
EXTENDS DebugerRefinement, FiniteSetTheorems, TLAPS

\* The number of queues a broadcast reaches is a number.
LEMMA ReachedCount ==
  ASSUME TypeOK, NEW got \in SUBSET attached
  PROVE  Cardinality(got) \in Nat
<1>1. IsFiniteSet(got)
  BY DebugerAssumption, FS_Subset DEF TypeOK
<1>. QED
  BY <1>1, FS_CardinalityType

\* A broadcast reaches every open queue, or leaves its mark in torn.
LEMMA PushReachesAll ==
  ASSUME NEW t \in Changers, PushNotice(t)
  PROVE  \/ /\ ~torn'
            /\ notice' = [p \in Procs |-> IF p \in attached THEN notice[p] + 1
                                                          ELSE notice[p]]
            /\ number' = [number EXCEPT ![t] = Cardinality(attached)]
            /\ awaited' = [awaited EXCEPT ![t] = attached]
            /\ clean' => clean
         \/ torn' /\ ~clean'
<1>1. PICK got \in SUBSET attached :
        /\ notice' = [p \in Procs |-> IF p \in got THEN notice[p] + 1
                                                  ELSE notice[p]]
        /\ number' = [number EXCEPT ![t] = Cardinality(got)]
        /\ awaited' = [awaited EXCEPT ![t] = got]
        /\ torn' = (got # attached)
        /\ clean' = (clean /\ got = attached)
  BY Zenon DEF PushNotice
<1>2. CASE got = attached
  <2>1. ~torn' /\ (clean' => clean)
    BY <1>1, <1>2, Zenon
  <2>. QED
    BY <1>1, <1>2, <2>1, Zenon
<1>3. CASE got # attached
  BY <1>1, <1>3, Zenon
<1>. QED
  BY <1>2, <1>3

\* The log line a step may add keeps the count a number.
LEMMA LoggedType ==
  ASSUME logs \in Nat
  PROVE  OneMoreLine \in Nat /\ \A p \in Procs : Logged(p) \in Nat
BY DEF OneMoreLine, Logged

\* The two history flags stay truth values.
LEMMA HistoryTyped ==
  ASSUME torn \in BOOLEAN, clean \in BOOLEAN, [Next]_vars
  PROVE  torn' \in BOOLEAN /\ clean' \in BOOLEAN
<1>1. ASSUME NEW p \in Procs, IoStep(p) \/ Log(p)
      PROVE  torn' = torn /\ clean' = clean
  BY <1>1 DEF IoStep, HandleTimer, CheckOne, CheckZero, EnterDebug,
              LeaveDebug, Ack, Log, histVars
<1>2. ASSUME NEW p \in Procs, Lifecycle(p)
      PROVE  torn' \in BOOLEAN /\ clean' \in BOOLEAN
  <2>1. CASE Construct(p)
    BY <2>1, Zenon DEF Construct
  <2>2. CASE Crash(p)
    BY <2>2, Zenon DEF Crash
  <2>3. CASE Startup(p) \/ Shutdown(p) \/ Destroy(p)
    BY <2>3 DEF Startup, Shutdown, Destroy, histVars
  <2>. QED
    BY <1>2, <2>1, <2>2, <2>3 DEF Lifecycle
<1>3. ASSUME NEW t \in Changers, CallStep(t) \/ GetDebugMsg(t)
      PROVE  torn' \in BOOLEAN /\ clean' \in BOOLEAN
  <2>1. CASE Return(t)
    BY <2>1, Zenon DEF Return
  <2>2. CASE PushNotice(t)
    BY <2>2, Zenon DEF PushNotice
  <2>3. CASE WriteMode(t) \/ ClearQueue(t) \/ PopAck(t) \/ Nap(t)
             \/ GetDebugMsg(t)
    BY <2>3 DEF WriteMode, ClearQueue, PopAck, Nap, GetDebugMsg, histVars
  <2>. QED
    BY <1>3, <2>1, <2>2, <2>3 DEF CallStep
<1>4. ASSUME NEW t \in Changers, NEW b \in {0, 1}, Call(t, b)
      PROVE  torn' \in BOOLEAN /\ clean' \in BOOLEAN
  BY <1>4, Zenon DEF Call
<1>5. CASE UNCHANGED vars
  BY <1>5 DEF vars, histVars
<1>. QED
  BY <1>1, <1>2, <1>3, <1>4, <1>5 DEF Next

\* Type correctness of Debuger: counters never go below zero and every
\* thread stays at a statement of the code.
THEOREM TypeCorrect == Spec => []TypeOK
<1>1. Init => TypeOK
  <2>1. Init => torn \in BOOLEAN /\ clean \in BOOLEAN
    BY Zenon DEF Init
  <2>. QED
    BY <2>1 DEF Init, TypeOK, Checking, Dead
<1>2. TypeOK /\ [Next]_vars => TypeOK'
  <2> SUFFICES ASSUME TypeOK, [Next]_vars
               PROVE  TypeOK'
    OBVIOUS
  <2>0. torn' \in BOOLEAN /\ clean' \in BOOLEAN
    BY HistoryTyped DEF TypeOK
  <2> USE <2>0 DEF TypeOK, Checking, Dead, shmVars, procVars, callVars, histVars
  <2>1. ASSUME NEW p \in Procs, Construct(p)
        PROVE  TypeOK'
    BY <2>1 DEF Construct
  <2>2. ASSUME NEW p \in Procs, Startup(p)
        PROVE  TypeOK'
    BY <2>2 DEF Startup
  <2>3. ASSUME NEW p \in Procs, Shutdown(p)
        PROVE  TypeOK'
    BY <2>3, LoggedType DEF Shutdown
  <2>4. ASSUME NEW p \in Procs, Destroy(p)
        PROVE  TypeOK'
    BY <2>4 DEF Destroy
  <2>5. ASSUME NEW p \in Procs, Crash(p)
        PROVE  TypeOK'
    BY <2>5, DebugerAssumption DEF Crash, ForgetLocals
  <2>6. ASSUME NEW p \in Procs, Log(p)
        PROVE  TypeOK'
    BY <2>6, LoggedType DEF Log
  <2>7. ASSUME NEW p \in Procs, HandleTimer(p)
        PROVE  TypeOK'
    BY <2>7 DEF HandleTimer
  <2>8. ASSUME NEW p \in Procs, CheckOne(p)
        PROVE  TypeOK'
    BY <2>8 DEF CheckOne
  <2>9. ASSUME NEW p \in Procs, CheckZero(p)
        PROVE  TypeOK'
    BY <2>9 DEF CheckZero
  <2>10. ASSUME NEW p \in Procs, EnterDebug(p)
         PROVE  TypeOK'
    BY <2>10, LoggedType DEF EnterDebug
  <2>11. ASSUME NEW p \in Procs, LeaveDebug(p)
         PROVE  TypeOK'
    BY <2>11, LoggedType DEF LeaveDebug
  <2>12. ASSUME NEW p \in Procs, Ack(p)
         PROVE  TypeOK'
    BY <2>12, LoggedType DEF Ack
  <2>13. ASSUME NEW t \in Changers, NEW b \in {0, 1}, Call(t, b)
         PROVE  TypeOK'
    BY <2>13 DEF Call
  <2>14. ASSUME NEW t \in Changers, WriteMode(t)
         PROVE  TypeOK'
    BY <2>14 DEF WriteMode
  <2>15. ASSUME NEW t \in Changers, ClearQueue(t)
         PROVE  TypeOK'
    BY <2>15 DEF ClearQueue
  <2>16. ASSUME NEW t \in Changers, PushNotice(t)
         PROVE  TypeOK'
    <3>1. PICK got \in SUBSET attached :
            /\ notice' = [p \in Procs |-> IF p \in got THEN notice[p] + 1
                                                      ELSE notice[p]]
            /\ number' = [number EXCEPT ![t] = Cardinality(got)]
            /\ awaited' = [awaited EXCEPT ![t] = got]
      BY <2>16 DEF PushNotice
    <3>2. Cardinality(got) \in Nat
      BY ReachedCount
    <3>. QED
      BY <2>16, <3>1, <3>2, DebugerAssumption DEF PushNotice
  <2>17. ASSUME NEW t \in Changers, PopAck(t)
         PROVE  TypeOK'
    BY <2>17 DEF PopAck, Waiting
  <2>18. ASSUME NEW t \in Changers, Nap(t)
         PROVE  TypeOK'
    BY <2>18 DEF Nap, Waiting
  <2>19. ASSUME NEW t \in Changers, Return(t)
         PROVE  TypeOK'
    BY <2>19 DEF Return, ForgetLocals
  <2>20. ASSUME NEW t \in Changers, GetDebugMsg(t)
         PROVE  TypeOK'
    BY <2>20 DEF GetDebugMsg
  <2>21. CASE UNCHANGED vars
    BY <2>21 DEF vars
  <2>. QED
    BY <2>1, <2>2, <2>3, <2>4, <2>5, <2>6, <2>7, <2>8, <2>9, <2>10, <2>11,
       <2>12, <2>13, <2>14, <2>15, <2>16, <2>17, <2>18, <2>19, <2>20, <2>21
    DEF Next, IoStep, Lifecycle, CallStep
<1>. QED
  BY <1>1, <1>2, PTL DEF Spec
-----------------------------------------------------------------------------
(***************************************************************************)
(* What each process owns.  A live process has its queue in the segment, a  *)
(* registered stream exists and is known to out_streamed_ (which is what    *)
(* shutdown goes by), and only a live process has a thread in               *)
(* change_debug_mode.                                                       *)
(***************************************************************************)
Owns ==
  /\ \A p \in Procs : pc[p] # "down" => p \in attached
  /\ \A p \in registered :
       pc[p] \notin Dead /\ out_streamed[p] /\ debug_log_stream[p]
  /\ \A t \in Changers : cpc[t] # "idle" => pc[Home[t]] \notin Dead

LEMMA OwnsInductive ==
  ASSUME TypeOK, Owns, [Next]_vars
  PROVE  Owns'
<1> USE DebugerAssumption DEF TypeOK, Owns, Checking, Dead, shmVars,
                              procVars, callVars, histVars
<1>1. ASSUME NEW p \in Procs, Construct(p)
      PROVE  Owns'
  BY <1>1 DEF Construct
<1>2. ASSUME NEW p \in Procs, Startup(p)
      PROVE  Owns'
  BY <1>2 DEF Startup
<1>3. ASSUME NEW p \in Procs, Shutdown(p)
      PROVE  Owns'
  BY <1>3 DEF Shutdown
<1>4. ASSUME NEW p \in Procs, Destroy(p)
      PROVE  Owns'
  BY <1>4 DEF Destroy
<1>5. ASSUME NEW p \in Procs, Crash(p)
      PROVE  Owns'
  BY <1>5 DEF Crash
<1>6. ASSUME NEW p \in Procs, Log(p)
      PROVE  Owns'
  BY <1>6 DEF Log
<1>7. ASSUME NEW p \in Procs, IoStep(p)
      PROVE  Owns'
  <2>1. CASE HandleTimer(p)
    BY <2>1 DEF HandleTimer
  <2>2. CASE CheckOne(p)
    BY <2>2 DEF CheckOne
  <2>3. CASE CheckZero(p)
    BY <2>3 DEF CheckZero
  <2>4. CASE EnterDebug(p)
    BY <2>4 DEF EnterDebug
  <2>5. CASE LeaveDebug(p)
    BY <2>5 DEF LeaveDebug
  <2>6. CASE Ack(p)
    BY <2>6 DEF Ack
  <2>. QED
    BY <1>7, <2>1, <2>2, <2>3, <2>4, <2>5, <2>6 DEF IoStep
<1>8. ASSUME NEW t \in Changers, NEW b \in {0, 1}, Call(t, b)
      PROVE  Owns'
  BY <1>8 DEF Call, Constructed
<1>9. ASSUME NEW t \in Changers, CallStep(t) \/ GetDebugMsg(t)
      PROVE  Owns'
  <2>1. UNCHANGED procVars /\ UNCHANGED attached
    BY <1>9 DEF CallStep, WriteMode, ClearQueue, PushNotice, PopAck, Nap,
                Return, GetDebugMsg
  <2>2. /\ cpc' \in [Changers -> {"idle", "write", "clear", "push", "wait"}]
        /\ \A u \in Changers : cpc'[u] # "idle" => cpc[u] # "idle"
    BY <1>9 DEF CallStep, WriteMode, ClearQueue, PushNotice, PopAck, Nap,
                Return, GetDebugMsg, Waiting
  <2>. QED
    BY <2>1, <2>2
<1>10. CASE UNCHANGED vars
  BY <1>10 DEF vars
<1>. QED
  BY <1>1, <1>2, <1>3, <1>4, <1>5, <1>6, <1>7, <1>8, <1>9, <1>10
  DEF Next, Lifecycle

THEOREM OwnsAlways == Spec => []Owns
<1>1. Init => Owns
  BY DEF Init, Owns
<1>2. TypeOK /\ Owns /\ [Next]_vars => Owns'
  BY OwnsInductive
<1>. QED
  BY <1>1, <1>2, TypeCorrect, PTL DEF Spec

\* No dangling stream: whatever a logger holds has not been deleted, however
\* the mode changes around the shutdown of the process.
THEOREM StreamsAlive == Spec => []StreamAlive
<1>1. Owns => StreamAlive
  BY DEF Owns, StreamAlive
<1>. QED
  BY <1>1, OwnsAlways, PTL
-----------------------------------------------------------------------------
(***************************************************************************)
(* Why no change is missed.  Once the broadcast of the last change is out   *)
(* and a process has no message left, whatever it has read of the word is   *)
(* still true: it is about to act on the current mode, or has done so.      *)
(***************************************************************************)
Told(p) == ~Pending /\ notice[p] = 0

ReadsCurrent ==
  \A p \in Procs : Told(p) =>
    /\ pc[p] = "enter" => debug_mode = 1
    /\ pc[p] \in {"check0", "leave"} => debug_mode = 0
    /\ pc[p] \in {"constructed", "idle", "ack"} =>
         ((p \in registered) <=> (debug_mode = 1))

\* A pending broadcast stays pending until somebody broadcasts or the
\* segment is made anew.
LEMMA PendingStays ==
  ASSUME TypeOK, [Next]_vars, Pending,
         ~ \E t \in Changers : PushNotice(t),
         ~ \E p \in Procs : Construct(p)
  PROVE  Pending'
<1> USE DEF Pending, TypeOK, histVars, callVars
<1>1. ASSUME NEW p \in Procs, Crash(p)
      PROVE  Pending'
  BY <1>1 DEF Crash
<1>2. ASSUME NEW p \in Procs,
             IoStep(p) \/ Startup(p) \/ Shutdown(p) \/ Destroy(p) \/ Log(p)
      PROVE  Pending'
  BY <1>2 DEF IoStep, HandleTimer, CheckOne, CheckZero, EnterDebug,
              LeaveDebug, Ack, Startup, Shutdown, Destroy, Log
<1>3. ASSUME NEW t \in Changers, NEW b \in {0, 1}, Call(t, b)
      PROVE  Pending'
  BY <1>3 DEF Call
<1>4. ASSUME NEW t \in Changers,
             WriteMode(t) \/ ClearQueue(t) \/ PopAck(t) \/ Nap(t)
             \/ Return(t) \/ GetDebugMsg(t)
      PROVE  Pending'
  BY <1>4 DEF WriteMode, ClearQueue, PopAck, Nap, Return, GetDebugMsg
<1>5. CASE UNCHANGED vars
  BY <1>5 DEF vars
<1>. QED
  BY <1>1, <1>2, <1>3, <1>4, <1>5 DEF Next, Lifecycle, CallStep

LEMMA ReadsCurrentInductive ==
  ASSUME TypeOK, Owns, ReadsCurrent, [Next]_vars
  PROVE  ReadsCurrent'
<1> USE DEF TypeOK, Checking, Dead, shmVars, procVars, callVars, histVars
<1>1. ASSUME NEW p \in Procs, Construct(p)
      PROVE  ReadsCurrent'
  <2>1. ASSUME NEW q \in Procs, q # p, pc[q] # "down", Told(q)'
        PROVE  Told(q) /\ pc'[q] = pc[q] /\ debug_mode' = debug_mode
               /\ registered' = registered
    BY <1>1, <2>1 DEF Construct, Told, Pending
  <2>2. pc'[p] = "check1" /\ \A q \in Procs : q # p => pc'[q] = pc[q]
    BY <1>1 DEF Construct
  <2>. QED
    BY <2>1, <2>2 DEF ReadsCurrent
<1>2. ASSUME NEW t \in Changers, PushNotice(t)
      PROVE  ReadsCurrent'
  <2>1. ASSUME NEW p \in Procs, pc[p] # "down"
        PROVE  ~Told(p)'
    <3>1. CASE torn'
      BY <3>1 DEF Told, Pending
    <3>2. CASE notice' = [q \in Procs |-> IF q \in attached THEN notice[q] + 1
                                                          ELSE notice[q]]
      BY <2>1, <3>2 DEF Owns, Told
    <3>. QED
      BY <1>2, <3>1, <3>2, PushReachesAll
  <2>. QED
    BY <1>2, <2>1 DEF PushNotice, ReadsCurrent
<1>3. ASSUME NEW t \in Changers, WriteMode(t)
      PROVE  ReadsCurrent'
  BY <1>3 DEF WriteMode, ReadsCurrent, Told, Pending
<1>4. CASE /\ ~ \E p \in Procs : Construct(p)
           /\ ~ \E t \in Changers : PushNotice(t) \/ WriteMode(t)
  <2>1. Pending => Pending'
    BY <1>4, PendingStays
  <2>2. ASSUME NEW p \in Procs, IoStep(p)
        PROVE  ReadsCurrent'
    <3>1. debug_mode' = debug_mode /\ (Pending' <=> Pending)
      BY <2>2 DEF IoStep, HandleTimer, CheckOne, CheckZero, EnterDebug,
                  LeaveDebug, Ack, Pending
    <3>2. CASE HandleTimer(p)
      BY <3>1, <3>2 DEF HandleTimer, ReadsCurrent, Told
    <3>3. CASE CheckOne(p)
      BY <3>1, <3>3 DEF CheckOne, ReadsCurrent, Told
    <3>4. CASE CheckZero(p)
      BY <3>1, <3>4 DEF CheckZero, ReadsCurrent, Told, Owns
    <3>5. CASE EnterDebug(p)
      BY <3>1, <3>5 DEF EnterDebug, ReadsCurrent, Told
    <3>6. CASE LeaveDebug(p)
      BY <3>1, <3>6 DEF LeaveDebug, ReadsCurrent, Told
    <3>7. CASE Ack(p)
      BY <3>1, <3>7 DEF Ack, ReadsCurrent, Told
    <3>. QED
      BY <2>2, <3>2, <3>3, <3>4, <3>5, <3>6, <3>7 DEF IoStep
  <2>3. ASSUME NEW p \in Procs, Startup(p)
        PROVE  ReadsCurrent'
    BY <2>1, <2>3 DEF Startup, ReadsCurrent, Told
  <2>4. ASSUME NEW p \in Procs, Shutdown(p) \/ Destroy(p) \/ Crash(p)
        PROVE  ReadsCurrent'
    <3>1. /\ pc'[p] \in Dead
          /\ debug_mode' = debug_mode
          /\ \A q \in Procs : q # p =>
               /\ pc'[q] = pc[q]
               /\ notice'[q] = notice[q]
               /\ (q \in registered') <=> (q \in registered)
      BY <2>4 DEF Shutdown, Destroy, Crash
    <3>. QED
      BY <2>1, <3>1 DEF ReadsCurrent, Told
  <2>5. ASSUME NEW p \in Procs, Log(p)
        PROVE  ReadsCurrent'
    BY <2>1, <2>5 DEF Log, ReadsCurrent, Told
  <2>6. ASSUME NEW t \in Changers, NEW b \in {0, 1}, Call(t, b)
        PROVE  ReadsCurrent'
    BY <2>1, <2>6 DEF Call, ReadsCurrent, Told
  <2>7. ASSUME NEW t \in Changers, CallStep(t) \/ GetDebugMsg(t)
        PROVE  ReadsCurrent'
    <3>1. UNCHANGED <<debug_mode, notice, pc, registered>>
      BY <1>4, <2>7 DEF CallStep, ClearQueue, PopAck, Nap, Return,
                        GetDebugMsg
    <3>. QED
      BY <2>1, <3>1 DEF ReadsCurrent, Told
  <2>8. CASE UNCHANGED vars
    BY <2>1, <2>8 DEF vars, ReadsCurrent, Told
  <2>. QED
    BY <1>4, <2>2, <2>3, <2>4, <2>5, <2>6, <2>7, <2>8 DEF Next, Lifecycle
<1>. QED
  BY <1>1, <1>2, <1>3, <1>4

THEOREM ReadsCurrentAlways == Spec => []ReadsCurrent
<1>1. Init => ReadsCurrent
  BY DEF Init, ReadsCurrent
<1>2. TypeOK /\ Owns /\ ReadsCurrent /\ [Next]_vars => ReadsCurrent'
  BY ReadsCurrentInductive
<1>. QED
  BY <1>1, <1>2, TypeCorrect, OwnsAlways, PTL DEF Spec

\* No change of the debug mode is missed, with any number of processes and
\* of threads that change it.
THEOREM NoChangeLost == Spec => []ModeNotLost
<1>1. TypeOK /\ ReadsCurrent => ModeNotLost
  BY DEF TypeOK, ReadsCurrent, Told, ModeNotLost, Owed, Up, Checking, Dead
<1>. QED
  BY <1>1, TypeCorrect, ReadsCurrentAlways, PTL
-----------------------------------------------------------------------------
(***************************************************************************)
(* Counting answers.  While nothing has gone wrong, a process owes the      *)
(* "Debuger" queue at most one answer -- a message it has not popped, a     *)
(* handle_timer it has not finished, or an answer not yet collected -- and  *)
(* only if the one caller still waits for it; the counter of that caller is *)
(* the number of those processes.                                           *)
(***************************************************************************)
Answering(p) ==
  pc[p] = "ack" \/ (pc[p] \in Checking /\ resume[p] = "ack")

Outstanding(p) ==
  notice[p] + acks[p] + (IF Answering(p) THEN 1 ELSE 0)

AwaitedByCaller(p) ==
  \E t \in Changers : cpc[t] = "wait" /\ p \in awaited[t]

Counted ==
  /\ ~torn
  /\ \A t, u \in Changers : cpc[t] # "idle" /\ cpc[u] # "idle" => t = u
  /\ \A t \in Changers :
       /\ cpc[t] = "wait" => number[t] = Cardinality(awaited[t])
       /\ cpc[t] \in {"clear", "push", "wait"} => debug_mode = arg[t]
  /\ \A p \in Procs :
       Outstanding(p) <= IF AwaitedByCaller(p) THEN 1 ELSE 0

AnswersCounted == clean => Counted

LEMMA OutstandingType ==
  ASSUME TypeOK
  PROVE  \A p \in Procs : Outstanding(p) \in Nat
BY DEF TypeOK, Outstanding

\* A step outside the callers keeps the count if it adds no answer.
LEMMA CountedFrame ==
  ASSUME TypeOK, TypeOK', AnswersCounted,
         UNCHANGED <<torn, clean, debug_mode, cpc, arg, number, awaited>>,
         \A p \in Procs : Outstanding(p)' <= Outstanding(p)
  PROVE  AnswersCounted'
<1>1. \A p \in Procs : AwaitedByCaller(p)' <=> AwaitedByCaller(p)
  BY DEF AwaitedByCaller
<1>2. \A p \in Procs : Outstanding(p) \in Nat /\ Outstanding(p)' \in Nat
  BY DEF TypeOK, Outstanding
<1>. QED
  BY <1>1, <1>2 DEF AnswersCounted, Counted

\* What the processes do moves an answer along, or drops it.
LEMMA ProcessKeepsCount ==
  ASSUME TypeOK, TypeOK', Owns, AnswersCounted, NEW p \in Procs,
         IoStep(p) \/ Lifecycle(p) \/ Log(p)
  PROVE  AnswersCounted'
<1> USE DEF TypeOK, Checking, Dead, shmVars, procVars, callVars, histVars
<1>1. CASE Crash(p)
  BY <1>1 DEF Crash, AnswersCounted
<1>2. CASE Construct(p)
  <2>1. CASE \E q \in Procs : pc[q] # "down"
    <3>1. \A q \in Procs : Outstanding(q)' <= Outstanding(q)
      BY <1>2, <2>1 DEF Construct, Outstanding, Answering
    <3>. QED
      BY <1>2, <2>1, <3>1, CountedFrame DEF Construct
  <2>2. CASE \A q \in Procs : pc[q] = "down"
    <3>1. \A t \in Changers : cpc'[t] = "idle"
      BY <1>2, <2>2, DebugerAssumption DEF Construct, Owns
    <3>2. \A q \in Procs : Outstanding(q)' = 0
      BY <1>2, <2>2 DEF Construct, Outstanding, Answering
    <3>3. ~torn'
      BY <1>2, <2>2, Zenon DEF Construct
    <3>. QED
      BY <3>1, <3>2, <3>3 DEF AnswersCounted, Counted, AwaitedByCaller
  <2>. QED
    BY <2>1, <2>2
<1>3. CASE Startup(p) \/ Shutdown(p) \/ Destroy(p) \/ Log(p)
  <2>1. \A q \in Procs : Outstanding(q)' <= Outstanding(q)
    BY <1>3 DEF Startup, Shutdown, Destroy, Log, Outstanding, Answering
  <2>. QED
    BY <1>3, <2>1, CountedFrame DEF Startup, Shutdown, Destroy, Log
<1>4. CASE IoStep(p)
  <2>1. CASE HandleTimer(p)
    <3>1. \A q \in Procs : Outstanding(q)' = Outstanding(q)
      BY <2>1 DEF HandleTimer, Outstanding, Answering
    <3>. QED
      BY <2>1, <3>1, OutstandingType, CountedFrame DEF HandleTimer
  <2>2. CASE Ack(p)
    <3>1. \A q \in Procs : Outstanding(q)' <= Outstanding(q)
      <4>1. CASE acks' = [acks EXCEPT ![p] = @ + 1]
        BY <2>2, <4>1 DEF Ack, Outstanding, Answering
      <4>2. CASE UNCHANGED acks
        BY <2>2, <4>2 DEF Ack, Outstanding, Answering
      <4>. QED
        BY <2>2, <4>1, <4>2 DEF Ack
    <3>. QED
      BY <2>2, <3>1, OutstandingType, CountedFrame DEF Ack
  <2>3. CASE CheckOne(p) \/ CheckZero(p) \/ EnterDebug(p) \/ LeaveDebug(p)
    <3>1. \A q \in Procs : Answering(q)' <=> Answering(q)
      BY <2>3 DEF CheckOne, CheckZero, EnterDebug, LeaveDebug, Answering
    <3>2. UNCHANGED <<notice, acks>>
      BY <2>3 DEF CheckOne, CheckZero, EnterDebug, LeaveDebug
    <3>3. \A q \in Procs : Outstanding(q)' = Outstanding(q)
      BY <3>1, <3>2 DEF Outstanding
    <3>. QED
      BY <2>3, <3>3, OutstandingType, CountedFrame
      DEF CheckOne, CheckZero, EnterDebug, LeaveDebug
  <2>. QED
    BY <1>4, <2>1, <2>2, <2>3 DEF IoStep
<1>. QED
  BY <1>1, <1>2, <1>3, <1>4 DEF Lifecycle

\* What a caller does: it is the only one, its broadcast finds no answer
\* outstanding, and each pop takes one process off the list.
LEMMA CallerKeepsCount ==
  ASSUME TypeOK, TypeOK', AnswersCounted, NEW t \in Changers,
         CallStep(t) \/ GetDebugMsg(t) \/ \E b \in {0, 1} : Call(t, b)
  PROVE  AnswersCounted'
<1> SUFFICES ASSUME clean'
             PROVE  Counted'
  BY DEF AnswersCounted
<1> USE DEF TypeOK, shmVars, procVars, callVars, histVars
<1>1. clean
  BY DEF CallStep, Call, WriteMode, ClearQueue, PushNotice, PopAck, Nap,
         Return, GetDebugMsg
<1>2. Counted
  BY <1>1 DEF AnswersCounted
<1>3. \A p \in Procs : Answering(p)' <=> Answering(p)
  BY DEF CallStep, Call, WriteMode, ClearQueue, PushNotice, PopAck, Nap,
         Return, GetDebugMsg, Answering
<1>4. ASSUME NEW b \in {0, 1}, Call(t, b)
      PROVE  Counted'
  <2>1. \A u \in Changers : cpc[u] = "idle"
    BY <1>4 DEF Call
  <2>2. \A p \in Procs : Outstanding(p)' = Outstanding(p)
    BY <1>3, <1>4 DEF Call, Outstanding
  <2>3. \A p \in Procs : ~AwaitedByCaller(p)
    BY <2>1 DEF AwaitedByCaller
  <2>4. \A p \in Procs : Outstanding(p)' <= 0
    BY <1>2, <2>2, <2>3 DEF Counted
  <2>5. /\ \A u \in Changers : cpc'[u] # "idle" => u = t /\ cpc'[u] = "write"
        /\ ~torn'
    BY <1>2, <1>4, <2>1 DEF Call, Counted
  <2>. QED
    BY <2>4, <2>5, OutstandingType DEF Counted, Outstanding
<1>5. CASE WriteMode(t)
  <2>1. \A p \in Procs : Outstanding(p)' = Outstanding(p)
    BY <1>3, <1>5 DEF WriteMode, Outstanding
  <2>2. \A p \in Procs : AwaitedByCaller(p)' <=> AwaitedByCaller(p)
    BY <1>5 DEF WriteMode, AwaitedByCaller
  <2>. QED
    BY <1>2, <1>5, <2>1, <2>2 DEF WriteMode, Counted
<1>6. CASE ClearQueue(t)
  <2>1. \A p \in Procs : Outstanding(p)' <= Outstanding(p)
    BY <1>3, <1>6 DEF ClearQueue, Outstanding
  <2>2. \A p \in Procs : AwaitedByCaller(p)' <=> AwaitedByCaller(p)
    BY <1>6 DEF ClearQueue, AwaitedByCaller
  <2>3. \A p \in Procs : Outstanding(p) \in Nat /\ Outstanding(p)' \in Nat
    BY DEF Outstanding
  <2>. QED
    BY <1>2, <1>6, <2>1, <2>2, <2>3 DEF ClearQueue, Counted
<1>7. CASE PushNotice(t)
  <2>1. \A u \in Changers : u # t => cpc[u] = "idle"
    BY <1>2, <1>7 DEF PushNotice, Counted
  <2>2. \A p \in Procs : ~AwaitedByCaller(p)
    BY <1>7, <2>1 DEF PushNotice, AwaitedByCaller
  <2>3. \A p \in Procs : Outstanding(p) = 0
    BY <1>2, <2>2, OutstandingType DEF Counted
  <2>4. /\ ~torn'
        /\ notice' = [p \in Procs |-> IF p \in attached THEN notice[p] + 1
                                                      ELSE notice[p]]
        /\ number' = [number EXCEPT ![t] = Cardinality(attached)]
        /\ awaited' = [awaited EXCEPT ![t] = attached]
    BY <1>7, PushReachesAll
  <2>5. \A p \in Procs : Outstanding(p)' = IF p \in attached THEN 1 ELSE 0
    BY <1>3, <1>7, <2>3, <2>4 DEF PushNotice, Outstanding
  <2>6. \A p \in attached : AwaitedByCaller(p)'
    BY <1>7, <2>4 DEF PushNotice, AwaitedByCaller
  <2>7. ~torn'
    BY <2>4
  <2>8. \A p \in Procs :
          Outstanding(p)' <= IF AwaitedByCaller(p)' THEN 1 ELSE 0
    BY <2>5, <2>6
  <2>. QED
    BY <1>2, <1>7, <2>1, <2>7, <2>8, <2>4 DEF PushNotice, Counted
<1>8. CASE PopAck(t)
  <2>1. PICK p \in Procs :
          /\ acks[p] > 0
          /\ acks' = [acks EXCEPT ![p] = @ - 1]
          /\ awaited' = [awaited EXCEPT ![t] = @ \ {p}]
    BY <1>8 DEF PopAck
  <2>2. \A u \in Changers : u # t => cpc[u] = "idle"
    BY <1>2, <1>8 DEF PopAck, Waiting, Counted
  <2>3. \A q \in Procs : Outstanding(q) \in Nat /\ Outstanding(q)' \in Nat
    BY DEF Outstanding
  <2>4. Outstanding(p) > 0 /\ Outstanding(p)' = Outstanding(p) - 1
    BY <1>3, <1>8, <2>1 DEF PopAck, Outstanding
  <2>5. AwaitedByCaller(p) /\ Outstanding(p) = 1
    BY <1>2, <2>3, <2>4 DEF Counted
  <2>6. p \in awaited[t]
    BY <2>2, <2>5 DEF AwaitedByCaller
  <2>7. \A q \in Procs : q # p =>
          /\ Outstanding(q)' = Outstanding(q)
          /\ AwaitedByCaller(q) => AwaitedByCaller(q)'
    BY <1>3, <1>8, <2>1 DEF PopAck, Outstanding, AwaitedByCaller
  <2>8. \A q \in Procs :
          Outstanding(q)' <= IF AwaitedByCaller(q)' THEN 1 ELSE 0
    BY <1>2, <2>3, <2>4, <2>5, <2>7 DEF Counted
  <2>9. number'[t] = Cardinality(awaited'[t])
    <3>1. IsFiniteSet(awaited[t])
      BY DebugerAssumption, FS_Subset
    <3>2. Cardinality(awaited[t] \ {p}) = Cardinality(awaited[t]) - 1
      BY <2>6, <3>1, FS_RemoveElement
    <3>3. number[t] = Cardinality(awaited[t])
      BY <1>2, <1>8 DEF PopAck, Waiting, Counted
    <3>. QED
      BY <1>8, <2>1, <3>2, <3>3 DEF PopAck
  <2>. QED
    BY <1>2, <1>8, <2>2, <2>8, <2>9 DEF PopAck, Waiting, Counted
<1>9. CASE Return(t)
  <2>1. number[t] = 0 /\ cpc[t] = "wait"
    BY <1>9 DEF Return
  <2>2. \A u \in Changers : u # t => cpc[u] = "idle"
    BY <1>2, <2>1 DEF Counted
  <2>3. awaited[t] = {}
    <3>1. IsFiniteSet(awaited[t])
      BY DebugerAssumption, FS_Subset
    <3>. QED
      BY <1>2, <2>1, <3>1, FS_EmptySet DEF Counted
  <2>4. \A p \in Procs : ~AwaitedByCaller(p)
    BY <2>2, <2>3 DEF AwaitedByCaller
  <2>5. \A p \in Procs : Outstanding(p)' <= 0
    BY <1>2, <1>3, <1>9, <2>4 DEF Return, Counted, Outstanding
  <2>6. \A u \in Changers : cpc'[u] = "idle"
    BY <1>9, <2>2 DEF Return
  <2>7. \A p \in Procs : Outstanding(p)' \in Nat
    BY DEF Outstanding
  <2>. QED
    BY <1>2, <1>9, <2>5, <2>6, <2>7 DEF Return, Counted
<1>10. CASE Nap(t) \/ GetDebugMsg(t)
  <2>1. \A p \in Procs : Outstanding(p)' = Outstanding(p)
    BY <1>3, <1>10 DEF Nap, GetDebugMsg, Outstanding
  <2>2. \A p \in Procs : AwaitedByCaller(p)' <=> AwaitedByCaller(p)
    BY <1>10 DEF Nap, GetDebugMsg, AwaitedByCaller
  <2>3. UNCHANGED <<debug_mode, cpc, arg, number, awaited, torn>>
    BY <1>10 DEF Nap, GetDebugMsg
  <2>. QED
    BY <1>2, <2>1, <2>2, <2>3 DEF Counted
<1>. QED
  BY <1>4, <1>5, <1>6, <1>7, <1>8, <1>9, <1>10, Zenon DEF CallStep
-----------------------------------------------------------------------------
LEMMA AnswersCountedInductive ==
  ASSUME TypeOK, TypeOK', Owns, AnswersCounted, [Next]_vars
  PROVE  AnswersCounted'
<1>1. ASSUME NEW p \in Procs, IoStep(p) \/ Lifecycle(p) \/ Log(p)
      PROVE  AnswersCounted'
  BY <1>1, ProcessKeepsCount
<1>2. ASSUME NEW t \in Changers,
             CallStep(t) \/ GetDebugMsg(t) \/ \E b \in {0, 1} : Call(t, b)
      PROVE  AnswersCounted'
  BY <1>2, CallerKeepsCount
<1>3. CASE UNCHANGED vars
  <2>1. \A p \in Procs : Outstanding(p)' = Outstanding(p)
    BY <1>3 DEF vars, shmVars, procVars, callVars, histVars, Outstanding,
                Answering
  <2>. QED
    BY <1>3, <2>1, OutstandingType, CountedFrame
    DEF vars, shmVars, procVars, callVars, histVars
<1>. QED
  BY <1>1, <1>2, <1>3, Zenon DEF Next

LEMMA AnswersCountedAlways == Spec => []AnswersCounted
<1>1. Init => AnswersCounted
  BY DEF Init, AnswersCounted, Counted, Outstanding, Answering,
         AwaitedByCaller, Checking
<1>. QED
  BY <1>1, AnswersCountedInductive, TypeCorrect, OwnsAlways, PTL DEF Spec

\* A call that has counted all its answers is owed none, by anybody, so the
\* word is its own and every started process has looked at it since.
LEMMA CountedMeansApplied ==
  ASSUME TypeOK, ReadsCurrent, AnswersCounted
  PROVE  AnswersMeanApplied
<1> SUFFICES ASSUME NEW t \in Changers, clean, cpc[t] = "wait", number[t] = 0,
                    NEW p \in Procs, pc[p] \in {"idle", "ack"}
             PROVE  (p \in registered) <=> (arg[t] = 1)
  BY DEF AnswersMeanApplied
<1>1. Counted
  BY DEF AnswersCounted
<1>2. awaited[t] = {}
  <2>1. IsFiniteSet(awaited[t])
    BY DebugerAssumption, FS_Subset DEF TypeOK
  <2>. QED
    BY <1>1, <2>1, FS_EmptySet DEF Counted
<1>3. ~AwaitedByCaller(p)
  BY <1>1, <1>2 DEF Counted, AwaitedByCaller
<1>4. Outstanding(p) = 0
  BY <1>1, <1>3, OutstandingType DEF Counted
<1>5. notice[p] = 0
  BY <1>4 DEF TypeOK, Outstanding
<1>6. ~Pending
  BY <1>1 DEF Counted, Pending
<1>7. debug_mode = arg[t]
  BY <1>1 DEF Counted
<1>. QED
  BY <1>5, <1>6, <1>7 DEF ReadsCurrent, Told, TypeOK

\* When change_debug_mode has collected every answer it asked for, and no call
\* before it was cut short, each started process has applied the mode it was
\* given: for any number of processes and callers.
THEOREM AnswersApplied == Spec => []AnswersMeanApplied
BY CountedMeansApplied, TypeCorrect, ReadsCurrentAlways, AnswersCountedAlways,
   PTL
-----------------------------------------------------------------------------
(***************************************************************************)
(* Debuger implements DebugMode.  Owns and ReadsCurrent say what the state  *)
(* of Debuger must look like for its steps to be steps of DebugMode: a      *)
(* process that is told and at the end of check_debug_mode has read the     *)
(* current word, and every live process has a queue for the broadcast.      *)
(***************************************************************************)
\* A step that leaves what DebugMode sees is a stutter.
LEMMA Unseen ==
  ASSUME UNCHANGED <<debug_mode, registered>>, Up' = Up, Owed' = Owed
  PROVE  UNCHANGED DM!vars
BY DEF DM!vars

LEMMA IoStepMaps ==
  ASSUME TypeOK, Owns, ReadsCurrent, NEW p \in Procs, IoStep(p)
  PROVE  [DM!Next]_(DM!vars)
<1> USE DEF TypeOK, Checking, Dead, Up, Owed, shmVars, procVars, callVars,
            histVars
<1>1. Pending' <=> Pending
  BY DEF IoStep, HandleTimer, CheckOne, CheckZero, EnterDebug, LeaveDebug,
         Ack, Pending
<1>2. Up' = Up
  BY DEF IoStep, HandleTimer, CheckOne, CheckZero, EnterDebug, LeaveDebug, Ack
<1>3. CASE HandleTimer(p) \/ CheckOne(p) \/ Ack(p)
  <2>1. Owed' = Owed
    BY <1>1, <1>2, <1>3 DEF HandleTimer, CheckOne, Ack
  <2>. QED
    BY <1>2, <1>3, <2>1, Unseen DEF HandleTimer, CheckOne, Ack
<1>4. CASE CheckZero(p) /\ pc'[p] = "leave"
  <2>1. Owed' = Owed
    BY <1>1, <1>2, <1>4 DEF CheckZero
  <2>. QED
    BY <1>2, <1>4, <2>1, Unseen DEF CheckZero
<1>5. CASE CheckZero(p) /\ pc'[p] # "leave" /\ ~Told(p)
  <2>1. Owed' = Owed
    BY <1>1, <1>2, <1>5 DEF CheckZero, Told
  <2>. QED
    BY <1>2, <1>5, <2>1, Unseen DEF CheckZero
<1>6. CASE CheckZero(p) /\ pc'[p] # "leave" /\ Told(p)
  <2>1. debug_mode = 0 /\ p \notin registered /\ p \in Owed
    BY <1>6 DEF CheckZero, ReadsCurrent, Owns
  <2>2. Owed' = Owed \ {p}
    BY <1>1, <1>2, <1>6 DEF CheckZero, Told
  <2>3. DM!Look(p, 0)
    BY <1>2, <1>6, <2>1, <2>2 DEF CheckZero, DM!Look
  <2>. QED
    BY <2>3 DEF DM!Next
<1>7. CASE EnterDebug(p)
  <2>1. p \in Owed
    BY <1>7 DEF EnterDebug
  <2>2. Owed' = Owed \/ (debug_mode = 1 /\ Owed' = Owed \ {p})
    BY <1>1, <1>2, <1>7 DEF EnterDebug, ReadsCurrent, Told
  <2>3. DM!Look(p, 1)
    BY <1>2, <1>7, <2>1, <2>2 DEF EnterDebug, DM!Look
  <2>. QED
    BY <2>3 DEF DM!Next
<1>8. CASE LeaveDebug(p)
  <2>1. p \in Owed
    BY <1>8 DEF LeaveDebug
  <2>2. Owed' = Owed \/ (debug_mode = 0 /\ Owed' = Owed \ {p})
    BY <1>1, <1>2, <1>8 DEF LeaveDebug, ReadsCurrent, Told
  <2>3. DM!Look(p, 0)
    BY <1>2, <1>8, <2>1, <2>2 DEF LeaveDebug, DM!Look
  <2>. QED
    BY <2>3 DEF DM!Next
<1>. QED
  BY <1>3, <1>4, <1>5, <1>6, <1>7, <1>8 DEF IoStep

LEMMA LifecycleMaps ==
  ASSUME TypeOK, Owns, ReadsCurrent, NEW p \in Procs, Lifecycle(p)
  PROVE  [DM!Next]_(DM!vars)
<1> USE DEF TypeOK, Checking, Dead, Up, Owed, shmVars, procVars, callVars,
            histVars
<1>1. CASE Construct(p)
  <2>1. p \notin Up /\ Up' = Up \cup {p}
    BY <1>1 DEF Construct
  <2>2. /\ Owed' = Owed \cup {p}
        /\ debug_mode' = debug_mode \/ (Up = {} /\ debug_mode' = 0)
    <3>1. CASE \E q \in Procs : pc[q] # "down"
      <4>1. debug_mode' = debug_mode /\ notice' = notice
        BY <1>1, <3>1 DEF Construct
      <4>2. Pending' <=> Pending
        BY <1>1, <3>1 DEF Construct, Pending
      <4>. QED
        BY <1>1, <2>1, <4>1, <4>2 DEF Construct
    <3>2. CASE \A q \in Procs : pc[q] = "down"
      <4>1. Up = {} /\ Owed = {} /\ debug_mode' = 0
        BY <1>1, <3>2 DEF Construct
      <4>2. \A t \in Changers : cpc'[t] = "idle"
        BY <1>1, <3>2, DebugerAssumption DEF Construct, Owns
      <4>3. ~torn'
        BY <1>1, <3>2, Zenon DEF Construct
      <4>4. ~Pending'
        BY <4>2, <4>3 DEF Pending
      <4>. QED
        BY <1>1, <2>1, <3>2, <4>1, <4>4 DEF Construct
    <3>. QED
      BY <3>1, <3>2
  <2>3. registered' = registered
    BY <1>1 DEF Construct
  <2>4. DM!Join(p)
    BY <2>1, <2>2, <2>3 DEF DM!Join
  <2>. QED
    BY <2>4 DEF DM!Next
<1>2. CASE Startup(p)
  <2>1. Up' = Up /\ Owed' = Owed \cup {p} /\ p \in Up
    BY <1>2 DEF Startup, Pending
  <2>2. DM!Reconsider(p)
    BY <1>2, <2>1 DEF Startup, DM!Reconsider
  <2>. QED
    BY <2>2 DEF DM!Next
<1>3. CASE Shutdown(p)
  <2>1. p \in Up /\ Up' = Up \ {p} /\ Owed' = Owed \ {p}
    BY <1>3 DEF Shutdown, Pending
  <2>2. registered' = registered \ {p} /\ debug_mode' = debug_mode
    BY <1>3 DEF Shutdown, Owns
  <2>3. DM!Leave(p)
    BY <2>1, <2>2 DEF DM!Leave
  <2>. QED
    BY <2>3 DEF DM!Next
<1>4. CASE Destroy(p)
  <2>1. Up' = Up
    BY <1>4 DEF Destroy
  <2>2. Pending' <=> Pending
    BY <1>4 DEF Destroy, Pending
  <2>3. Owed' = Owed
    BY <1>4, <2>1, <2>2 DEF Destroy
  <2>. QED
    BY <1>4, <2>1, <2>3, Unseen DEF Destroy
<1>5. CASE Crash(p)
  <2>1. Up' = Up \ {p}
    BY <1>5 DEF Crash
  <2>2. Pending' <=> Pending
    <3>1. \A t \in Changers :
            cpc'[t] = IF Home[t] = p THEN "idle" ELSE cpc[t]
      BY <1>5 DEF Crash
    <3>2. torn' <=> torn \/ \E t \in Changers : Home[t] = p
                                       /\ cpc[t] \in {"clear", "push"}
      BY <1>5, Zenon DEF Crash
    <3>. QED
      BY <3>1, <3>2 DEF Pending
  <2>3. Owed' = Owed \ {p}
    BY <1>5, <2>1, <2>2 DEF Crash
  <2>4. registered' = registered \ {p} /\ debug_mode' = debug_mode
    BY <1>5 DEF Crash
  <2>5. CASE p \in Up
    <3>1. DM!Leave(p)
      BY <2>1, <2>3, <2>4, <2>5 DEF DM!Leave
    <3>. QED
      BY <3>1 DEF DM!Next
  <2>6. CASE p \notin Up
    <3>1. p \notin registered
      BY <2>6 DEF Owns
    <3>. QED
      BY <2>1, <2>3, <2>4, <2>6, <3>1, Unseen
  <2>. QED
    BY <2>5, <2>6
<1>. QED
  BY <1>1, <1>2, <1>3, <1>4, <1>5 DEF Lifecycle

LEMMA CallerMaps ==
  ASSUME TypeOK, Owns, NEW t \in Changers,
         CallStep(t) \/ GetDebugMsg(t) \/ \E b \in {0, 1} : Call(t, b)
  PROVE  [DM!Next]_(DM!vars)
<1> USE DEF TypeOK, Checking, Dead, Up, Owed, shmVars, procVars, callVars,
            histVars
<1>1. CASE WriteMode(t)
  <2>1. Pending'
    BY <1>1 DEF WriteMode, Pending
  <2>2. Up' = Up /\ Owed' = Up /\ Home[t] \in Up
    BY <1>1, <2>1, DebugerAssumption DEF WriteMode, Owns
  <2>3. DM!Change(arg[t])
    BY <1>1, <2>2 DEF WriteMode, DM!Change
  <2>4. DM!Next
    <3>. HIDE DEF TypeOK, Up, Owed
    <3>1. arg[t] \in {0, 1}
      BY DEF TypeOK
    <3>. QED
      BY <2>3, <3>1 DEF DM!Next
  <2>. QED
    BY <2>4
<1>2. CASE PushNotice(t)
  <2>1. Up' = Up /\ Up \subseteq attached
    BY <1>2 DEF PushNotice, Owns
  <2>2. Pending
    BY <1>2 DEF PushNotice, Pending
  <2>3. Pending' \/ \A p \in Up : notice'[p] > 0
    <3>1. CASE torn'
      BY <3>1 DEF Pending
    <3>2. CASE notice' = [q \in Procs |-> IF q \in attached THEN notice[q] + 1
                                                          ELSE notice[q]]
      BY <2>1, <3>2
    <3>. QED
      BY <1>2, <3>1, <3>2, PushReachesAll
  <2>4. Owed = Up /\ Owed' = Up
    BY <2>1, <2>2, <2>3
  <2>. QED
    BY <1>2, <2>1, <2>4, Unseen DEF PushNotice
<1>3. CASE ClearQueue(t) \/ PopAck(t) \/ Nap(t) \/ Return(t)
           \/ GetDebugMsg(t) \/ \E b \in {0, 1} : Call(t, b)
  <2>1. UNCHANGED <<debug_mode, registered, notice, pc, torn>>
    BY <1>3 DEF ClearQueue, PopAck, Nap, Return, GetDebugMsg, Call
  <2>2. \A u \in Changers :
          cpc'[u] \in {"clear", "push"} <=> cpc[u] \in {"clear", "push"}
    BY <1>3 DEF ClearQueue, PopAck, Nap, Return, GetDebugMsg, Call
  <2>3. Pending' <=> Pending
    BY <2>1, <2>2 DEF Pending
  <2>4. Up' = Up /\ Owed' = Owed
    BY <2>1, <2>3
  <2>. QED
    BY <2>1, <2>4, Unseen
<1>. QED
  BY <1>1, <1>2, <1>3 DEF CallStep

LEMMA StepMaps ==
  ASSUME TypeOK, Owns, ReadsCurrent, [Next]_vars
  PROVE  [DM!Next]_(DM!vars)
<1>1. CASE \E p \in Procs : Log(p)
  <2>1. UNCHANGED <<debug_mode, registered, notice, pc, cpc, torn>>
    BY <1>1 DEF Log, procVars, callVars, histVars
  <2>2. Up' = Up /\ Owed' = Owed
    BY <2>1 DEF Up, Owed, Pending
  <2>. QED
    BY <2>1, <2>2, Unseen
<1>2. CASE UNCHANGED vars
  <2>1. UNCHANGED <<debug_mode, registered, notice, pc, cpc, torn>>
    BY <1>2 DEF vars, shmVars, procVars, callVars, histVars
  <2>2. Up' = Up /\ Owed' = Owed
    BY <2>1 DEF Up, Owed, Pending
  <2>. QED
    BY <2>1, <2>2, Unseen
<1>. QED
  BY <1>1, <1>2, IoStepMaps, LifecycleMaps, CallerMaps, Zenon DEF Next

\* Every behaviour of the protocol -- any number of processes and callers,
\* crashes and restarts included -- is one DebugMode allows.
THEOREM Implements == Spec => ImplementsDebugMode
<1>1. Init => DM!Init
  BY DEF Init, DM!Init, Up, Owed, Dead
<1>. QED
  BY <1>1, StepMaps, TypeCorrect, OwnsAlways, ReadsCurrentAlways, PTL
  DEF Spec, ImplementsDebugMode, DM!Spec
=============================================================================
