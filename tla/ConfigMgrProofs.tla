-------------------------- MODULE ConfigMgrProofs --------------------------
(***************************************************************************)
(* Proofs about ConfigMgr, for any processes, names and values.             *)
(***************************************************************************)
EXTENDS ConfigMgr, TLAPS

\* LastSettingWins of one process and one name, for a queue q, its
\* configuration c and the settings w sent to it.
AddsUp(q, c, w, n) ==
  LET Sets(i) == q[i].name = n /\ q[i].value \in Values
  IN  \/ (\A i \in 1..Len(q) : ~Sets(i)) /\ c[n] = w[n]
      \/ \E i \in 1..Len(q) :
           /\ Sets(i)
           /\ q[i].value = w[n]
           /\ \A j \in 1..Len(q) : Sets(j) => j <= i

LEMMA AddsUpIsLastSettingWins ==
  LastSettingWins <=>
    \A p \in Procs, n \in Names : AddsUp(queue[p], config[p], want[p], n)
BY DEF LastSettingWins, Coming, ThreeParts, AddsUp

\* A message sent is the last of the queue.
LEMMA SendAddsUp ==
  ASSUME NEW q \in Seq(Messages), NEW c, NEW w \in [Names -> Values \cup {Unset}],
         NEW n \in Names, NEW msg \in Messages, AddsUp(q, c, w, n)
  PROVE  AddsUp(Append(q, msg), c, Put(w, msg), n)
<1>. DEFINE r == Append(q, msg)
<1>1. /\ Len(r) = Len(q) + 1
      /\ r[Len(r)] = msg
      /\ \A i \in 1..Len(q) : r[i] = q[i]
      /\ Len(q) \in Nat
  OBVIOUS
<1>2. CASE msg.name = n /\ msg.value \in Values
  <2>1. Put(w, msg)[n] = msg.value
    BY <1>2 DEF Put, ThreeParts, Messages
  <2>. QED
    BY <1>1, <1>2, <2>1 DEF AddsUp
<1>3. CASE ~(msg.name = n /\ msg.value \in Values)
  <2>1. Put(w, msg)[n] = w[n]
    BY <1>3 DEF Put, ThreeParts, Messages
  <2>. HIDE DEF r
  <2>2. CASE \A i \in 1..Len(q) : ~(q[i].name = n /\ q[i].value \in Values)
    BY <1>1, <1>3, <2>1, <2>2 DEF AddsUp
  <2>3. ASSUME NEW i \in 1..Len(q),
               q[i].name = n, q[i].value \in Values, q[i].value = w[n],
               \A j \in 1..Len(q) :
                 q[j].name = n /\ q[j].value \in Values => j <= i
        PROVE  AddsUp(r, c, Put(w, msg), n)
    <3>1. i \in 1..Len(r) /\ r[i] = q[i]
      BY <1>1
    <3>2. \A j \in 1..Len(r) : r[j].name = n /\ r[j].value \in Values => j <= i
      BY <1>1, <1>3, <2>3
    <3>. QED
      BY <2>1, <2>3, <3>1, <3>2 DEF AddsUp
  <2>. QED
    BY <2>2, <2>3 DEF AddsUp, r
<1>. QED
  BY <1>2, <1>3

\* A message taken is the first of the queue.
LEMMA TakeAddsUp ==
  ASSUME NEW q \in Seq(Messages), q # <<>>,
         NEW c \in [Names -> Values \cup {Unset}], NEW w, NEW n \in Names,
         AddsUp(q, c, w, n)
  PROVE  AddsUp(Tail(q), Put(c, Head(q)), w, n)
<1>. DEFINE r == Tail(q)
            d == Put(c, Head(q))
<1>1. /\ Len(q) \in Nat \ {0}
      /\ Len(r) = Len(q) - 1
      /\ \A i \in 1..Len(r) : r[i] = q[i + 1]
      /\ Head(q) = q[1]
      /\ q[1] \in Messages
  OBVIOUS
<1>2. \/ q[1].name = n /\ q[1].value \in Values /\ d[n] = q[1].value
      \/ ~(q[1].name = n /\ q[1].value \in Values) /\ d[n] = c[n]
  BY <1>1 DEF Put, ThreeParts, Messages
<1>. HIDE DEF r, d
<1>3. CASE \A i \in 1..Len(q) : ~(q[i].name = n /\ q[i].value \in Values)
  <2>1. \A i \in 1..Len(r) : ~(r[i].name = n /\ r[i].value \in Values)
    BY <1>1, <1>3
  <2>2. d[n] = w[n]
    BY <1>1, <1>2, <1>3 DEF AddsUp
  <2>. QED
    BY <2>1, <2>2 DEF AddsUp, r, d
<1>4. ASSUME NEW i \in 1..Len(q),
             q[i].name = n, q[i].value \in Values, q[i].value = w[n],
             \A j \in 1..Len(q) :
               q[j].name = n /\ q[j].value \in Values => j <= i
      PROVE  AddsUp(r, d, w, n)
  <2>1. CASE i = 1
    <3>1. \A j \in 1..Len(r) : ~(r[j].name = n /\ r[j].value \in Values)
      BY <1>1, <1>4, <2>1
    <3>2. d[n] = w[n]
      BY <1>2, <1>4, <2>1
    <3>. QED
      BY <3>1, <3>2 DEF AddsUp
  <2>2. CASE i # 1
    <3>1. i - 1 \in 1..Len(r) /\ r[i - 1] = q[i]
      BY <1>1, <2>2
    <3>2. \A j \in 1..Len(r) :
            r[j].name = n /\ r[j].value \in Values => j <= i - 1
      BY <1>1, <1>4
    <3>. QED
      BY <1>4, <3>1, <3>2 DEF AddsUp
  <2>. QED
    BY <2>1, <2>2
<1>. QED
  BY <1>3, <1>4 DEF AddsUp, r, d
-----------------------------------------------------------------------------
LEMMA PutType ==
  ASSUME NEW c \in [Names -> Values \cup {Unset}], NEW msg \in Messages
  PROVE  Put(c, msg) \in [Names -> Values \cup {Unset}]
BY DEF Put, ThreeParts, Messages

\* A process starts with no settings: an ended one has left none but those
\* in its queue.
NothingKept == \A p \in Procs \ up : config[p] = NoConfig

ConfigInv == ConfigTypeOK /\ LastSettingWins /\ NothingKept

LEMMA ConfigInit == Init => ConfigInv
<1>. SUFFICES ASSUME Init PROVE ConfigInv
  OBVIOUS
<1>1. ConfigTypeOK
  BY DEF Init, NoConfig, ConfigTypeOK
<1>2. LastSettingWins
  BY DEF Init, NoConfig, LastSettingWins, Coming
<1>3. NothingKept
  BY DEF Init, NothingKept
<1>. QED
  BY <1>1, <1>2, <1>3 DEF ConfigInv

LEMMA NothingKeptStep == ConfigInv /\ [Next]_vars => NothingKept'
<1>. SUFFICES ASSUME ConfigInv, [Next]_vars PROVE NothingKept'
  OBVIOUS
<1>0. /\ config \in [Procs -> [Names -> Values \cup {Unset}]]
      /\ timer_ \subseteq up
      /\ NothingKept
  BY DEF ConfigInv, ConfigTypeOK
<1>1. ASSUME NEW p \in Procs, Construct(p) \/ startup(p) \/ shutdown(p)
      PROVE  NothingKept'
  BY <1>0, <1>1 DEF Construct, startup, shutdown, NothingKept, NoConfig
<1>2. ASSUME NEW p \in Procs, Exit(p)
      PROVE  NothingKept'
  <2>1. config' = [config EXCEPT ![p] = NoConfig] /\ up' = up \ {p}
    BY <1>2 DEF Exit
  <2>. QED
    BY <1>0, <2>1 DEF NothingKept, NoConfig
<1>3. ASSUME NEW p \in Procs, NEW receivers, NEW n \in Names,
             NEW v \in Values \cup Piped, set_config(p, receivers, n, v)
      PROVE  NothingKept'
  <2>1. UNCHANGED <<up, config>>
    BY <1>3 DEF set_config
  <2>. QED
    BY <1>0, <2>1 DEF NothingKept, NoConfig
<1>4. ASSUME NEW p \in Procs, handle_timer(p)
      PROVE  NothingKept'
  <2>1. /\ p \in up
        /\ up' = up
        /\ \A q \in Procs : q # p => config'[q] = config[q]
    BY <1>0, <1>4 DEF handle_timer
  <2>. QED
    BY <1>0, <2>1 DEF NothingKept, NoConfig
<1>5. CASE UNCHANGED vars
  BY <1>0, <1>5 DEF vars, NothingKept, NoConfig
<1>. QED
  <2>1. ASSUME NEW p \in Procs, NEW n \in Names, NEW v \in Values \cup Piped,
               \/ \E q \in Procs : set_config(p, {q}, n, v)
               \/ set_config(p, Procs \ {p}, n, v)
        PROVE  NothingKept'
    BY <1>3, <2>1, Zenon
  <2>2. ASSUME Next PROVE NothingKept'
    BY <1>1, <1>2, <1>4, <2>1, <2>2, Zenon DEF Next
  <2>. QED
    BY <1>5, <2>2

LEMMA ConfigStep == ConfigInv /\ [Next]_vars => ConfigInv'
<1>. SUFFICES ASSUME ConfigInv, [Next]_vars PROVE ConfigInv'
  OBVIOUS
<1>0. /\ ConfigTypeOK
      /\ queue \in [Procs -> Seq(Messages)]
      /\ config \in [Procs -> [Names -> Values \cup {Unset}]]
      /\ want \in [Procs -> [Names -> Values \cup {Unset}]]
      /\ \A p \in Procs, n \in Names : AddsUp(queue[p], config[p], want[p], n)
      /\ NothingKept
  BY AddsUpIsLastSettingWins DEF ConfigInv, ConfigTypeOK
<1>. DEFINE Sums == \A p \in Procs, n \in Names :
                      AddsUp(queue'[p], config'[p], want'[p], n)
<1>1. ASSUME UNCHANGED <<queue, config, want>> PROVE Sums
  BY <1>0, <1>1
<1>2. ASSUME NEW p \in Procs,
             startup(p) \/ shutdown(p)
      PROVE  ConfigTypeOK' /\ Sums
  <2>1. UNCHANGED <<queue, config, want>>
    BY <1>2 DEF startup, shutdown
  <2>2. ConfigTypeOK'
    BY <1>0, <1>2 DEF startup, shutdown, ConfigTypeOK
  <2>. QED
    BY <1>1, <2>1, <2>2
<1>3. /\ NoConfig \in [Names -> Values \cup {Unset}]
      /\ <<>> \in Seq(Messages)
      /\ \A n \in Names : AddsUp(<<>>, NoConfig, NoConfig, n)
  BY DEF NoConfig, AddsUp
<1>4. ASSUME NEW p \in Procs, Construct(p)
      PROVE  ConfigTypeOK' /\ Sums
  <2>1. CASE UNCHANGED <<queue, want>>
    <3>1. ConfigTypeOK'
      BY <1>0, <1>4, <2>1 DEF Construct, ConfigTypeOK
    <3>2. UNCHANGED config
      BY <1>4 DEF Construct
    <3>. QED
      BY <1>1, <2>1, <3>1, <3>2
  <2>2. CASE /\ up = {}
             /\ attached' = {p}
             /\ queue' = [q \in Procs |-> <<>>]
             /\ want' = [q \in Procs |-> NoConfig]
    <3>1. up' = {p} /\ timer_' = {} /\ config' = config /\ sets' = sets
      BY <1>0, <1>4, <2>2 DEF Construct, ConfigTypeOK
    <3>2. ConfigTypeOK'
      BY <1>0, <1>3, <2>2, <3>1 DEF ConfigTypeOK
    <3>3. \A q \in Procs : config[q] = NoConfig
      BY <1>0, <2>2 DEF NothingKept
    <3>4. Sums
      BY <1>3, <2>2, <3>1, <3>3
    <3>. QED
      BY <3>2, <3>4
  <2>. QED
    BY <1>4, <2>1, <2>2 DEF Construct
<1>5. ASSUME NEW p \in Procs, Exit(p)
      PROVE  ConfigTypeOK' /\ Sums
  <2>1. /\ up' = up \ {p}
        /\ timer_' = timer_ \ {p}
        /\ config' = [config EXCEPT ![p] = NoConfig]
        /\ sets' = sets
    BY <1>5 DEF Exit
  <2>2. \A q \in Procs : q # p => config'[q] = config[q]
    BY <1>0, <2>1
  <2>3. config'[p] = NoConfig /\ config' \in [Procs -> [Names -> Values \cup {Unset}]]
    BY <1>0, <1>3, <2>1
  <2>. DEFINE left == [n \in Names |-> IF Coming(p, n) = {} THEN Unset
                                                          ELSE want[p][n]]
  <2>4. CASE /\ want' = [want EXCEPT ![p] = left]
             /\ UNCHANGED <<attached, queue>>
    <3>1. left \in [Names -> Values \cup {Unset}]
      BY <1>0
    <3>. HIDE DEF left
    <3>2. /\ want' \in [Procs -> [Names -> Values \cup {Unset}]]
          /\ want'[p] = left
          /\ \A q \in Procs : q # p => want'[q] = want[q]
      BY <1>0, <2>4, <3>1
    <3>3. ConfigTypeOK'
      BY <1>0, <2>1, <2>3, <2>4, <3>2 DEF ConfigTypeOK
    <3>4. ASSUME NEW n \in Names
          PROVE  AddsUp(queue[p], NoConfig, left, n)
      <4>1. CASE Coming(p, n) = {}
        <5>1. left[n] = NoConfig[n]
          BY <4>1 DEF left, NoConfig
        <5>. QED
          BY <4>1, <5>1 DEF AddsUp, Coming, ThreeParts
      <4>2. CASE Coming(p, n) # {}
        <5>1. left[n] = want[p][n]
          BY <4>2 DEF left
        <5>2. AddsUp(queue[p], config[p], want[p], n)
          BY <1>0
        <5>. QED
          BY <4>2, <5>1, <5>2 DEF AddsUp, Coming, ThreeParts
      <4>. QED
        BY <4>1, <4>2
    <3>5. Sums
      BY <1>0, <2>2, <2>3, <2>4, <3>2, <3>4
    <3>. QED
      BY <3>3, <3>5
  <2>5. CASE /\ attached' = attached \ {p}
             /\ queue' = [queue EXCEPT ![p] = <<>>]
             /\ want' = [want EXCEPT ![p] = NoConfig]
    <3>1. /\ queue' \in [Procs -> Seq(Messages)]
          /\ queue'[p] = <<>>
          /\ \A q \in Procs : q # p => queue'[q] = queue[q]
      BY <1>0, <1>3, <2>5
    <3>2. /\ want' \in [Procs -> [Names -> Values \cup {Unset}]]
          /\ want'[p] = NoConfig
          /\ \A q \in Procs : q # p => want'[q] = want[q]
      BY <1>0, <1>3, <2>5
    <3>3. ConfigTypeOK'
      BY <1>0, <2>1, <2>3, <2>5, <3>1, <3>2 DEF ConfigTypeOK
    <3>4. Sums
      BY <1>0, <1>3, <2>2, <2>3, <3>1, <3>2
    <3>. QED
      BY <3>3, <3>4
  <2>. QED
    BY <1>5, <2>4, <2>5 DEF Exit
<1>6. ASSUME NEW p \in Procs, NEW receivers, NEW n \in Names,
             NEW v \in Values \cup Piped, set_config(p, receivers, n, v)
      PROVE  ConfigTypeOK' /\ Sums
  <2>. DEFINE msg == Message(n, v)
  <2>1. msg \in Messages
    BY DEF Message, Messages
  <2>2. PICK got \in SUBSET (receivers \cap attached) :
          /\ queue' = [q \in Procs |-> IF q \in got THEN Append(queue[q], msg)
                                                     ELSE queue[q]]
          /\ want' = [q \in Procs |-> IF q \in got THEN Put(want[q], msg)
                                                    ELSE want[q]]
    BY <1>6 DEF set_config
  <2>3. \A q \in Procs :
          \/ /\ queue'[q] = Append(queue[q], msg)
             /\ want'[q] = Put(want[q], msg)
          \/ queue'[q] = queue[q] /\ want'[q] = want[q]
    BY <2>2
  <2>4. /\ UNCHANGED <<config, up, timer_, attached>>
        /\ sets' = sets + 1
    BY <1>6 DEF set_config
  <2>. HIDE DEF msg
  <2>5. queue' \in [Procs -> Seq(Messages)]
    <3>1. queue' = [q \in Procs |-> queue'[q]]
      BY <2>2
    <3>2. \A q \in Procs : Append(queue[q], msg) \in Seq(Messages)
      BY <1>0, <2>1
    <3>3. \A q \in Procs : queue'[q] \in Seq(Messages)
      BY <1>0, <2>3, <3>2
    <3>. QED
      BY <3>1, <3>3
  <2>6. want' \in [Procs -> [Names -> Values \cup {Unset}]]
    <3>1. want' = [q \in Procs |-> want'[q]]
      BY <2>2
    <3>2. \A q \in Procs : Put(want[q], msg) \in [Names -> Values \cup {Unset}]
      BY <1>0, <2>1, PutType
    <3>3. \A q \in Procs : want'[q] \in [Names -> Values \cup {Unset}]
      BY <1>0, <2>3, <3>2
    <3>. QED
      BY <3>1, <3>3
  <2>7. ConfigTypeOK'
    BY <1>0, <2>4, <2>5, <2>6 DEF ConfigTypeOK
  <2>8. Sums
    BY <1>0, <2>1, <2>3, <2>4, SendAddsUp
  <2>. QED
    BY <2>7, <2>8
<1>7. ASSUME NEW p \in Procs, handle_timer(p)
      PROVE  ConfigTypeOK' /\ Sums
  <2>1. /\ queue[p] \in Seq(Messages)
        /\ queue[p] # <<>>
        /\ Head(queue[p]) \in Messages
        /\ Tail(queue[p]) \in Seq(Messages)
    BY <1>0, <1>7 DEF handle_timer
  <2>2. /\ config' = [config EXCEPT ![p] = Put(config[p], Head(queue[p]))]
        /\ queue' = [queue EXCEPT ![p] = Tail(queue[p])]
        /\ UNCHANGED <<up, timer_, attached, want, sets>>
    BY <1>7 DEF handle_timer
  <2>3. Put(config[p], Head(queue[p])) \in [Names -> Values \cup {Unset}]
    BY <1>0, <2>1, PutType
  <2>4. ConfigTypeOK'
    BY <1>0, <2>1, <2>2, <2>3 DEF ConfigTypeOK
  <2>5. ASSUME NEW q \in Procs, NEW n \in Names
        PROVE  AddsUp(queue'[q], config'[q], want'[q], n)
    <3>1. CASE q = p
      BY <1>0, <2>1, <2>2, <3>1, TakeAddsUp
    <3>2. CASE q # p
      BY <1>0, <2>2, <3>2
    <3>. QED
      BY <3>1, <3>2
  <2>. QED
    BY <2>4, <2>5
<1>8. ASSUME UNCHANGED vars PROVE ConfigTypeOK' /\ Sums
  <2>1. UNCHANGED <<up, timer_, attached, queue, config, want, sets>>
    BY <1>8 DEF vars
  <2>2. ConfigTypeOK'
    BY <1>0, <2>1 DEF ConfigTypeOK
  <2>. QED
    BY <1>1, <2>1, <2>2
<1>9. ConfigTypeOK' /\ Sums
  <2>. HIDE DEF Sums
  <2>1. ASSUME NEW p \in Procs, NEW n \in Names, NEW v \in Values \cup Piped,
               \/ \E q \in Procs : set_config(p, {q}, n, v)
               \/ set_config(p, Procs \ {p}, n, v)
        PROVE  ConfigTypeOK' /\ Sums
    BY <1>6, <2>1, Zenon
  <2>2. ASSUME Next PROVE ConfigTypeOK' /\ Sums
    BY <1>2, <1>5, <1>7, <1>4, <2>1, <2>2, Zenon DEF Next
  <2>. QED
    BY <1>8, <2>2
<1>10. LastSettingWins'
  BY <1>9 DEF LastSettingWins, Coming, ThreeParts, AddsUp
<1>. QED
  BY <1>9, <1>10, NothingKeptStep DEF ConfigInv

\* Whatever is sent by whomever and lost on the way, whoever ends and starts
\* again, a configuration and the messages on their way to it add up to the
\* last settings its queue took.
THEOREM SettingsInOrder == Spec => [](ConfigTypeOK /\ LastSettingWins)
BY ConfigInit, ConfigStep, PTL DEF Spec, ConfigInv
=============================================================================
