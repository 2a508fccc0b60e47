----------------------- MODULE ScheduleManagerProofs -----------------------
(***************************************************************************)
(* Proofs about ScheduleManager, for any requests and any memory.           *)
(***************************************************************************)
EXTENDS ScheduleManager, TLAPS

Codes == {"ok", "operation_aborted"}
Completions == [request : Requests, ec : Codes]

\* A request has one place at most: a timer, the queue or its past.
OnePlace ==
  /\ \A s, t \in Memory : wait[s] # NULL /\ wait[s] = wait[t] => s = t
  /\ \A i, j \in 1..Len(done) : done[i].request = done[j].request => i = j
  /\ \A t \in Memory : wait[t] # NULL =>
       /\ result[wait[t]] = "none"
       /\ \A i \in 1..Len(done) : done[i].request # wait[t]
  /\ \A i \in 1..Len(done) : result[done[i].request] = "none"

\* And one at least, if it was made.
SomePlace ==
  \A r \in Requests :
    r \in asked <=> \/ result[r] # "none"
                    \/ \E i \in 1..Len(done) : done[i].request = r
                    \/ \E t \in Memory : wait[t] = r

\* The code of a completion is right from the start.
CodesRight ==
  /\ \A t \in Memory : wait[t] \notin cut
  /\ \A i \in 1..Len(done) :
       (done[i].ec = "operation_aborted") <=> (done[i].request \in cut)
  /\ cut \subseteq asked
  /\ AbortedIfCut

HandlesRight ==
  /\ HandlesOwnTimers
  /\ \A r \in Requests : handle[r] # NULL => r \in asked

ScheduleInv == OnePlace /\ SomePlace /\ CodesRight /\ HandlesRight

\* A wait that completes is the last of the queue.
LEMMA CompleteStep ==
  ASSUME ScheduleTypeOK, NEW t \in Memory, NEW ec \in Codes, Complete(t, ec)
  PROVE  /\ wait' \in [Memory -> Requests \cup {NULL}]
         /\ done' \in Seq(Completions)
         /\ wait'[t] = NULL
         /\ \A s \in Memory : s # t => wait'[s] = wait[s]
         /\ \A i \in 1..Len(done) : done'[i] = done[i]
         /\ wait[t] = NULL => Len(done') = Len(done)
         /\ wait[t] # NULL =>
              /\ Len(done') = Len(done) + 1
              /\ done'[Len(done')].request = wait[t]
              /\ done'[Len(done')].ec = ec
         /\ Len(done) \in Nat
<1>1. done \in Seq(Completions) /\ wait \in [Memory -> Requests \cup {NULL}]
  BY DEF ScheduleTypeOK, Completions, Codes
<1>2. wait' = [wait EXCEPT ![t] = NULL]
  BY DEF Complete
<1>3. CASE wait[t] = NULL
  <2>1. done' = done
    BY <1>3 DEF Complete
  <2>. QED
    BY <1>1, <1>2, <1>3, <2>1
<1>4. CASE wait[t] # NULL
  <2>. DEFINE c == [request |-> wait[t], ec |-> ec]
  <2>1. done' = Append(done, c)
    BY <1>4 DEF Complete
  <2>2. c \in Completions /\ c.request = wait[t] /\ c.ec = ec
    BY <1>1, <1>4 DEF Completions
  <2>. HIDE DEF c
  <2>3. /\ done' \in Seq(Completions)
        /\ Len(done') = Len(done) + 1
        /\ Len(done) \in Nat
        /\ done'[Len(done')] = c
        /\ \A i \in 1..Len(done) : done'[i] = done[i]
    BY <1>1, <2>1, <2>2
  <2>. QED
    BY <1>1, <1>2, <1>4, <2>2, <2>3
<1>. QED
  BY <1>3, <1>4
-----------------------------------------------------------------------------
LEMMA ScheduleInit == Init => ScheduleTypeOK /\ ScheduleInv
<1>. SUFFICES ASSUME Init PROVE ScheduleTypeOK /\ ScheduleInv
  OBVIOUS
<1>1. ScheduleTypeOK
  BY DEF Init, ScheduleTypeOK
<1>2. OnePlace /\ SomePlace /\ CodesRight /\ HandlesRight
  BY ScheduleAssumption
     DEF Init, OnePlace, SomePlace, CodesRight, AbortedIfCut, HandlesRight,
         HandlesOwnTimers
<1>. QED
  BY <1>1, <1>2 DEF ScheduleInv

\* What the completion of a wait does to the places of the requests, when
\* the timer has run out or its request is cut now.
LEMMA CompletePlaces ==
  ASSUME ScheduleTypeOK, ScheduleInv, NEW t \in Memory, NEW ec \in Codes,
         Complete(t, ec), UNCHANGED <<result, asked>>,
         cut' \subseteq asked,
         ec = "ok" => cut' = cut,
         ec = "operation_aborted" => cut' = cut \cup ({wait[t]} \cap asked)
  PROVE  OnePlace' /\ SomePlace' /\ CodesRight'
<1>0. /\ wait \in [Memory -> Requests \cup {NULL}]
      /\ cut \subseteq Requests
      /\ result \in [Requests -> {"none"} \cup Codes]
      /\ \A i \in 1..Len(done) : done[i].request \in Requests
      /\ NULL \notin Requests
  <2>1. done \in Seq(Completions)
    BY DEF ScheduleTypeOK, Completions, Codes
  <2>2. \A i \in 1..Len(done) : done[i] \in Completions
    BY <2>1
  <2>. QED
    BY <2>2, ScheduleAssumption DEF ScheduleTypeOK, Completions, Codes
<1>1. /\ wait'[t] = NULL
      /\ \A s \in Memory : s # t => wait'[s] = wait[s]
      /\ \A i \in 1..Len(done) : done'[i] = done[i]
      /\ wait[t] = NULL => Len(done') = Len(done)
      /\ wait[t] # NULL =>
           /\ Len(done') = Len(done) + 1
           /\ done'[Len(done')].request = wait[t]
           /\ done'[Len(done')].ec = ec
      /\ Len(done) \in Nat
  BY CompleteStep
<1>2. OnePlace
  BY DEF ScheduleInv
<1>3. OnePlace'
  BY <1>0, <1>1, <1>2, ScheduleAssumption DEF OnePlace
<1>4. SomePlace'
  BY <1>0, <1>1, ScheduleAssumption DEF ScheduleInv, SomePlace
<1>5. wait[t] # NULL => wait[t] \in asked
  BY <1>0 DEF ScheduleInv, SomePlace
<1>6. /\ NULL \notin cut'
      /\ \A s \in Memory : wait'[s] \notin cut'
  <2>1. /\ \A s \in Memory : wait[s] \notin cut
        /\ asked \subseteq Requests
    BY DEF ScheduleInv, CodesRight, ScheduleTypeOK
  <2>2. \A u \in cut' : u \in cut \/ (u = wait[t] /\ u # NULL)
    BY <1>0, <2>1 DEF Codes
  <2>3. \A s \in Memory : s # t => wait[s] = NULL \/ wait[s] # wait[t]
    BY <1>2 DEF OnePlace
  <2>. QED
    BY <1>0, <1>1, <2>1, <2>2, <2>3
<1>7. \A i \in 1..Len(done') :
        (done'[i].ec = "operation_aborted") <=> (done'[i].request \in cut')
  BY <1>0, <1>1, <1>2, <1>5, ScheduleAssumption
     DEF ScheduleInv, CodesRight, OnePlace, Codes
<1>8. AbortedIfCut'
  <2>1. AbortedIfCut /\ result' = result
    BY DEF ScheduleInv, CodesRight
  <2>2. \A u \in Requests : result[u] # "none" => (u \in cut <=> u \in cut')
    BY <1>0, <1>2 DEF OnePlace, Codes
  <2>. QED
    BY <2>1, <2>2 DEF AbortedIfCut
<1>. QED
  BY <1>3, <1>4, <1>6, <1>7, <1>8 DEF CodesRight

LEMMA ScheduleStep == ScheduleTypeOK /\ ScheduleInv /\ [Next]_vars
                        => ScheduleTypeOK' /\ ScheduleInv'
<1>. SUFFICES ASSUME ScheduleTypeOK, ScheduleInv, [Next]_vars
              PROVE  ScheduleTypeOK' /\ ScheduleInv'
  OBVIOUS
<1>0. /\ timers \subseteq Memory
      /\ wait \in [Memory -> Requests \cup {NULL}]
      /\ handle \in [Requests -> Memory \cup {NULL}]
      /\ done \in Seq(Completions)
      /\ asked \subseteq Requests
      /\ result \in [Requests -> {"none"} \cup Codes]
      /\ cut \subseteq Requests
  BY DEF ScheduleTypeOK, Completions, Codes
<1>1. ASSUME NEW r \in Requests, NEW t \in Memory, schedule_callback(r, t)
      PROVE  ScheduleTypeOK' /\ ScheduleInv'
  <2>1. /\ r \notin asked /\ t \notin timers
        /\ asked' = asked \cup {r}
        /\ timers' = timers \cup {t}
        /\ wait' = [wait EXCEPT ![t] = r]
        /\ handle' = [handle EXCEPT ![r] = t]
        /\ UNCHANGED <<done, result, cut>>
    BY <1>1 DEF schedule_callback
  <2>2. ScheduleTypeOK'
    BY <1>0, <2>1 DEF ScheduleTypeOK
  <2>3. /\ wait[t] = NULL
        /\ result[r] = "none"
        /\ handle[r] = NULL
        /\ r \notin cut
        /\ \A i \in 1..Len(done) : done[i].request # r
        /\ \A s \in Memory : wait[s] # r
    <3>1. /\ result[r] = "none"
          /\ \A i \in 1..Len(done) : done[i].request # r
          /\ \A s \in Memory : wait[s] # r
      BY <2>1 DEF ScheduleInv, SomePlace
    <3>2. handle[r] = NULL /\ r \notin cut
      BY <2>1 DEF ScheduleInv, HandlesRight, CodesRight
    <3>3. wait[t] = NULL
      <4>1. SUFFICES ASSUME wait[t] # NULL PROVE FALSE
        OBVIOUS
      <4>2. wait[t] \in Requests
        BY <1>0, <4>1
      <4>3. wait[t] \in asked
        BY <4>2 DEF ScheduleInv, SomePlace
      <4>4. handle[wait[t]] = t /\ t # NULL
        BY <4>1, ScheduleAssumption DEF ScheduleInv, HandlesRight, HandlesOwnTimers
      <4>5. t \in timers
        BY <4>3, <4>4 DEF ScheduleInv, HandlesRight, HandlesOwnTimers
      <4>. QED
        BY <2>1, <4>5
    <3>. QED
      BY <3>1, <3>2, <3>3
  <2>4. OnePlace'
    BY <1>0, <2>1, <2>3 DEF ScheduleInv, OnePlace
  <2>5. SomePlace'
    <3>1. \A s \in Memory : wait'[s] = IF s = t THEN r ELSE wait[s]
      BY <1>0, <2>1
    <3>2. \A q \in Requests : q # r =>
            ((\E s \in Memory : wait'[s] = q) <=> (\E s \in Memory : wait[s] = q))
      BY <2>3, <3>1, ScheduleAssumption
    <3>3. \E s \in Memory : wait'[s] = r
      BY <3>1
    <3>4. SomePlace /\ done' = done /\ result' = result
      BY <2>1 DEF ScheduleInv
    <3>. QED
      BY <2>1, <3>2, <3>3, <3>4 DEF SomePlace
  <2>6. CodesRight'
    BY <1>0, <2>1, <2>3 DEF ScheduleInv, CodesRight, AbortedIfCut
  <2>7. HandlesRight'
    BY <1>0, <2>1, <2>3, ScheduleAssumption
       DEF ScheduleInv, HandlesRight, HandlesOwnTimers
  <2>. QED
    BY <2>2, <2>4, <2>5, <2>6, <2>7 DEF ScheduleInv
<1>2. ASSUME NEW t \in Memory, Expire(t)
      PROVE  ScheduleTypeOK' /\ ScheduleInv'
  <2>1. /\ Complete(t, "ok")
        /\ UNCHANGED <<timers, handle, asked, result, cut>>
    BY <1>2 DEF Expire
  <2>2. "ok" \in Codes /\ "ok" # "operation_aborted"
    BY DEF Codes
  <2>3. ScheduleTypeOK'
    BY <1>0, <2>1, <2>2, CompleteStep DEF ScheduleTypeOK, Completions, Codes
  <2>4. OnePlace' /\ SomePlace' /\ CodesRight'
    <3>1. cut' \subseteq asked
      BY <2>1 DEF ScheduleInv, CodesRight
    <3>. QED
      BY <2>1, <2>2, <3>1, CompletePlaces
  <2>5. \A s \in Memory : wait'[s] \in {wait[s], NULL}
    BY <2>1, <2>2, CompleteStep
  <2>6. HandlesRight'
    BY <2>1, <2>5 DEF ScheduleInv, HandlesRight, HandlesOwnTimers
  <2>. QED
    BY <2>3, <2>4, <2>6 DEF ScheduleInv
<1>3. ASSUME NEW r \in Requests, cancel_callback(r)
      PROVE  ScheduleTypeOK' /\ ScheduleInv'
  <2>. DEFINE t == handle[r]
  <2>1. /\ t \in Memory
        /\ Complete(t, "operation_aborted")
        /\ timers' = timers \ {t}
        /\ handle' = [handle EXCEPT ![r] = NULL]
        /\ cut' = cut \cup ({r} \cap {wait[t]})
        /\ UNCHANGED <<asked, result>>
    BY <1>0, <1>3 DEF cancel_callback
  <2>. HIDE DEF t
  <2>2. "operation_aborted" \in Codes
    BY DEF Codes
  <2>3. ScheduleTypeOK'
    BY <1>0, <2>1, <2>2, CompleteStep DEF ScheduleTypeOK, Completions, Codes
  <2>4. r \in asked
    BY <1>0, <1>3 DEF ScheduleInv, HandlesRight, cancel_callback
  <2>5. wait[t] # NULL => wait[t] = r
    <3>1. wait[t] # NULL => wait[t] \in asked /\ handle[wait[t]] = t
      BY <1>0, <2>1 DEF ScheduleInv, HandlesRight, HandlesOwnTimers, SomePlace
    <3>. QED
      BY <1>0, <1>3, <2>4, <3>1
         DEF ScheduleInv, HandlesRight, HandlesOwnTimers, t, cancel_callback
  <2>6. cut' \subseteq asked /\ cut' = cut \cup ({wait[t]} \cap asked)
    BY <1>0, <2>1, <2>4, <2>5, ScheduleAssumption DEF ScheduleInv, CodesRight
  <2>7. OnePlace' /\ SomePlace' /\ CodesRight'
    BY <2>1, <2>2, <2>6, CompletePlaces
  <2>8. \A s \in Memory : wait'[s] = IF s = t THEN NULL ELSE wait[s]
    BY <2>1, <2>2, CompleteStep
  <2>9. HandlesRight'
    <3>1. \A q \in Requests : handle'[q] = IF q = r THEN NULL ELSE handle[q]
      BY <1>0, <2>1
    <3>2. handle[r] = t
      BY DEF t
    <3>3. timers' = {handle'[q] : q \in asked'} \ {NULL}
      <4>1. /\ timers = {handle[q] : q \in asked} \ {NULL}
            /\ \A p, q \in asked : p # q /\ handle[p] # NULL => handle[p] # handle[q]
        BY DEF ScheduleInv, HandlesRight, HandlesOwnTimers
      <4>2. \A q \in asked : q # r => handle[q] # t
        BY <2>1, <2>4, <3>2, <4>1, ScheduleAssumption
      <4>3. asked' = asked /\ timers' = timers \ {t} /\ asked \subseteq Requests
        BY <1>0, <2>1
      <4>. QED
        BY <3>1, <3>2, <4>1, <4>2, <4>3
    <3>4. \A s \in Memory : wait'[s] # NULL => handle'[wait'[s]] = s
      <4>1. \A s \in Memory : wait[s] # NULL => handle[wait[s]] = s
        BY DEF ScheduleInv, HandlesRight, HandlesOwnTimers
      <4>. QED
        BY <1>0, <2>8, <3>1, <3>2, <4>1
    <3>. QED
      BY <1>0, <2>1, <3>1, <3>3, <3>4 DEF ScheduleInv, HandlesRight, HandlesOwnTimers
  <2>. QED
    BY <2>3, <2>7, <2>9 DEF ScheduleInv
<1>4. ASSUME Call PROVE ScheduleTypeOK' /\ ScheduleInv'
  <2>. DEFINE c == Head(done)
  <2>1. /\ c \in Completions
        /\ c = done[1]
        /\ Len(done) \in Nat \ {0}
        /\ done' \in Seq(Completions)
        /\ Len(done') = Len(done) - 1
        /\ \A i \in 1..Len(done') : done'[i] = done[i + 1]
    BY <1>0, <1>4 DEF Call
  <2>2. /\ result' = [result EXCEPT ![c.request] = c.ec]
        /\ UNCHANGED <<timers, wait, handle, asked, cut>>
    BY <1>4 DEF Call
  <2>. HIDE DEF c
  <2>3. c.request \in Requests /\ c.ec \in Codes
    BY <2>1 DEF Completions
  <2>4. ScheduleTypeOK'
    BY <1>0, <2>1, <2>2, <2>3 DEF ScheduleTypeOK, Completions, Codes
  <2>5. \A i \in 1..Len(done') : /\ done'[i].request \in Requests
                                 /\ done'[i].request # c.request
    <3>1. \A i \in 1..Len(done') : /\ done'[i] \in Completions
                                   /\ i + 1 \in 1..Len(done) /\ i + 1 # 1
      BY <2>1
    <3>2. 1 \in 1..Len(done)
      BY <2>1
    <3>3. \A i, j \in 1..Len(done) : done[i].request = done[j].request => i = j
      BY DEF ScheduleInv, OnePlace
    <3>4. \A i \in 1..Len(done') : done[i + 1].request # done[1].request
      BY <3>1, <3>2, <3>3
    <3>. QED
      BY <2>1, <3>1, <3>4 DEF Completions
  <2>6. \A q \in Requests : result'[q] = IF q = c.request THEN c.ec ELSE result[q]
    BY <1>0, <2>2, <2>3
  <2>7. \A i \in 1..Len(done) :
          i # 1 => i - 1 \in 1..Len(done') /\ done'[i - 1] = done[i]
    <3>1. \A i \in 1..Len(done) : i # 1 => i - 1 \in 1..Len(done') /\ (i - 1) + 1 = i
      BY <2>1
    <3>. QED
      BY <2>1, <3>1
  <2>8. OnePlace'
    <3>1. OnePlace /\ wait' = wait /\ 1 \in 1..Len(done)
      BY <2>1, <2>2 DEF ScheduleInv
    <3>2. \A i \in 1..Len(done') : i + 1 \in 1..Len(done) /\ done'[i] = done[i + 1]
      BY <2>1
    <3>3. \A i, j \in 1..Len(done') : done'[i].request = done'[j].request => i = j
      <4>. TAKE i, j \in 1..Len(done')
      <4>. HAVE done'[i].request = done'[j].request
      <4>1. i + 1 = j + 1
        BY <3>1, <3>2 DEF OnePlace
      <4>. QED
        BY <2>1, <4>1
    <3>4. \A i \in 1..Len(done') : result'[done'[i].request] = "none"
      BY <2>5, <2>6, <3>1, <3>2 DEF OnePlace
    <3>5. ASSUME NEW s \in Memory, wait[s] # NULL
          PROVE  /\ result'[wait[s]] = "none"
                 /\ \A i \in 1..Len(done') : done'[i].request # wait[s]
      <4>1. /\ wait[s] \in Requests
            /\ result[wait[s]] = "none"
            /\ \A i \in 1..Len(done) : done[i].request # wait[s]
        BY <1>0, <3>1, <3>5 DEF OnePlace
      <4>2. wait[s] # c.request
        BY <2>1, <3>1, <4>1
      <4>. QED
        BY <2>6, <3>2, <4>1, <4>2
    <3>. QED
      BY <3>1, <3>3, <3>4, <3>5 DEF OnePlace
  <2>9. SomePlace'
    <3>1. SomePlace /\ wait' = wait /\ asked' = asked /\ 1 \in 1..Len(done)
      BY <2>1, <2>2 DEF ScheduleInv
    <3>2. c.request \in asked /\ result'[c.request] # "none"
      BY <2>1, <2>3, <2>6, <3>1 DEF SomePlace, Codes
    <3>3. \A q \in Requests : q # c.request =>
            ((\E i \in 1..Len(done) : done[i].request = q) <=>
             (\E i \in 1..Len(done') : done'[i].request = q))
      <4>1. ASSUME NEW q \in Requests, q # c.request,
                   NEW i \in 1..Len(done), done[i].request = q
            PROVE  \E j \in 1..Len(done') : done'[j].request = q
        BY <2>1, <2>7, <4>1
      <4>2. ASSUME NEW q \in Requests, NEW i \in 1..Len(done'), done'[i].request = q
            PROVE  \E j \in 1..Len(done) : done[j].request = q
        <5>1. i + 1 \in 1..Len(done) /\ done'[i] = done[i + 1]
          BY <2>1
        <5>. QED
          BY <4>2, <5>1
      <4>. QED
        BY <4>1, <4>2
    <3>4. \A q \in Requests : q # c.request => result'[q] = result[q]
      BY <2>6
    <3>5. ASSUME NEW q \in Requests, q # c.request
          PROVE  q \in asked <=>
                   \/ result'[q] # "none"
                   \/ \E i \in 1..Len(done') : done'[i].request = q
                   \/ \E t \in Memory : wait[t] = q
      BY <3>1, <3>3, <3>4, <3>5 DEF SomePlace
    <3>. QED
      BY <2>3, <3>1, <3>2, <3>5 DEF SomePlace
  <2>10. CodesRight'
    <3>1. CodesRight /\ cut' = cut /\ wait' = wait /\ asked' = asked
      BY <2>2 DEF ScheduleInv
    <3>2. (c.ec = "operation_aborted") <=> (c.request \in cut)
      BY <2>1, <3>1 DEF CodesRight
    <3>3. \A i \in 1..Len(done') : i + 1 \in 1..Len(done) /\ done'[i] = done[i + 1]
      BY <2>1
    <3>4. \A i \in 1..Len(done') :
            (done'[i].ec = "operation_aborted") <=> (done'[i].request \in cut')
      BY <3>1, <3>3 DEF CodesRight
    <3>5. AbortedIfCut'
      BY <2>6, <3>1, <3>2 DEF CodesRight, AbortedIfCut
    <3>. QED
      BY <3>1, <3>4, <3>5 DEF CodesRight
  <2>11. HandlesRight'
    BY <2>2 DEF ScheduleInv, HandlesRight, HandlesOwnTimers
  <2>. QED
    BY <2>4, <2>8, <2>9, <2>10, <2>11 DEF ScheduleInv
<1>5. ASSUME UNCHANGED vars PROVE ScheduleTypeOK' /\ ScheduleInv'
  BY <1>5 DEF vars, ScheduleTypeOK, ScheduleInv, OnePlace, SomePlace, CodesRight,
              AbortedIfCut, HandlesRight, HandlesOwnTimers
<1>. QED
  BY <1>1, <1>2, <1>3, <1>4, <1>5 DEF Next

LEMMA ScheduleAlways == Spec => [](ScheduleTypeOK /\ ScheduleInv)
BY ScheduleInit, ScheduleStep, PTL DEF Spec
-----------------------------------------------------------------------------
\* A callback is never called twice, and never lost.
THEOREM NeverTwice == Spec => []CalledOnce
<1>1. ScheduleTypeOK /\ ScheduleInv => CalledOnce
  <2>. SUFFICES ASSUME ScheduleTypeOK, ScheduleInv, NEW r \in asked
                PROVE  CalledOnce!(r)
    BY DEF CalledOnce
  <2>. QED
    BY ScheduleAssumption
       DEF ScheduleTypeOK, ScheduleInv, OnePlace, SomePlace, Due
<1>. QED
  BY <1>1, ScheduleAlways, PTL

\* Timers are deleted once, by the caller who has the handle.
THEOREM HandlesAreOwners == Spec => []HandlesOwnTimers
<1>1. ScheduleInv => HandlesOwnTimers
  BY DEF ScheduleInv, HandlesRight
<1>. QED
  BY <1>1, ScheduleAlways, PTL

\* A callback is told of a cancellation exactly when it came in time.
THEOREM CancelledInTime == Spec => []AbortedIfCut
<1>1. ScheduleInv => AbortedIfCut
  BY DEF ScheduleInv, CodesRight
<1>. QED
  BY <1>1, ScheduleAlways, PTL
-----------------------------------------------------------------------------
\* The refinement.  What a caller sees of a request changes only by the
\* action whose request it is.

Seen(r) == <<StageOf(r), CodeOf(r)>>

\* One request moves on, and no other.
LEMMA OneMoves ==
  ASSUME NEW r \in Requests, NEW st, NEW co,
         StageOf(r)' = st, CodeOf(r)' = co,
         \A q \in Requests : q # r => Seen(q)' = Seen(q)
  PROVE  /\ [q \in Requests |-> StageOf(q)]'
              = [[q \in Requests |-> StageOf(q)] EXCEPT ![r] = st]
         /\ [q \in Requests |-> CodeOf(q)]'
              = [[q \in Requests |-> CodeOf(q)] EXCEPT ![r] = co]
BY DEF Seen

\* The stages, each by what the state holds of the request.
LEMMA StagesAre ==
  ASSUME NEW r \in Requests
  PROVE  /\ StageOf(r) = "new" <=> r \notin asked
         /\ StageOf(r) = "called" <=> r \in asked /\ result[r] # "none"
         /\ StageOf(r) = "waiting" <=>
              r \in asked /\ result[r] = "none" /\ \E t \in Memory : wait[t] = r
         /\ StageOf(r) = "settled" <=>
              r \in asked /\ result[r] = "none" /\ \A t \in Memory : wait[t] # r
         /\ StageOf(r) \in {"new", "waiting"} => CodeOf(r) = "none"
         /\ StageOf(r) \in {"settled", "called"} =>
              CodeOf(r) = IF r \in cut THEN "operation_aborted" ELSE "ok"
<1>1. CASE r \notin asked
  BY <1>1 DEF StageOf, CodeOf
<1>2. CASE r \in asked /\ result[r] # "none"
  BY <1>2 DEF StageOf, CodeOf
<1>3. CASE r \in asked /\ result[r] = "none"
  BY <1>3 DEF StageOf, CodeOf
<1>. QED
  BY <1>1, <1>2, <1>3

\* What a caller sees of a request depends on its own entries only.
LEMMA SeenKept ==
  ASSUME NEW r \in Requests,
         r \in asked' <=> r \in asked,
         result'[r] = result[r],
         r \in cut' <=> r \in cut,
         (\E t \in Memory : wait'[t] = r) <=> (\E t \in Memory : wait[t] = r)
  PROVE  Seen(r)' = Seen(r)
<1>1. StageOf(r)' = StageOf(r)
  BY DEF StageOf
<1>2. CodeOf(r)' = CodeOf(r)
  BY <1>1 DEF CodeOf
<1>. QED
  BY <1>1, <1>2 DEF Seen

\* A wait that completes settles its request.
LEMMA CompleteSettles ==
  ASSUME ScheduleTypeOK, ScheduleInv,
         NEW t \in Memory, NEW r \in Requests, wait[t] = r,
         NEW ec \in Codes, Complete(t, ec), UNCHANGED <<asked, result>>,
         cut' = IF ec = "ok" THEN cut ELSE cut \cup {r}
  PROVE  CB!Settle(r, ec)
<1>1. /\ r # NULL
      /\ r \in asked
      /\ result[r] = "none"
      /\ r \notin cut
      /\ \A s \in Memory : wait[s] = r => s = t
  BY ScheduleAssumption DEF ScheduleInv, OnePlace, SomePlace, CodesRight
<1>2. \A s \in Memory : wait'[s] = IF s = t THEN NULL ELSE wait[s]
  BY CompleteStep
<1>3. StageOf(r) = "waiting"
  BY <1>1, StagesAre
<1>4. /\ r \in asked' /\ result'[r] = "none"
      /\ \A s \in Memory : wait'[s] # r
      /\ r \in cut' <=> ec = "operation_aborted"
  BY <1>1, <1>2 DEF Codes
<1>5. StageOf(r)' = "settled"
  BY <1>4 DEF StageOf
<1>6. CodeOf(r)' = ec
  BY <1>4, <1>5 DEF CodeOf, Codes
<1>7. \A q \in Requests : q # r => Seen(q)' = Seen(q)
  <2>. SUFFICES ASSUME NEW q \in Requests, q # r PROVE Seen(q)' = Seen(q)
    OBVIOUS
  <2>1. (\E s \in Memory : wait'[s] = q) <=> (\E s \in Memory : wait[s] = q)
    BY <1>2, ScheduleAssumption
  <2>. QED
    BY <2>1, SeenKept
<1>. QED
  BY <1>3, <1>5, <1>6, <1>7, OneMoves DEF CB!Settle, CB!Moves

\* When no request moves, the promise sees a stutter.
LEMMA NoneMoves ==
  ASSUME \A q \in Requests : Seen(q)' = Seen(q), result' = result
  PROVE  UNCHANGED <<[r \in Requests |-> StageOf(r)],
                     [r \in Requests |-> CodeOf(r)], result>>
BY DEF Seen

CallbackNext ==
  [CB!Next]_<<[r \in Requests |-> StageOf(r)],
              [r \in Requests |-> CodeOf(r)], result>>

LEMMA CallbacksInit == Init => CB!Init
<1>. SUFFICES ASSUME Init PROVE CB!Init
  OBVIOUS
<1>1. \A r \in Requests : StageOf(r) = "new" /\ CodeOf(r) = "none"
  BY StagesAre DEF Init
<1>. QED
  BY <1>1 DEF Init, CB!Init

LEMMA CallbacksStep ==
  ScheduleTypeOK /\ ScheduleInv /\ [Next]_vars => CallbackNext
<1>. SUFFICES ASSUME ScheduleTypeOK, ScheduleInv, [Next]_vars
              PROVE  CallbackNext
  OBVIOUS
<1>0. /\ wait \in [Memory -> Requests \cup {NULL}]
      /\ handle \in [Requests -> Memory \cup {NULL}]
      /\ done \in Seq(Completions)
      /\ result \in [Requests -> {"none"} \cup Codes]
      /\ NULL \notin Requests \cup Memory
  BY ScheduleAssumption DEF ScheduleTypeOK, Completions, Codes
<1>1. ASSUME NEW r \in Requests, NEW t \in Memory, schedule_callback(r, t)
      PROVE  CB!Ask(r)
  <2>1. /\ r \notin asked /\ t \notin timers
        /\ asked' = asked \cup {r}
        /\ \A s \in Memory : wait'[s] = IF s = t THEN r ELSE wait[s]
        /\ UNCHANGED <<result, cut>>
    BY <1>0, <1>1 DEF schedule_callback
  <2>2. result[r] = "none"
    BY <2>1 DEF ScheduleInv, SomePlace
  <2>3. wait[t] = NULL
    <3>1. wait[t] # NULL => wait[t] \in Requests /\ handle[wait[t]] = t
      BY <1>0 DEF ScheduleInv, HandlesRight, HandlesOwnTimers
    <3>2. wait[t] # NULL => wait[t] \in asked /\ t # NULL
      BY <1>0, <3>1 DEF ScheduleInv, HandlesRight
    <3>3. \A q \in asked : handle[q] # NULL => handle[q] \in timers
      BY DEF ScheduleInv, HandlesRight, HandlesOwnTimers
    <3>. QED
      BY <2>1, <3>1, <3>2, <3>3
  <2>4. StageOf(r) = "new" /\ CodeOf(r) = "none"
    BY <2>1, StagesAre
  <2>5. StageOf(r)' = "waiting"
    BY <2>1, <2>2 DEF StageOf
  <2>6. CodeOf(r)' = "none"
    BY <2>5 DEF CodeOf
  <2>7. \A q \in Requests : q # r => Seen(q)' = Seen(q)
    <3>. SUFFICES ASSUME NEW q \in Requests, q # r PROVE Seen(q)' = Seen(q)
      OBVIOUS
    <3>1. (\E s \in Memory : wait'[s] = q) <=> (\E s \in Memory : wait[s] = q)
      BY <1>0, <2>1, <2>3
    <3>. QED
      BY <2>1, <3>1, SeenKept
  <2>8. [q \in Requests |-> CodeOf(q)]' = [q \in Requests |-> CodeOf(q)]
    BY <2>4, <2>6, <2>7 DEF Seen
  <2>. QED
    BY <2>1, <2>4, <2>5, <2>6, <2>7, <2>8, OneMoves DEF CB!Ask, CB!Moves
<1>2. ASSUME NEW t \in Memory, Expire(t)
      PROVE  \E r \in Requests : CB!Settle(r, "ok")
  <2>1. /\ Complete(t, "ok") /\ wait[t] \in Requests
        /\ UNCHANGED <<asked, result>> /\ cut' = cut
    BY <1>0, <1>2 DEF Expire
  <2>2. CB!Settle(wait[t], "ok")
    BY <2>1, CompleteSettles DEF Codes
  <2>. QED
    BY <2>1, <2>2
<1>3. ASSUME NEW r \in Requests, cancel_callback(r)
      PROVE  CallbackNext
  <2>1. /\ handle[r] \in Memory
        /\ Complete(handle[r], "operation_aborted")
        /\ cut' = cut \cup ({r} \cap {wait[handle[r]]})
        /\ UNCHANGED <<asked, result>>
    BY <1>0, <1>3 DEF cancel_callback
  <2>2. CASE wait[handle[r]] = NULL
    <3>1. wait' = wait
      BY <1>0, <2>1, <2>2 DEF Complete
    <3>2. cut' = cut
      BY <1>0, <2>1, <2>2
    <3>3. \A q \in Requests : Seen(q)' = Seen(q)
      BY <2>1, <3>1, <3>2, SeenKept
    <3>. QED
      BY <2>1, <3>3, NoneMoves DEF CallbackNext
  <2>3. CASE wait[handle[r]] # NULL
    <3>1. /\ wait[handle[r]] \in asked
          /\ handle[wait[handle[r]]] = handle[r]
          /\ r \in asked
      BY <1>0, <1>3, <2>1, <2>3
         DEF ScheduleInv, HandlesRight, HandlesOwnTimers, SomePlace, cancel_callback
    <3>2. wait[handle[r]] = r
      BY <1>0, <1>3, <3>1
         DEF ScheduleInv, HandlesRight, HandlesOwnTimers, cancel_callback
    <3>3. cut' = cut \cup {r}
      BY <2>1, <3>2
    <3>4. "operation_aborted" \in Codes /\ "operation_aborted" # "ok"
      BY DEF Codes
    <3>5. CB!Settle(r, "operation_aborted")
      BY <2>1, <3>2, <3>3, <3>4, CompleteSettles
    <3>. QED
      BY <3>5 DEF CallbackNext, CB!Next
  <2>. QED
    BY <2>2, <2>3
<1>4. ASSUME Call PROVE \E r \in Requests : CB!Tell(r)
  <2>1. /\ Head(done) \in Completions
        /\ Head(done) = done[1] /\ 1 \in 1..Len(done)
        /\ UNCHANGED <<wait, asked, cut>>
    BY <1>0, <1>4 DEF Call
  <2>2. PICK r \in Requests, ec \in Codes :
               Head(done).request = r /\ Head(done).ec = ec
    BY <2>1 DEF Completions
  <2>3. result' = [result EXCEPT ![r] = ec]
    BY <1>4, <2>2 DEF Call
  <2>4. /\ r \in asked
        /\ result[r] = "none"
        /\ \A t \in Memory : wait[t] # r
    <3>1. r \in asked /\ result[r] = "none"
      BY <2>1, <2>2 DEF ScheduleInv, OnePlace, SomePlace
    <3>2. \A t \in Memory : wait[t] # r
      BY <1>0, <2>1, <2>2 DEF ScheduleInv, OnePlace
    <3>. QED
      BY <3>1, <3>2
  <2>5. ec = IF r \in cut THEN "operation_aborted" ELSE "ok"
    BY <2>1, <2>2 DEF ScheduleInv, CodesRight, Codes
  <2>6. StageOf(r) = "settled" /\ CodeOf(r) = ec
    <3>1. StageOf(r) = "settled"
      BY <2>4, StagesAre
    <3>. QED
      BY <2>5, <3>1, StagesAre
  <2>7. result'[r] = ec /\ ec # "none"
    BY <1>0, <2>3 DEF Codes
  <2>8. StageOf(r)' = "called"
    BY <2>1, <2>4, <2>7 DEF StageOf
  <2>9. CodeOf(r)' = ec
    BY <2>1, <2>5, <2>8 DEF CodeOf
  <2>10. \A q \in Requests : q # r => Seen(q)' = Seen(q)
    BY <1>0, <2>1, <2>3, SeenKept
  <2>11. [q \in Requests |-> CodeOf(q)]' = [q \in Requests |-> CodeOf(q)]
    BY <2>6, <2>9, <2>10 DEF Seen
  <2>12. CB!Moves(r, "settled", "called")
    BY <2>6, <2>8, <2>9, <2>10, OneMoves DEF CB!Moves
  <2>13. result' = [result EXCEPT ![r] = [q \in Requests |-> CodeOf(q)][r]]
    BY <2>3, <2>6
  <2>. QED
    BY <2>11, <2>12, <2>13 DEF CB!Tell
<1>5. ASSUME UNCHANGED vars PROVE CallbackNext
  <2>1. \A q \in Requests : Seen(q)' = Seen(q)
    BY <1>5, SeenKept DEF vars
  <2>. QED
    BY <1>5, <2>1, NoneMoves DEF CallbackNext, vars
<1>. QED
  <2>1. ASSUME CB!Next PROVE CallbackNext
    BY <2>1 DEF CallbackNext
  <2>2. \A r \in Requests : CB!Ask(r) \/ CB!Tell(r) \/ CB!Settle(r, "ok") => CB!Next
    BY DEF CB!Next
  <2>. QED
    BY <1>1, <1>2, <1>3, <1>4, <1>5, <2>1, <2>2 DEF Next

\* For any requests and any memory, a caller sees of ScheduleManager what
\* Callbacks promises: one code, settled while the request waits.
THEOREM ImplementsPromise == Spec => ImplementsCallbacks
BY CallbacksInit, CallbacksStep, ScheduleAlways, PTL
   DEF Spec, ImplementsCallbacks, CB!Spec, CallbackNext
=============================================================================
