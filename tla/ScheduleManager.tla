-------------------------- MODULE ScheduleManager --------------------------
(***************************************************************************)
(* ScheduleManager.cpp: timers whose address is the handle of the caller.   *)
(*                                                                          *)
(* The io service calls the callback from its queue of completions: when a  *)
(* timer runs out, or is cancelled or deleted, its wait completes -- that   *)
(* is, goes to the queue with its error code -- and what comes after that   *)
(* changes nothing of it.  Memory of a deleted timer is used again.         *)
(*                                                                          *)
(* The caller cancels a handle at most once, and not one it was not given.  *)
(***************************************************************************)
EXTENDS Naturals, Sequences

CONSTANTS
  Requests,  \* bound: calls of schedule_callback
  Memory,    \* bound: addresses of timers
  NULL

ASSUME ScheduleAssumption == NULL \notin Requests \cup Memory

VARIABLES
  timers,  \* timers allocated and not deleted
  wait,    \* the request each timer waits for, or NULL
  handle,  \* the handle the caller has for a request, or NULL
  done,    \* completions the io service has to call
  \* history
  asked,   \* requests made
  result,  \* the code the callback of a request was called with
  cut      \* requests cancelled before their time

vars == <<timers, wait, handle, done, asked, result, cut>>

Init ==
  /\ timers = {}
  /\ wait = [t \in Memory |-> NULL]
  /\ handle = [r \in Requests |-> NULL]
  /\ done = <<>>
  /\ asked = {}
  /\ result = [r \in Requests |-> "none"]
  /\ cut = {}
-----------------------------------------------------------------------------
schedule_callback(r, t) ==
  /\ r \notin asked
  /\ t \notin timers
  /\ asked' = asked \cup {r}
  /\ timers' = timers \cup {t}
  /\ wait' = [wait EXCEPT ![t] = r]
  /\ handle' = [handle EXCEPT ![r] = t]
  /\ UNCHANGED <<done, result, cut>>

\* The wait of t, if there is one, completes with ec.
Complete(t, ec) ==
  /\ done' = IF wait[t] = NULL THEN done
             ELSE Append(done, [request |-> wait[t], ec |-> ec])
  /\ wait' = [wait EXCEPT ![t] = NULL]

\* The delay is over.
Expire(t) ==
  /\ wait[t] # NULL
  /\ Complete(t, "ok")
  /\ UNCHANGED <<timers, handle, asked, result, cut>>

\* Wrong on purpose: the wait is neither cancelled nor forgotten.
cancel_leaving_wait(r) ==
  /\ handle[r] # NULL
  /\ timers' = timers \ {handle[r]}
  /\ handle' = [handle EXCEPT ![r] = NULL]
  /\ cut' = cut \cup ({r} \cap {wait[handle[r]]})
  /\ UNCHANGED <<wait, done, asked, result>>

\* Wrong on purpose: the callback is told that the time is over.
cancel_by_expiry(r) ==
  /\ handle[r] # NULL
  /\ Complete(handle[r], "ok")
  /\ timers' = timers \ {handle[r]}
  /\ handle' = [handle EXCEPT ![r] = NULL]
  /\ cut' = cut \cup ({r} \cap {wait[handle[r]]})
  /\ UNCHANGED <<asked, result>>

\* timer->cancel, then delete.
cancel_callback(r) ==
  /\ handle[r] # NULL
  /\ Complete(handle[r], "operation_aborted")
  /\ timers' = timers \ {handle[r]}
  /\ handle' = [handle EXCEPT ![r] = NULL]
  /\ cut' = cut \cup ({r} \cap {wait[handle[r]]})
  /\ UNCHANGED <<asked, result>>

\* The io service calls the next callback.
Call ==
  /\ done # <<>>
  /\ result' = [result EXCEPT ![Head(done).request] = Head(done).ec]
  /\ done' = Tail(done)
  /\ UNCHANGED <<timers, wait, handle, asked, cut>>

Next ==
  \/ \E r \in Requests, t \in Memory : schedule_callback(r, t)
  \/ \E t \in Memory : Expire(t)
  \/ \E r \in Requests : cancel_callback(r)
  \/ Call

Spec == Init /\ [][Next]_vars

\* Time passes and the io service runs.
FairSpec == Spec /\ WF_vars(Call) /\ \A t \in Memory : WF_vars(Expire(t))
-----------------------------------------------------------------------------
(* Properties. *)

ScheduleTypeOK ==
  /\ timers \subseteq Memory
  /\ wait \in [Memory -> Requests \cup {NULL}]
  /\ handle \in [Requests -> Memory \cup {NULL}]
  /\ done \in Seq([request : Requests, ec : {"ok", "operation_aborted"}])
  /\ asked \subseteq Requests
  /\ result \in [Requests -> {"none", "ok", "operation_aborted"}]
  /\ cut \subseteq Requests

\* The completions of r in the queue.
Due(r) == {i \in 1..Len(done) : done[i].request = r}

\* A callback is called once: it is yet to be called if its timer waits or
\* its completion is in the queue, not both, and only one timer or place in
\* the queue stands for it.
CalledOnce ==
  \A r \in asked :
    \/ /\ result[r] # "none"
       /\ Due(r) = {}
       /\ \A t \in Memory : wait[t] # r
    \/ /\ result[r] = "none"
       /\ \E i \in Due(r) : Due(r) = {i}
       /\ \A t \in Memory : wait[t] # r
    \/ /\ result[r] = "none"
       /\ Due(r) = {}
       /\ \E t \in Memory : {s \in Memory : wait[s] = r} = {t}

\* A timer lives as long as a caller has its handle, and one caller only;
\* no wait belongs to a timer that is deleted or to another's handle.
HandlesOwnTimers ==
  /\ timers = {handle[r] : r \in asked} \ {NULL}
  /\ \A q, r \in asked : q # r /\ handle[q] # NULL => handle[q] # handle[r]
  /\ \A t \in Memory : wait[t] # NULL => handle[wait[t]] = t

\* A callback that is told the time is over has had its time: whoever
\* cancels before that is told so.  (Whoever cancels after the timer ran out
\* may still see the callback succeed.)
AbortedIfCut ==
  \A r \in Requests : result[r] # "none" =>
                        (result[r] = "operation_aborted") = (r \in cut)

\* Every callback is called in the end, cancelled or not.
EveryCallbackCalled ==
  \A r \in Requests : r \in asked ~> result[r] # "none"

\* How far request r is, and the code its callback has or will have.
StageOf(r) ==
  CASE r \notin asked -> "new"
    [] r \in asked /\ result[r] # "none" -> "called"
    [] r \in asked /\ result[r] = "none" ->
         IF \E t \in Memory : wait[t] = r THEN "waiting" ELSE "settled"

CodeOf(r) ==
  IF StageOf(r) \in {"new", "waiting"} THEN "none"
  ELSE IF r \in cut THEN "operation_aborted" ELSE "ok"

CB == INSTANCE Callbacks WITH
        stage <- [r \in Requests |-> StageOf(r)],
        code <- [r \in Requests |-> CodeOf(r)],
        told <- result

\* Whatever becomes of timers, handles and addresses, a caller sees what
\* Callbacks promises; to cancel after the time is over changes nothing.
ImplementsCallbacks == CB!Spec
=============================================================================
