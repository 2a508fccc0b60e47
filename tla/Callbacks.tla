----------------------------- MODULE Callbacks -----------------------------
(***************************************************************************)
(* What ScheduleManager promises to whoever asks for a callback, without    *)
(* timers, handles and addresses: its code is settled once, while the       *)
(* request waits, and the callback is called once, with that code.          *)
(***************************************************************************)
CONSTANT Requests

VARIABLES
  stage,  \* how far each request is
  code,   \* what was settled for it
  told    \* what its callback was called with

Init ==
  /\ stage = [r \in Requests |-> "new"]
  /\ code = [r \in Requests |-> "none"]
  /\ told = [r \in Requests |-> "none"]

Moves(r, from, to) ==
  /\ stage[r] = from
  /\ stage' = [stage EXCEPT ![r] = to]

Ask(r) == Moves(r, "new", "waiting") /\ UNCHANGED <<code, told>>

\* The time is over, or the request is cancelled before that.
Settle(r, ec) ==
  /\ Moves(r, "waiting", "settled")
  /\ code' = [code EXCEPT ![r] = ec]
  /\ told' = told

Tell(r) ==
  /\ Moves(r, "settled", "called")
  /\ told' = [told EXCEPT ![r] = code[r]]
  /\ code' = code

Next ==
  \E r \in Requests :
    Ask(r) \/ Tell(r) \/ \E ec \in {"ok", "operation_aborted"} : Settle(r, ec)

Spec == Init /\ [][Next]_<<stage, code, told>>
=============================================================================
