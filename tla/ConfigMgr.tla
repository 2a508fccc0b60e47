----------------------------- MODULE ConfigMgr -----------------------------
(***************************************************************************)
(* ConfigMgr.cpp: settings sent from process to process.                    *)
(*                                                                          *)
(* set_config joins section, key and value with '|' and pushes the message  *)
(* to the queue of one process, or of all but its own.  The ConfigMgr of a  *)
(* process pops one message per tick, slices it at '|' and puts it in the   *)
(* configuration if it has three parts.                                     *)
(*                                                                          *)
(* The queues are those of Debuger: push and pop are atomic; a push that    *)
(* finds the segment full of other messages reaches nobody, or some of its  *)
(* receivers, and set_config does not look at what it returns; a queue may  *)
(* outlive its process.  Only messages of MSGTYPECONFIG appear here.        *)
(***************************************************************************)
EXTENDS Naturals, Sequences

CONSTANTS
  Procs,
  Names,    \* what a setting is for: section and key
  Values,   \* values without a '|'
  Piped,    \* values with a '|' in them
  Unset,    \* no value
  MaxSets   \* bound: calls of set_config

ASSUME ConfigAssumption ==
  /\ Unset \notin Values
  /\ Values \cap Piped = {}
  /\ MaxSets \in Nat

VARIABLES
  up,        \* processes that run
  timer_,    \* processes whose ConfigMgr has a timer
  attached,  \* processes whose queue is open in the segment
  queue,     \* MSGTYPECONFIG messages in the queue of each process
  config,    \* the configuration of each process
  \* history
  want,      \* for each process and name, the last three-part setting its
             \* queue took, unless an ended process took that along
  sets       \* what the bound counts

vars == <<up, timer_, attached, queue, config, want, sets>>

NoConfig == [n \in Names |-> Unset]

Init ==
  /\ up = {}
  /\ timer_ = {}
  /\ attached = {}
  /\ queue = [p \in Procs |-> <<>>]
  /\ config = [p \in Procs |-> NoConfig]
  /\ want = config
  /\ sets = 0
-----------------------------------------------------------------------------
Messages == [name : Names, value : Values \cup Piped]
Message(n, v) == [name |-> n, value |-> v]

\* The slices of section|key|value are three if no part has a '|' in it.
ThreeParts(msg) == msg.value \in Values

Put(c, msg) == IF ThreeParts(msg) THEN [c EXCEPT ![msg.name] = msg.value] ELSE c

\* The messages in the queue of p that will set n.
Coming(p, n) ==
  {i \in 1..Len(queue[p]) : queue[p][i].name = n /\ ThreeParts(queue[p][i])}

\* A process starts.  It finds the queue of its name as an ended process has
\* left it, or no segment at all.
Construct(p) ==
  /\ p \notin up
  /\ up' = up \cup {p}
  /\ \/ /\ up # {}
        /\ attached' = attached \cup {p}
        /\ UNCHANGED <<queue, want>>
     \/ /\ up = {}
        /\ attached' = {p}
        /\ queue' = [q \in Procs |-> <<>>]
        /\ want' = [q \in Procs |-> NoConfig]
  /\ UNCHANGED <<timer_, config, sets>>

startup(p) ==
  /\ p \in up \ timer_
  /\ timer_' = timer_ \cup {p}
  /\ UNCHANGED <<up, attached, queue, config, want, sets>>

shutdown(p) ==
  /\ p \in timer_
  /\ timer_' = timer_ \ {p}
  /\ UNCHANGED <<up, attached, queue, config, want, sets>>

\* The process ends, after shutdown or not, and its configuration with it.
\* Whether its queue and what is in it stay is up to the library.
Exit(p) ==
  /\ p \in up
  /\ up' = up \ {p}
  /\ timer_' = timer_ \ {p}
  /\ config' = [config EXCEPT ![p] = NoConfig]
  /\ \/ /\ want' = [want EXCEPT ![p] =
                        [n \in Names |-> IF Coming(p, n) = {} THEN Unset
                                                             ELSE want[p][n]]]
        /\ UNCHANGED <<attached, queue>>
     \/ /\ attached' = attached \ {p}
        /\ queue' = [queue EXCEPT ![p] = <<>>]
        /\ want' = [want EXCEPT ![p] = NoConfig]
  /\ UNCHANGED sets

\* A push reaches what open queues of the receivers have room, before
\* anything else is pushed.
set_config(p, receivers, n, v) ==
  /\ p \in up
  /\ sets < MaxSets
  /\ sets' = sets + 1
  /\ \E got \in SUBSET (receivers \cap attached) :
       /\ queue' = [q \in Procs |-> IF q \in got
                                      THEN Append(queue[q], Message(n, v))
                                      ELSE queue[q]]
       /\ want' = [q \in Procs |-> IF q \in got
                                     THEN Put(want[q], Message(n, v))
                                     ELSE want[q]]
  /\ UNCHANGED <<up, timer_, attached, config>>

\* Wrong on purpose: every timer tick takes the newest message.
handle_timer_newest(p) ==
  /\ p \in timer_
  /\ queue[p] # <<>>
  /\ config' = [config EXCEPT ![p] = Put(@, queue[p][Len(queue[p])])]
  /\ queue' = [queue EXCEPT ![p] = SubSeq(@, 1, Len(@) - 1)]
  /\ UNCHANGED <<up, timer_, attached, want, sets>>

\* Wrong on purpose: a message that is refused stays in the queue.
handle_timer_keep(p) ==
  /\ p \in timer_
  /\ queue[p] # <<>>
  /\ config' = [config EXCEPT ![p] = Put(@, Head(queue[p]))]
  /\ queue' = [queue EXCEPT ![p] = IF ThreeParts(Head(@)) THEN Tail(@) ELSE @]
  /\ UNCHANGED <<up, timer_, attached, want, sets>>

handle_timer(p) ==
  /\ p \in timer_
  /\ queue[p] # <<>>
  /\ config' = [config EXCEPT ![p] = Put(@, Head(queue[p]))]
  /\ queue' = [queue EXCEPT ![p] = Tail(@)]
  /\ UNCHANGED <<up, timer_, attached, want, sets>>

Next ==
  \E p \in Procs :
    \/ Construct(p)
    \/ startup(p)
    \/ shutdown(p)
    \/ Exit(p)
    \/ \E n \in Names, v \in Values \cup Piped :
         \/ \E q \in Procs : set_config(p, {q}, n, v)
         \/ set_config(p, Procs \ {p}, n, v)
    \/ handle_timer(p)

Spec == Init /\ [][Next]_vars

\* The io thread of a process keeps handling its timer.
FairSpec == Spec /\ \A p \in Procs : WF_vars(handle_timer(p))
-----------------------------------------------------------------------------
(* Properties. *)

ConfigTypeOK ==
  /\ up \subseteq attached
  /\ attached \subseteq Procs
  /\ timer_ \subseteq up
  /\ queue \in [Procs -> Seq(Messages)]
  /\ config \in [Procs -> [Names -> Values \cup {Unset}]]
  /\ want \in [Procs -> [Names -> Values \cup {Unset}]]
  /\ sets \in Nat

\* A configuration and the messages on their way to it add up to the last
\* setting of each name that the queue of the process took: settings are put
\* in the configuration in the order they were sent, whoever sent them, a
\* refused one or one that found no room disturbs no other, and those an
\* ended process has left in its queue come to the next one before, and never
\* after, those sent to that one.
LastSettingWins ==
  \A p \in Procs, n \in Names :
    \/ Coming(p, n) = {} /\ config[p][n] = want[p][n]
    \/ \E i \in Coming(p, n) :
         /\ queue[p][i].value = want[p][n]
         /\ \A j \in Coming(p, n) : j <= i

\* Every process that keeps its timer ends up with the last settings its
\* queue took.
SettingsArrive ==
  \A p \in Procs :
    <>[](p \in timer_) => <>[](p \in timer_ /\ config[p] = want[p])
=============================================================================
