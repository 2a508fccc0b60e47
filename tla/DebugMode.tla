----------------------------- MODULE DebugMode -----------------------------
(***************************************************************************)
(* What Debuger promises about the debug mode, without queues, answers or   *)
(* threads: there is one mode; every process either shows its log or does   *)
(* not; and whoever changes the mode puts every live process under the      *)
(* obligation to look at it again.  A process changes what it shows only    *)
(* while it owes a look, and is freed of the obligation only by a look that *)
(* found the current mode.                                                  *)
(***************************************************************************)
CONSTANT Procs

VARIABLES
  mode,  \* 0 or 1
  up,    \* live processes
  view,  \* processes that show their log
  owed   \* live processes that have yet to look

vars == <<mode, up, view, owed>>

Init ==
  /\ mode = 0
  /\ up = {}
  /\ view = {}
  /\ owed = {}

\* A process starts; one that starts alone may start from scratch.
Join(p) ==
  /\ p \notin up
  /\ up' = up \cup {p}
  /\ owed' = owed \cup {p}
  /\ view' = view
  /\ \/ mode' = mode
     \/ up = {} /\ mode' = 0

Change(b) ==
  /\ up # {}
  /\ mode' = b
  /\ owed' = up
  /\ UNCHANGED <<up, view>>

\* A look may find a mode that is no longer current; it then frees nobody.
Look(p, b) ==
  /\ p \in owed
  /\ view' = IF b = 1 THEN view \cup {p} ELSE view \ {p}
  /\ \/ owed' = owed
     \/ b = mode /\ owed' = owed \ {p}
  /\ UNCHANGED <<mode, up>>

\* A process may decide by itself to look again.
Reconsider(p) ==
  /\ p \in up
  /\ owed' = owed \cup {p}
  /\ UNCHANGED <<mode, up, view>>

Leave(p) ==
  /\ p \in up
  /\ up' = up \ {p}
  /\ view' = view \ {p}
  /\ owed' = owed \ {p}
  /\ mode' = mode

Next ==
  \/ \E b \in {0, 1} : Change(b)
  \/ \E p \in Procs :
       \/ Join(p)
       \/ \E b \in {0, 1} : Look(p, b)
       \/ Reconsider(p)
       \/ Leave(p)

Spec == Init /\ [][Next]_vars

\* Who owes no look shows what the mode says.
Agreement == \A p \in up \ owed : (p \in view) <=> (mode = 1)
=============================================================================
