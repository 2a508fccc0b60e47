---------------------------- MODULE PortManager ----------------------------
(***************************************************************************)
(* The ports of PortManager.cpp: an object of the shared segment that the   *)
(* first process to ask for it allocates and constructs, and the others     *)
(* look up.  alloc_with_id is atomic; the constructor runs after it, store  *)
(* by store, and nothing tells the others when it has ended.                *)
(*                                                                          *)
(* Debuger::Debuger makes its word (object 102) in the same way, which is   *)
(* this module with one type.                                               *)
(***************************************************************************)
CONSTANTS
  Procs,      \* processes that open the segment
  Types,      \* ModuleType: live, vod, alive
  Ports, None \* ports a caller may set, and the 0 of no port

ASSUME PortAssumption == None \notin Ports

VARIABLES
  pc,         \* where each process is
  allocated,  \* whether the segment holds object 107
  ports_,     \* its contents
  cleared,    \* the fields its constructor has stored
  \* history
  made,       \* a process has come to the end of the object's constructor
  early,      \* somebody looked the object up before all fields were stored
  last        \* the argument of the last set_port of each type

vars == <<pc, allocated, ports_, cleared, made, early, last>>

Init ==
  /\ pc = [p \in Procs |-> "down"]
  /\ allocated = FALSE
  /\ ports_ \in [Types -> Ports \cup {None}]
  /\ cleared = {}
  /\ made = FALSE
  /\ early = FALSE
  /\ last = [t \in Types |-> None]
-----------------------------------------------------------------------------
Goto(p, l) == pc' = [pc EXCEPT ![p] = l]

\* CommonModule opens the segment; it is a new one if nobody has it open.
Open(p) ==
  /\ pc[p] = "down"
  /\ Goto(p, "open")
  /\ allocated' = (allocated /\ \E q \in Procs : pc[q] # "down")
  /\ UNCHANGED <<ports_, cleared, made, early, last>>

\* alloc_with_id finds no object 107.  The memory it returns has any
\* contents.
Alloc(p) ==
  /\ pc[p] = "open"
  /\ ~allocated
  /\ allocated' = TRUE
  /\ ports_' \in [Types -> Ports \cup {None}]
  /\ cleared' = {}
  /\ made' = FALSE
  /\ early' = FALSE
  /\ last' = [t \in Types |-> None]
  /\ Goto(p, "construct")

AllocFails(p) ==
  /\ pc[p] = "open"
  /\ allocated
  /\ Goto(p, "lookup")
  /\ UNCHANGED <<allocated, ports_, cleared, made, early, last>>

\* One store of PortContainer's constructor; the compiler picks the order.
Clear(p, t) ==
  /\ pc[p] = "construct"
  /\ t \notin cleared
  /\ ports_' = [ports_ EXCEPT ![t] = None]
  /\ cleared' = cleared \cup {t}
  /\ UNCHANGED <<pc, allocated, made, early, last>>

ConstructDone(p) ==
  /\ pc[p] = "construct"
  /\ cleared = Types
  /\ made' = TRUE
  /\ Goto(p, "ready")
  /\ UNCHANGED <<allocated, ports_, cleared, early, last>>

\* Wrong on purpose: the constructor runs on a found object as well.
LookupAndClear(p) ==
  /\ pc[p] = "lookup"
  /\ Goto(p, "construct")
  /\ cleared' = {}
  /\ UNCHANGED <<allocated, ports_, made, early, last>>

\* get_by_id
Lookup(p) ==
  /\ pc[p] = "lookup"
  /\ Goto(p, "ready")
  /\ early' = (early \/ cleared # Types)
  /\ UNCHANGED <<allocated, ports_, cleared, made, last>>

\* get_port reads one field: what it returns is ports_[t].
set_port(p, t, port) ==
  /\ pc[p] = "ready"
  /\ ports_' = [ports_ EXCEPT ![t] = port]
  /\ last' = [last EXCEPT ![t] = port]
  /\ UNCHANGED <<pc, allocated, cleared, made, early>>

\* The process closes the segment, or dies, wherever it is: the object is
\* left as it is.
Leave(p) ==
  /\ pc[p] # "down"
  /\ Goto(p, "down")
  /\ UNCHANGED <<allocated, ports_, cleared, made, early, last>>

Next ==
  \E p \in Procs :
    \/ Open(p)
    \/ Alloc(p)
    \/ AllocFails(p)
    \/ \E t \in Types : Clear(p, t)
    \/ ConstructDone(p)
    \/ Lookup(p)
    \/ \E t \in Types, port \in Ports \cup {None} : set_port(p, t, port)
    \/ Leave(p)

Spec == Init /\ [][Next]_vars
-----------------------------------------------------------------------------
(* Properties. *)

\* Types; the constructor runs in at most one process, on an object that is
\* there, and once a process has come to its end no process runs it again.
PortTypeOK ==
  /\ pc \in [Procs -> {"down", "open", "construct", "lookup", "ready"}]
  /\ allocated \in BOOLEAN
  /\ ports_ \in [Types -> Ports \cup {None}]
  /\ cleared \subseteq Types
  /\ made \in BOOLEAN
  /\ early \in BOOLEAN
  /\ last \in [Types -> Ports \cup {None}]
  /\ \A p \in Procs : pc[p] \in {"construct", "lookup", "ready"} => allocated
  /\ \A p, q \in Procs :
       pc[p] = "construct" /\ pc[q] = "construct" => p = q
  /\ made => cleared = Types /\ \A p \in Procs : pc[p] # "construct"

\* What a process that has its PortManager gets for a type is what was set
\* last, by whatever process, or 0: processes that start, stop or die change
\* no port.  The exception is a process that got hold of the object before
\* its constructor had ended (or after it had died half way): from then on
\* anything may be read, and what was set may be wiped out.
PortsStand ==
  ~early /\ (\E p \in Procs : pc[p] = "ready") => ports_ = last
=============================================================================
