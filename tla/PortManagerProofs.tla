------------------------- MODULE PortManagerProofs -------------------------
(***************************************************************************)
(* Proofs about PortManager, for any processes, types and ports.            *)
(***************************************************************************)
EXTENDS PortManager, TLAPS

\* While nobody came early, an object in use has all its fields stored, and
\* each field stored is what was set last.
SettledUnlessEarly ==
  ~early /\ allocated =>
    /\ \A p \in Procs : pc[p] = "ready" => cleared = Types
    /\ \A t \in cleared : ports_[t] = last[t]
    /\ cleared # Types => \A t \in Types : last[t] = None

\* The constructor is at work only on an object that was not used by then.
PortInv == PortTypeOK /\ SettledUnlessEarly

LEMMA PortInvInit == Init => PortInv
BY DEF Init, PortInv, PortTypeOK, SettledUnlessEarly

LEMMA PortInvStep == PortInv /\ [Next]_vars => PortInv'
<1>. SUFFICES ASSUME PortInv, [Next]_vars PROVE PortInv'
  OBVIOUS
<1>. USE DEF PortInv, PortTypeOK, SettledUnlessEarly, Goto
<1>1. ASSUME NEW p \in Procs, Open(p) PROVE PortInv'
  BY <1>1 DEF Open
<1>2. ASSUME NEW p \in Procs, Alloc(p) PROVE PortInv'
  BY <1>2 DEF Alloc
<1>3. ASSUME NEW p \in Procs, AllocFails(p) PROVE PortInv'
  BY <1>3 DEF AllocFails
<1>4. ASSUME NEW p \in Procs, NEW t \in Types, Clear(p, t) PROVE PortInv'
  BY <1>4 DEF Clear
<1>5. ASSUME NEW p \in Procs, ConstructDone(p) PROVE PortInv'
  BY <1>5 DEF ConstructDone
<1>6. ASSUME NEW p \in Procs, Lookup(p) PROVE PortInv'
  BY <1>6 DEF Lookup
<1>7. ASSUME NEW p \in Procs, NEW t \in Types, NEW port \in Ports \cup {None},
             set_port(p, t, port)
      PROVE PortInv'
  BY <1>7 DEF set_port
<1>8. ASSUME NEW p \in Procs, Leave(p) PROVE PortInv'
  BY <1>8 DEF Leave
<1>9. CASE UNCHANGED vars
  BY <1>9 DEF vars
<1>. QED
  BY <1>1, <1>2, <1>3, <1>4, <1>5, <1>6, <1>7, <1>8, <1>9 DEF Next

\* The constructor of the ports runs in one process at most, and not again
\* once it has ended.
THEOREM PortTypeCorrect == Spec => []PortTypeOK
<1>1. PortInv => PortTypeOK
  BY DEF PortInv
<1>. QED
  BY <1>1, PortInvInit, PortInvStep, PTL DEF Spec

\* A port stays what it was set to, whoever starts, stops or dies, unless a
\* process got hold of the ports before their constructor ended.
THEOREM PortsAreKept == Spec => []PortsStand
<1>1. PortInv => PortsStand
  BY DEF PortInv, PortTypeOK, SettledUnlessEarly, PortsStand
<1>. QED
  BY <1>1, PortInvInit, PortInvStep, PTL DEF Spec
=============================================================================
