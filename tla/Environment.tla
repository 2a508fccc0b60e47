---------------------------- MODULE Environment ----------------------------
(***************************************************************************)
(* The constructor of Environment.cpp: the machine id mid is made of the    *)
(* hardware addresses of the network interfaces, in their order, as long as *)
(* mac has not reached 71 characters ("at most 4").                         *)
(*                                                                          *)
(* An address is known by the position of its interface; its text has 17    *)
(* characters, so a list of addresses stands for the text mac.              *)
(***************************************************************************)
EXTENDS Naturals, Sequences

CONSTANT MaxInfs  \* bound: interfaces

ASSUME EnvironmentAssumption == MaxInfs \in Nat

\* An interface is the loopback by name, has no hardware address, or has one.
Kinds == {"lo", "no_address", "usable"}

VARIABLES
  infs,  \* what enum_interface gives; <<>> too when it fails
  i,     \* the interface the loop is at
  mac,   \* the addresses in mac
  mid    \* those in mid, <<0>> for the made-up one; <<>> before it is set

environmentVars == <<infs, i, mac, mid>>

EnvironmentInit ==
  /\ infs \in UNION {[1..n -> Kinds] : n \in 0..MaxInfs}
  /\ i = 1
  /\ mac = <<>>
  /\ mid = <<>>

\* Characters of mac: addresses with a "|" between them.
size(m) == IF m = <<>> THEN 0 ELSE 18 * Len(m) - 1

Usable(k) == infs[k] = "usable"

\* Wrong on purpose: counts the "|" in, and so lets a fifth address in.
FullLate == size(mac) >= 72

\* mac.size() >= 71, looked at when an address has been added
Full == size(mac) >= 71

Looping == i <= Len(infs) /\ ~Full /\ mid = <<>>

\* One round of the loop.
NextInterface ==
  /\ Looping
  /\ mac' = IF Usable(i) THEN Append(mac, i) ELSE mac
  /\ i' = i + 1
  /\ UNCHANGED <<infs, mid>>

SetMid ==
  /\ ~Looping
  /\ mid = <<>>
  /\ mid' = IF mac = <<>> THEN <<0>> ELSE mac
  /\ UNCHANGED <<infs, i, mac>>

EnvironmentNext == NextInterface \/ SetMid

EnvironmentSpec == EnvironmentInit /\ [][EnvironmentNext]_environmentVars
-----------------------------------------------------------------------------
(* Properties. *)

\* What mid is made of: the usable interfaces, each once and in their order,
\* the first four of them at most ("at most 4", Environment.cpp:31), and the
\* made-up address exactly if there is none.
MidIsFirstFour ==
  mid # <<>> =>
    IF \E k \in 1..Len(infs) : Usable(k)
    THEN /\ Len(mid) \in 1..4
         /\ \A n \in 1..Len(mid) : mid[n] \in 1..Len(infs) /\ Usable(mid[n])
         /\ \A m, n \in 1..Len(mid) : m < n => mid[m] < mid[n]
         /\ \A k \in 1..Len(infs) :
              Usable(k) => \/ \E n \in 1..Len(mid) : mid[n] = k
                           \/ Len(mid) = 4 /\ mid[4] < k
    ELSE mid = <<0>>
=============================================================================
