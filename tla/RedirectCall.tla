---------------------------- MODULE RedirectCall ----------------------------
(***************************************************************************)
(* RedirectCall of RedirectCall.h: calls that go through a function somebody *)
(* has set, or straight to their target.  The object has no lock; threads   *)
(* set it and call through it as they like.                                 *)
(*                                                                          *)
(* A redirect r stands for the three pointers given to one set: the object  *)
(* holds, field by field, whose pointer it has.  The call of a target with  *)
(* its arguments is the same for all overloads but for what they return,    *)
(* which is up to the function called.                                      *)
(***************************************************************************)
CONSTANTS
  Threads,
  Redirects,  \* redirects that are set
  NoRedirect  \* three null pointers

ASSUME RedirectAssumption == NoRedirect \notin Redirects

Fields == {"call_", "free_", "context_"}
Whose  == Redirects \cup {NoRedirect}

VARIABLES
  field,    \* the three fields
  at,       \* where each thread is
  given,    \* the argument of its set
  todo,     \* the fields it has yet to store, or to read
  got,      \* what it has read: whose call_, free_ and context_
  \* history
  newest,   \* the argument of the last set
  crossed,  \* two sets have overlapped
  disturbed \* threads whose call a set has overlapped with

redirectVars == <<field, at, given, todo, got, newest, crossed, disturbed>>

Unread == [f \in Fields |-> NoRedirect]

RedirectInit ==
  /\ \E r \in Whose : field = [f \in Fields |-> r] /\ newest = r  \* the constructor
  /\ at = [t \in Threads |-> "idle"]
  /\ given = [t \in Threads |-> NoRedirect]
  /\ todo = [t \in Threads |-> {}]
  /\ got = [t \in Threads |-> Unread]
  /\ crossed = FALSE
  /\ disturbed = {}

Setting == {t \in Threads : at[t] = "set"}

Go(t, place) == at' = [at EXCEPT ![t] = place]
-----------------------------------------------------------------------------
(* set(call, free, context) *)

\* Wrong on purpose: keeps free_ when there is nothing to call.
SetCalled(t, r) ==
  /\ at[t] = "idle"
  /\ Go(t, "set")
  /\ given' = [given EXCEPT ![t] = r]
  /\ todo' = [todo EXCEPT ![t] = IF r = NoRedirect THEN Fields \ {"free_"} ELSE Fields]
  /\ newest' = r
  /\ crossed' = (crossed \/ Setting # {})
  /\ disturbed' = Threads
  /\ UNCHANGED <<field, got>>

Set(t, r) ==
  /\ at[t] = "idle"
  /\ Go(t, "set")
  /\ given' = [given EXCEPT ![t] = r]
  /\ todo' = [todo EXCEPT ![t] = Fields]
  /\ newest' = r
  /\ crossed' = (crossed \/ Setting # {})
  /\ disturbed' = Threads
  /\ UNCHANGED <<field, got>>

\* One of the three stores; the compiler picks the order.
Store(t, f) ==
  /\ at[t] = "set"
  /\ f \in todo[t]
  /\ field' = [field EXCEPT ![f] = given[t]]
  /\ todo' = [todo EXCEPT ![t] = @ \ {f}]
  /\ UNCHANGED <<at, given, got, newest, crossed, disturbed>>

SetDone(t) ==
  /\ at[t] = "set"
  /\ todo[t] = {}
  /\ Go(t, "idle")
  /\ given' = [given EXCEPT ![t] = NoRedirect]
  /\ UNCHANGED <<field, todo, got, newest, crossed, disturbed>>
-----------------------------------------------------------------------------
(* call(f, ...) and free(context): a test of the pointer, then the call     *)
(* through it, for which it is read again.                                  *)

Begin(t, place) ==
  /\ at[t] = "idle"
  /\ Go(t, place)
  /\ disturbed' = IF Setting = {} THEN disturbed \ {t} ELSE disturbed \cup {t}
  /\ UNCHANGED <<field, given, todo, got, newest, crossed>>

Call(t) == Begin(t, "call")
Free(t) == Begin(t, "free")

\* Wrong on purpose: redirects whatever is set.
TestNothing(t) ==
  /\ at[t] = "call"
  /\ Go(t, "redirect") /\ todo' = [todo EXCEPT ![t] = {"call_", "context_"}]
  /\ UNCHANGED <<field, given, got, newest, crossed, disturbed>>

\* if (call_)
TestCall(t) ==
  /\ at[t] = "call"
  /\ \/ /\ field["call_"] # NoRedirect
        /\ Go(t, "redirect")
        /\ todo' = [todo EXCEPT ![t] = {"call_", "context_"}]
     \/ /\ field["call_"] = NoRedirect
        /\ Go(t, "direct")
        /\ UNCHANGED todo
  /\ UNCHANGED <<field, given, got, newest, crossed, disturbed>>

\* if (free_)
TestFree(t) ==
  /\ at[t] = "free"
  /\ \/ /\ field["free_"] # NoRedirect
        /\ Go(t, "redirect")
        /\ todo' = [todo EXCEPT ![t] = {"free_"}]
     \/ /\ field["free_"] = NoRedirect
        /\ Go(t, "idle")
        /\ UNCHANGED todo
  /\ UNCHANGED <<field, given, got, newest, crossed, disturbed>>

\* call_(context_, ...) reads two fields, free_(context) one.
Read(t, f) ==
  /\ at[t] = "redirect"
  /\ f \in todo[t]
  /\ got' = [got EXCEPT ![t][f] = field[f]]
  /\ todo' = [todo EXCEPT ![t] = @ \ {f}]
  /\ Go(t, IF todo[t] = {f} THEN "jump" ELSE "redirect")
  /\ UNCHANGED <<field, given, newest, crossed, disturbed>>

\* The function, or the target itself, returns.
Returns(t) ==
  /\ at[t] \in {"jump", "direct"}
  /\ Go(t, "idle")
  /\ got' = [got EXCEPT ![t] = Unread]
  /\ UNCHANGED <<field, given, todo, newest, crossed, disturbed>>
-----------------------------------------------------------------------------
RedirectNext ==
  \E t \in Threads :
    \/ \E r \in Whose : Set(t, r)
    \/ \E f \in Fields : Store(t, f) \/ Read(t, f)
    \/ SetDone(t)
    \/ Call(t)
    \/ Free(t)
    \/ TestCall(t)
    \/ TestFree(t)
    \/ Returns(t)

RedirectSpec == RedirectInit /\ [][RedirectNext]_redirectVars
-----------------------------------------------------------------------------
(* Properties. *)

\* Between sets the object is whole, as the last of them left it: no field
\* of an earlier redirect survives.  Sets that overlap may mix theirs for
\* good.
RedirectWhole == ~crossed /\ Setting = {} => field = [f \in Fields |-> newest]

\* A call that no set overlaps with jumps to a function of the redirect in
\* force, with the context that belongs to it, and past it only if there is
\* none.  This is what a test and two more reads without a lock can give.
CallsGoThrough ==
  \A t \in Threads \ disturbed :
    /\ ~crossed /\ at[t] = "jump" =>
         /\ newest # NoRedirect
         /\ {got[t][f] : f \in Fields} \subseteq {newest, NoRedirect}
         /\ got[t]["call_"] = got[t]["context_"]
         /\ got[t]["call_"] # got[t]["free_"]
    /\ ~crossed /\ at[t] = "direct" => newest = NoRedirect
=============================================================================
