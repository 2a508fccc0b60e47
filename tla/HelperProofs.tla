---------------------------- MODULE HelperProofs ----------------------------
(***************************************************************************)
(* Proofs about the parts that hold no lock and talk to no other process:   *)
(* HttpStatistics, Environment, RedirectCall, UrlDecode and UrlHelper.      *)
(***************************************************************************)
EXTENDS HttpStatistics, Environment, RedirectCall, UrlDecode, UrlHelper,
        SequenceTheorems, WellFoundedInduction, TLAPS
-----------------------------------------------------------------------------
(* HttpStatistics *)

Statistics == [begin : 0..now, last_error : Errors \cup {None}]

HttpTyped ==
  /\ now \in Nat
  /\ try_times \in Nat
  /\ since \in Nat
  /\ stat \in Statistics \cup {None}
  /\ base \in Statistics
  /\ first \in Statistics \cup {None}
  /\ total_elapse \in Nat \cup {None}
  /\ latest \in [error : Errors \cup {None}, by : {"stat", "ec"}, at : Nat] \cup {None}
  /\ last_last_error \in Errors \cup {None}

\* A try has ended once the counter is past the one that is running.
TriesCounted ==
  /\ stat # None => try_times >= 1
  /\ first = None => try_times = (IF stat = None THEN 0 ELSE 1)
  /\ first # None => try_times >= (IF stat = None THEN 1 ELSE 2)
  /\ first = None <=> total_elapse = None
  /\ first = None <=> latest = None

\* The history clock runs from the first try on, as elapse() of the inherited
\* part does.
RunsSince ==
  /\ try_times = 0 => since = 0
  /\ first = None /\ stat # None => since = now - stat.begin
  /\ first # None => since = now - first.begin /\ total_elapse = latest.at

\* The first try is also the last while there is only one.
OneTry == stat = None /\ try_times = 1 => latest.error = first.last_error

HttpInv ==
  /\ HttpTyped
  /\ TriesCounted
  /\ RunsSince
  /\ OneTry
  /\ FirstTryKept
  /\ LastErrorOrFirst

LEMMA HttpInvInit == HttpInit => HttpInv
BY HttpAssumption
DEF HttpInit, HttpInv, HttpTyped, Statistics, TriesCounted, RunsSince,
    OneTry, FirstTryKept, LastErrorOrFirst, Fresh

LEMMA HttpInvStep == HttpInv /\ [HttpNext]_httpVars => HttpInv'
<1>. SUFFICES ASSUME HttpInv, [HttpNext]_httpVars PROVE HttpInv'
  OBVIOUS
<1>. USE HttpAssumption
     DEF HttpInv, HttpTyped, Statistics, TriesCounted, RunsSince,
         OneTry, FirstTryKept, LastErrorOrFirst, thisVars, Fresh
<1>1. CASE Tick
  BY <1>1 DEF Tick
<1>2. CASE reset
  BY <1>2 DEF reset
<1>3. CASE begin_try
  <2>1. try_times = 0 <=> first = None
    <3>1. stat = None
      BY <1>3 DEF begin_try
    <3>2. first # None => try_times >= 1
      BY <3>1
    <3>3. first = None => try_times = 0
      BY <3>1
    <3>. QED
      BY <3>2, <3>3
  <2>2. stat' = [begin |-> now, last_error |-> None] /\ stat' # None
    BY <1>3 DEF begin_try
  <2>3a. HttpTyped'
    BY <1>3, <2>1, <2>2 DEF begin_try
  <2>3b. TriesCounted'
    BY <1>3, <2>1, <2>2 DEF begin_try
  <2>3c. RunsSince'
    BY <1>3, <2>1, <2>2 DEF begin_try
  <2>3. HttpTyped' /\ TriesCounted' /\ RunsSince'
    BY <2>3a, <2>3b, <2>3c
  <2>4. CASE first = None
    <3>1. first' = None /\ latest' = None
      BY <1>3, <2>4 DEF begin_try
    <3>. QED
      BY <2>3, <3>1
  <2>5. CASE first # None
    <3>1. UNCHANGED <<base, first, latest, last_last_error>>
      BY <1>3, <2>1, <2>5 DEF begin_try
    <3>2. stat = None /\ try_times >= 1 /\ try_times' = try_times + 1
      BY <1>3, <2>5 DEF begin_try
    <3>3. latest # None /\ (latest.by = "ec" \/ try_times = 1 => last_last_error = latest.error)
      BY <2>5, <3>2
    <3>3a. latest.by = "stat" => last_last_error = first.last_error
      BY <2>5, <3>2, <3>3
    <3>4. OneTry' /\ FirstTryKept' /\ LastErrorOrFirst'
      BY <2>2, <2>5, <3>1, <3>2, <3>3, <3>3a
    <3>. QED
      BY <2>3, <3>4
  <2>. QED
    BY <2>4, <2>5
<1>e. ASSUME NEW error \in Errors \cup {None}, NEW by \in {"stat", "ec"},
             end_try(error), Ended(error, by),
             last_last_error' = IF by = "stat" THEN base'.last_error ELSE error
      PROVE HttpInv'
  <2>. DEFINE s == [stat EXCEPT !.last_error = error]
  <2>1. /\ s \in Statistics
        /\ s.begin = stat.begin
        /\ s.last_error = error
        /\ s # None
    BY <1>e DEF end_try
  <2>2. /\ latest' = [error |-> error, by |-> by, at |-> since]
        /\ latest' # None
    BY <1>e DEF Ended
  <2>3. CASE first = None
    <3>1. try_times = 1 /\ base' = s /\ first' = s
      BY <1>e, <2>3 DEF end_try, copy
    <3>1a. /\ total_elapse' = now - s.begin
           /\ s.begin \in 0..now
           /\ stat' = None
           /\ UNCHANGED <<now, try_times, since>>
      BY <1>e, <2>1, <3>1 DEF end_try
    <3>1b. s \in [begin : 0..now, last_error : Errors \cup {None}]
      BY <2>1
    <3>. HIDE DEF s
    <3>2a. HttpTyped'
      <4>1. last_last_error' \in Errors \cup {None}
        BY <1>e, <2>1, <3>1
      <4>2. latest' \in [error : Errors \cup {None}, by : {"stat", "ec"}, at : Nat]
        BY <2>2
      <4>3. total_elapse' \in Nat
        BY <3>1a
      <4>. QED
        BY <3>1, <3>1a, <3>1b, <4>1, <4>2, <4>3
    <3>2b. TriesCounted'
      BY <1>e, <2>1, <2>2, <2>3, <3>1 DEF end_try
    <3>2c. RunsSince'
      BY <1>e, <2>1, <2>2, <2>3, <3>1 DEF end_try
    <3>2. HttpTyped' /\ TriesCounted' /\ RunsSince'
      BY <3>2a, <3>2b, <3>2c
    <3>3. OneTry' /\ FirstTryKept' /\ LastErrorOrFirst'
      BY <1>e, <2>1, <2>2, <2>3, <3>1 DEF end_try
    <3>. QED
      BY <3>2, <3>3
  <2>4. CASE first # None
    <3>1. try_times # 1 /\ base' = base /\ first' = first /\ base = first
      BY <1>e, <2>4 DEF end_try, copy
    <3>2. HttpTyped' /\ TriesCounted' /\ RunsSince'
      BY <1>e, <2>2, <2>4, <3>1 DEF end_try
    <3>3. OneTry' /\ FirstTryKept' /\ LastErrorOrFirst'
      BY <1>e, <2>2, <2>4, <3>1 DEF end_try
    <3>. QED
      BY <3>2, <3>3
  <2>. QED
    BY <2>3, <2>4
<1>4. ASSUME NEW error \in Errors \cup {None}, end_try_counted(error)
      PROVE HttpInv'
  BY <1>4, <1>e DEF end_try_counted
<1>5. ASSUME NEW error \in Errors \cup {None}, end_try_told(error)
      PROVE HttpInv'
  BY <1>5, <1>e DEF end_try_told
<1>6. CASE UNCHANGED httpVars
  BY <1>6 DEF httpVars
<1>. QED
  BY <1>1, <1>2, <1>3, <1>4, <1>5, <1>6 DEF HttpNext

LEMMA HttpInvAlways == HttpSpec => []HttpInv
BY HttpInvInit, HttpInvStep, PTL DEF HttpSpec

\* The inherited statistics are those of the first try, however many follow.
THEOREM FirstOfAll == HttpSpec => []FirstTryKept
<1>1. HttpInv => FirstTryKept
  BY DEF HttpInv
<1>. QED
  BY <1>1, HttpInvAlways, PTL

\* total_elapse is the time from the beginning of the first try to the end of
\* the last.
THEOREM ElapseCovers == HttpSpec => []TotalCoversTries
<1>1. HttpInv => TotalCoversTries
  BY DEF HttpInv, TriesCounted, RunsSince, TotalCoversTries
<1>. QED
  BY <1>1, HttpInvAlways, PTL

\* last_last_error is the last error only if end_try was told it, or there
\* was one try; otherwise it is the first.
THEOREM LastErrorTold == HttpSpec => []LastErrorOrFirst
<1>1. HttpInv => LastErrorOrFirst
  BY DEF HttpInv
<1>. QED
  BY <1>1, HttpInvAlways, PTL
-----------------------------------------------------------------------------
(* Environment *)

\* mac holds the usable interfaces among those the loop is past, in order.
Collected ==
  /\ infs \in Seq(Kinds)
  /\ i \in 1..Len(infs) + 1
  /\ mac \in Seq(1..Len(infs))
  /\ Len(mac) <= 4
  /\ \A n \in 1..Len(mac) : mac[n] < i /\ Usable(mac[n])
  /\ \A m, n \in 1..Len(mac) : m < n => mac[m] < mac[n]
  /\ \A k \in 1..i - 1 : Usable(k) => \E n \in 1..Len(mac) : mac[n] = k

\* mid is set when the loop has ended, by the list or by its length.
MidSet ==
  mid # <<>> =>
    /\ i = Len(infs) + 1 \/ Len(mac) = 4
    /\ mid = IF mac = <<>> THEN <<0>> ELSE mac

EnvironmentInv == Collected /\ MidSet

LEMMA UpToFour ==
  \A n \in Nat : n <= 4 => (n # 0 => n \in 1..4) /\ (n >= 4 => n = 4)
OBVIOUS

LEMMA EnvironmentInvInit == EnvironmentInit => EnvironmentInv
<1>. SUFFICES ASSUME EnvironmentInit PROVE EnvironmentInv
  OBVIOUS
<1>1. PICK n \in 0..MaxInfs : infs \in [1..n -> Kinds]
  BY DEF EnvironmentInit
<1>2. n \in Nat
  BY <1>1, EnvironmentAssumption
<1>3. infs \in Seq(Kinds) /\ Len(infs) = n
  BY <1>1, <1>2
<1>4. i = 1 /\ mac = <<>> /\ mid = <<>>
  BY DEF EnvironmentInit
<1>5. mac \in Seq(1..Len(infs)) /\ Len(mac) = 0
  BY <1>4
<1>. QED
  BY <1>3, <1>4, <1>5 DEF EnvironmentInv, Collected, MidSet

LEMMA EnvironmentInvStep ==
  EnvironmentInv /\ [EnvironmentNext]_environmentVars => EnvironmentInv'
<1>. SUFFICES ASSUME EnvironmentInv, [EnvironmentNext]_environmentVars
              PROVE EnvironmentInv'
  OBVIOUS
<1>. USE DEF EnvironmentInv
<1>0. /\ mac \in Seq(1..Len(infs)) /\ Len(mac) \in Nat /\ Len(infs) \in Nat
      /\ Len(mac) <= 4
      /\ i \in 1..Len(infs) + 1
      /\ \A n \in 1..Len(mac) : mac[n] \in 1..Len(infs) /\ mac[n] < i
  <2>1. mac \in Seq(1..Len(infs)) /\ infs \in Seq(Kinds) /\ i \in 1..Len(infs) + 1
    BY DEF Collected
  <2>2. Len(mac) \in Nat /\ Len(infs) \in Nat
    BY <2>1, LenProperties
  <2>3. \A n \in 1..Len(mac) : mac[n] \in 1..Len(infs)
    BY <2>1, ElementOfSeq
  <2>4. Len(mac) <= 4 /\ \A n \in 1..Len(mac) : mac[n] < i
    BY DEF Collected
  <2>. QED
    BY <2>1, <2>2, <2>3, <2>4
<1>1. Full <=> Len(mac) >= 4
  BY <1>0 DEF Full, size
<1>2. CASE NextInterface
  <2>1. Len(mac) < 4 /\ i <= Len(infs) /\ mid = <<>>
    BY <1>0, <1>1, <1>2 DEF NextInterface, Looping
  <2>2. UNCHANGED <<infs, mid>> /\ i' = i + 1 /\ i \in 1..Len(infs)
    BY <1>2, <2>1 DEF NextInterface, Collected
  <2>3. CASE Usable(i)
    <3>1. mac' = Append(mac, i)
      BY <1>2, <2>3 DEF NextInterface
    <3>2. /\ mac' \in Seq(1..Len(infs))
          /\ Len(mac') = Len(mac) + 1
          /\ \A n \in 1..Len(mac) : mac'[n] = mac[n]
          /\ mac'[Len(mac) + 1] = i
      BY <1>0, <2>2, <3>1
    <3>3. \A n \in 1..Len(mac) + 1 :
            mac'[n] = IF n = Len(mac) + 1 THEN i ELSE mac[n]
      <4>1. \A n \in 1..Len(mac) + 1 : n # Len(mac) + 1 => n \in 1..Len(mac)
        BY <1>0
      <4>. QED
        BY <3>2, <4>1
    <3>4. \A n \in 1..Len(mac') : mac'[n] < i' /\ Usable(mac'[n])
      <4>. SUFFICES ASSUME NEW n \in 1..Len(mac') PROVE mac'[n] < i' /\ Usable(mac'[n])
        OBVIOUS
      <4>1. CASE n = Len(mac) + 1
        BY <1>0, <2>2, <2>3, <3>3, <4>1
      <4>2. CASE n # Len(mac) + 1
        <5>1. n \in 1..Len(mac) /\ mac'[n] = mac[n]
          BY <1>0, <3>2, <4>2
        <5>. QED
          BY <1>0, <2>2, <5>1 DEF Collected
      <4>. QED
        BY <4>1, <4>2
    <3>5. \A m, n \in 1..Len(mac') : m < n => mac'[m] < mac'[n]
      <4>. SUFFICES ASSUME NEW m \in 1..Len(mac'), NEW n \in 1..Len(mac'), m < n
                    PROVE mac'[m] < mac'[n]
        OBVIOUS
      <4>1. m \in 1..Len(mac) /\ mac'[m] = mac[m]
        <5>1. m < Len(mac) + 1 /\ m >= 1 /\ m \in Nat
          BY <1>0, <3>2
        <5>2. m \in 1..Len(mac)
          BY <1>0, <5>1
        <5>. QED
          BY <3>2, <5>2
      <4>2. CASE n = Len(mac) + 1
        <5>1. mac'[n] = i /\ mac[m] < i
          BY <1>0, <3>2, <4>1, <4>2
        <5>. QED
          BY <4>1, <5>1
      <4>3. CASE n # Len(mac) + 1
        <5>1. n \in 1..Len(mac)
          BY <1>0, <3>2, <4>3
        <5>2. mac'[n] = mac[n]
          BY <3>2, <5>1
        <5>. QED
          BY <4>1, <5>1, <5>2 DEF Collected
      <4>. QED
        BY <4>2, <4>3
    <3>6. ASSUME NEW k \in 1..i' - 1, Usable(k)
          PROVE \E n \in 1..Len(mac') : mac'[n] = k
      <4>1. CASE k = i
        <5>1. Len(mac) + 1 \in 1..Len(mac')
          BY <1>0, <3>2
        <5>. QED
          BY <3>2, <4>1, <5>1
      <4>2. CASE k # i
        <5>1. k \in 1..i - 1
          BY <2>2, <4>2
        <5>2. PICK n \in 1..Len(mac) : mac[n] = k
          BY <3>6, <5>1 DEF Collected
        <5>. QED
          BY <1>0, <3>2, <5>2
      <4>. QED
        BY <4>1, <4>2
    <3>7. Collected'
      BY <1>0, <2>1, <2>2, <3>2, <3>4, <3>5, <3>6 DEF Collected, Usable
    <3>. QED
      BY <2>1, <2>2, <3>7 DEF MidSet
  <2>4. CASE ~Usable(i)
    <3>1. mac' = mac
      BY <1>2, <2>4 DEF NextInterface
    <3>2. Collected'
      BY <1>0, <2>1, <2>2, <2>4, <3>1 DEF Collected, Usable
    <3>. QED
      BY <2>1, <2>2, <3>2 DEF MidSet
  <2>. QED
    BY <2>3, <2>4
<1>3. CASE SetMid
  <2>1. i > Len(infs) \/ Len(mac) = 4
    <3>1. ~(i <= Len(infs) /\ ~Full)
      BY <1>3 DEF SetMid, Looping
    <3>2. CASE Full
      <4>1. Len(mac) >= 4
        BY <1>1, <3>2
      <4>2. Len(mac) \in Nat /\ Len(mac) <= 4
        BY <1>0
      <4>. QED
        BY <4>1, <4>2, UpToFour
    <3>3. CASE ~Full
      <4>1. ~(i <= Len(infs)) /\ i \in Nat /\ Len(infs) \in Nat
        BY <1>0, <3>1, <3>3
      <4>. QED
        BY <4>1
    <3>. QED
      BY <3>2, <3>3
  <2>2. UNCHANGED <<infs, i, mac>> /\ mid' = IF mac = <<>> THEN <<0>> ELSE mac
    BY <1>3 DEF SetMid
  <2>3. Collected'
    BY <2>2 DEF Collected, Usable
  <2>4. MidSet'
    BY <1>0, <2>1, <2>2 DEF Collected, MidSet
  <2>. QED
    BY <2>3, <2>4
<1>4. CASE UNCHANGED environmentVars
  BY <1>4 DEF environmentVars, Collected, MidSet, Usable
<1>. QED
  BY <1>2, <1>3, <1>4 DEF EnvironmentNext

\* The machine id is made of the first four usable interfaces, of all if
\* there are fewer, and is made up only if there is none.
THEOREM MidOfFirstFour == EnvironmentSpec => []MidIsFirstFour
<1>1. EnvironmentInv => MidIsFirstFour
  <2>. SUFFICES ASSUME EnvironmentInv, mid # <<>> PROVE MidIsFirstFour
    BY DEF MidIsFirstFour
  <2>. USE DEF EnvironmentInv, Collected, MidSet, Usable
  <2>1. CASE mac = <<>>
    <3>1. Len(mac) = 0 /\ i = Len(infs) + 1 /\ mid = <<0>>
      BY <2>1
    <3>2. \A k \in 1..Len(infs) : ~Usable(k)
      BY <3>1
    <3>. QED
      BY <3>1, <3>2 DEF MidIsFirstFour
  <2>2. CASE mac # <<>>
    <3>1. mid = mac /\ Len(mac) \in 1..4
      <4>1. mac \in Seq(1..Len(infs)) /\ Len(mac) <= 4
        OBVIOUS
      <4>2. Len(mac) \in Nat /\ Len(mac) # 0
        BY <2>2, <4>1, EmptySeq
      <4>3. mid = mac
        BY <2>2
      <4>. QED
        BY <4>1, <4>2, <4>3, UpToFour
    <3>2. \E k \in 1..Len(infs) : Usable(k)
      BY <3>1
    <3>3. ASSUME NEW k \in 1..Len(infs), Usable(k)
          PROVE (\E n \in 1..Len(mac) : mac[n] = k) \/ (Len(mac) = 4 /\ mac[4] < k)
      <4>1. CASE k < i
        <5>1. k \in 1..i - 1
          BY <4>1
        <5>. QED
          BY <3>3, <5>1
      <4>2. CASE ~(k < i)
        <5>1. Len(mac) = 4
          BY <4>2
        <5>2. mac[4] < i /\ mac[4] \in 1..Len(infs)
          BY <3>1, <5>1, ElementOfSeq
        <5>. QED
          BY <4>2, <5>1, <5>2
      <4>. QED
        BY <4>1, <4>2
    <3>. QED
      BY <3>1, <3>2, <3>3 DEF MidIsFirstFour
  <2>. QED
    BY <2>1, <2>2
<1>. QED
  BY <1>1, EnvironmentInvInit, EnvironmentInvStep, PTL DEF EnvironmentSpec
-----------------------------------------------------------------------------
(* RedirectCall *)

RedirectTyped ==
  /\ field \in [Fields -> Whose]
  /\ at \in [Threads -> {"idle", "set", "call", "free", "redirect", "direct", "jump"}]
  /\ given \in [Threads -> Whose]
  /\ todo \in [Threads -> SUBSET Fields]
  /\ got \in [Threads -> [Fields -> Whose]]
  /\ newest \in Whose
  /\ disturbed \subseteq Threads

\* While sets do not overlap one at most is at work, with the newest
\* redirect, and what it has not yet to store is in place.
OneSet ==
  ~crossed =>
    /\ \A t, u \in Setting : t = u
    /\ \A t \in Setting :
         /\ given[t] = newest
         /\ \A f \in Fields \ todo[t] : field[f] = newest
    /\ Setting = {} => \A f \in Fields : field[f] = newest

\* Whom no set has disturbed is in the middle of none.
Undisturbed == Setting # {} => Threads \subseteq disturbed

\* What a call is to read of one redirect: what to call with its context,
\* or what to free with.
Wanted == {{"call_", "context_"}, {"free_"}}

\* A thread in a call has read of the newest redirect what it has read.
ReadsOf(t) ==
  /\ at[t] \in {"idle", "set", "call", "free", "direct"} => got[t] = Unread
  /\ ~crossed /\ t \notin disturbed =>
       /\ at[t] = "direct" => newest = NoRedirect
       /\ at[t] \in {"redirect", "jump"} =>
            /\ newest # NoRedirect
            /\ \E w \in Wanted :
                 /\ todo[t] \subseteq w
                 /\ at[t] = "jump" => todo[t] = {}
                 /\ \A f \in Fields :
                      got[t][f] = IF f \in w \ todo[t] THEN newest ELSE NoRedirect

ReadsNewest == \A t \in Threads : ReadsOf(t)

RedirectInv == RedirectTyped /\ OneSet /\ Undisturbed /\ ReadsNewest

LEMMA RedirectInvInit == RedirectInit => RedirectInv
BY DEF RedirectInit, RedirectInv, RedirectTyped, OneSet, Undisturbed,
       ReadsNewest, ReadsOf, Setting, Unread, Whose

LEMMA RedirectInvStep == RedirectInv /\ [RedirectNext]_redirectVars => RedirectInv'
<1>. SUFFICES ASSUME RedirectInv, [RedirectNext]_redirectVars PROVE RedirectInv'
  OBVIOUS
<1>. USE RedirectAssumption
     DEF RedirectInv, RedirectTyped, OneSet, Undisturbed, ReadsNewest, ReadsOf, Setting,
         Go, Unread, Whose
<1>1. ASSUME NEW t \in Threads, NEW r \in Whose, Set(t, r) PROVE RedirectInv'
  BY <1>1 DEF Set
<1>2. ASSUME NEW t \in Threads, NEW f \in Fields, Store(t, f) PROVE RedirectInv'
  BY <1>2 DEF Store
<1>3. ASSUME NEW t \in Threads, SetDone(t) PROVE RedirectInv'
  BY <1>3 DEF SetDone
<1>4. ASSUME NEW t \in Threads, Call(t) PROVE RedirectInv'
  BY <1>4 DEF Call, Begin
<1>5. ASSUME NEW t \in Threads, Free(t) PROVE RedirectInv'
  BY <1>5 DEF Free, Begin
<1>6. ASSUME NEW t \in Threads, TestCall(t) PROVE RedirectInv'
  BY <1>6 DEF TestCall, Wanted, Fields
<1>7. ASSUME NEW t \in Threads, TestFree(t) PROVE RedirectInv'
  <2>1. RedirectTyped' /\ OneSet' /\ Undisturbed'
    BY <1>7 DEF TestFree, Fields
  <2>2. /\ UNCHANGED <<got, newest, crossed, disturbed>>
        /\ \A u \in Threads \ {t} : at'[u] = at[u] /\ todo'[u] = todo[u]
        /\ at[t] = "free"
    BY <1>7 DEF TestFree
  <2>3. ASSUME NEW u \in Threads \ {t} PROVE ReadsOf(u)'
    <3>1. ReadsOf(u)
      BY DEF ReadsNewest
    <3>. QED
      BY <2>2, <3>1
  <2>4. CASE field["free_"] = NoRedirect
    <3>1. at'[t] = "idle" /\ got[t] = Unread
      BY <1>7, <2>4 DEF TestFree
    <3>2. ReadsOf(t)'
      BY <2>2, <3>1
    <3>. HIDE DEF ReadsOf
    <3>. QED
      BY <2>1, <2>3, <3>2 DEF ReadsNewest
  <2>5. CASE field["free_"] # NoRedirect
    <3>1. at'[t] = "redirect" /\ todo'[t] = {"free_"} /\ got[t] = Unread
      BY <1>7, <2>5 DEF TestFree
    <3>2. ~crossed /\ t \notin disturbed => newest # NoRedirect
      BY <2>2, <2>5 DEF Fields
    <3>3. {"free_"} \in Wanted
      BY DEF Wanted
    <3>4. \A f \in Fields : got'[t][f] = NoRedirect /\ f \notin {"free_"} \ todo'[t]
      BY <2>2, <3>1
    <3>5. ReadsOf(t)'
      BY <2>2, <3>1, <3>2, <3>3, <3>4
    <3>. HIDE DEF ReadsOf
    <3>. QED
      BY <2>1, <2>3, <3>5 DEF ReadsNewest
  <2>. QED
    BY <2>4, <2>5
<1>8. ASSUME NEW t \in Threads, NEW f \in Fields, Read(t, f) PROVE RedirectInv'
  <2>1. RedirectTyped'
    BY <1>8 DEF Read
  <2>2. OneSet' /\ Undisturbed'
    BY <1>8 DEF Read
  <2>3. /\ UNCHANGED <<newest, crossed, disturbed>>
        /\ \A u \in Threads \ {t} : at'[u] = at[u] /\ todo'[u] = todo[u] /\ got'[u] = got[u]
        /\ at[t] = "redirect" /\ at'[t] \in {"redirect", "jump"}
        /\ at'[t] = "jump" => todo'[t] = {}
        /\ f \in todo[t] /\ todo'[t] = todo[t] \ {f}
        /\ got'[t] = [got[t] EXCEPT ![f] = field[f]]
    BY <1>8 DEF Read
  <2>4. ASSUME ~crossed, t \notin disturbed
        PROVE /\ newest # NoRedirect
              /\ \E w \in Wanted :
                   /\ todo'[t] \subseteq w
                   /\ at'[t] = "jump" => todo'[t] = {}
                   /\ \A g \in Fields :
                        got'[t][g] = IF g \in w \ todo'[t] THEN newest ELSE NoRedirect
    <3>1. newest # NoRedirect
      BY <2>3, <2>4
    <3>2. PICK w \in Wanted :
            /\ todo[t] \subseteq w
            /\ \A g \in Fields :
                 got[t][g] = IF g \in w \ todo[t] THEN newest ELSE NoRedirect
      BY <2>3, <2>4
    <3>3. field[f] = newest
      BY <2>4
    <3>4. \A g \in Fields : got'[t][g] = IF g = f THEN field[f] ELSE got[t][g]
      BY <2>3
    <3>5. \A g \in Fields :
            got'[t][g] = IF g \in w \ todo'[t] THEN newest ELSE NoRedirect
      BY <2>3, <3>2, <3>3, <3>4
    <3>. QED
      BY <2>3, <3>1, <3>2, <3>5
  <2>5. ASSUME NEW u \in Threads \ {t} PROVE ReadsOf(u)'
    <3>1. ReadsOf(u)
      BY DEF ReadsNewest
    <3>2. at'[u] = at[u] /\ todo'[u] = todo[u] /\ got'[u] = got[u]
      BY <2>3
    <3>3. UNCHANGED <<newest, crossed, disturbed>>
      BY <2>3
    <3>. HIDE DEF RedirectInv
    <3>. QED
      BY <3>1, <3>2, <3>3
  <2>6. ReadsOf(t)'
    BY <2>3, <2>4
  <2>. HIDE DEF ReadsOf
  <2>. QED
    BY <2>1, <2>2, <2>5, <2>6 DEF ReadsNewest
<1>9. ASSUME NEW t \in Threads, Returns(t) PROVE RedirectInv'
  BY <1>9 DEF Returns
<1>10. CASE UNCHANGED redirectVars
  BY <1>10 DEF redirectVars
<1>. QED
  BY <1>1, <1>2, <1>3, <1>4, <1>5, <1>6, <1>7, <1>8, <1>9, <1>10 DEF RedirectNext

\* Between sets that do not overlap the three pointers belong together.
THEOREM OneRedirect == RedirectSpec => []RedirectWhole
<1>1. RedirectInv => RedirectWhole
  BY DEF RedirectInv, RedirectTyped, OneSet, RedirectWhole
<1>. QED
  BY <1>1, RedirectInvInit, RedirectInvStep, PTL DEF RedirectSpec

\* A call that no set overlaps with goes where the redirect in force says.
THEOREM CallsAreRedirected == RedirectSpec => []CallsGoThrough
<1>1. RedirectInv => CallsGoThrough
  BY DEF RedirectInv, RedirectTyped, ReadsNewest, ReadsOf, CallsGoThrough, Wanted, Fields
<1>. QED
  BY <1>1, RedirectInvInit, RedirectInvStep, PTL DEF RedirectSpec
-----------------------------------------------------------------------------
(* UrlDecode *)

\* The url is a record, and the blobs and the parameters are functions.
Shaped ==
  /\ url = [valid |-> url.valid, path |-> url.path, param |-> url.param]
  /\ url.param = [n \in Names |-> url.param[n]]
  /\ store = [k \in Keys |-> store[k]]

LEMMA ShapedInit == DecodeInit => Shaped
BY DEF DecodeInit, Shaped, Urls, BS!Init

\* A call of BlobManager that is no insert takes out at most the blob it
\* returns, and that only if it is a one-shot blob.
LEMMA GetTakesOnce ==
  ASSUME Shaped, NEW k, BS!Get(k)
  PROVE  /\ store' = [q \in Keys |-> store'[q]]
         /\ answer'.code # "ok" => store' = store
         /\ \A q \in Keys : store'[q] # store[q] =>
              q = k /\ store[q].once /\ answer'.data = store[q].data
<1>1. CASE store' = store /\ answer' = BS!Reply("get", "item_not_exist", NULL)
  BY <1>1 DEF Shaped
<1>2. CASE /\ store[k] # NULL
           /\ answer' = BS!Reply("get", "ok", store[k].data)
           /\ store' = IF store[k].once THEN [store EXCEPT ![k] = NULL] ELSE store
  BY <1>2 DEF Shaped, BS!Reply
<1>. QED
  BY <1>1, <1>2 DEF BS!Get

\* So does decode: with an error it takes out nothing.
LEMMA DecodeTakesOnce ==
  ASSUME Shaped, NEW t, NEW out, NEW ec, decode(t, out, ec)
  PROVE  /\ store' = [q \in Keys |-> store'[q]]
         /\ ec # "ok" => store' = store
         /\ \A q \in Keys : store'[q] # store[q] => store[q].once /\ out = store[q].data
<1>1. CASE UNCHANGED <<store, answer>>
  BY <1>1 DEF Shaped
<1>2. CASE BS!Get(t.body) /\ out = answer'.data /\ ec = answer'.code
  BY <1>2, GetTakesOnce
<1>. QED
  BY <1>1, <1>2 DEF decode

LEMMA ShapedStep == Shaped /\ [DecodeNext]_decodeVars => Shaped'
<1>. SUFFICES ASSUME Shaped, [DecodeNext]_decodeVars PROVE Shaped'
  OBVIOUS
<1>1. CASE Between
  <2>1. CASE /\ url' \in Urls
             /\ UNCHANGED <<store, answer>>
    BY <2>1 DEF Shaped, Urls
  <2>2. CASE BS!Next /\ UNCHANGED url
    <3>1. store' = [k \in Keys |-> store'[k]]
      <4>1. ASSUME NEW k \in Keys, NEW b, BS!Insert(k, b) PROVE store' = [q \in Keys |-> store'[q]]
        BY <4>1 DEF Shaped, BS!Insert
      <4>2. ASSUME NEW k \in Keys, BS!Get(k) PROVE store' = [q \in Keys |-> store'[q]]
        BY <4>2, GetTakesOnce
      <4>3. ASSUME NEW k \in Keys, BS!Remove(k) PROVE store' = [q \in Keys |-> store'[q]]
        BY <4>3 DEF Shaped, BS!Remove
      <4>. QED
        BY <2>2, <4>1, <4>2, <4>3 DEF BS!Next
    <3>. QED
      BY <2>2, <3>1 DEF Shaped
  <2>. QED
    BY <1>1, <2>1, <2>2 DEF Between
<1>2. CASE decode_url
  <2>1. CASE UNCHANGED <<url, store, answer>>
    BY <2>1 DEF Shaped
  <2>2. ASSUME NEW out \in Outputs, NEW ec \in Codes, decode(url.path, out, ec),
               url' = IF ec # "ok" THEN url
                      ELSE [url EXCEPT
                              !.path = Path(out),
                              !.param = [n \in Names |->
                                           IF n \in DOMAIN Parameters(out)
                                             THEN Parameters(out)[n] ELSE @[n]]]
        PROVE Shaped'
    <3>1. store' = [k \in Keys |-> store'[k]]
      BY <2>2, DecodeTakesOnce
    <3>. QED
      BY <2>2, <3>1 DEF Shaped
  <2>. QED
    BY <1>2, <2>1, <2>2 DEF decode_url
<1>3. ASSUME NEW n \in Names, decode_param(n) PROVE Shaped'
  <2>1. PICK out \in Outputs, ec \in Codes :
          /\ decode(url.param[n], out, ec)
          /\ url' = IF ec # "ok" THEN url ELSE [url EXCEPT !.param[n] = out]
    BY <1>3 DEF decode_param
  <2>2. store' = [k \in Keys |-> store'[k]]
    BY <2>1, DecodeTakesOnce
  <2>. QED
    BY <2>1, <2>2 DEF Shaped
<1>4. CASE UNCHANGED decodeVars
  BY <1>4 DEF decodeVars, Shaped
<1>. QED
  BY <1>1, <1>2, <1>3, <1>4 DEF DecodeNext

\* Decoding is all or nothing: an error leaves the url and the blobs alone,
\* and a blob that goes is in the url.
THEOREM DecodedOrNot == DecodeSpec => NothingHalfDone
<1>. DEFINE Whole ==
       /\ ret'.ec \notin {"ok", "none"} => UNCHANGED <<url, store>>
       /\ \A k \in Keys :
             ret'.ec # "none" /\ store'[k] # store[k] =>
               /\ store[k].once
               /\ \/ url'.path = Path(store[k].data)
                  \/ \E n \in Names : url'.param[n] = store[k].data
<1>1. Shaped /\ [DecodeNext]_decodeVars => [Whole]_decodeVars
  <2>. SUFFICES ASSUME Shaped, DecodeNext PROVE Whole
    OBVIOUS
  <2>1. CASE Between
    BY <2>1 DEF Between
  <2>2. CASE decode_url
    <3>1. CASE UNCHANGED <<url, store, answer>>
      BY <3>1
    <3>2. ASSUME NEW out \in Outputs, NEW ec \in Codes, decode(url.path, out, ec),
                 ret' = [ok |-> TRUE, ec |-> ec],
                 url' = IF ec # "ok" THEN url
                        ELSE [url EXCEPT
                                !.path = Path(out),
                                !.param = [n \in Names |->
                                             IF n \in DOMAIN Parameters(out)
                                               THEN Parameters(out)[n] ELSE @[n]]]
          PROVE Whole
      <4>1. ec # "ok" => UNCHANGED <<url, store>>
        BY <3>2, DecodeTakesOnce
      <4>2. ec = "ok" => url'.path = Path(out)
        BY <3>2 DEF Shaped
      <4>3. \A q \in Keys : store'[q] # store[q] => store[q].once /\ out = store[q].data
        BY <3>2, DecodeTakesOnce
      <4>4. ret'.ec = ec
        BY <3>2
      <4>. QED
        BY <4>1, <4>2, <4>3, <4>4
    <3>. QED
      BY <2>2, <3>1, <3>2 DEF decode_url
  <2>3. ASSUME NEW n \in Names, decode_param(n) PROVE Whole
    <3>1. PICK out \in Outputs, ec \in Codes :
            /\ decode(url.param[n], out, ec)
            /\ ret' = [ok |-> ec = "ok", ec |-> ec]
            /\ url' = IF ec # "ok" THEN url ELSE [url EXCEPT !.param[n] = out]
      BY <2>3 DEF decode_param
    <3>2. ec # "ok" => UNCHANGED <<url, store>>
      BY <3>1, DecodeTakesOnce
    <3>3. ec = "ok" => url'.param[n] = out
      BY <3>1 DEF Shaped
    <3>4. \A q \in Keys : store'[q] # store[q] => store[q].once /\ out = store[q].data
      BY <3>1, DecodeTakesOnce
    <3>5. ret'.ec = ec
      BY <3>1
    <3>. QED
      BY <3>2, <3>3, <3>4, <3>5
  <2>. QED
    BY <2>1, <2>2, <2>3 DEF DecodeNext
<1>. QED
  BY <1>1, ShapedInit, ShapedStep, PTL DEF DecodeSpec, NothingHalfDone
-----------------------------------------------------------------------------
(***************************************************************************)
(* UrlHelper.  Min and Max are chosen elements: they exist because the less *)
(* relation on the naturals is well founded.                                *)
(***************************************************************************)
\* A nonempty set of numbers has a least one.
LEMMA LeastExists ==
  ASSUME NEW S \in SUBSET Nat, S # {}
  PROVE  \E m \in S : \A n \in S : m <= n
<1>1. PICK m \in S : \A n \in S : ~ (<<n, m>> \in OpToRel(<, Nat))
  BY NatLessThanWellFounded, WFMin
<1>2. ASSUME NEW n \in S
      PROVE  m <= n
  <2>1. n < m => <<n, m>> \in OpToRel(<, Nat)
    BY DEF OpToRel
  <2>2. ~ (n < m)
    BY <1>1, <2>1, Zenon
  <2>. QED
    BY <2>2
<1>. QED
  BY <1>2

\* A nonempty set of bounded numbers has a greatest one.
LEMMA GreatestExists ==
  ASSUME NEW b \in Nat, NEW S \in SUBSET (0..b), S # {}
  PROVE  \E m \in S : \A n \in S : m >= n
<1>. DEFINE T == {b - m : m \in S}
<1>0. \A n \in S : n \in Nat /\ b - n \in Nat
  OBVIOUS
<1>1. T \in SUBSET Nat /\ T # {}
  BY <1>0
<1>2. PICK m \in T : \A n \in T : m <= n
  BY <1>1, LeastExists
<1>3. PICK k \in S : m = b - k
  BY <1>2
<1>4. ASSUME NEW n \in S
      PROVE  k >= n
  <2>1. b - k <= b - n
    BY <1>2, <1>3
  <2>. QED
    BY <1>0, <2>1
<1>. QED
  BY <1>4

\* Max is the greatest element of a set that has one.
LEMMA MaxOf ==
  ASSUME NEW b \in Nat, NEW S \in SUBSET (0..b), S # {}
  PROVE  Max(S) \in S /\ \A n \in S : Max(S) >= n
BY GreatestExists DEF Max

\* Min is the least element of a set of numbers.
LEMMA MinOf ==
  ASSUME NEW S \in SUBSET Nat, S # {}
  PROVE  Min(S) \in S /\ \A n \in S : Min(S) <= n
BY LeastExists DEF Min

\* The parameters that give k a value, of those apply_params is past.
GivenFor(k) == {j \in 1..iter - 1 : params[j].key = k /\ params[j].value # Empty}

\* What apply_params makes of the parameter k.
FirstGiven(k) ==
  IF dst0[k] # Empty THEN dst0[k]
  ELSE IF GivenFor(k) = {} THEN Empty ELSE params[Min(GivenFor(k))].value

\* Where the two functions can be.
UrlTyped ==
  /\ call \in {"apply_config", "apply_params"}
  /\ iter \in Nat \ {0}
  /\ params \in Seq(Param(Seq(Chars)))
  /\ iter - 1 <= Len(params)
  /\ prefix \in Seq(Chars)
  /\ call = "apply_params" =>
       /\ params \in Seq(Param(Short))
       /\ dst \in [Short -> Values \cup {Empty}]
       /\ dst0 \in [Short -> Values \cup {Empty}]

\* The bounds of the model are for TLC only.
LEMMA BoundedIsSeq ==
  ASSUME NEW S, NEW b, NEW s \in BoundedSeq(S, b)
  PROVE  s \in Seq(S)
<1>1. PICK m \in 0..b : s \in [1..m -> S]
  BY DEF BoundedSeq, SeqOf
<1>2. m \in Nat
  BY <1>1
<1>. QED
  BY <1>1, <1>2, SeqDef

\* Both walks begin typed.
LEMMA UrlTypedInit == UrlInit => UrlTyped
<1>. SUFFICES ASSUME UrlInit PROVE UrlTyped
  OBVIOUS
<1>1. Short \subseteq Seq(Chars)
  <2>1. \A c \in Chars : <<c>> \in Seq(Chars)
    OBVIOUS
  <2>. QED
    BY <2>1 DEF Short
<1>2. Param(BoundedSeq(Chars, MaxKey)) \subseteq Param(Seq(Chars))
  BY BoundedIsSeq DEF Param
<1>3. Param(Short) \subseteq Param(Seq(Chars))
  BY <1>1 DEF Param
<1>4. CASE call = "apply_config"
  <2>1. params \in Seq(Param(Seq(Chars))) /\ prefix \in Seq(Chars)
    BY <1>2, <1>4, BoundedIsSeq, SeqMonotonic DEF UrlInit
  <2>. QED
    BY <1>4, <2>1 DEF UrlInit, UrlTyped
<1>5. CASE call = "apply_params"
  <2>1. params \in Seq(Param(Short))
    BY <1>5, BoundedIsSeq DEF UrlInit
  <2>2. params \in Seq(Param(Seq(Chars)))
    BY <1>3, <2>1, SeqMonotonic
  <2>. QED
    BY <1>5, <2>1, <2>2 DEF UrlInit, UrlTyped
<1>. QED
  BY <1>4, <1>5 DEF UrlInit

\* And stay so: iter does not leave the parameters.
LEMMA UrlTypedStep == UrlTyped /\ [UrlNext]_urlVars => UrlTyped'
<1>. SUFFICES ASSUME UrlTyped, [UrlNext]_urlVars PROVE UrlTyped'
  OBVIOUS
<1>1. CASE apply_config
  BY <1>1 DEF apply_config, UrlTyped
<1>2. CASE apply_params
  <2>1. iter \in 1..Len(params) /\ params \in Seq(Param(Short))
    BY <1>2 DEF apply_params, UrlTyped
  <2>2. params[iter] \in Param(Short)
    BY <2>1, ElementOfSeq
  <2>3. dst' \in [Short -> Values \cup {Empty}]
    BY <1>2, <2>2 DEF apply_params, UrlTyped, Param, value
  <2>. QED
    BY <1>2, <2>3 DEF apply_params, UrlTyped
<1>3. CASE UNCHANGED urlVars
  BY <1>3 DEF urlVars, UrlTyped
<1>. QED
  BY <1>1, <1>2, <1>3 DEF UrlNext

\* The parameter at iter is later than all that were given before it: it is
\* the first for k only if none was.
LEMMA GapsFilledStep == UrlTyped /\ GapsFilled /\ [UrlNext]_urlVars => GapsFilled'
<1>. SUFFICES ASSUME UrlTyped, GapsFilled, [UrlNext]_urlVars PROVE GapsFilled'
  OBVIOUS
<1>1. CASE apply_config
  BY <1>1 DEF apply_config, GapsFilled
<1>2. CASE apply_params
  <2>. SUFFICES ASSUME NEW k \in Short
                PROVE  dst'[k] = FirstGiven(k)'
    BY DEF GapsFilled, FirstGiven, GivenFor
  <2>1. /\ iter \in 1..Len(params)
        /\ iter' = iter + 1
        /\ UNCHANGED <<params, dst0>>
        /\ call = "apply_params"
    BY <1>2 DEF apply_params, UrlTyped
  <2>2. params[iter] \in Param(Short)
    BY <2>1, ElementOfSeq DEF UrlTyped
  <2>3. dst[k] = FirstGiven(k)
    BY <2>1 DEF GapsFilled, FirstGiven, GivenFor
  <2>4. dst'[k] = IF key = k /\ dst[k] = Empty THEN value ELSE dst[k]
    BY <1>2, <2>2 DEF apply_params, UrlTyped, Param
  <2>5. GivenFor(k)' = GivenFor(k) \cup
          (IF key = k /\ value # Empty THEN {iter} ELSE {})
    BY <2>1 DEF GivenFor, key, value
  <2>6. GivenFor(k) \in SUBSET Nat /\ \A j \in GivenFor(k) : j < iter
    BY <2>1 DEF GivenFor
  <2>7. CASE dst0[k] # Empty
    BY <2>1, <2>3, <2>4, <2>7 DEF FirstGiven
  <2>8. CASE dst0[k] = Empty /\ GivenFor(k) = {}
    <3>1. dst[k] = Empty
      BY <2>3, <2>8 DEF FirstGiven
    <3>2. Min({iter}) = iter
      BY <2>1 DEF Min
    <3>. QED
      BY <2>1, <2>4, <2>5, <2>8, <3>1, <3>2 DEF FirstGiven, value
  <2>9. CASE dst0[k] = Empty /\ GivenFor(k) # {}
    <3>1. /\ Min(GivenFor(k)) \in GivenFor(k)
          /\ \A j \in GivenFor(k) : Min(GivenFor(k)) <= j
      BY <2>6, <2>9, MinOf
    <3>2. dst[k] # Empty
      BY <2>3, <2>9, <3>1 DEF FirstGiven, GivenFor
    <3>3. GivenFor(k)' \in SUBSET Nat /\ GivenFor(k)' # {}
      BY <2>1, <2>5, <2>6, <2>9
    <3>4. Min(GivenFor(k)') = Min(GivenFor(k))
      <4>1. /\ Min(GivenFor(k)') \in GivenFor(k)'
            /\ \A j \in GivenFor(k)' : Min(GivenFor(k)') <= j
        BY <3>3, MinOf
      <4>2. /\ Min(GivenFor(k)) \in GivenFor(k)'
            /\ \A j \in GivenFor(k)' : Min(GivenFor(k)) <= j
        BY <2>1, <2>5, <2>6, <3>1
      <4>. QED
        BY <3>3, <4>1, <4>2
    <3>. QED
      BY <2>1, <2>3, <2>4, <2>9, <3>2, <3>3, <3>4 DEF FirstGiven
  <2>. QED
    BY <2>7, <2>8, <2>9
<1>3. CASE UNCHANGED urlVars
  BY <1>3 DEF urlVars, GapsFilled
<1>. QED
  BY <1>1, <1>2, <1>3 DEF UrlNext

\* apply_params leaves what dst has, and fills each gap with the first value
\* that is not empty, for any parameters in any order.
THEOREM GapsFilledFirst == UrlSpec => []GapsFilled
<1>1. UrlInit => GapsFilled
  BY DEF UrlInit, GapsFilled
<1>. QED
  BY <1>1, UrlTypedInit, UrlTypedStep, GapsFilledStep, PTL DEF UrlSpec

-----------------------------------------------------------------------------
(***************************************************************************)
(* What a key means.  The code cuts a key at its last dot; Means says how a *)
(* key is put together.  The two agree: KeyMeans.                           *)
(***************************************************************************)
Settings == [section : Seq(Chars), key : Seq(Chars)]

\* pos_dot is the place of the last dot, 0 if there is none.
LEMMA LastDot ==
  ASSUME key \in Seq(Chars)
  PROVE  /\ pos_dot \in 0..Len(key)
         /\ pos_dot # 0 => key[pos_dot] = "."
         /\ \A j \in 1..Len(key) : key[j] = "." => j <= pos_dot
<1>. DEFINE I == {j \in 1..Len(key) : key[j] = "."}
<1>1. pos_dot = IF I # {} THEN Max(I) ELSE 0
  BY DEF pos_dot, SelectLastInSeq
<1>2. Len(key) \in Nat /\ I \in SUBSET (0..Len(key))
  OBVIOUS
<1>3. CASE I = {}
  BY <1>1, <1>2, <1>3
<1>4. CASE I # {}
  <2>1. Max(I) \in I /\ \A j \in I : Max(I) >= j
    BY <1>2, <1>4, MaxOf
  <2>. QED
    BY <1>1, <1>2, <1>4, <2>1
<1>. QED
  BY <1>3, <1>4

\* A key that means x, taken apart.
\* u is s and t joined, of lengths a and b.
Joins(u, s, a, t, b) ==
  /\ u = s \o t
  /\ s \in Seq(Chars) /\ a \in Nat /\ Len(s) = a
  /\ t \in Seq(Chars) /\ b \in Nat /\ Len(t) = b

\* The same, element by element.
Joined(u, s, a, t, b) ==
  /\ u \in Seq(Chars)
  /\ Len(u) = a + b
  /\ \A j \in 1..a : u[j] = s[j]
  /\ \A j \in 1..b : u[a + j] = t[j]

\* A concatenation, element by element.
LEMMA JoinTwo ==
  ASSUME NEW u, NEW s, NEW a, NEW t, NEW b, Joins(u, s, a, t, b)
  PROVE  Joined(u, s, a, t, b)
<1>1. /\ u \in Seq(Chars)
      /\ Len(u) = a + b
      /\ \A j \in 1..a + b : u[j] = IF j <= a THEN s[j] ELSE t[j - a]
  BY ConcatProperties DEF Joins
<1>0. a \in Nat /\ b \in Nat
  BY DEF Joins
<1>2. ASSUME NEW j \in 1..a
      PROVE  u[j] = s[j]
  <2>1. j \in 1..a + b /\ j <= a
    BY <1>0
  <2>. QED
    BY <1>1, <2>1
<1>3. ASSUME NEW j \in 1..b
      PROVE  u[a + j] = t[j]
  <2>1. a + j \in 1..a + b /\ ~(a + j <= a) /\ (a + j) - a = j
    BY <1>0
  <2>. QED
    BY <1>1, <2>1
<1>. QED
  BY <1>1, <1>2, <1>3 DEF Joined

\* The places of four sequences joined, the third being of length one.
LEMMA PlacesOfFour ==
  ASSUME NEW P \in Nat, NEW A \in Nat, NEW C \in Nat,
         NEW m, m = P + A, NEW d, d = m + 1, NEW j \in 1..d + C
  PROVE  \/ j \in 1..P
         \/ \E e \in 1..A : j = P + e
         \/ j = d
         \/ \E e \in 1..C : j = d + e
<1>1. P < j /\ j < d => j - P \in 1..A /\ j = P + (j - P)
  OBVIOUS
<1>2. d < j => j - d \in 1..C /\ j = d + (j - d)
  OBVIOUS
<1>3. j \in 1..P \/ (P < j /\ j < d) \/ j = d \/ d < j
  OBVIOUS
<1>. QED
  BY <1>1, <1>2, <1>3, Zenon

\* k is the prefix, the section of x, the dot (at d) and the key of x.
Apart(k, x, P, A, C, d) ==
  /\ Len(k) = d + C
  /\ \A j \in 1..P : k[j] = prefix[j]
  /\ \A j \in 1..A : k[P + j] = x.section[j]
  /\ k[d] = "."
  /\ \A j \in 1..C : k[d + j] = x.key[j]
  /\ A > 0
  /\ \A j \in 1..C : x.key[j] # "."

\* Means, element by element.
LEMMA MeansApart ==
  ASSUME NEW k \in Seq(Chars), prefix \in Seq(Chars), NEW x \in Settings,
         NEW P \in Nat, Len(prefix) = P, NEW A \in Nat, Len(x.section) = A,
         NEW C \in Nat, Len(x.key) = C,
         NEW m \in Nat, m = P + A, NEW d \in Nat, d = m + 1
  PROVE  Means(k, x) <=> Apart(k, x, P, A, C, d)
<1>. DEFINE s1 == prefix \o x.section
            s2 == s1 \o <<".">>
            t == s2 \o x.key
            Alike == /\ \A j \in 1..P : k[j] = prefix[j]
                     /\ \A j \in 1..A : k[P + j] = x.section[j]
                     /\ k[d] = "."
                     /\ \A j \in 1..C : k[d + j] = x.key[j]
<1>0. /\ x.section \in Seq(Chars) /\ x.key \in Seq(Chars)
      /\ <<".">> \in Seq(Chars) /\ Len(<<".">>) = 1 /\ 1 \in Nat
  BY UrlAssumption DEF Settings
<1>1. Means(k, x) <=> /\ k = t
                      /\ x.section # <<>>
                      /\ "." \notin ToSet(x.key)
  BY DEF Means
<1>2. Joined(s1, prefix, P, x.section, A)
  BY <1>0, JoinTwo, Zenon DEF Joins
<1>. HIDE DEF s1
<1>3. Joined(s2, s1, m, <<".">>, 1)
  <2>1. Len(s1) = m /\ s1 \in Seq(Chars)
    BY <1>2 DEF Joined
  <2>. QED
    BY <1>0, <2>1, JoinTwo, Zenon DEF Joins
<1>. HIDE DEF s2
<1>4. Joined(t, s2, d, x.key, C)
  <2>1. Len(s2) = d /\ s2 \in Seq(Chars)
    BY <1>3 DEF Joined
  <2>. QED
    BY <1>0, <2>1, JoinTwo, Zenon DEF Joins
<1>. HIDE DEF t
<1>5. /\ t \in Seq(Chars)
      /\ Len(t) = d + C
      /\ \A j \in 1..P : t[j] = prefix[j]
      /\ \A j \in 1..A : t[P + j] = x.section[j]
      /\ t[d] = "."
      /\ \A j \in 1..C : t[d + j] = x.key[j]
  <2>1. t \in Seq(Chars) /\ Len(t) = d + C
    BY <1>4 DEF Joined
  <2>2. /\ \A j \in 1..P : s1[j] = prefix[j]
        /\ \A j \in 1..A : s1[P + j] = x.section[j]
        /\ \A j \in 1..m : s2[j] = s1[j]
        /\ \A j \in 1..1 : s2[m + j] = <<".">>[j]
        /\ \A j \in 1..d : t[j] = s2[j]
        /\ \A j \in 1..C : t[d + j] = x.key[j]
    BY <1>2, <1>3, <1>4, Zenon DEF Joined
  <2>3. t[d] = "."
    <3>1. 1 \in 1..1 /\ d \in 1..d
      OBVIOUS
    <3>. QED
      BY <2>2, <3>1
  <2>4. /\ \A j \in 1..P : j \in 1..m /\ j \in 1..d
        /\ \A j \in 1..A : P + j \in 1..m /\ P + j \in 1..d
    OBVIOUS
  <2>5. /\ \A j \in 1..P : t[j] = prefix[j]
        /\ \A j \in 1..A : t[P + j] = x.section[j]
    <3>1. ASSUME NEW j \in 1..P
          PROVE  t[j] = prefix[j]
      BY <2>2, <2>4
    <3>2. ASSUME NEW j \in 1..A
          PROVE  t[P + j] = x.section[j]
      BY <2>2, <2>4
    <3>. QED
      BY <3>1, <3>2
  <2>. QED
    BY <2>1, <2>2, <2>3, <2>5, Zenon
<1>6. x.section # <<>> <=> A > 0
  BY <1>0
<1>7. "." \notin ToSet(x.key) <=> \A j \in 1..C : x.key[j] # "."
  BY <1>0 DEF ToSet
<1>8. ASSUME Len(k) = d + C, Alike
      PROVE  k = t
  <2>1. ASSUME NEW j \in 1..d + C
        PROVE  k[j] = t[j]
    <3>1. \/ j \in 1..P
          \/ \E e \in 1..A : j = P + e
          \/ j = d
          \/ \E e \in 1..C : j = d + e
      BY PlacesOfFour
    <3>2. CASE j \in 1..P
      BY <1>5, <1>8, <3>2, Zenon
    <3>3. CASE \E e \in 1..A : j = P + e
      <4>1. PICK e \in 1..A : j = P + e
        BY <3>3
      <4>. QED
        BY <1>5, <1>8, <4>1
    <3>4. CASE j = d
      BY <1>5, <1>8, <3>4, Zenon
    <3>5. CASE \E e \in 1..C : j = d + e
      <4>1. PICK e \in 1..C : j = d + e
        BY <3>5
      <4>2. k[d + e] = x.key[e]
        BY <1>8
      <4>3. t[d + e] = x.key[e]
        BY <1>5
      <4>. QED
        BY <4>1, <4>2, <4>3
    <3>. QED
      BY <3>1, <3>2, <3>3, <3>4, <3>5
  <2>. QED
    BY <1>5, <1>8, <2>1, SeqEqual
<1>. QED
  BY <1>1, <1>5, <1>6, <1>7, <1>8 DEF Apart

\* IsPrefix, element by element.
LEMMA PrefixAlike ==
  ASSUME NEW s \in Seq(Chars), NEW t \in Seq(Chars)
  PROVE  IsPrefix(s, t) <=> Len(s) <= Len(t) /\ \A j \in 1..Len(s) : s[j] = t[j]
<1>1. SubSeq(s, 1, Len(s)) = s
  BY SubSeqFull
<1>. DEFINE n == Len(s)
            u == SubSeq(t, 1, n)
<1>2. ASSUME n <= Len(t)
      PROVE  u \in Seq(Chars) /\ Len(u) = n /\ \A j \in 1..n : u[j] = t[j]
  <2>1. n \in Nat /\ 1 \in Int /\ \A j \in 1..n : t[j] \in Chars
    BY <1>2
  <2>2. /\ u \in Seq(Chars)
        /\ Len(u) = IF 1 <= n THEN n - 1 + 1 ELSE 0
        /\ \A j \in 1..n - 1 + 1 : u[j] = t[1 + j - 1]
    BY <2>1, SubSeqProperties
  <2>. HIDE DEF u
  <2>3. \A j \in 1..n : 1 + j - 1 = j
    BY <2>1
  <2>. QED
    BY <2>1, <2>2, <2>3
<1>3. ASSUME n <= Len(t), \A j \in 1..n : s[j] = t[j]
      PROVE  s = u
  <2>. HIDE DEF u
  <2>. QED
    BY <1>2, <1>3, SeqEqual
<1>. QED
  BY <1>1, <1>2, <1>3 DEF IsPrefix

\* The section and the name apply_config cuts out of a key, element by
\* element.
LEMMA SettingParts ==
  ASSUME key \in Seq(Chars), prefix \in Seq(Chars), Taken
  PROVE  /\ KeySetting \in Settings
         /\ Len(KeySetting.section) = pos_dot - 1 - Len(prefix)
         /\ \A j \in 1..pos_dot - 1 - Len(prefix) :
              KeySetting.section[j] = key[Len(prefix) + j]
         /\ Len(KeySetting.key) = Len(key) - pos_dot
         /\ \A j \in 1..Len(key) - pos_dot :
              KeySetting.key[j] = key[pos_dot + j]
<1>. DEFINE P == Len(prefix)
            sec == SubSeq(key, P + 1, pos_dot - 1)
            nam == SubSeq(key, pos_dot + 1, Len(key))
<1>1. /\ P \in Nat /\ pos_dot \in 1..Len(key) /\ pos_dot - 1 > P
      /\ Len(key) \in Nat
  BY LastDot DEF Taken
<1>. HIDE DEF P
<1>2. /\ sec \in Seq(Chars)
      /\ Len(sec) = pos_dot - 1 - P
      /\ \A j \in 1..pos_dot - 1 - P : sec[j] = key[P + j]
  <2>1. /\ P + 1 \in Int /\ pos_dot - 1 \in Int
        /\ \A j \in P + 1..pos_dot - 1 : key[j] \in Chars
    BY <1>1
  <2>2. /\ sec \in Seq(Chars)
        /\ Len(sec) = IF P + 1 <= pos_dot - 1
                      THEN pos_dot - 1 - (P + 1) + 1 ELSE 0
        /\ \A j \in 1..pos_dot - 1 - (P + 1) + 1 : sec[j] = key[P + 1 + j - 1]
    BY <2>1, SubSeqProperties
  <2>. HIDE DEF sec
  <2>3. pos_dot - 1 - (P + 1) + 1 = pos_dot - 1 - P /\ P + 1 <= pos_dot - 1
    BY <1>1
  <2>4. \A j \in 1..pos_dot - 1 - P : P + 1 + j - 1 = P + j
    BY <1>1
  <2>. QED
    BY <2>2, <2>3, <2>4
<1>3. /\ nam \in Seq(Chars)
      /\ Len(nam) = Len(key) - pos_dot
      /\ \A j \in 1..Len(key) - pos_dot : nam[j] = key[pos_dot + j]
  <2>1. /\ pos_dot + 1 \in Int /\ Len(key) \in Int
        /\ \A j \in pos_dot + 1..Len(key) : key[j] \in Chars
    BY <1>1
  <2>2. /\ nam \in Seq(Chars)
        /\ Len(nam) = IF pos_dot + 1 <= Len(key)
                      THEN Len(key) - (pos_dot + 1) + 1 ELSE 0
        /\ \A j \in 1..Len(key) - (pos_dot + 1) + 1 :
             nam[j] = key[pos_dot + 1 + j - 1]
    BY <2>1, SubSeqProperties
  <2>. HIDE DEF nam
  <2>3. /\ Len(key) - (pos_dot + 1) + 1 = Len(key) - pos_dot
        /\ ~(pos_dot + 1 <= Len(key)) => Len(key) - pos_dot = 0
    BY <1>1
  <2>4. \A j \in 1..Len(key) - pos_dot : pos_dot + 1 + j - 1 = pos_dot + j
    BY <1>1
  <2>. QED
    BY <2>2, <2>3, <2>4
<1>4. KeySetting = [section |-> sec, key |-> nam]
  BY DEF KeySetting, P
<1>. HIDE DEF sec, nam
<1>. QED
  BY <1>2, <1>3, <1>4 DEF Settings, P

\* A key that apply_config takes means the setting it is cut into and no
\* other, and a key that it does not take means none.
LEMMA KeyMeans ==
  ASSUME key \in Seq(Chars), prefix \in Seq(Chars), NEW x \in Settings
  PROVE  Means(key, x) <=> Taken /\ x = KeySetting
<1>1. PICK P \in Nat : Len(prefix) = P
  OBVIOUS
<1>2. PICK A \in Nat : Len(x.section) = A
  BY DEF Settings
<1>3. PICK C \in Nat : Len(x.key) = C
  BY DEF Settings
<1>4. PICK m \in Nat : m = P + A
  OBVIOUS
<1>5. PICK d \in Nat : d = m + 1
  OBVIOUS
<1>6. Means(key, x) <=> Apart(key, x, P, A, C, d)
  BY <1>1, <1>2, <1>3, <1>4, <1>5, MeansApart, Zenon
<1>7. Taken <=> /\ P <= Len(key)
                /\ \A j \in 1..P : key[j] = prefix[j]
                /\ pos_dot # 0
                /\ pos_dot - 1 > P
  BY <1>1, PrefixAlike DEF Taken
<1>8. ASSUME Apart(key, x, P, A, C, d)
      PROVE  pos_dot = d
  <2>1. /\ pos_dot \in 0..Len(key)
        /\ pos_dot # 0 => key[pos_dot] = "."
        /\ \A j \in 1..Len(key) : key[j] = "." => j <= pos_dot
    BY LastDot
  <2>2. d \in 1..Len(key)
    BY <1>8, <1>5 DEF Apart
  <2>3. d <= pos_dot
    BY <1>8, <2>1, <2>2 DEF Apart
  <2>4. ASSUME d < pos_dot
        PROVE  FALSE
    <3>1. pos_dot - d \in 1..C /\ d + (pos_dot - d) = pos_dot
      BY <1>8, <2>1, <2>4 DEF Apart
    <3>2. key[pos_dot] # "."
      BY <1>8, <3>1 DEF Apart
    <3>. QED
      BY <2>1, <2>2, <2>4, <3>2
  <2>. QED
    BY <2>1, <2>2, <2>3, <2>4
<1>9. ASSUME Apart(key, x, P, A, C, d)
      PROVE  Taken
  <2>1. P <= Len(key) /\ d # 0 /\ d - 1 > P
    BY <1>4, <1>5, <1>9 DEF Apart
  <2>. QED
    BY <1>7, <1>8, <1>9, <2>1 DEF Apart
<1>. DEFINE Parts ==
       /\ KeySetting \in Settings
       /\ Len(KeySetting.section) = pos_dot - 1 - P
       /\ \A j \in 1..pos_dot - 1 - P : KeySetting.section[j] = key[P + j]
       /\ Len(KeySetting.key) = Len(key) - pos_dot
       /\ \A j \in 1..Len(key) - pos_dot : KeySetting.key[j] = key[pos_dot + j]
<1>10. Taken => Parts
  BY <1>1, SettingParts
<1>. HIDE DEF Parts
<1>11. ASSUME Apart(key, x, P, A, C, d)
       PROVE  x = KeySetting
  <2>1. Taken /\ pos_dot = d /\ Parts
    BY <1>8, <1>9, <1>10, <1>11
  <2>2. pos_dot - 1 - P = A /\ Len(key) - pos_dot = C
    BY <1>4, <1>5, <1>11, <2>1 DEF Apart
  <2>3. x.section = KeySetting.section
    <3>1. Len(x.section) = Len(KeySetting.section)
      BY <1>2, <2>1, <2>2, Zenon DEF Parts
    <3>2. \A j \in 1..Len(x.section) : x.section[j] = KeySetting.section[j]
      <4>1. \A j \in 1..A : key[P + j] = x.section[j]
        BY <1>11 DEF Apart
      <4>2. \A j \in 1..A : KeySetting.section[j] = key[P + j]
        BY <2>1, <2>2, Zenon DEF Parts
      <4>. QED
        BY <1>2, <4>1, <4>2, Zenon
    <3>3. x.section \in Seq(Chars) /\ KeySetting.section \in Seq(Chars)
      BY <2>1 DEF Parts, Settings
    <3>. QED
      BY <3>1, <3>2, <3>3, SeqEqual, Zenon
  <2>4. x.key = KeySetting.key
    <3>1. Len(x.key) = Len(KeySetting.key)
      BY <1>3, <2>1, <2>2, Zenon DEF Parts
    <3>2. \A j \in 1..Len(x.key) : x.key[j] = KeySetting.key[j]
      <4>1. \A j \in 1..C : key[d + j] = x.key[j]
        BY <1>11 DEF Apart
      <4>2. \A j \in 1..C : KeySetting.key[j] = key[d + j]
        BY <2>1, <2>2, Zenon DEF Parts
      <4>. QED
        BY <1>3, <4>1, <4>2, Zenon
    <3>3. x.key \in Seq(Chars) /\ KeySetting.key \in Seq(Chars)
      BY <2>1 DEF Parts, Settings
    <3>. QED
      BY <3>1, <3>2, <3>3, SeqEqual, Zenon
  <2>5. KeySetting \in Settings
    BY <2>1 DEF Parts
  <2>. HIDE DEF KeySetting
  <2>. QED
    BY <2>3, <2>4, <2>5 DEF Settings
<1>12. ASSUME Taken, x = KeySetting
       PROVE  Apart(key, x, P, A, C, d)
  <2>1. /\ Len(x.section) = pos_dot - 1 - P
        /\ \A j \in 1..pos_dot - 1 - P : x.section[j] = key[P + j]
        /\ Len(x.key) = Len(key) - pos_dot
        /\ \A j \in 1..Len(key) - pos_dot : x.key[j] = key[pos_dot + j]
    BY <1>10, <1>12, Zenon DEF Parts
  <2>2. /\ pos_dot \in 0..Len(key)
        /\ pos_dot # 0 => key[pos_dot] = "."
        /\ \A j \in 1..Len(key) : key[j] = "." => j <= pos_dot
    BY LastDot
  <2>3. /\ \A j \in 1..P : key[j] = prefix[j]
        /\ pos_dot # 0
        /\ pos_dot - 1 > P
    BY <1>7, <1>12, Zenon
  <2>4. pos_dot - 1 - P = A /\ Len(key) - pos_dot = C
    BY <1>2, <1>3, <2>1
  <2>5. pos_dot = d /\ Len(key) \in Nat /\ Len(key) = d + C /\ A > 0
    <3>1. Len(key) \in Nat /\ pos_dot \in Nat
      BY <2>2
    <3>. QED
      BY <1>4, <1>5, <2>3, <2>4, <3>1
  <2>6. /\ \A j \in 1..A : key[P + j] = x.section[j]
        /\ \A j \in 1..C : key[d + j] = x.key[j]
    BY <2>1, <2>4, <2>5, Zenon
  <2>7. ASSUME NEW j \in 1..C
        PROVE  x.key[j] # "."
    <3>1. d + j \in 1..Len(key) /\ ~(d + j <= d)
      BY <2>5
    <3>. QED
      BY <2>2, <2>5, <2>6, <3>1
  <2>. QED
    BY <2>2, <2>3, <2>5, <2>6, <2>7, Zenon DEF Apart
<1>. QED
  BY <1>6, <1>9, <1>11, <1>12, Zenon

-----------------------------------------------------------------------------
MeansAt(j, x) == Means(params[j].key, x)

\* What apply_config has set, for any setting.
ConfigRight ==
  /\ DOMAIN config \subseteq Settings
  /\ \A j \in 1..iter - 1 : \A x \in Settings :
       MeansAt(j, x) =>
         /\ x \in DOMAIN config
         /\ (\A l \in j + 1..iter - 1 : ~MeansAt(l, x))
              => config[x] = params[j].value
  /\ \A x \in DOMAIN config : \E j \in 1..iter - 1 : MeansAt(j, x)

\* One parameter more: it overrides, if it is taken, just the setting it
\* means.
LEMMA ConfigRightStep ==
  ASSUME UrlTyped, call = "apply_config", ConfigRight, apply_config
  PROVE  ConfigRight'
<1>1. /\ iter \in 1..Len(params)
      /\ iter' = iter + 1
      /\ UNCHANGED <<params, prefix>>
  BY DEF UrlTyped, apply_config
<1>2. key \in Seq(Chars) /\ prefix \in Seq(Chars)
  <2>1. params[iter] \in Param(Seq(Chars))
    BY <1>1, ElementOfSeq DEF UrlTyped
  <2>. QED
    BY <2>1 DEF UrlTyped, Param, key
<1>3. \A x \in Settings : MeansAt(iter, x) <=> Taken /\ x = KeySetting
  BY <1>2, KeyMeans DEF MeansAt, key
<1>4. \A j, x : MeansAt(j, x)' <=> MeansAt(j, x)
  BY <1>1 DEF MeansAt, Means
<1>5. /\ iter' - 1 = iter
      /\ iter \in 1..iter
      /\ \A j \in 1..iter : j \in 1..iter - 1 \/ j = iter
      /\ \A j \in 1..iter - 1 : j \in 1..iter /\ iter \in j + 1..iter
      /\ \A j \in 1..iter - 1 : \A l \in j + 1..iter - 1 : l \in j + 1..iter
  BY <1>1
<1>6. CASE ~Taken
  <2>1. config' = config
    BY <1>6 DEF apply_config
  <2>2. \A x \in Settings : ~MeansAt(iter, x)
    BY <1>3, <1>6
  <2>3. ASSUME NEW j \in 1..iter, NEW x \in Settings, MeansAt(j, x)
        PROVE  /\ x \in DOMAIN config
               /\ (\A l \in j + 1..iter : ~MeansAt(l, x))
                    => config[x] = params[j].value
    <3>1. j \in 1..iter - 1
      BY <1>5, <2>2, <2>3
    <3>. QED
      BY <1>5, <2>3, <3>1 DEF ConfigRight
  <2>4. \A x \in DOMAIN config : \E j \in 1..iter : MeansAt(j, x)
    BY <1>5 DEF ConfigRight
  <2>. QED
    BY <1>1, <1>4, <1>5, <2>1, <2>3, <2>4 DEF ConfigRight
<1>7. CASE Taken
  <2>1. config' = [s \in DOMAIN config \cup {KeySetting} |->
                     IF s = KeySetting THEN value ELSE config[s]]
    BY <1>7 DEF apply_config
  <2>2. KeySetting \in Settings /\ MeansAt(iter, KeySetting)
    BY <1>2, <1>3, <1>7, SettingParts
  <2>. HIDE DEF KeySetting
  <2>3. DOMAIN config' = DOMAIN config \cup {KeySetting}
    BY <2>1
  <2>4. config'[KeySetting] = value
    BY <2>1
  <2>5. \A x \in DOMAIN config : x # KeySetting => config'[x] = config[x]
    BY <2>1
  <2>6. ASSUME NEW j \in 1..iter, NEW x \in Settings, MeansAt(j, x)
        PROVE  /\ x \in DOMAIN config'
               /\ (\A l \in j + 1..iter : ~MeansAt(l, x))
                    => config'[x] = params[j].value
    <3>1. CASE j = iter
      BY <1>3, <2>3, <2>4, <2>6, <3>1 DEF value
    <3>2. CASE j \in 1..iter - 1 /\ x = KeySetting
      BY <1>5, <2>2, <2>3, <3>2
    <3>3. CASE j \in 1..iter - 1 /\ x # KeySetting
      BY <1>5, <2>3, <2>5, <2>6, <3>3 DEF ConfigRight
    <3>. QED
      BY <1>5, <3>1, <3>2, <3>3
  <2>7. \A x \in DOMAIN config' : \E j \in 1..iter : MeansAt(j, x)
    BY <1>5, <2>2, <2>3 DEF ConfigRight
  <2>8. DOMAIN config' \subseteq Settings
    BY <2>2, <2>3 DEF ConfigRight
  <2>. QED
    BY <1>1, <1>4, <1>5, <2>6, <2>7, <2>8 DEF ConfigRight
<1>. QED
  BY <1>6, <1>7

\* What ConfigFromKeys tries for section and name are sequences.
LEMMA SubSeqsAreSeqs ==
  ASSUME NEW k \in Seq(Chars)
  PROVE  {<<>>} \cup SubSeqs(k) \subseteq Seq(Chars)
<1>1. ASSUME NEW l \in 0..Len(k), NEW h \in 0..Len(k)
      PROVE  SubSeq(k, l + 1, h) \in Seq(Chars)
  <2>1. l + 1 \in Int /\ h \in Int /\ \A j \in l + 1..h : k[j] \in Chars
    OBVIOUS
  <2>. QED
    BY <2>1, SubSeqProperties
<1>2. ASSUME NEW s \in SubSeqs(k)
      PROVE  s \in Seq(Chars)
  <2>1. PICK l \in 0..Len(k), h \in 0..Len(k) : s = SubSeq(k, l + 1, h)
    BY DEF SubSeqs
  <2>. QED
    BY <1>1, <2>1, Zenon
<1>3. <<>> \in Seq(Chars)
  OBVIOUS
<1>. QED
  BY <1>2, <1>3, Zenon

\* apply_config sets exactly the settings that keys mean, each to the value of
\* the last parameter that means it, for any keys, prefix and parameters.
THEOREM ConfigIsFromKeys == UrlSpec => []ConfigFromKeys
<1>. DEFINE Inv == UrlTyped /\ (call = "apply_config" => ConfigRight)
<1>1. UrlInit => Inv
  <2>1. UrlInit => (call = "apply_config" => ConfigRight)
    <3>1. DOMAIN <<>> = {}
      OBVIOUS
    <3>. QED
      BY <3>1 DEF UrlInit, ConfigRight
  <2>. QED
    BY <2>1, UrlTypedInit
<1>2. Inv /\ [UrlNext]_urlVars => Inv'
  <2>. SUFFICES ASSUME UrlTyped, call = "apply_config" => ConfigRight,
                       [UrlNext]_urlVars, call' = "apply_config"
                PROVE  ConfigRight'
    BY UrlTypedStep
  <2>1. CASE apply_config
    BY <2>1, ConfigRightStep DEF apply_config
  <2>2. CASE apply_params
    BY <2>2 DEF apply_params
  <2>3. CASE UNCHANGED urlVars
    BY <2>3 DEF urlVars, ConfigRight, MeansAt, Means
  <2>. QED
    BY <2>1, <2>2, <2>3 DEF UrlNext
<1>3. Inv => ConfigFromKeys
  <2>. SUFFICES ASSUME UrlTyped, call = "apply_config", ConfigRight
                PROVE  ConfigFromKeys
    BY DEF ConfigFromKeys
  <2>1. ASSUME NEW j \in 1..iter - 1,
               NEW s \in {<<>>} \cup SubSeqs(params[j].key),
               NEW n \in {<<>>} \cup SubSeqs(params[j].key),
               Means(params[j].key, [section |-> s, key |-> n])
        PROVE  LET setting == [section |-> s, key |-> n]
               IN  /\ setting \in DOMAIN config
                   /\ (\A l \in j + 1..iter - 1 : ~Means(params[l].key, setting))
                        => config[setting] = params[j].value
    <3>1. params[j].key \in Seq(Chars)
      <4>1. params[j] \in Param(Seq(Chars))
        BY DEF UrlTyped
      <4>. QED
        BY <4>1 DEF Param
    <3>2. [section |-> s, key |-> n] \in Settings
      BY <3>1, SubSeqsAreSeqs DEF Settings
    <3>. QED
      BY <2>1, <3>2 DEF ConfigRight, MeansAt
  <2>2. \A x \in DOMAIN config : \E j \in 1..iter - 1 : Means(params[j].key, x)
    BY DEF ConfigRight, MeansAt
  <2>. QED
    BY <2>1, <2>2, Zenon DEF ConfigFromKeys
<1>. QED
  BY <1>1, <1>2, <1>3, PTL DEF UrlSpec
=============================================================================
