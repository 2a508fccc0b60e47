--------------------------- MODULE HttpStatistics ---------------------------
(***************************************************************************)
(* HttpStatistics.h: the statistics of a request that is tried again until  *)
(* it succeeds.  The base part is a copy of what the HTTP client counted in  *)
(* one try; it holds when the try began, so that elapse() of the copy is    *)
(* the time since then, and the error it ended with.                        *)
(***************************************************************************)
EXTENDS Naturals

CONSTANTS
  Errors,   \* error codes
  None,     \* no error; also the -1 of total_elapse
  MaxTries, \* bound: tries without a reset
  MaxTime   \* bound: the clock

\* None is told from a number, an error and the records below.
ASSUME HttpAssumption ==
  /\ {MaxTries, MaxTime} \subseteq Nat
  /\ None \notin Errors \cup Nat
  /\ None \notin [begin : Nat, last_error : Errors \cup {None}]
  /\ None \notin [error : Errors \cup {None}, by : {"stat", "ec"}, at : Nat]

VARIABLES
  now,
  stat,     \* the statistics of the client in this try, None between tries
  base,     \* the inherited part
  try_times, total_elapse, last_last_error,
  \* history
  first,    \* what the client counted in the first try since the reset
  latest,   \* how the last try ended: with what error, of what argument, and
            \* what the clock below was at
  since     \* the ticks since the first try of the series began

thisVars == <<base, try_times, total_elapse, last_last_error>>
httpVars     == <<now, stat, thisVars, first, latest, since>>

Fresh(t) == [begin |-> t, last_error |-> None]

HttpInit ==
  /\ now = 0
  /\ stat = None
  /\ base = Fresh(0)
  /\ try_times = 0
  /\ total_elapse = None
  /\ last_last_error = None
  /\ first = None
  /\ latest = None
  /\ since = 0
-----------------------------------------------------------------------------
Tick ==
  /\ now < MaxTime
  /\ now' = now + 1
  /\ since' = IF try_times = 0 THEN 0 ELSE since + 1
  /\ UNCHANGED <<stat, thisVars, first, latest>>

reset ==
  /\ stat = None
  /\ base' = Fresh(now)
  /\ try_times' = 0
  /\ total_elapse' = None
  /\ last_last_error' = None
  /\ first' = None
  /\ latest' = None
  /\ since' = 0
  /\ UNCHANGED <<now, stat>>

\* The client begins a try of its own right after.
begin_try ==
  /\ stat = None
  /\ try_times < MaxTries
  /\ try_times' = try_times + 1
  /\ stat' = Fresh(now)
  /\ IF try_times = 0
       THEN /\ base' = Fresh(now)
            /\ total_elapse' = None
            /\ last_last_error' = None
       ELSE UNCHANGED <<base, total_elapse, last_last_error>>
  /\ UNCHANGED <<now, first, latest, since>>

\* Wrong on purpose: copies the statistics of every try.
copy_always(error) == base' = [stat EXCEPT !.last_error = error]

\* The copy end_try makes.
copy(error) ==
  base' = IF try_times = 1 THEN [stat EXCEPT !.last_error = error] ELSE base

\* Wrong on purpose: takes the time of the try that ends.
end_try_alone(error) ==
  /\ stat # None
  /\ copy(error)
  /\ total_elapse' = now - stat.begin
  /\ first' = IF first = None THEN [stat EXCEPT !.last_error = error] ELSE first
  /\ stat' = None
  /\ UNCHANGED <<now, try_times, since>>

\* error is what the client counted, or what end_try is told instead.
end_try(error) ==
  /\ stat # None
  /\ copy(error)
  /\ total_elapse' = now - base'.begin
  /\ first' = IF first = None THEN [stat EXCEPT !.last_error = error] ELSE first
  /\ stat' = None
  /\ UNCHANGED <<now, try_times, since>>

Ended(error, by) == latest' = [error |-> error, by |-> by, at |-> since]

\* end_try(stat): the client counted error
end_try_counted(error) ==
  /\ end_try(error)
  /\ Ended(error, "stat")
  /\ last_last_error' = base'.last_error

\* Wrong on purpose: goes by the inherited part, as the other end_try does.
end_try_told_base(error) ==
  /\ end_try(error)
  /\ Ended(error, "ec")
  /\ last_last_error' = base'.last_error

\* end_try(stat, ec)
end_try_told(error) ==
  /\ end_try(error)
  /\ Ended(error, "ec")
  /\ last_last_error' = error

HttpNext ==
  \/ Tick
  \/ reset
  \/ begin_try
  \/ \E error \in Errors \cup {None} :
       end_try_counted(error) \/ end_try_told(error)

HttpSpec == HttpInit /\ [][HttpNext]_httpVars
-----------------------------------------------------------------------------
(* Properties. *)

\* Between tries the inherited part is that of the first try since the
\* reset, however often it was tried again.
FirstTryKept == first # None => base = first

\* total_elapse is set exactly when a try has ended, and is the time from
\* the beginning of the first try to the end of the last, the pauses between
\* them included.
TotalCoversTries ==
  /\ (total_elapse = None) = (first = None)
  /\ first # None => total_elapse = latest.at

\* last_last_error is that of the last try if it is the only one or its
\* error was told to end_try.  After an end_try that leaves the error to the
\* statistics it is that of the first try, however many there were.
LastErrorOrFirst ==
  latest # None =>
    IF latest.by = "ec" \/ (stat = None /\ try_times = 1)
      THEN last_last_error = latest.error
      ELSE last_last_error = first.last_error
=============================================================================
