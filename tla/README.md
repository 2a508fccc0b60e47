# just-common: models, checks and proofs

This directory holds TLA+ models of the library in `src/` (just-common: the
modules a family of daemons shares), the TLC configurations that check them on
small instances, and proofs, checked by the TLA+ proof system, of the properties
that matter most.

## The system

A daemon process loads modules that derive from `util::daemon::ModuleBase`. The
modules of just-common meet in one shared memory segment (`CommonModule`), in
which each process has a message queue and some fixed objects live.

| part | state | operations | talks to |
|---|---|---|---|
| `CommonModule`, `CommonModuleBase` | segment, timer manager, a queue per process | open, startup, shutdown | everything else |
| `Debuger` | mode word (object 102), queue "Debuger", two log streams, a timer, two flags | startup, shutdown, `change_debug_mode`, `check_debug_mode`, `handle_timer`, `get_debug_msg`, `set_log_hook` | the Debugers of the other processes, through queues and the word; the logger |
| `DebugProxy` | acceptor, one socket, a worker thread, `exit_`, a mutex | startup, shutdown, the loop of the worker | `Debuger`; HTTP clients |
| `BlobManager` | map of key to `Blob *`, `cache_` | insert, get, remove | its callers, who hold pointers into it |
| `PortManager` | three ports in the segment (object 107) | get_port, set_port | other processes |
| `ConfigMgr` | a timer | set_config, handle_timer | queues of all processes |
| `ScheduleManager` | timers handed out as `void *` | schedule_callback, cancel_callback | the io service |
| `HttpStatistics` | try counter, elapsed time, last error | begin_try, end_try, reset | an HTTP client |
| `UrlHelper` | none | decode_url, apply_config, ciphers | - |
| `Environment` | machine id, version | constructor, get_bid | the operating system |
| `RedirectCall` | three pointers | set, call, free | the functions it was given |
| `Error`, `Version`, names, build | none | - | - |

What is hard here: several processes and threads share a word and queues without
a lock; processes start, stop and die in the middle of the protocol; the caller
of `change_debug_mode` waits for answers that may never come; `DebugProxy` is
shut down by the very thread whose answers its worker may be waiting for; and
`BlobManager` hands out pointers into memory it goes on managing. The repository
has no tests. `PROJECT.json` lists each such hazard at its line.

What makes each part correct:

* `Debuger`: no process misses a change of the mode; a call that collected all
  its answers has been applied everywhere; calls return; the logger never holds
  a deleted stream; a log hook that was taken away is not called any more.
* `DebugProxy`: the worker ends when asked to (if shutdown manages to wake it), never serves the connection made
  to wake it up, never outlives its `Debuger`; the mode is on while a client is
  served, and only then.
* `BlobManager`: blocks have one owner; buffers stay good as long as a caller
  may expect; the first blob of a key stays; one-shot blobs are had once.
* `PortManager`, and the word of `Debuger`: a value that was set is not wiped out
  by a process that starts.
* `ConfigMgr`: settings are applied in order, each at most once per process.
* `ScheduleManager`: a callback runs once, and is told the truth about its time; a
  timer lives as long as its handle.
* `HttpStatistics`: what belongs to the first try stays apart from the totals.
* `UrlHelper`: decoding is all or nothing, also for a blob that is there only once;
  settings and parameters are exactly those the keys mean.
* `Environment`: the machine id is made of the first four usable addresses.
* `RedirectCall`: a call goes where the last redirect sends it, with its context.

## Modules

| module | models | extends / uses |
|---|---|---|
| `DebugMode` | what Debuger promises (abstract) | |
| `Debuger` | Debuger.cpp, and the segment and queues of CommonModule.cpp | |
| `DebugerRefinement` | Debuger as a DebugMode | Debuger, DebugMode |
| `DebugerProofs` | proofs about the three above | DebugerRefinement |
| `DebugProxy` | DebugProxy.cpp, its worker being the caller of Debuger | Debuger |
| `DebugProxyProofs` | proofs about it | DebugProxy, DebugerProofs |
| `BlobStore` | what BlobManager promises (abstract) | |
| `BlobManager` | BlobManager.cpp with its heap | BlobStore |
| `BlobManagerProofs` | proofs about it | BlobManager |
| `PortManager`, `PortManagerProofs` | PortManager.cpp: an object that several processes find or make; proofs | |
| `ConfigMgr`, `ConfigMgrProofs` | ConfigMgr.cpp over the queues of the processes; proofs | |
| `Callbacks` | what ScheduleManager promises (abstract) | |
| `ScheduleManager`, `ScheduleManagerProofs` | ScheduleManager.cpp with the io service; proofs | Callbacks |
| `DebugerHook`, `DebugerHookProofs` | set_log_hook and HookLogStream of Debuger.cpp, with the logger; proofs | |
| `RedirectCall` | RedirectCall.h and .cpp between threads | |
| `HttpStatistics` | HttpStatistics.h against a clock | |
| `UrlHelper` | apply_config and apply_params of UrlHelper.cpp | |
| `UrlDecode` | decode_url and decode_param of UrlHelper.cpp | BlobStore |
| `Environment` | the constructor in Environment.cpp | |
| `HelperProofs` | proofs about the last five | these |
| `MC...` | values of constants for TLC | the module after MC |
| `MCCalls` | one instance of the four sequential parts | UrlHelper, UrlDecode, HttpStatistics, Environment |

Definitions whose comment begins "Wrong on purpose" are variants of an operation
with a plausible mistake. No specification uses them; each is there to show that
a property notices the mistake when it takes the place of the operation.

### Debuger

Every process has one thread that matters, its main and io thread (`pc`); a
thread that calls `change_debug_mode` is a member of `Changers` with a place of
its own (`cpc`). An action is the code between two points at which another
thread or process can be seen: each read of the word is one (`CheckOne` and
`CheckZero` are the two reads of `check_debug_mode`), as are the write of the
word, `clear`, the broadcast and each pop of `change_debug_mode`. `resume` is the
statement after the current `check_debug_mode()`, which is called from three
places.

The queue is code of another library. From its use it is taken that push and pop
are atomic; a message without a receiver goes to every open queue but the
sender's own, and push returns to how many; a pop takes the first message of its
type. Messages of one type in one queue differ at most in their sender, so counts
stand for them. Log lines are lost when the segment is full. With `Crowding` the
other messages are at risk too: while `NoRoom`, a broadcast reaches any of its
receivers and says how many, and an answer may be lost. What the code can do about
it is little, and the properties say so: `torn` covers the changes nobody, or not
everybody, was told of. Adding a stream twice is adding it once. Whether the name of a
queue outlives its process is left open (`Destroy` allows both), and after a crash
it does: its answer is then counted on but never comes.

`open_shm` removes the segment before it opens it (CommonModule.cpp:26). It is
taken that this does nothing while another process has the segment open; that is
what sharing needs. Where it takes the name away from a segment in use, processes
share nothing, and each is an instance of the model with one process.

`Construct` leaves out one window: between `alloc_with_id` and the store that
clears the word. It is the one `PortManager` models.

The history variables are `awaited` (whose answer a call still lacks), `torn` (the
caller died between word and broadcast, or the broadcast did not find room
everywhere) and `clean` (no calls overlapped, timed out or died, and each
broadcast reached everybody).

### DebugerHook

`set_log_hook` touches nothing the protocol touches, so it has a module of its
own: threads in `set_log_hook` (`spc`), the main thread, which shuts down, deletes
and makes Debugers (`mpc`), and the one line being written (`wpc`). Each access of
a member that another thread can see is a step. The logger is library code; from
its use it is taken that it writes one line at a time -- all threads write into
the one `buf_` -- and that `add_stream` and `del_stream` wait for that line, without
which `delete` after `del_stream` would never be safe. A deleted stream's address
is used again. `set` is what the last call that returned has set; `clean` says that
callers have taken turns: two calls at once, or one during shutdown, can leave a
stream in the logger with `hook_streamed_` down, and nothing in the code prevents
that.

### DebugProxy

The state of `Debuger` plus, per proxy, the place of its worker (`wpc`), how far
startup and shutdown have come (`spc`), `exit_`, the acceptor (`open`, `backlog`)
and the connection. Steps of Debuger appear in it unchanged; a worker makes them
when it is in `change_debug_mode` (`WorkerInCall`) or pops a line. While a proxy is
shut down the io thread of its process handles no timer (`IoFree`). The lock is
held from `ProxyShutdown` to `CloseAcceptor`, and `Gate` waits for it.

Sockets: accept takes the oldest connection or fails; a read or write succeeds or
fails; the wake-up connection is closed by its maker, so reading it fails.
Closing the acceptor or cancelling the socket wakes no blocked call -- that is
what the wake-up connection is for. `Reaches` says at which acceptors that
connection may end: normally the proxy's own, but `addr_` ends in `9003+`, and
another process may be listening at 9003. Its `connect` may also fail, with the
acceptor open, for want of a descriptor or of room in the backlog, and shutdown
does not look at the error (DebugProxy.cpp:72). The history variable `missed` names
the proxies whose wake-up connection failed or ended elsewhere while their own
acceptor was open: nothing tries again, a worker in `accept` stays there, and the
join with it.

### BlobManager

Blocks of the heap with their owner. `live` is what is allocated; freed blocks are
used again, so that a stale pointer would be noticed. `shot` and `kept` are
history: the buffers callers were handed and may still use. The code states no
such promise; the one used is the longest the code keeps: a buffer of a removed
blob lasts until the next get that removes one, any other until `remove`.

### PortManager

Each process opens the segment, then allocates object 107 or finds that it is
there (`Alloc`, `AllocFails`), and constructs it store by store (`Clear`) or looks
it up (`Lookup`). New memory holds anything. A process may stop or die at any
point; the segment, and the object in it as it is, lasts until no process has it
open (the same assumption about `open_shm` as above). `last` is what was set last;
`early` says that somebody looked the object up before all its fields were
stored -- also because its maker died half way -- and `made` that its constructor
has come to its end, after which no process may run it again. `get_port` returns
`ports_[t]`.

### ConfigMgr

The queues, of which only MSGTYPECONFIG messages appear, and the configuration of
each process. Values are split by the one thing the code can tell: whether they
have a `|` in them (`Piped`), in which case the message has more than three
slices and is dropped. `startup` and `shutdown` are calls somebody makes: their
signatures are not those of the virtuals that the other modules override
(ConfigMgr.h:32,35), and nothing in the repository calls them.

The queues are those of Debuger, with the same two weaknesses. The segment may be
full of other messages (log lines, see Debuger), so a push reaches any part of its
receivers, and `set_config` does not look at what it returns. And a queue with its
messages may outlive its process (`Exit` allows both): a process that starts finds
what its predecessor left, unless no process was up and the segment is new
(`Construct`). `attached` is whose queue is open. `want` is the last setting for a
name that the queue of a process took, and starts again from what is left in the
queue when the process ends. A process per queue is presumed: the constructor of
`CommonModule` with one argument names the queue "CommonModule" in every process
that uses it, and these would share one.

### ScheduleManager

`Complete` is what the io service does when a timer runs out or is cancelled: the
wait goes to its queue of completions with a code that nothing changes any more;
`Call` calls the callback. `handle` is what the caller holds, and the model lets
him cancel a handle once; addresses of deleted timers are used again.
`Callbacks` keeps of this only how far each request is and the code it got:
`StageOf` and `CodeOf` read both off the timers, the queue of completions and
`cut`. To cancel after the time is over, and to delete a timer, are stutters there.

### HttpStatistics

The counters, a clock, and the statistics of the HTTP client during a try. The
inherited part holds when the try began, which `elapse()` counts from, and the
error. Tries begin and end in turn; `reset` comes between them. `latest` is how the
last try ended, and by which of the two `end_try`: the one without an error code
takes `last_last_error` from the inherited part, which is that of the first try.
`since` is a clock of its own, which starts with the first try and is not computed
from any begin; `latest.at` is what it was at when the last try ended, and so what
`total_elapse` has to be, pauses included.

### UrlHelper, UrlDecode

`UrlHelper` walks over parameters one by one, as the loops do; keys are sequences
of characters because the rule about prefix and last dot is what there is to
check. In `UrlDecode` texts are not spelled: a text is plain or names a scheme and
what it is applied to. `decode` lists the outcomes of each decoder; that of blobs
is `Get` of `BlobStore`, which `BlobManager` implements. The error code of the
caller is taken to be clear before the call.

### Environment

The loop over the interfaces, each of one of the kinds the loop tells apart. An
address always has 17 characters, so `mac` is the list of the addresses in it and
`size` its length as text.

### RedirectCall

A redirect stands for the three pointers of one `set`; the object holds, field by
field, whose pointer it has. `set` stores one field at a time, in any order; a
call tests `call_` and then reads it and `context_`; `free` tests `free_` and reads
it again. The overloads differ only in the number of arguments and in whether
there is a result, which the function called has to fill in (`R r` is not
initialised); the model leaves both out. There is no lock: what is promised holds
while sets do not overlap (`crossed`), and for calls no set overlaps with
(`disturbed`). A call in the middle of a `set` may call null or mix contexts.

## Runs

| run | instance | checks |
|---|---|---|
| `debuger` | 2 processes with a caller each, 2 calls, 1 nap, 1 line that fills the segment, 1 crash | `TypeOK`, `ModeNotLost`, `AnswersMeanApplied`, `StreamAlive`, refinement of `DebugMode` |
| `debuger_live` | 2 processes, 1 caller, 2 calls, 1 crash, the segment as above | `ModeConverges`, `CallReturns` |
| `hook` | 2 setters, 2 functions, 2 addresses | `HookTypeOK`, `HookAlive`, `HookNotNull`, `HookForgotten` |
| `proxy` | 2 processes, 1 proxy, 2 clients | `ProxyTypeOK`, `WakeNotServed`, `WorkerHasDebuger`, `ServedMeansModeOn`, `NoLostWake`, `ExitWindsDown` |
| `proxy_two` | 2 processes with a proxy each, 2 clients, 4 calls, 1 line, one shutdown, ports mixed | `ModeOnMeansServed` |
| `proxy_live` | 2 processes, 1 proxy, 1 client, 1 crash, 1 line that fills the segment | `ShutdownJoins` |
| `blobs` | 2 keys, 2 contents, 3 blocks | `TypeOK`, `SoleOwner`, `BuffersStand`, refinement of `BlobStore` |
| `ports` | 3 processes, 2 types, 2 ports | `PortTypeOK`, `PortsStand` |
| `config` | 2 processes, 2 names, 3 values of which one is refused, 4 messages | `LastSettingWins`, `SettingsArrive` |
| `schedule` | 3 requests, 2 addresses | `CalledOnce`, `HandlesOwnTimers`, `EveryCallbackCalled`, refinement of `Callbacks` |
| `redirect` | 3 threads, 2 redirects | `RedirectWhole`, `CallsGoThrough` |
| `calls` | keys up to 4 characters, prefixes up to 2, up to 2 (config) or 4 (params) parameters; 18 texts, 1 parameter, 1 blob; 3 tries, 2 errors, 5 ticks; up to 6 interfaces | `ConfigFromKeys`, `GapsFilled`, `NothingHalfDone`, `FirstTryKept`, `TotalCoversTries`, `LastErrorOrFirst`, `MidIsFirstFour` |

`calls` puts four parts that share nothing into one run; a behaviour is of one of
them.

Bounds, and why they are enough. Two calls let one leave something behind for
the other; two callers let them overlap; two processes are one that calls and
one that does not; what holds of more is proved (`AnswersApplied`,
`NoChangeLost`). `TimeOut` is 1, or 0 in `proxy_two`, instead of 30: only
whether it runs out matters. One line is enough for a full segment; `Crowding`
is on in `debuger`, `debuger_live` and `proxy_live`, and off in the two others,
whose subject is who holds the mode. Crashes: one. Restarts are not bounded,
except in `proxy`, which does not look at the process without a proxy once its
Debuger has shut down (`MCOtherStays`), and in `proxy_two`, which stops looking
at a process when its Debuger has shut down, lets at most one of the two proxies
shut down, and has both started before the first client comes (`MCOneShutdown`):
two sessions side by side, each of which may stream a line and lose its client
there, and one of which may be cut short. As nobody pops an answer when
`TimeOut` is 0, its view (`MCView`) leaves out the answers, the counters of the
calls and their history; that of `proxy` (`MCNoHistory`) only the history of the
calls, by which no action goes. `MaxChanges` is twice `MaxClients` where a
property needs every session to be able to end. Three blocks are what two keys
and `cache_` can own, so every free block is soon used again. Symmetry is used
only for safety: between process-and-proxy pairs in `proxy_two`, between
processes and between ports in `ports`, and between the threads and between the
values in `hook` and `redirect`.

Three processes are one that constructs and two that meet meanwhile. Four
messages are one an ended process has left, and two that count with a refused one
among them. Three requests on two
addresses make one of them be used again. Four characters are a prefix, a section,
a dot and a name, or dots in any place of these. Six interfaces are four that are
taken, one that must not be, and one to leave out. Two setters are one whose hook
is replaced by the other's; two addresses let a deleted stream's be used again.
Three threads are two sets that overlap and a call between them.

Deadlock is checked in every run but two: in `schedule` all requests are made at
some point, and in `calls` a loop ends.

Fairness. The io thread of a live process keeps handling its timer, and a thread
in `change_debug_mode`, in the worker's own steps and in shutdown keeps running.
The io service of `ScheduleManager` runs and time passes. No fairness is given to clients, log writers, callers, startup, shutdown requests
or failures. So `ShutdownJoins` says: the join ends, or one client keeps the
worker in one socket call for ever, or the worker stays in `accept` because the
wake-up connection was not made (`missed`). The code allows both: `socket_.cancel`
does not end a blocking read, nor `acceptor_.close` a blocking accept. `AcceptFails`
has no fairness: no error of `accept` is counted on to end the wait.

What the runs show besides: `ModeConverges` has the exception `torn`, as nothing
repairs a broadcast that was never made; `AnswersMeanApplied` is for `clean` runs,
as late answers are counted by the next call, and in a full segment the caller
counts only those its broadcast reached; `ServedMeansModeOn` is for a single
proxy, as the word has no count; `ModeOnMeansServed` has the exception `cut`, as a
worker that leaves by `exit_` leaves the mode on; `NoLostWake` and `ShutdownJoins`
have the exception `missed`, as shutdown does not look at the error of its
`connect`; `SettingsArrive` is about the settings a queue took, as `set_config` does
not look at what its push returns.

## Proofs

All are for any sets of processes, callers, keys and blocks and any bounds, from
the assumptions named in the modules (`DebugerAssumption`: finitely many
processes; `DebugProxyAssumption`: at most one proxy per process;
`BlobAssumption`: NULL is none of the values; `HookAssumption`,
`RedirectAssumption`, `HttpAssumption`, `ScheduleAssumption`: the same of theirs).

* `NoChangeLost` (`ModeNotLost`). Inductive invariant `ReadsCurrent`: once the
  broadcast of the last change is out and a process has no message waiting,
  whatever it has read of the word is still true. `ModeNotLost` itself speaks only
  of processes outside `check_debug_mode` and is not inductive; `ReadsCurrent` adds
  what must hold between the reads and the stream. It needs `Owns`: a live process
  has its queue open, so that the broadcast reaches it.
* `StreamsAlive` (`StreamAlive`), from `Owns`: a registered stream exists,
  belongs to a live process and is known to `out_streamed_`.
* `AnswersApplied` (`AnswersMeanApplied`), from `AnswersCounted`: while `clean`, a
  process owes the queue at most one answer -- a message not popped, a look not
  finished, an answer not collected -- and only if the one caller awaits it; the
  counter of the caller is the number of those it awaits. With `ReadsCurrent`, a
  counter of zero means that everybody has looked. Since `clean` excludes
  broadcasts that found no room, `PushReachesAll` gives the counter its start.
* `Implements`: every step of `Debuger` is a step of `DebugMode` or a stutter,
  under `TypeOK`, `Owns` and `ReadsCurrent`.
* `ProxyUsesDebuger`: `ProxySpec` implies `Spec` of `Debuger`, so all of the above
  holds with proxies as callers.
* `WorkerNeverAlone`, from `Nested`: the worker lives within its proxy, the proxy
  within its started process.
* `ModeOnOnlyForClients`, from `ModeHeld`: while the word is 1 some worker has a
  session or has yet to write the 0 that ends it, and a call made to end a session
  carries 0.
* `ClientsSeeTheLog` (`ServedMeansModeOn`), from `SessionOn`: with one proxy, a
  worker that serves has the word at 1, and one that is turning it on has written
  1 or is about to; a call of anybody else there is not.
* `DebugerUnderProxies` says that of the four results in one theorem.
* `WakeIsNoClient`, from `ExitFirst`: if every proxy listens at the port its `addr_`
  names, whoever finds a wake-up connection finds `exit_` set.
* `WakeNotLost` (`NoLostWake`), for any ports, from `OpenWhileRunning`,
  `ExitWhileShutting` and `Nested`: while the worker runs the acceptor is open until
  shutdown closes it, so a wake-up connection that is made arrives, or went elsewhere
  and is in `missed`; and a worker that has taken a connection off the backlog since
  then does not come back to `accept`, because it finds `exit_` set at `Gate`.
  `NoLostWake` is the safety half of "the join ends".
* `ExitEndsTheWorker` (`ExitWindsDown`), the other half: `Remaining`, a natural
  number of the place the worker is at, is lower after each of its moves once `exit_`
  is set. Its invariant `ExitSet` says that nothing starts a proxy again meanwhile.
  What is left to fairness is only that the worker moves at all.
* `OwnedOnce`, `HeldStands`, `ImplementsStore` about `BlobManager`; the buffers
  stand because the block a caller holds is the one its key or `cache_` owns
  (`HeldIsOwned`).
* `PortsAreKept` (`PortsStand`), from `SettledUnlessEarly`: while nobody came early
  an object in use has all its fields stored, and nothing was set before. It rests
  on the constructor running in one process at most, and in none once it has come
  to its end (`PortTypeCorrect`).
* `SettingsInOrder` (`LastSettingWins`), inductive with the types and `NothingKept`:
  a process that has ended keeps no configuration, so what its queue still holds is
  all its successor begins with. The two lemmas are that a message sent is the last
  of a queue and one taken the first. Lost pushes need no case of their own: the
  queues that took the message are any set.
* `NeverTwice`, `HandlesAreOwners`, `CancelledInTime` about `ScheduleManager`, from
  `ScheduleInv`: a request has exactly one place, in a timer, in the queue or in
  the past, and its code is right from the moment it has one.
* `ImplementsPromise` (`ImplementsCallbacks`), step by step under `ScheduleInv`: each
  action moves the stage of one request (`OneMoves`) and leaves what is seen of the
  others (`SeenKept`); a wait that completes settles its request, whichever of the
  two codes it gets (`CompleteSettles`). The run checks the refinement only: that the
  code is the right one (`AbortedIfCut`, proved as `CancelledInTime`) follows from it.
* `HookStreamsAlive`, `HookCallsFunctions`, `HookLetsGo` (`HookAlive`,
  `HookNotNull`, `HookForgotten`), from `HookInv`: while callers take turns there is
  one stream, the flag is up while the logger has it, and its `callback_` is what was
  set last or is being set, so what a write has read of it is too (`InUse`).
* `FirstOfAll`, `ElapseCovers`, `LastErrorTold` about `HttpStatistics`, from
  `HttpInv`: between the first end and the reset the inherited part is `first`, and
  the time since it began is what the clock `since` shows (`RunsSince`), so the
  `elapse()` an `end_try` stores is that clock.
* `MidOfFirstFour` (`MidIsFirstFour`), for any number of interfaces, from
  `Collected`: `mac` holds the usable interfaces before `i`, in order, and never
  more than four.
* `OneRedirect` and `CallsAreRedirected` about `RedirectCall`: a set that does not
  overlap another leaves its own pointer in every field it has stored, and what
  an undisturbed call has read is from the newest (`ReadsNewest`).
* `DecodedOrNot` (`NothingHalfDone`): an action property, by cases over the schemes.
* `GapsFilledFirst` (`GapsFilled`) and `ConfigIsFromKeys` (`ConfigFromKeys`), for keys
  of any length and any number of parameters. The model takes one parameter per
  step, so the induction the loop needs is that over the behaviour. `GapsFilled` is
  inductive with the types (`UrlTyped`); for `ConfigFromKeys`, which looks for settings
  among the parts of keys so that TLC can, `ConfigRight` says it of any setting. The data needs two facts about finite sets of numbers, that
  they have a least and a greatest member (`LeastExists`, `GreatestExists`), which
  follow from the well-foundedness of `<`. With them `KeyMeans` says that cutting a
  key behind the prefix and at its last dot is the only way to read it as
  prefix, section, dot and name; places in such a concatenation are `PlacesOfFour`.
* `TypeCorrect`, `ProxyTypeCorrect`, `BlobTypeCorrect`, `HookTypeCorrect`.

Only model-checked: `ModeConverges`, `CallReturns`, `ShutdownJoins`,
`SettingsArrive` and `EveryCallbackCalled`. They are liveness properties under
fairness, which needs ENABLED and is beyond the prover. Of `ShutdownJoins` the two
safety facts above are proved for every instance. Every invariant and every action
property that a run checks, and each of the three refinements, is a theorem.

## Not modelled

* The window between `alloc_with_id` and the store of 0 in the constructor of
  `Debuger`: it is the one `PortManager` models, for one field. In `Debuger` itself it
  would only add what `early` there already says: all bets are off.
* A segment without room for the object itself: `alloc_with_id` and `get_by_id`
  then both give a null pointer that `PortManager` and `Debuger` go on to use. How
  large the segment is, is library code.
* What `SharedMemory::remove` does to a segment in use (see Debuger above).
* Constructing without shutting down, or shutting down without having started:
  the daemon is taken to pair them.
* The timer manager of `CommonModule`, its `startup` and `shutdown` that start and
  stop it, and `set_version`: one call of a library, or one assignment, each.
* A url with an empty path, of which `decode_url` takes `substr(1)`, and whether the
  decoded text makes a valid url (`ur12`, which nothing checks): texts are not
  spelled.
* Redirects of which one of the three pointers is null: `RedirectCall` sets all of
  them.
* `level_` of a log stream: `set_log_dump` stores it for the base class of the stream,
  which belongs to the logger.
* Errors, versions, names and the build (no state), the ciphers and `get_bid`
  (functions of their input, of library code).
