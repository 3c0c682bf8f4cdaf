# A TLA+ verification of uvw

uvw is a header-only C++17 wrapper of libuv. libuv is a C library: it stores
raw pointers, calls back through them, and leaves it to its user to keep the
memory behind them. What uvw adds, and what can go wrong in it, is the
*ownership*: which C++ object is alive when libuv calls back, who owns a
buffer, a descriptor or a loop, and in which order references are taken and
given up while user code runs inside callbacks. That is what these modules
model and what the properties are about. libuv and the kernel appear as
*external* actions, modelled from what uvw relies on.

Paths below are relative to the repository, `src/uvw/` is its source directory.

## Inventory

| Part (files) | State it keeps | Operations | What is hard about it |
|---|---|---|---|
| resources (`resource.hpp`, `uv_type.hpp`, `handle.hpp`, `request.hpp`) | `self_ptr`, `owner` (the loop), the C struct whose `data` points back | `leak_if`, `self_reset`, `init`, `close`, `closing`, `close_callback`, `reserve`, `cancel` | the last user reference may go at any time, also inside a listener; a callback may be the last thing that keeps its object |
| loop (`loop.h`, `loop.ipp`) | `uv_loop` with its deleter, the static `weak_ptr` of `get_default` | `create`, `get_default`, `close`, `~loop`, `run`, `stop`, `alive`, `timeout`, `resource`, `uninitialized_resource`, `walk` | closing a busy loop, closing before the last handle, a default loop closed and asked for again |
| streams (`stream.h`, `tcp`, `pipe`, `tty`) | internal requests (`connect_req`, `shutdown_req`, `write_req`) with their data | `read`, `listen`, `accept`, `write`, `try_write`, `shutdown`, `connect`, `stop`, `close_reset` | data must outlive the call; answers name no write, so their order matters; closing with requests in flight |
| `udp` | `send_req` with its data, receive buffers lent to libuv | `connect`, `send`, `try_send`, `recv`, `stop` | who frees a buffer; an empty datagram against the end of the data |
| `tty` | the `reset_mode_memo` all handles share | `mode`, `reset_mode` | one reset for all handles, with the last of them; one mode recorded for all, with the descriptor of one |
| idle, prepare, check, async | libuv's queues | `start`, `stop`, `send` | listeners that change the queue being visited; threads that send while the loop is about to block |
| timer, signal, poll | libuv's | `start`, `again`, `repeat`, `one_shot`, `stop` | a cached clock; reports that are older than the last `start` |
| `fs_event`, `fs_poll` | libuv's | `start`, `stop`, `path` | nothing of their own |
| `file_req` (`fs.h`, `fs.ipp`) | `file`, `current`, `buffer`, the `uv_fs_t` | open, close, read, write and nine others, asynchronous and synchronous | pool threads, descriptor numbers used again by the kernel, cancellation, buffers |
| `fs_req` (`fs.h`, `fs.ipp`) | the `uv_fs_t`, `dirents` | directories, scandir, paths, asynchronous and synchronous | one `uv_fs_t` for all operations, cleaned up by each; cancellation |
| `work_req`, dns (`work`, `dns`) | `func`, the C request, the list of addresses | `queue`, `addr_info`, `name_info`, their synchronous forms, `cancel` | pool threads, `cancel`, who frees the list |
| emitter (`emitter.h`) | one `std::function` per event type | `on`, `reset`, `has`, `publish` | changes made by the listener that is running |
| process (`process`) | options, standard streams | `spawn`, `kill`, `stdio` | initialised by `spawn` only, also when that fails |
| thread (`thread`) | C primitives, `joinable` | `run`, `join`, `once`, locks, semaphore, condition, barrier | join in the destructor, one static guard for `once`, answers turned into `bool` |
| util (`util`) | none | addresses to and from `sockaddr`, strings read through a growing buffer, process title, passwd | byte order and the size of an address; a value that changes between two calls, or is cut |
| lib, enum, type_info | none | `dlopen`, bit operators, type names | - |

They interact by shared ownership (every resource owns its loop, an internal
request owns its handle, a registered object owns itself), by callbacks (libuv
calls a static function, which finds the object in `data` and publishes an
event) and by user code that runs inside those callbacks and may call anything.

## Modules

| Module | Models | Composed with |
|---|---|---|
| `Lifetime` | references and callbacks of handles, requests and their loop | implements `ResourceContract` |
| `ResourceContract` | abstract: what a user may rely on of one resource | - |
| `LoopOwner` | the loop wrappers and the `uv_loop_t` behind each | `MCLifetime`; `Lifetime` justifies its `busy` |
| `FileReq` | `file_req`, libuv's pool, the kernel's descriptor table | `MCFs` |
| `DirReq` | `fs_req` and its single `uv_fs_t` | `MCFs` |
| `Stream` | the outgoing side of a connection | implements `OrderedChannel`; `Lifetime` justifies that its requests are alive |
| `OrderedChannel` | abstract: data sent in the order of the calls, each call answered once | - |
| `StreamIn`, `Udp`, `Address` | listening and reading; datagrams; addresses | `MCNetwork` |
| `EventLoop`, `Timer`, `Signal`, `Poll` | the phases of the loop and the handles that wait for events | `MCEventHandles` |
| `PoolReq`, `Thread`, `Locks`, `Rendezvous` | work and dns requests; thread wrappers; the primitives threads share | `MCThreads`, in `MCHost` |
| `Process`, `Tty`, `Util` | child processes; the terminal; strings of the system | `MCSystem`, in `MCHost` |
| `Emitter` | listeners, their slots and the ones that run | - |
| `LifetimeProofs`, `StreamProofs` | theorems | extend the module they are about |
| `LoopOwnerProofs` | theorems about the loop wrappers | extends `MCLifetime` |
| `FsProofs` | theorems about the two kinds of file system requests | extends `FileReq` and `MCDirReq` |
| `NetworkProofs`, `ThreadsProofs`, `SystemProofs`, `EventHandlesProofs` | theorems about the parts of a run | extend `MCNetwork`, `MCThreads`, `MCSystem`, `MCEventHandles` |
| `MCLifetime` | one run for objects and loop wrappers | extends `Lifetime`, instantiates `LoopOwner` |
| `MCDirReq` | new names for `DirReq` beside `FileReq` | instantiates `DirReq` |
| `MCFs` | one run for the file system requests | extends `FileReq` and `MCDirReq` |
| `MCHost` | one run for threads and the system | extends `MCThreads` and `MCSystem` |

The modules `MC...` put components that share no state into one run.
Interleaving them would multiply states and add no behaviour, so a variable
(`part`, `kind`, `about`, `system`, `group`), chosen in the initial state, names
the one component whose steps a behaviour takes; the state space is the sum of
the components'. They instantiate the components, rename variables where two
have the same name, take over their properties, and assume (`ASSUME`) what each
component says of its constants. `Stream` is checked directly.

### Lifetime

State and code: `user` is the set of objects user code holds a `shared_ptr` to,
`self` those whose `self_ptr` is set, `cap[r]` the handle captured by the
listeners of request r, `uv[o]` what libuv knows of o's C struct, `active` the
started handles, `frame` the uvw callback on the stack, `uvloop` the
`uv_loop_t`. Nothing says that an object is destroyed: `Live` is computed from
the references, as the counts of `shared_ptr` are. Dropping the last reference
is therefore part of whatever step drops it, and so is the loop's destructor
(`LoopDestructor`).

One action per operation: `Resource`/`UninitializedResource`/`HandleInit`
(`loop::resource`, `init` with `leak_if`), `Close`, `Start`, `Stop`, `Submit`
(`write`, `shutdown`, `connect`, `send`: make the internal request, capture the
handle, `leak_if`), `Queue` (`work_req`, dns), the callbacks `EventCallback`,
`ReqCallback` (`reserve`) and `CloseCallback`, and `Return`, where the local
`shared_ptr` of a callback goes. Between callback and `Return`, and whenever
`run` is not on the stack, user code may take any step on anything it can
reach (`InReach`: what it holds, the `T&` a listener gets, the handles
`walk` passes).

`ResourceContract` says in thirty lines what this is for: an object goes from
absent to held or lent (libuv has its address) to gone; it never comes back;
it is not handed back by libuv except in a callback that tells the user; and it
is never gone while it is lent. `ImplementsContract` is the refinement.

### LoopOwner

A wrapper is made by `create()`, `create(res)` or `get_default()`; `ptr` holds
the wrappers whose `uv_loop` is not null, `raw` and `rawDef` the state of the
`uv_loop_t`. `CloseLoop` is `loop::close`, also as part of `~loop` in `Release`
and `Unregister`. The handles and requests of a wrapper are one bit (`busy`),
which owns the wrapper.

### FileReq

An asynchronous call copies `file` into the `uv_fs_t` (`Enqueue`), a pool
thread runs it (`RunOpen`, `RunClose`, `RunOther`, `Fail`), `cancel` may
overtake the thread, and the callback on the loop thread updates `file` and
publishes. `opener` is the kernel's table: the lowest layer of truth for whose
file a number is. `KeepReference` says whether user code holds the request
until it is answered; the code needs it (see the findings).

### DirReq

`type`, `ptr` and `result` are the fields of the `uv_fs_t`; `left` is the truth
about the open directory, `dirent` about the name in `dirents`. The operations on
paths are the two classes `change` (leaves no memory) and `query` (leaves
memory in `ptr`). `Cancel` is a `cancel` that succeeds: the operation never runs,
and its callback reports an error. A cancelled `closedir` leaves the directory open
and its `uv_dir_t` in the `ptr` of a closedir, which the next cleanup frees
(`SavedDir`); the operation that follows is given freed memory (`OnFreed`), and
there a behaviour ends. `DirReachable` holds up to that point (`aborted`);
`FreedByClosedir`, which does not hold, is run `closedir_cancelled`.

### Stream and OrderedChannel

Writes are numbered in the order of the calls. `st[i]`, `len[i]`, `taken[i]`
and `data[i]` are the state of the i-th `write_req`, the length of its data, what
the kernel has taken of it, and who owns it; `hs`, `conn` and `shut` are the
handle and the one connect and shutdown request. `Write` stands for the four
forms of `write` (data owned or borrowed, with or without a handle sent along),
`TryWrite` for those of `try_write`; the kernel takes one unit at a time
(`Transmit`), so a write may be half done when the handle is closed. The
callbacks free the request's data (`Reserve`) and publish an event or an error
(`Published`). `OrderedChannel` says what a user can count on: calls are
accepted, flow in order, and are answered once, `sent` only if all of it
flowed.

### StreamIn, Udp, Address

`StreamIn`: libuv holds one accepted connection at a time for a listening handle
(`at`), `ReadCallback` is given data, nothing, the end or an error and
publishes what `Event` says. `Udp`: send requests as in `Stream`; `buf` is the
receive buffer that `common_alloc_callback` has lent to libuv and that
`recv_callback` destroys; no user code runs between the two, so neither `stop`
nor `close` comes while it is lent; the constant `RecvMmsg` says whether the handle was
made with `UDP_RECVMMSG`. `Address`: a port is two digits that the network order
swaps, an IPv4 address one word, an IPv6 address two, of which a `sockaddr` has
room for the first; `IpAddr` and `SockAddr` are `ip_addr` and `sock_addr`; the
constant `V6Text` says whether the program gives IPv6 addresses as text.

### EventLoop, Timer, Signal, Poll

`EventLoop`: `phase` and `todo` are the place in `uv_run`, `act`, `refd` and
`hs` the handles; user calls are possible between any two steps of the loop,
since listeners may call anything, except while it is `asleep` in the kernel.
Other threads first post data, then call `send` (`between`); the two are not one
step. `Made` bounds which handles exist together. `Timer`: `now` is the time the
loop has cached, `clock` the real one; libuv takes all timers that are due out
of its heap (`ready`) before it calls the first back. `again` fails on a timer that
was never started, and leaves one without a repeat value as it is, scheduled or
not (`HeapAfterAgain`; what the documentation says is `AgainStops`). `Signal`: a raised signal
is a message in a pipe, read when the handle may monitor something else;
starting a handle on the signal it monitors already keeps the form it was first
started in. `once` says that the last call was `one_shot`, whatever libuv makes of
it, and `ignored` that libuv has kept to the `start` before it: `OneShotOnce`
excludes that case, and run `one_shot_restarted` shows it. `Poll`: the kernel's `report` may be older than the last `start`.

### PoolReq, Thread, Locks, Rendezvous

`PoolReq`: a request is queued, taken by one of `PoolSize` threads, worked on,
called back; `self` is `leak_if` and `reserve`; `ptr`, `holds` and `frees`
follow a list of addresses from libuv to its `unique_ptr`. `Rejects` says
whether libuv may refuse the arguments of a synchronous call. `Thread`:
`joinable`, `tid` and the threads run() has created; `Careful` says that user
code has run() succeed once, before join(). `Locks`: beside the state of
each primitive stands what every thread takes itself to hold, which is what the
`bool` of a `try_` function tells it. `Rendezvous`: every thread asks for a
function (`once::run`, one static guard), then goes through the barrier;
`rounds` and `returns` count the calls of `wait` and their returns.

### Emitter, Process, Tty, Util

`Emitter`: `handlers` are the slots, `stack` the running listeners, which may call
`on` and `reset` for any slot, their own among them: both destroy the
`std::function` in place (run `listener_replaced`). What is registered otherwise is
what was assigned, so there is no passing run. `Process`: the options are
collected first; `spawn` registers the handle and may then fail, before the child
was started or after. It is called once on a handle.

`Tty`: handles share a memo through a static `weak_ptr`; its destructor resets the
terminal. libuv (1.50, the oldest version `CMakeLists.txt` accepts) records one mode,
with the descriptor of the handle that was the first to leave the normal one (`rec`,
`saved`); closing that handle writes the mode and forgets the record. So a program
with one handle at a time that changes the mode finds the terminal restored when
that handle is closed, and the memo has nothing left to do; it does its work when a
handle goes that still has the record. What the program has asked for is `asked`.
Two ghosts mark where `TerminalSafe` ends: `shared`, a handle has changed the mode
while the record was another's, and `stale`, `mode` was called for the mode libuv
takes the handle to be in, and has done nothing. The properties `ResetWorks` and
`ModeSet` are about what happens there.

`Util`: a string is its length; `try_read` calls libuv with a buffer of `Size`, then
with one of the size it was told, while the value may change. `how` says what libuv
does with a buffer too small: all functions but one tell the size; `uv_exepath`,
behind `utilities::path`, cuts and succeeds (`Part`; that a path comes whole is `PathWhole`).

## Runs

| Run | Instance | Shows |
|---|---|---|
| `lifetime` | 2 handles, 2 requests, fairness of `Lifetime`; 3 wrappers | `NoDangling`, `CallbackSafe`, `NoLeak`, `DestructorNeverBusy`, `ImplementsContract`, `ClosingIsReclaimed`; `NoStaleLoop`, `OneDefault`, `NoLoopLeak` |
| `fs` | 2 requests, 3 descriptors, fairness of `FileReq`; directories of 0 to 5 entries, operations cancelled | `OwnsFile`, `NoForeignFd`, `BufferAlive`, `Answered`; `DirReachable`, `EventEntryValid` |
| `stream` | 3 writes of up to 2 units, `FairSpec` | `IInv`, `DataOwned`, `ImplementsChannel`, `CloseAnswersAll` |
| `network` | 2 connections of 2 chunks; 2 sends, 2 datagrams; 2 handles with addresses | `IInv`; `AcceptGuaranteed`, `ReadEventsTrue` (`EndIsLast`, `ErrorIsReal`); `DatagramsAccounted` (`SendDataOwned`, `AnswersTrue`, `PublishesAll`, `BufferFreedOnce`); `AddressesTrue` (`BoundAsAsked`, `ReplyReaches`) |
| `event_handles` | 6 pairs of handles, 2 posts; 2 timers, clock to 2; 2 signals, 3 raised, 3 starts; 3 flags; fairness of `EventLoop` | `IInv`; `TurnsServed` (`OncePerIteration`, `BlocksOnlyIdle`, `NothingMissed`, `RunsToTheEnd`), `SendWakes`; `TimersOnTime` (`NeverEarly`, `SingleShot`, `OncePerTurn`); `SignalEventsTrue` (`OneShotOnce`, `NoSpuriousSignal`); `OnlyWhatWasAsked` |
| `host` (threads) | 2 requests, 1 pool thread, 3 calls, 2 lists; 2 wrappers, 2 runs; 3 threads, depth 2, value 1; 1 function, barrier of 2, 6 calls of `wait`; fairness of `PoolReq` and `Rendezvous` | `IInv`; `PoolSafe` (`PendingAlive`, `AnswersTrue`, `ListFreedOnce`); `ThreadSafe` (`FuncAlive`, `JoinMeansEnded`, `JoinDefined`); `PrimitivesSafe` (`MutexExclusive`, `WriterAlone`, `SemaphoreCounts`, `AtMostOnce`, `RunBeforeReturn`, `NoneBeforeAll`); `CallsAnswered` (`Answered`, `OnceReturns`) |
| `host` (system) | 2 descriptors, 1 stream, 3 calls of `stdio`; 2 terminal handles, 2 modes; strings up to twice the buffer, 2 changes during a call | `SystemIInv`; `ProcessSafe` (`RegisteredAlive`, `ChildHasStdio`, `ExitBeforeClose`); `TerminalSafe` (`ModeAsAsked`, `ModeRestored`); `ReadsSafe` (`ReadsAValue`, `EmptyForAReason`, `InBuffer`) |

A property with others in brackets is their conjunction; each part is a
definition of its module with a comment of its own. The type invariants and
inductive invariants of `Lifetime`, `LoopOwner`, `FileReq` and `DirReq` are
proved and need no run. `Stream!IInv` is checked by `stream`; the `IInv` of
`network` and `event_handles`, and the `IInv` and `SystemIInv` of `host`, are the
conjunctions of those of their parts. Each contains the type invariant of its module.

Runs that end in a counterexample, each a disagreement between the code and
what its documentation says:

| Run | Property | The code |
|---|---|---|
| `file_req_forget` | `PendingAlive` | file and path requests never call `leak_if`: "make a request and forget about it" destroys them in flight |
| `default_after_close` | `DefaultIsInitialized` | `get_default` returns a closed wrapper while a reference to it exists |
| `udp_recvmmsg` | `BufferFreedOnce` | with `UDP_RECVMMSG` the buffer several datagrams share is destroyed with each of them |
| `closedir_cancelled` | `FreedByClosedir` | after a cancelled `closedir` the next operation frees the memory of the open directory and uses it (`fs.ipp:511`) |
| `listener_replaced` | `RunningAlive` | `on` and `reset` from a listener destroy it while it runs (`emitter.h:103`) |
| `one_shot_restarted` | `OneShotResets` | `one_shot` on a handle started on the signal is a `start` (`signal.ipp:22`) |

The modules state more of what the documentation says and the code does not do.
To see a counterexample, name the property in a configuration, with the
constants of the component's run except where the table says otherwise.

| Module, property | Constants | The code |
|---|---|---|
| `LoopOwner`, `CloseErrors` | | `close` on a busy loop reports `UV_EBUSY` once and then success (`loop.ipp:53`) |
| `LoopOwner`, `TimeoutFlag` | | the flag is true exactly without a timeout (`loop.ipp:79`) |
| `DirReq`, `SyncEntryValid` | | a failed read is announced as a valid entry (`fs.ipp:539`) |
| `DirReq`, `ScandirGivesEntries` | | the list is freed before the entry is asked for (`fs.ipp:315`) |
| `Udp`, `ConnectedSends` | | every `send` passes an address, which libuv refuses on a connected handle (`udp.ipp:26`) |
| `PoolReq`, `ListFreedOnce` | `Rejects = TRUE` | a synchronous lookup that libuv refuses hands out, and frees again, the list of an earlier one (`dns.ipp:27`) |
| `Process`, `SpawnAsAsked` | | `po_flags` is never given a value and is passed on (`process.ipp:39`) |
| `Thread`, `JoinMeansEnded` | `Careful = FALSE` | after a second `run`, `join` says true at once, with the thread running (`thread.ipp:62`) |
| `Thread`, `JoinDefined` | `Careful = FALSE` | `join`, also the destructor's, of a wrapper whose thread was never created (`thread.ipp:63`) |
| `Rendezvous`, `RunBeforeReturn` | two functions | one static guard for all functions: the second is never run (`thread.ipp:76`) |
| `Rendezvous`, `WaitSucceeds` | | `wait` says false to the thread that gets a positive number (`thread.ipp:194`) |
| `Address`, `BoundAsAsked` | `V6Text = TRUE` | `ip_addr` returns a `sockaddr` by value, which cuts an IPv6 address (`util.ipp:65`) |
| `Address`, `EmptyOnError` | `AnySpec` | `sock` and `peer` convert storage nobody has written when libuv fails (`tcp.ipp:47`) |
| `Timer`, `AgainStops` | | `again` does not stop a timer without a repeat value, as `timer.h:59` says it does (`timer.ipp:23`) |
| `Tty`, `ResetWorks` | | once the handle with the record is closed `reset_mode` does nothing, whatever mode another has set (`tty.ipp:34`) |
| `Tty`, `ModeSet` | | after `mode(RAW)` and `reset_mode`, `mode(RAW)` succeeds and does nothing (`tty.ipp:30`) |
| `Util`, `PathWhole` | | `path` returns the beginning of a path longer than its first buffer (`util.ipp:344`) |
| `Util`, `TitleAsSet` | | `process_title` returns the whole buffer (`util.ipp:289`) |
| `Util`, `PasswdValid` | | `passwd` ignores the answer of libuv and tests a pointer that is never null (`util.ipp:150`) |

*Bounds.* Two handles and two requests are enough for a request that outlives
another on the same handle, a handle that closes in the callback of the other,
and an internal request beside one the user holds; an identity is one C++
object, so behaviours are as long as the objects allow. Three wrappers let a
default wrapper be replaced while a third exists. Two file requests and three
descriptors let a closed number go to the other request and a request own one
descriptor while it has leaked another. Five entries are more than any
operation can tell apart (none, the last one, more). The proofs remove the
bounds of every run for its safety properties.

Three writes let one be finished, one half taken and one queued when a failure
or a close comes. Two connections let one arrive while the other is held; two
datagrams let an empty one follow a full one. The pairs of handles have two of
one phase, handles of consecutive phases, and an async handle beside one that
keeps the loop from blocking and one that does not; two posts let two sends
merge. Two timers let one stop or restart the other after both have expired;
a clock to 2 lets a repeating timer fire twice. Two signals and three starts
let a message of one be read while the other is monitored, and again after
that. Two requests on one thread let one wait, be cancelled or be
queued again behind the other. Three threads are the fewest for two readers and
a writer, and for a barrier of two that is used again while a thread of the
first round is leaving. Two handles on a terminal let the memo be shared,
given up and made again, and the record go from one to the other; two modes are
enough for a mode that is normal and one that is not (the proof is for any sets
of handles and modes). Two changes during a call let a string grow past both
buffers.

*Deadlock* is not checked (`CHECK_DEADLOCK FALSE`) where the program may end:
every object closed and every identity used up is the normal end of a program,
and in `DirReq` a behaviour ends with the use of freed memory. Waiting that
would last for ever is what `BlocksOnlyIdle` and the liveness properties are about.

*Fairness.* `Lifetime`: listeners return; the callbacks of closing handles and
of the requests `uv_close` cancels are strongly fair, since each iteration of
`uv_run` ends with the closing phase. Nothing is assumed about user code, about
events, or about requests on open handles, whose peer may never answer; the
property speaks only of time during which `run` is on the stack in default
mode. `FileReq`: pool threads take what is queued, the loop reports what has
run, listeners return; user code owes nothing. `Stream`: the loop calls back
what has finished and runs the steps of a close; a connection may pend for ever
and the peer may never read. `EventLoop`: `uv_run` goes on whenever it can, and
a thread that has posted calls `send`. `PoolReq`: a free thread takes what is
queued, tasks end, the loop calls back. `Rendezvous`: a thread inside `uv_once`
goes on when it can; nobody is obliged to come to the barrier.

*Mutants.* Beside each definition that a plausible slip would break there is a
"Faulty variant" (a self reference never given up, the error of `init` ignored,
a pointer taken after the cleanup). None is used by a specification; each shows
that a property would notice the slip.

## Proofs

Checked by TLAPS for every value of the constants.

* `LifetimeProofs`: `Invariance` proves `IInv`, of which the heart is
  `SelfIffLent`: an object owns itself exactly while libuv has its address.
  `NoDangling` alone is not inductive (an object may be alive today only
  because the user holds it). The event callbacks need `EventHandleLent`
  (a handle being called back has its close callback still to come), the
  internal requests need `InternalHidden` and `PendingOnOpen` (the handle of a
  pending request has not been closed), and the refinement needs
  `KnownObjects`. One lemma per action shows that it keeps `IInv`.
  `NeverDangling`, `CallbacksSafe`, `NeverLeaks`, `DestructorClean` and
  `TypeCorrect` follow. `Refinement` proves `ImplementsContract` from two
  lemmas: what is destroyed is out of reach and stays so (`NoResurrection`),
  and libuv gives an object back in its callback only (`HandBackTells`).
* `LoopOwnerProofs`: `LoopInvariance`, then `NeverStale`, `SingleDefault`,
  `LoopsFreed`. The strengthening is `DefaultIsRef`: only the wrapper that the
  static `weak_ptr` remembers may point to the default loop.
* `FsProofs`, on `file_req`: `FileInvariance`, then `FileOwned`, `FdNeverForeign` and,
  assuming `KeepReference`, `BufferOwned`. `NoForeignFd` and `OwnsFile` need
  each other: the copy in the `uv_fs_t` is the request's own because `file` was
  at the call, and stays so because a request has one operation in flight.
* `FsProofs`, on `fs_req`: `DirInvariance`, then `DirNeverLost` and
  `EntriesValid`, for directories of any size and operations cancelled at any
  point. The strengthening is `StreamKept`: the stream is in `ptr` also while an
  operation is in flight, and the last operation on an open directory was one of
  the three that know about it, so that `scandir_next` cannot clean it away; a
  closedir among them only if it was cancelled, and then (`AbortedFreed`) the
  stream is in the memory the next cleanup frees, or has been freed by it.
* `StreamProofs`: `StreamInvariance` proves `IInv` for any number of writes of
  any length, then `DataNeverLost` and `ChannelRefinement`. `DataOwned` needs the
  data of a write to follow its state (owned or borrowed until it is answered,
  freed after), and the refinement needs that what the kernel has taken is a
  prefix in the order of the calls: all of the writes before the first queued
  one, part of that one, nothing of the later ones.
* `ThreadsProofs`: `PoolInvariance`, then `PoolRequestsSafe`, if libuv refuses no
  synchronous call (`~Rejects`). A list of addresses has one owner: the request
  that waits for its callback, the `unique_ptr` of user code, or nobody once it
  is freed (`ListsByState`); two pending requests never have the same list.
  `ThreadInvariance`, then `ThreadsEndInOrder`, for careful user code: the flag
  of a wrapper is down exactly when its thread has been or is being joined.
  `PrimitivesInvariance`, then `PrimitivesExclude`: what a thread believes it
  holds is what the primitive says (`MineIsHeld`, `RwlockState`); of the calls
  of `barrier::wait` whole rounds of `Count` have been let go and fewer than
  `Count` wait (`BarrierState`); a function is run before the guard is down, for
  one function per program (`once` has one guard for all).
* `SystemProofs`: `ProcessInvariance`, then `ProcessesAsAsked`: the handle owns
  itself exactly while the loop has it, and `po_fd_stdio` has one entry for each
  descriptor asked for, with the last flags (`FdsAsWanted`), of which the child's
  containers are made once. `TtyInvariance`, then `TerminalRestored`: all living
  handles share one memo, and as long as none changes the mode while the record is
  another's the handle that is not in the normal mode has the record, with the mode
  the terminal was found in (`RecordIsNormal`); so both its `close` and the memo
  write that mode. `UtilInvariance`, then `ReadsWhole`: between the two calls of
  `try_read` the buffer is as large as the first call was told, and the string has
  only been what is remembered in `seen`.
* `NetworkProofs`: `StreamInInvariance`, then `ReadsEndTruly` and the action
  property `AcceptSucceeds`; `ServedInOrder` bounds the listen events by the
  connections that have left the backlog. `UdpInvariance`, then
  `NoDatagramForgotten`, without `UDP_RECVMMSG`: the sends as in `Stream`, and
  `BufferState`, a buffer is lent only from one callback to the next.
  `AddressInvariance`, then `AddressesSurvive`, without IPv6 texts: the lemmas
  `TwoDigits`, `DigitsOfPort` and `SwapSwaps` show that `ntohs` undoes `htons`
  for every base of the digits, `ParsedBack` and `StoredBack` that `sock_addr`
  and `ip_addr` are inverse to each other, `GrantedAsAsked` what `bind` makes of
  port 0; the strengthening `KnownBySocket` says that nobody has been told of a
  handle without an address.
* `EventHandlesProofs`, for any handles of any types, delays, signals and flags.
  `LoopInvariance`, then `TurnsAlwaysServed`, which has an action property in it
  (`RunsToTheEnd`). `OncePerIteration` speaks of some phases only; `ServedInOrder`
  says for every phase and handle what is true on the way there, by the order of
  the phases (`Stage`): no event before the handle's own phase nor while the phase
  has still to visit it, one where the phase has passed it; and `QueueOfPhase`
  says that only active handles of the phase's own queue are visited, which is
  where `stop` and `close` in a listener could do harm. One lemma, `PhaseServed`,
  covers all changes of phase.
  `TimerInvariance`, then `TimersFireOnTime`: a timer in the heap expires no
  earlier than asked for, one taken out of it is due and not yet called back in
  this turn (`DueAsAsked`), one without a repeat value is scheduled only before
  its one event (`SingleState`).
  `SignalInvariance`, then `SignalsTrue`: the signals caught and not published
  are the messages in the pipe, signal by signal (`CaughtInPipe`). The lemmas
  `PlacesAppend` and `PlacesTail` count the places of an element in a sequence;
  what is read takes exactly one away, so that no event can be published for a
  message of another signal. `ArmedOnce` says that a handle armed by `one_shot`,
  and not kept to an earlier `start`, has libuv's flag and has no event, is in the
  listener of its only one, or has been stopped.
  `PollInvariance`, then `PollsAsAsked`: what is reported and not delivered is
  part of what the last `start` asked for, or the error (`ReportAsked`).

The last four modules prove the invariant of each part from its own
assumption, and the conjunction from those: a part that keeps still keeps its
invariant (`PartsKept`). `NetworkInvariance`, `ThreadsInvariance`,
`SystemInvariance` (`SystemIInv`) and `EventHandlesInvariance` are about the
invariants the runs check.

The assumptions are those of the modules: the constants' sets are disjoint and
do not contain the values that stand for nothing (`None`, `"free"`, `"unset"`,
`"default"`),
the bounds and delays are natural numbers, the value of a barrier is not 0 and there are
that many threads. The hypotheses `Careful`, `~Rejects`, `~RecvMmsg`, `~V6Text`
and "one function" of the theorems are the values the runs have; without them
the statements are false: the tables of counterexamples above show how. The ghosts
`aborted`, `shared`, `stale` and `ignored` in the statements of `DirReachable`,
`TerminalSafe` and `OneShotOnce` mark the calls after which they are false, and the
runs and properties named in the sections on their modules show those.

Only model-checked: the liveness properties (`ClosingIsReclaimed`, `Answered`,
`CloseAnswersAll`, `SendWakes`, `CallsAnswered`), since fairness and ENABLED are
out of the prover's reach. Every invariant, action property and refinement that
a passing run checks is proved.

## What is not modelled

* libuv's inside. Its promises are in the guards of the external actions: a
  closing handle's close callback comes after those of its requests, a request
  on a closing handle is refused, a cancelled request is still called back.
* User code that breaks libuv's own rules: a request used twice at once, a
  handle closed before it was initialised, `run` on a loop nobody holds,
  `start` on a closing idle, check or prepare handle (`idle.ipp:15`), `send` on
  an async handle that has been destroyed (`async.ipp:15`), a handle given to
  `write` to be sent and destroyed before it is (`stream.h:335`), a stream given
  to `stdio` and destroyed before `spawn` (`process.h:183`), a thread that joins
  itself. A second `spawn` on a handle whose first has failed (`process.ipp:53`).
* Several threads in `get_default` (`loop.ipp:28`) or in the constructor of
  `tty_handle`: `expired` and `lock` of the static `weak_ptr` are two steps, and
  the library does not say that it can be called so.
* A `uv_loop_init` that fails and is followed by `uv_loop_close`
  (`loop.ipp:12`); a `close(2)` that fails and frees the descriptor all the same
  (`fs.ipp:17`); `statfs_sync`, which reads through a null pointer when the call
  failed (`fs.ipp:360`).
* Single calls to libuv or the system that change nothing uvw keeps: the
  settings of tcp, pipe and udp handles, `kill`, priorities and names of
  threads, thread-local storage, `configure`, `fork`, metrics, the queries of
  `util`, `get_win_size`, `vterm_state`, `fd`.
* `fs_event` and `fs_poll` beyond the generic handle of `Lifetime`: what counts
  as a change is the file system's business.
* `lib`, `enum.hpp`, `type_info.hpp`: no state.
* The wording of paths, names and payloads.

## Plan

Done, in this order: `Lifetime` with its contract and proofs, `LoopOwner`,
`FileReq`, `DirReq`, then `Stream` with its channel and the other modules of the
table above, then their proofs: `StreamProofs`, `ThreadsProofs`, `SystemProofs`,
`NetworkProofs`, `EventHandlesProofs`.

Should the code change, its module is brought up to date first, the run repeated
with the inductive invariant among its properties, and the proof last. What is
worth adding to the models is in the section above: `fs_event` and `fs_poll`,
and calls of `get_default` from several threads, once the library promises them.
