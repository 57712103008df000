# coproto in TLA+

coproto lets coroutines talk over a socket: many *forks* of a session send and
receive messages at the same time, over one byte stream, with cancellation by
stop tokens. This directory models the parts of it that carry state, checks
them with TLC on small instances and proves most of the safety properties of the
scheduler, of two schedulers over a stream, of the execution queue and its ring
buffer and of three of the sockets with TLAPS, for instances of every size.

    tlc -config sched_sends.cfg SockScheduler       # one run; PROJECT.json lists them
    tlapm SockSchedulerProofs.tla                   # the proofs of one module

## 1. The system

| part | source | state | operations |
|---|---|---|---|
| Scheduler | `Socket/SocketScheduler.{h,cpp}` | error code, list of forks and their ids, linked list of sends, number of recvs, the three places where a task may wait, statuses, two stop sources | send, recv, fork, flush, close, cancel, destructor, stop callbacks; the send task and the recv task |
| Fork | `Socket/SocketFork.h` | queues of sends and recvs, announced or not | emplace, pop, erase, complete |
| Operations | `Socket/{Send,Recv}Operation.h`, `Proto/Operation.h` | status, links, result, flush tokens | set status/error, complete |
| User's awaiters | `Proto/Buffers.h`, `Socket/Socket.h` | buffer, result | await, resume |
| Execution queue | `Socket/Executor.h` | owner flag, queues of functions and coroutines | acquire, push, run |
| Ring buffer | `Socket/Executor.h` (CBQueue) | head, tail, buffer | push, pop, grow |
| Block queue | `Common/Queue.h` | blocks that are rings | push, pop, erase, iterate |
| In-process sockets | `Socket/LocalAsyncSock.h` | errors, a pair of waiting operations per direction | send, recv, stop callback, close |
| Buffering sockets | `Socket/BufferingSocket.h` | error, two byte buffers, waiting recv | send, recv, stop callback, close, setError, processInbound, getOutbound, exchangeMessages |
| TCP/TLS sockets | `Socket/AsioSocket.h` | per operation: a flag at which initiator and callback meet, stop request, outcome, lifetimes; per socket: `mSslLock`, lifetimes | accept, connect, retry, handshake, send, recv, stop callbacks, close, destructors |
| Session ids, errors, utilities, command line | `Proto/SessionID.h`, `Common/*` | none or sequential | |

**How they interact.** A user's coroutine awaits an operation of a fork. The
scheduler appends it to the fork's queue and, for a send, to a linked list over
all forks, and wakes the send or recv task if it sleeps. The tasks make all
socket calls; when one is done they complete the operation and take the next.
A recv is chosen by the header that arrives: it names the peer's id of a fork,
announced before by a control message. Nothing is resumed under the mutex: a
coroutine handle is pushed to the execution queue, and the first thread to come
runs all of them after it has unlocked. Stop callbacks enter from any thread.
Below, a socket is one of three kinds. The TCP and TLS sockets hand every
operation to Boost.Asio: the function that starts it, its completion handler and
the stop callback may be on three threads, share an object in the frame of the
coroutine, and the last one to come resumes that coroutine, which destroys it.

**What is hard.** The list of sends and the queue of a fork hold the same
operations and are changed by three parties; a stop arrives while its operation
is queued, in progress or done; the recv task may sleep in two ways and must be
woken by the right recv; an error in one direction must end the other one and
every operation; a flush counts on operations that may be cancelled; a stop
callback that waits for the mutex is waited for by who holds it; the
sockets complete operations from several threads and copy outside of their
lock; a stop may come before the operation it is to cancel is there; a refused
connect is tried again while the thread that started it is still in the object;
forks get their ids in a different order on the two sides. `PROJECT.json` lists these as hazards, each with its line and the
properties that are about it, or a note where none holds.

**What makes each part correct.** Scheduler: no operation is lost, sent out of
order, completed twice or slept on; one cause per failure; flush and close keep
their promises; the destructor is safe. Execution queue: one runner, no job left
behind. Queues: they are meant to be FIFO queues, with growth and erasure.
Sockets: each awaiter is resumed once, and nobody is left who uses it then; bytes
arrive complete and in order; a stop or a close ends every operation. Two
endpoints: "Messages on each fork will then remain separate" (`Socket.h`), each
fork is a FIFO channel. Section 3 says where the code falls short of this: above
all, a ring buffer that grows loses what it holds, and erasing from a block queue
that has wrapped throws. The models of what is built on these two contain both.

## 2. Modules

| module | models | state and actions |
|---|---|---|
| `SockScheduler` | the scheduler, its forks and operations | one action per critical section of `mMutex` or finished socket call. `sendPc` and `recvPc` are the places where the two coroutines stand (`"idle"` is `mNextSendOp`, resp. `mAnyRecvOp`, being set; `"requested"` is `mGetRequestedRecvSocketFork`). User: `SendEmpty/Refused/Wake/Queue`, `RecvRefused/Wake/Match/Queue`, `Cancel{Queued,Running}{Send,Recv}`, `ForkSocket`, `FlushNow/Wait/Throw`, `CloseSocket`, `Destroy`, `DestroyBusy`. Send task: `SendIoDone`, `SendIoFail`, `SendNext`, `SendIdle`, `SendClose`. Recv task: `RecvHeader`, `RecvNewFork`, `RecvBadFork`, `GetFork*`, `RecvSizeOk/Bad`, `RecvBody`, `RecvNext`, `RecvIdle`, `RecvClose`, `RecvIoFail` |
| `OpSeq` | sequences of operation numbers | `Increasing` |
| `ExecutionQueue` | `ExecutionQueue` and its Handle | threads with a program counter through `runReturnLast`; a `Batch` is what one critical section pushes, one increasing sequence per queue; a push to a full ring loses its jobs (`Grow`), and an empty handle taken from it ends the runner (`Throw`) |
| `CBQueue` | the ring buffer | push with and without growth, pop |
| `BlockQueue`, `AbstractQueue` | `Queue<T>`; a FIFO queue with removal | push, pop, erase; the second is what the first implements |
| `LocalAsyncSock` | a pair of in-process sockets | an operation goes through `Await`, one of `StartAborted/Error/Wait/Match`, `Copy` (outside the lock) and `Resume`; `StopCall`, `StopLocked`, `Close` interfere |
| `AsioIo` | send, recv, close and destruction of a TCP or TLS socket | per direction the initiator (`Start`, `StartAborted`, `Initiate`, `Recheck`, `InitRelease`, `InitJoin`), the callback (`Callback`, `CallbackRelease`, `CallbackJoin`) and the stop callback (`StopFlag`, `StopEmit`); `Transfer` is the transport; `CloseCall`, `CloseRun`, `DestroyAwaiter`, `DestroySocket` |
| `AsioConnect` | one accept or connect, plain or TLS | initiator, callback of the call, callback of the handshake, the retry timer, the stop callback, and the destruction of the object member by member |
| `SchedPair`, `ForkChannel` | two schedulers joined by a byte stream; a FIFO channel per fork | two instances of `SockScheduler`: a write of A (`SendIoDone`) appends header, control block or body to `wire`, a read of B takes it; the second is what the first implements |
| `StopRace` | `mMutex` and the stop callbacks of sends | lock and unlock are steps here, so that one thread can hold the mutex while another waits |
| `BufferingSock` | two buffering sockets and `exchangeMessages` | buffers are sequences of vectors with `mFront` and `mSize`; the exchange thread is a little state machine |
| `OpSeqProofs`, `SockSchedulerProofs`, `SchedPairProofs`, `QueueProofs` (the execution queue, the ring buffer and the block queue), `LocalSockProofs`, `BufferingProofs`, `AsioIoProofs`, `AsioConnectProofs` | the proofs | |
| `MCLocalAsyncSock`, `MCBufferingSock` | the set of awaiters TLC uses; the other modules need no definition beyond their `.cfg` | |

Conventions. Operations, items, jobs and bytes are numbered in the order in
which they are issued, so "in order" is "increasing". An operator under a
comment that starts with *Mutant* is a plausible mistake in the definition
after it; it is used only to see that the properties notice it, and is not part
of any specification.

Abstractions.
- Payloads are left out; a message's size matters only by being zero, right or
  wrong. Session ids are distinct values.
- An action covers its whole critical section; the resumption of a coroutine
  that it queues is a later action. `ExecutionQueue` shows separately that such
  a handle is resumed once, as long as no ring buffer has grown. The nested entry of a stop callback from
  `request_stop` inside `cancel` only completes the other direction, and is the
  next action.
- In `SockScheduler` a fork's queue is a sequence plus a flag for an erased
  newest slot, the one `back()` looks at. In a block that has wrapped erasing
  throws (`queue_erase`), after the operation was completed and, if it is a send,
  unlinked, and it stays in the queue: `EraseSend` and `EraseRecv` may do so if
  `WrapCancel` is set and more operations than a block has entries were put on
  the queue (`Wrapped`, which is necessary for it, not sufficient). Runs and
  theorems have `WrapCancel = FALSE`, that is, they are about programs that do not
  stop a queued operation whose position in its block has wrapped.
- In `ExecutionQueue` a ring is a sequence until a push finds it full. That push
  keeps the size and loses the jobs (`Grow`), and sets `grown`; how large a ring is
  after that is left open (`Pushed`). Running an empty coroutine handle does
  nothing; an empty function or executor throws out of `runReturnLast`, and
  `mHasRunner` stays set.
- The sockets below the scheduler are external to it: a call completes wholly,
  or fails because of a stop, a close or (`PeerMayFail`) the peer. The modules
  of the sockets justify this for them.
- Boost.Asio and OpenSSL are external to `AsioIo` and `AsioConnect`: a call is
  pending until it succeeds, fails, is hit by an emission of its cancellation
  signal or its socket is closed, and then its handler is queued; handlers on
  one strand do not overlap. Whether two threads may use one
  `cancellation_signal` at the same time is a matter of that library.
- `SchedPair` models one direction; the other one is the same code with the
  roles exchanged, and the two meet only in `mEC` and `cancel` (section 4).
- macoro (coroutines, stop tokens) is used as documented: destroying a stop
  callback waits for one that runs on another thread.

## 3. Runs

Passing runs, and what they show:

| run | instance | shows |
|---|---|---|
| `sched_sends` | 2 forks, 3 sends (2 with tokens), 1 recv | `SendsReachable` (the list holds exactly the pending sends), `SendQueuesAgree`, `SentInOrder`, `OneCause`, `StatusTellsTask` |
| `sched_recvs` | 2 forks, 2 recvs (1 with a token), 1 send, 1 flush, headers with known, unknown and illegal ids, failing peer | `RecvsQueued`, `NoMissedRecv`, `FlushHeld`, and, as long as no token is stopped, `FlushSound` and `SafeToDestroy`; `CloseDrains` (liveness: after an error everything ends) |
| `pair` | 3 forks, 2 messages and 2 recvs, forks made in any order on the two sides, close after the last call | `ImplementsChannel` (refinement: every fork is a FIFO channel of its own), `Framed` (B reads a header where A wrote one); `AllArrive` (liveness: messages that have a recv arrive) |
| `exec` | 2 threads, 4 jobs, rings of 3 | `OneRunner`; until a ring grows `InOnePlace`, `ResumedInOrder` and `EveryJobRuns` (liveness) |
| `cb` | ring of 4, grows to 8 | `FifoUntilGrown`, `SizeKept` |
| `queue` | first block of 2, 7 items | `ImplementsQueue` (refinement), `FrontHasValue` |
| `local` | one direction, 2 sends and 2 recvs of up to 2 bytes, stop, close, injected errors | `OneWaker`, `NoMissedMatch`, `StreamInOrder`, `SuccessMeansCopied`; `CloseEndsAwaits` (liveness) |
| `buf` | one direction, 2 sends and 2 recvs of up to 2 bytes, stop, close | `BytesConserved`, `OneWaker`; `RecvServed` (liveness) |
| `asio_io` | 3 operations, a strand or not, tokens stopped before or after, close, destructors | `LastOneResumes`, `OutcomeKnown`, `LifetimesOutlast`; `StopOrCloseEnds` (liveness) |
| `asio_connect` | accept, connect, TLS accept, TLS connect; refusals and retries without bound, stops | `LastOneResumes`, `NotAbandoned`, `RefusedRetried`, `OutcomeTrue`; `StopEnds` (liveness) |

Runs that end in a violation: each checks what a comment says, and shows what
the code does instead.

| run | property | what happens |
|---|---|---|
| `lost_send` | `SendsReachable` | the newest queued send is cancelled; `mSendBufferLast` still points at it and the next send is linked to nothing |
| `stop_deadlock` | `StopCallReturns` | `completePrev` destroys a send, and so its stop callback, under `mMutex` (`SocketScheduler.h:988`); that callback runs on another thread and waits for `mMutex`: neither goes on |

Further configurations, kept to reproduce what was met on the way (TLC ends in
a violation of the property named):

| configuration | module | property | what happens |
|---|---|---|---|
| `abort_other` | `SockScheduler` | `AbortHitsOwner` | the token of the recv that woke the task aborts a recv of another fork |
| `cancel_closes` | `SockScheduler` | `CancelKeepsOpen` | cancelling a send in progress closes the socket for everything (`SocketScheduler.h:283` says it can still be used) |
| `flush_early` | `SockScheduler` | `FlushComplete` | the newest recv is cancelled, and a flush that was waiting returns before the older ones (`Socket.h:234`) |
| `flush_throw` | `SockScheduler` | `FlushNoThrow` | the newest recv was cancelled and `Queue::back()` throws out of flush |
| `destroy_busy` | `SockScheduler` | `NeverTerminates` | the recv for which the task reads a header is cancelled: no operation is left, and the destructor terminates the program (`SocketScheduler.h:413`) |
| `success_error` | `SockScheduler` | `ErrorNamesCause` | `cancel` is called with the ec of a task that did not fail; a queued operation fails with the code success |
| `close_pending` | `SockScheduler` | `CloseCancelsAll` | the task waits for a recv of one fork and never learns of close (`Socket.h:225`) |
| `cb_lost` | `CBQueue` | `HoldsFifo` | growing a full ring copies nothing |
| `queue_erase` | `BlockQueue` | `EraseWorks` | erasing in a block that has wrapped throws (`Queue.h:22`) |
| `local_dangling` | `MCLocalAsyncSock` | `NoDanglingCopy` | close ends an operation while another thread copies from its buffer |
| `buf_closed` | `MCBufferingSock` | `ClosedRefuses` | a recv waits on a closed socket (`BufferingSocket.h:410`) |
| `asio_tails` | `AsioConnect` | `TailsAlive` | `retry()`, called by an initiator, reads the object after it has set the timer, when the next attempt may have resumed the coroutine (`AsioSocket.h:1065`) |
| `asio_signal` | `AsioConnect` | `SignalAlive` | `mCancelSignal` is destroyed before `mReg` has waited for a stop callback that is about to emit (`AsioSocket.h:674`) |
| `asio_tls_retry` | `AsioConnect` | `StopEndsRetries` | a TLS connect is tried again although stop was requested, as long as the peer refuses (`AsioSocket.h:1270`) |
| `asio_char` | `AsioConnect` | `NotAbandoned` | the TLS countdown is a `char`; where it is unsigned it is never below 0 and nobody resumes (`AsioSocket.h:823`) |

Configurations with supporting invariants, which hold; the ones that a proof uses
as inductive invariant were checked here first: `sched_inv` (`RecvsCounted`,
`HeadInProgress`, `CauseInv`, `SentInv`, `FlushInv`, `DestroyInv`), `pair_inv`
(`PairInv`, `ForkFifo`, `PeerUnderstood`), `exec_inv` (`TypeOK`, `NoneStranded`,
`JobsKept`; rings of 2, which grow in most of its behaviours), `local_inv` (`TypeOK`, `StreamInv`), `queue_inv` (`QueueTypeOK`,
`NoItemOutside`), `buf_inv` (`TypeOK`, `SizeMatches`, `NoStarvedRecv`),
`asio_io_inv` (`TypeOK`, `EmitAlive`, `StopNotLost`, `InitiationsApart`),
`asio_connect_inv` (`TypeOK`, `StopNotLost`).

**Bounds.** Two forks are enough for one fork's operation to be between two of
the other in the list, and for a header to name a fork other than the one whose
recv woke the task; `pair` has three, so that the two sides can number the two
new ones differently (A makes them in one order, since their names are
interchangeable, and B in any). Three sends give a head, one in the middle and a last one;
two recvs are on one fork or on two. A
ring of 4 wraps and grows within 7 pushes; a first block of 2 makes the block
queue wrap, add blocks and free them within 7 items. Two operations of up to 2
bytes per side make a send that spans two recvs and a recv that spans two sends.
The scheduler's runs bound sends, recvs and flushes separately, because the two
directions meet only in `mEC`, in `cancel` and in flush; every passing run of
the scheduler has both. `asio_io` awaits three operations, so that a new one
starts while the other direction is in any state; `asio_connect` has no bound but
`MaxTails`, the threads that are in `retry()` at a time. `exec` has rings of 3
instead of 8, so that the four jobs of one critical section make one grow; with
fewer at a time nothing grows and the properties are about all four jobs.
The theorems below have no bounds, but hypotheses, which section 4 names.
`CHECK_DEADLOCK FALSE` is there because a program may stop using its socket;
`exec` checks for deadlock.

**Fairness.** `sched_recvs`: the tasks go on when they can, a queued stop is
delivered, and a socket call whose token was stopped or whose socket was closed
ends; it is not assumed that the peer sends anything. `pair`: the tasks go on, a
write ends, and bytes that were written can be read. `asio_io`,
`asio_connect`: the threads of the io_context run what is queued, a timer
expires, and a thread inside an operation goes on; nothing is assumed of the
network. `stop_deadlock`: strong fairness for every thread, so that who waits
for the mutex gets it if it is free again and again: the threads it shows
wait for ever under any scheduler. `exec`: a thread that
is inside the queue goes on and a job returns or throws. `local`: a thread that is
inside the socket goes on. `buf`: the same, and the user calls
`exchangeMessages` again and again, as the comment of the class asks. No
fairness is assumed for users' operations, stops or closes.

## 4. Proofs

**Scheduler.** `SockSchedulerProofs` proves, for every finite set of forks, every
set of slots and every number of operations and flushes, from
`SchedulerAssumption` and two hypotheses: `~TailCancel`, the token of the *newest*
queued send is not stopped (`lost_send` shows the facts are false otherwise), and
`~WrapCancel`, no operation is stopped while it is queued at a position that has
wrapped in its block. The second one matters since a fork's queue begins with a
block of 8 and wraps when it is used for longer. With `WrapCancel = TRUE` TLC
refutes `RecvsQueued` and `SendQueuesAgree` at once (a `BlockCapacity` of 2 and
four operations, the third with a token): the operation has completed and is still
in the queue, where completing the one before it or after it takes the wrong one.
Under both hypotheses:

- `TypeCorrect`: `TypeOK` is an invariant;
- `NoSendLost`: `SendsReachable`;
- `SendFrontsAgree`: `SendQueuesAgree` and `HeadInProgress`, from which the
  assertions in `completePrev` and `cancel` follow;
- `RecvsAccounted`: `RecvsCounted` and `RecvsQueued`;
- `NoRecvMissed`: `NoMissedRecv`;
- `StatusCorrect`: `StatusTellsTask`;
- `SendsReported`: `SentInOrder`;
- `OneCauseReported`: `OneCause`;
- `FlushIsHeld` and `FlushWaitsForAll`: `FlushHeld` and `FlushSound`;
- `DestructorSafe`: `SafeToDestroy`.

The first six follow from `Invariance`, `Spec => [](TypeOK /\ SendInv /\ RecvInv)`.
`SendInv` adds to the properties that an operation is unused iff it has not been
issued, that the tail pointer is the last of the list (this is what `TailCancel`
breaks) and that a task exits only after an error. `RecvInv` adds which local
variables of the recv task are set where (`RecvLocals`), above all that an
operation is held only between `GetRequestedRecvSocketFork` and `AnyRecvOp`, and
that two forks never share a remote id, without which the task could wait for
one fork and be woken by another.

The other five follow from `OutcomeInvariance`, which is proved on top of
`Invariance` and has four parts:
- `SentInv`: a body that was written is of an operation that has completed, or
  of the one the task is about to complete, and nothing pending is older;
- `CauseInv`: once an operation has reported a failure, its direction is over (the
  send task has exited, resp. no recv is pending), so no second one can;
- `FlushInv`: as long as no token was stopped, each pending operation that a flush
  waits for is followed, on its fork and in its direction, by one that holds the
  flush's token. Operations of a fork complete in order, which gives `FlushSound`;
- `DestroyInv`: the status of the recv task says in use only while a recv is
  pending, unless a token was stopped.

Argument. The two directions touch each other's state only through `mEC` and
`cancel`, so each side has its own section and its own step lemma: the send side
is preserved by its own actions, and by all others since they leave it alone or
only make the task exit. Within a side the data (list, queues, statuses, counter)
and the control (task, statuses) are separate invariants. `OpSeqProofs` has the
lemmas on which the data part rests: what appending, concatenating, taking the
tail and removing an element do to the elements and the order of an increasing
sequence.

**Two schedulers.** `SchedPairProofs` proves, for every finite set of forks and every
number of messages, from `PairAssumption`:

- `SenderIsScheduler` and `ReceiverIsScheduler`: the pair, looked at from one end,
  implements `SockScheduler` (each step is a step of that module or leaves its
  variables alone). The theorems above therefore hold of both ends, and their
  proofs are not repeated;
- `StreamFramed`: `Framed`;
- `PeerIsUnderstood`: `PeerUnderstood`, so `badCoprotoMessageHeader` is never the
  outcome between two schedulers;
- `ForksAreFifo`: `ForkFifo`, the k-th recv of a fork gets the k-th message sent on
  it;
- `ChannelsAreImplemented`: `ImplementsChannel`, every step of the pair is a step of
  `ForkChannel` or none.

They follow from `PairInvariance`, `Spec => []PairInv`. Its parts depend on each
other. `FrameInv` says that each piece on the wire follows on the one before it,
the first on what B has read and A's next one on the last; it needs that B does
not fail in the middle of a message. `FailInv` says that B fails only at the end of
the stream, and needs that B knows each id it reads. `IdInv` says, for each piece on
the wire, what B will know when it gets there: a fork is announced once, before
the first header with its id, and the id in a header is that of the fork of the
body after it. `LocalIds`: no two forks have one id. `FifoInv` says that the
messages that were sent are those that were received and then those on the wire,
in order, that A passes none over while it lives (from `SentInv`), and that the
recv B fills is the oldest of its fork (from `RecvsQueued`).

The refinement mapping selects the messages and the recvs of a fork by their numbers
(`Accepted`, `Received`). The proof works with the sets instead: `Alive(f)`, what A
has sent on f or still has to send, and `GotOn(f)`, what B got on f. By `ForkFifo` the
second is an initial segment of the first, so in every reachable state `rcvd` enumerates
`GotOn(f)` and `chan` enumerates `Alive(f) \ GotOn(f)` (`ChannelShape`). A set has one
increasing enumeration (`EnumUnique`), so a step of the pair is known by what it does to
the two sets: issuing a message adds a greatest element to `Alive(f)` (`AcceptSends`),
reading a body moves the least remaining one to `GotOn(f)` (`GetReceives`), the exit of
the send task drops from `Alive` what was not sent, which are the newest (`LoseFails`),
and nothing else changes them. That A accepts until its send task exits (`TaskOpen`)
makes a failure happen once.

**Connecting.** `AsioConnectProofs` proves `LastOneResumes` (when the coroutine goes
on nothing is outstanding and nobody is left in the object, *but for* an initiator of a
plain connect in the tail of `retry()`, see `asio_tails`), `NotAbandoned`,
`OutcomeTrue`, `RefusedRetried` and `StopNotLost`, for any number of attempts and
for every `MaxTails`, from `AsioConnectAssumption` and `CharSigned` (`asio_char`
shows `NotAbandoned` is false otherwise). The idea of the invariant is `Remaining`,
the number of parties that are still to come to `mSynchronousFlag`: over TLS the
flag is `Remaining - 1` and the call counts for two, its own callback and that of
the handshake; over TCP the flag is set iff at most one is to come. When nobody is
to come, the coroutine was resumed or the timer of a retry runs, and never both
(`PartyInv`). The rest is which parties can be where (`ShapeInv`), above all that a
callback in the tail of `retry()` is never overtaken by the next one.

**Sending and receiving.** `AsioIoProofs` proves `LastOneResumes`, `OutcomeKnown`,
`LifetimesOutlast`, `StopNotLost`, `EmitAlive` and `InitiationsApart`, for any
number of operations. The invariant says, for each direction, what the flag tells
of initiator and callback (`MeetInv`), that each holds its locks exactly until it
is about to come to the flag (`LockInv`: this is why no lifetime is destroyed
under a lock), and, on a strand, that one of them runs at a time (`StrandInv`).

**In-process sockets.** `LocalSockProofs` proves `OneWaker`, `NoMissedMatch`,
`StreamInOrder` and `SuccessMeansCopied` for any number and size of operations in
both directions. The cardinalities of `OneWaker` are replaced by "one waker and no
copy, or one copy and no waker" (`WakeInv`), which every completion keeps because it
only completes operations that were not completed. For the bytes, `StreamInv` relates
what each operation has transferred and the copy under way to the positions in the
stream of its direction.

**Execution queue.** `QueueProofs` proves `OneRunner`, `NoneStranded`,
`InOnePlace` and `ResumedInOrder` for any number of threads, jobs and pushes per
critical section and any `RingSize`. The last two, and that a set `mHasRunner` means
that there is a runner, are claimed until a ring grows: the growth loses every
handle of the ring (`cb_lost`), so jobs are lost and later ones run without them, and
an empty function throws the runner out. `ResumedInOrder` also excepts the last handle
of a runner, which is returned to the caller after the queue was given up and may be
overtaken by the jobs of the next runner. `OneRunner` needs that an owner is inside
`runReturnLast` (`OwnerInside`). The other two need `JobInv`: only the owner's handle
holds coroutines and functions, each queue is increasing and holds jobs of its kind,
the coroutines in the handle are older than those in the queue that others push to,
and those that ran are older than both. As `~grown` only ever ends, a step from a state
in which nothing has grown either keeps `JobInv` or makes it void (`JobsKept`).

**Ring buffer.** `QueueProofs` proves `SizeKept` and `FifoUntilGrown` for every
initial capacity and number of pushes. The invariant adds that the ring is never
fuller than its capacity, so that the positions of two items differ modulo the
capacity and a push overwrites none. (Growing a full ring loses its items,
`cb_lost`, so the order is only claimed up to there.)

**Block queue.** `QueueProofs` proves, for every capacity of the first block and any
number of items, that `Queue<T>` implements a FIFO queue with removal
(`ImplementsQueue`), `FrontHasValue`, `NoItemOutside` and `QueueTypeOK`. The invariant
`BlocksHold` says of each block that its positions span at most its capacity and that
an item is only at a position in use (so the slot of a push is free, wherever the
positions have wrapped), of the list that its first entry is an item unless nothing
is left (`FrontIsItem`, what the search for holes restores), and that `mSize` and
`pushed` count what the blocks hold. `Contents` of the blocks is the refinement mapping: a push appends to it,
erasing an entry removes one element (`OneRemoved`), and the search for holes drops
only entries and blocks that contribute nothing.

**Buffering sockets.** `BufferingProofs` proves `OneWaker`, `NoStarvedRecv`,
`BytesConserved` and `SizeMatches` for any set of awaiters, any sizes of their spans and
any number of awaits, stops and closes. The control part (`ControlInv`) needs that a
send never waits: a stop callback that clears `mInbound_` is then that of the recv
that waits there. The data part (`DataInv`) relates a buffer's vectors, `mFront` and
`mSize`, and says that `exchangeMessages` has bytes in its hands only between
`getOutbound` and `processInbound`. Each step that moves bytes is then an equation
between concatenations (`FlowSend`, `FlowTake`, `FlowGet`, `FlowPut`); `PopFacts` is the
one about `Buffer::pop`, which may end inside of a vector.

**Induction over data.** What `FlattenSeq` computes for every list is proved in
`OpSeqProofs` without an induction theorem: a set of numbers that is not empty has a
least one (`LeastNat`), so a least counterexample has a predecessor for which the
claim holds. `FlattenAppend`, `FlattenConcat`, `FlattenSplit` and `FlattenReplace` are what the two
proofs above use. That every set of operations has an increasing enumeration (`EnumExists`)
is proved in the same way.

Only model-checked:
- liveness (`CloseDrains`, `AllArrive`, `EveryJobRuns`, `CloseEndsAwaits`,
  `RecvServed`, `StopOrCloseEnds`, `StopEnds`, `StopCallReturns`), which is out of the
  prover's reach.

## 5. Not modelled

- Of the TCP and TLS sockets: the global io_context and its threads, address
  resolution, certificates, and the synchronous helpers that wrap the awaiters.
  Short transfers: the sockets of the repository transfer all or fail, so
  what `checkSend` and `checkRecv` do about them is not reached.
- `SessionID::derive` (a hash; the models use distinct ids), utilities, command
  line parser, tutorials.
- The overloads and coroutine types of `Socket.h` and `Buffers.h`, which differ in
  who owns a buffer, and timeouts, which stop a token.
- Byte counters and logs.

## 6. Plan

1. Done: scheduler, two schedulers over a byte stream, stop callbacks and the
   mutex, execution queue, ring buffer, block queue, all sockets; every safety
   invariant and every refinement of the runs proved.
2. Next, proofs: action properties of the scheduler (an operation that has completed
   keeps its outcome, ids are not given anew).
3. Next, models: the ownership of buffers by the awaiters in `Buffers.h`.
