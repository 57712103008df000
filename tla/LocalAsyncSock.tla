--------------------------- MODULE LocalAsyncSock ---------------------------
(***************************************************************************)
(* A pair of LocalAsyncSocket::Sock: bytes are copied from the buffer of   *)
(* a send on one side to the buffer of a recv on the other.  Each side has *)
(* at most one send and one recv at a time, as the two tasks of the        *)
(* scheduler guarantee, so an Awaiter is named by its side and type.       *)
(*                                                                         *)
(* mMtx guards the shared state: an action is one critical section, or a   *)
(* step outside of it (the copy, and the resumption of a coroutine).  Two  *)
(* coroutines that one thread resumes are resumed in any order.            *)
(***************************************************************************)
EXTENDS Integers, Sequences, FiniteSets, SequencesExt, OpSeq

CONSTANTS
    Caller,     \* the awaiters that are used, a subset of Op
    MaxAwaits,  \* bound: how often each of them is awaited
    MaxLen,     \* bound: the size of a buffer
    MayStop,    \* may a stop token be stopped?
    MayClose,   \* may a side be closed?
    MayInject   \* is mDebugErrorInjector set?

Side == 0..1
Op   == Side \X {"send", "recv"}

ASSUME LocalSockAssumption ==
    /\ Caller \subseteq Op /\ MaxAwaits \in Nat /\ MaxLen \in Nat \ {0}
    /\ MayStop \in BOOLEAN /\ MayClose \in BOOLEAN /\ MayInject \in BOOLEAN

VARIABLES
    mEc,       \* the error state of each side
    mInbound,  \* which operations of the pair of a direction are set
    pc,        \* "out", "start" (before the lock) or "suspended"
    opEc,      \* an awaiter's mEc; "unset" while it is not completed
    len, left, \* the size of its buffer, and of mData
    stop,      \* its stop callback: none, possible, called or done
    wakers,    \* the threads that are about to resume it
    awaits,    \* how often it was awaited
    copies     \* the copies that threads have taken out of the lock

VARIABLES
    start, nextByte,  \* the bytes of a direction are numbered
    delivered,        \* history: the bytes that were copied, in order
    copied,           \* history: how many bytes of a buffer were copied
    cut,              \* history: has a send or a recv of the direction failed?
    dangling          \* history: has a copy used a buffer after its awaiter ended?

awaiter == <<pc, opEc, len, left, awaits, start>>
hist    == <<nextByte, delivered, copied, cut, dangling>>
vars    == <<mEc, mInbound, awaiter, stop, wakers, copies, hist>>

Code == {"success", "closed", "remoteClosed", "operation_aborted", "injected"}

\* The direction of an operation is the side that receives.
Dir(o) == IF o[2] = "recv" THEN o[1] ELSE 1 - o[1]
Sender(d) == <<1 - d, "send">>
Receiver(d) == <<d, "recv">>
Peer(o) == IF o[2] = "recv" THEN Sender(Dir(o)) ELSE Receiver(Dir(o))

Init ==
    /\ mEc = [i \in Side |-> "success"] /\ mInbound = [d \in Side |-> {}]
    /\ pc = [o \in Op |-> "out"] /\ opEc = [o \in Op |-> "unset"]
    /\ len = [o \in Op |-> 0] /\ left = [o \in Op |-> 0]
    /\ stop = [o \in Op |-> "none"] /\ wakers = [o \in Op |-> {}]
    /\ awaits = [o \in Op |-> 0] /\ copies = {}
    /\ start = [o \in Op |-> 1] /\ nextByte = [d \in Side |-> 1]
    /\ delivered = [d \in Side |-> <<>>] /\ copied = [o \in Op |-> 0]
    /\ cut = [d \in Side |-> FALSE] /\ dangling = FALSE
-----------------------------------------------------------------------------
\* send or recv is awaited; the stop callback is registered before the lock is
\* taken.
Await(o, n) ==
    /\ o \in Caller /\ pc[o] = "out" /\ awaits[o] < MaxAwaits
    /\ pc' = [pc EXCEPT ![o] = "start"] /\ opEc' = [opEc EXCEPT ![o] = "unset"]
    /\ len' = [len EXCEPT ![o] = n] /\ left' = [left EXCEPT ![o] = n]
    /\ stop' = [stop EXCEPT ![o] = IF MayStop THEN "possible" ELSE "none"]
    /\ awaits' = [awaits EXCEPT ![o] = @ + 1] /\ copied' = [copied EXCEPT ![o] = 0]
    /\ IF o[2] = "send"
       THEN /\ start' = [start EXCEPT ![o] = nextByte[Dir(o)]]
            /\ nextByte' = [nextByte EXCEPT ![Dir(o)] = @ + n]
       ELSE UNCHANGED <<start, nextByte>>
    /\ UNCHANGED <<mEc, mInbound, wakers, copies, delivered, cut, dangling>>

\* Mutant: an operation that is not suspended yet is resumed, too.
AlwaysFail(ops, ec, who) ==
    /\ opEc' = [o \in Op |-> IF o \in ops THEN ec[o] ELSE opEc[o]]
    /\ wakers' = [o \in Op |-> IF o \in ops THEN {who} ELSE wakers[o]]
    /\ mInbound' = [d \in Side |-> mInbound[d] \ {o[2] : o \in {p \in ops : Dir(p) = d}}]
    /\ cut' = [d \in Side |-> cut[d] \/ \E o \in ops : Dir(o) = d]

\* The operations in ops complete with an error and are to be resumed by who,
\* if they are suspended.
Fail(ops, ec, who) ==
    /\ opEc' = [o \in Op |-> IF o \in ops THEN ec[o] ELSE opEc[o]]
    /\ wakers' = [o \in Op |-> IF o \in ops /\ pc[o] = "suspended" THEN {who} ELSE wakers[o]]
    /\ mInbound' = [d \in Side |-> mInbound[d] \ {o[2] : o \in {p \in ops : Dir(p) = d}}]
    /\ cut' = [d \in Side |-> cut[d] \/ \E o \in ops : Dir(o) = d]

\* request_stop enters the stop callback ...
StopCall(o) ==
    /\ stop[o] = "possible" /\ pc[o] # "out"
    /\ stop' = [stop EXCEPT ![o] = "called"]
    /\ UNCHANGED <<mEc, mInbound, awaiter, wakers, copies, hist>>

\* ... which takes the lock and cancels the operation unless it has completed.
StopLocked(o) ==
    /\ stop[o] = "called"
    /\ stop' = [stop EXCEPT ![o] = "done"]
    /\ IF opEc[o] = "unset"
       THEN Fail({o}, [p \in Op |-> "operation_aborted"], "stop")
       ELSE UNCHANGED <<opEc, wakers, mInbound, cut>>
    /\ UNCHANGED <<mEc, pc, len, left, awaits, start, copies, nextByte, delivered, copied, dangling>>

\* await_suspend takes the lock.  The operation was cancelled before ...
StartAborted(o) ==
    /\ pc[o] = "start" /\ opEc[o] # "unset"
    /\ pc' = [pc EXCEPT ![o] = "suspended"]
    /\ wakers' = [wakers EXCEPT ![o] = {"self"}]
    /\ UNCHANGED <<mEc, mInbound, opEc, len, left, awaits, start, stop, copies, hist>>

\* ... or the socket has an error, or one is injected (whatever its code) ...
StartError(o) ==
    LET ec == IF mEc[o[1]] = "success" THEN "injected" ELSE mEc[o[1]] IN
    /\ pc[o] = "start" /\ opEc[o] = "unset"
    /\ mEc[o[1]] = "success" => MayInject
    /\ mEc' = [mEc EXCEPT ![o[1]] = ec]
    /\ opEc' = [opEc EXCEPT ![o] = ec]
    /\ pc' = [pc EXCEPT ![o] = "suspended"] /\ wakers' = [wakers EXCEPT ![o] = {"self"}]
    /\ cut' = [cut EXCEPT ![Dir(o)] = TRUE]
    /\ UNCHANGED <<mInbound, len, left, awaits, start, stop, copies, nextByte, delivered, copied, dangling>>

\* Mutant: the operation on the other side is not looked for.
WaitAnyway(o) ==
    /\ pc[o] = "start" /\ opEc[o] = "unset" /\ mEc[o[1]] = "success"
    /\ mInbound' = [mInbound EXCEPT ![Dir(o)] = @ \cup {o[2]}]
    /\ pc' = [pc EXCEPT ![o] = "suspended"]
    /\ UNCHANGED <<mEc, opEc, len, left, awaits, start, stop, wakers, copies, hist>>

\* ... or there is no operation to match it ...
StartWait(o) ==
    /\ pc[o] = "start" /\ opEc[o] = "unset" /\ mEc[o[1]] = "success"
    /\ Peer(o)[2] \notin mInbound[Dir(o)]
    /\ mInbound' = [mInbound EXCEPT ![Dir(o)] = @ \cup {o[2]}]
    /\ pc' = [pc EXCEPT ![o] = "suspended"]
    /\ UNCHANGED <<mEc, opEc, len, left, awaits, start, stop, wakers, copies, hist>>

\* min, the number of bytes to be copied between o and its peer.
Matched(o) == IF left[o] < left[Peer(o)] THEN left[o] ELSE left[Peer(o)]

\* Mutant: src is not moved past the bytes that were copied before.
BufferStart(d) == start[Sender(d)]

\* The first byte of src, the rest of the send's mData.
FirstByte(d) == start[Sender(d)] + len[Sender(d)] - left[Sender(d)]

\* Mutant: a match completes both operations.
BothComplete(o) == {o, Peer(o)}

\* The operations of a match whose mData becomes empty: the shorter, or both.
Completes(o) == {q \in {o, Peer(o)} : left[q] = Matched(o)}

\* ... or there is one.  The thread leaves the lock with the two buffers and
\* the handles to resume.
StartMatch(o) ==
    LET d == Dir(o)  n == Matched(o)  full == Completes(o) IN
    /\ pc[o] = "start" /\ opEc[o] = "unset" /\ mEc[o[1]] = "success"
    /\ Peer(o)[2] \in mInbound[d]
    /\ left' = [left EXCEPT ![o] = @ - n, ![Peer(o)] = @ - n]
    /\ opEc' = [q \in Op |-> IF q \in full THEN "success" ELSE opEc[q]]
    /\ mInbound' = [mInbound EXCEPT ![d] = (@ \cup {o[2]}) \ {q[2] : q \in full}]
    /\ pc' = [pc EXCEPT ![o] = "suspended"]
    /\ copies' = copies \cup {[dir |-> d, from |-> FirstByte(d), n |-> n, wake |-> full,
                               src |-> awaits[Sender(d)], dst |-> awaits[Receiver(d)]]}
    /\ UNCHANGED <<mEc, len, awaits, start, stop, wakers, hist>>

\* Is the buffer of the k-th await of o still alive?
Alive(o, k) == awaits[o] = k /\ pc[o] # "out"

\* The copy, outside the lock; then the completed awaiters can be resumed.
Copy(c) ==
    /\ c \in copies
    /\ copies' = copies \ {c}
    /\ delivered' = [delivered EXCEPT ![c.dir] = @ \o [k \in 1..c.n |-> c.from + k - 1]]
    /\ dangling' = (dangling \/ ~Alive(Sender(c.dir), c.src) \/ ~Alive(Receiver(c.dir), c.dst))
    /\ copied' = [o \in Op |->
           IF o = Sender(c.dir) /\ awaits[o] = c.src THEN copied[o] + c.n
           ELSE IF o = Receiver(c.dir) /\ awaits[o] = c.dst THEN copied[o] + c.n
           ELSE copied[o]]
    /\ wakers' = [o \in Op |-> IF o \in c.wake THEN wakers[o] \cup {"copier"} ELSE wakers[o]]
    /\ UNCHANGED <<mEc, mInbound, awaiter, stop, nextByte, cut>>

\* The coroutine is resumed and the awaiter ends.  Clearing the stop callback
\* waits for one that has been called on another thread.
Resume(o, who) ==
    /\ who \in wakers[o]
    /\ who = "stop" \/ stop[o] # "called"
    /\ wakers' = [wakers EXCEPT ![o] = @ \ {who}]
    /\ pc' = [pc EXCEPT ![o] = "out"] /\ stop' = [stop EXCEPT ![o] = "none"]
    /\ UNCHANGED <<mEc, mInbound, opEc, len, left, awaits, start, copies, hist>>

\* Mutant: only the operations of the closed side complete.
CloseOwn(i) ==
    LET waiting == {o \in Op : o[1] = i /\ o[2] \in mInbound[Dir(o)]} IN
    /\ MayClose /\ mEc[i] # "closed"
    /\ mEc' = [j \in Side |-> IF mEc[j] # "success" THEN mEc[j]
                              ELSE IF j = i THEN "closed" ELSE "remoteClosed"]
    /\ Fail(waiting, [o \in Op |-> "closed"], "close")
    /\ UNCHANGED <<pc, len, left, awaits, start, stop, copies, nextByte, delivered, copied, dangling>>

\* Sock::close of side i: the waiting operations of both sides complete.
Close(i) ==
    LET waiting == {o \in Op : o[2] \in mInbound[Dir(o)]} IN
    /\ MayClose /\ mEc[i] # "closed"
    /\ mEc' = [j \in Side |-> IF mEc[j] # "success" THEN mEc[j]
                              ELSE IF j = i THEN "closed" ELSE "remoteClosed"]
    /\ Fail(waiting, [o \in Op |-> IF o[1] = i THEN "closed" ELSE "remoteClosed"], "close")
    /\ UNCHANGED <<pc, len, left, awaits, start, stop, copies, nextByte, delivered, copied, dangling>>

ThreadStep ==
    \/ \E o \in Op :
        \/ StopLocked(o) \/ StartAborted(o) \/ StartError(o) \/ StartWait(o) \/ StartMatch(o)
        \/ \E who \in {"self", "copier", "stop", "close"} : Resume(o, who)
    \/ \E c \in copies : Copy(c)

UserStep ==
    \/ \E o \in Op : StopCall(o) \/ \E n \in 1..MaxLen : Await(o, n)
    \/ \E i \in Side : Close(i)

Next == ThreadStep \/ UserStep

Spec == Init /\ [][Next]_vars

\* A thread that is inside the socket goes on; users need not.
FairSpec == Spec /\ WF_vars(ThreadStep)
-----------------------------------------------------------------------------
\* Types of the variables.
TypeOK ==
    /\ mEc \in [Side -> Code] /\ mInbound \in [Side -> SUBSET {"send", "recv"}]
    /\ pc \in [Op -> {"out", "start", "suspended"}] /\ opEc \in [Op -> Code \cup {"unset"}]
    /\ \A o \in Op : left[o] \in 0..len[o] /\ len[o] \in 0..MaxLen /\ copied[o] \in 0..len[o]
    /\ stop \in [Op -> {"none", "possible", "called", "done"}]
    /\ wakers \in [Op -> SUBSET {"self", "copier", "stop", "close"}]
    /\ awaits \in [Op -> 0..MaxAwaits] /\ dangling \in BOOLEAN

\* An awaiter is resumed once and not forgotten: while it is suspended, it is
\* in its OpPair if it has not completed, and otherwise exactly one thread is
\* going to resume it, whichever of a match, a stop and a close came first.
OneWaker ==
    \A o \in Op :
        LET threads == Cardinality(wakers[o]) + Cardinality({c \in copies : o \in c.wake}) IN
        /\ (o[2] \in mInbound[Dir(o)]) <=> (pc[o] = "suspended" /\ opEc[o] = "unset")
        /\ threads = IF pc[o] = "suspended" /\ opEc[o] # "unset" THEN 1 ELSE 0

\* A send and a recv never wait for each other: one of them has seen the other.
NoMissedMatch == \A d \in Side : mInbound[d] # {"send", "recv"}

\* The bytes of a direction are copied in the order in which they were sent,
\* each once, and without a gap unless an operation has failed; only one copy is
\* outside the lock at a time.
StreamInOrder ==
    \A d \in Side :
        /\ Increasing(delivered[d])
        /\ ~cut[d] => delivered[d] = [k \in 1..Len(delivered[d]) |-> k]
        /\ Cardinality({c \in copies : c.dir = d}) <= 1
        /\ \A c \in copies : c.dir = d => c.from \notin ToSet(delivered[d])

\* An operation that is resumed with success has had its whole buffer copied.
SuccessMeansCopied ==
    \A o \in Op : wakers[o] # {} /\ opEc[o] = "success" => copied[o] = len[o]

\* "a mutex to ensure no data races": a copy does not use the buffer of an
\* awaiter that has ended.
NoDanglingCopy == ~dangling

\* After a close, which marks a side that had no error before, every operation
\* ends, also one that is awaited later.
CloseEndsAwaits ==
    \A o \in Caller :
        (pc[o] # "out" /\ \E i \in Side : mEc[i] \in {"closed", "remoteClosed"}) ~> pc[o] = "out"

\* The inductive invariant of the bytes.  At most one copy of a direction is
\* outside the lock, and it resumes an operation that cannot go on before ...
AwaitOf(c, o) == IF o[2] = "send" THEN c.src ELSE c.dst
CopiesInv ==
    /\ \A c \in copies :
        /\ c.dir \in Side /\ c.from \in Nat /\ c.n \in Nat
        /\ c.wake # {} /\ \A o \in c.wake : Dir(o) = c.dir
        /\ \A o \in Op : Dir(o) = c.dir => AwaitOf(c, o) \in 0..awaits[o]
    /\ \A c, e \in copies : c.dir = e.dir => c = e

\* ... the bytes that were copied come before the ones that are being copied,
\* and these before the rest of the send's buffer, which ends at nextByte ...
BytesInv(d) ==
    /\ start[Sender(d)] + len[Sender(d)] = nextByte[d]
    /\ Increasing(delivered[d])
    /\ \A x \in ToSet(delivered[d]) : x < FirstByte(d)
    /\ \A c \in copies : c.dir = d =>
        c.from + c.n <= FirstByte(d) /\ \A x \in ToSet(delivered[d]) : x < c.from

\* ... without a gap as long as no operation has failed ...
GapInv(d) ==
    ~cut[d] =>
        /\ delivered[d] = [k \in 1..Len(delivered[d]) |-> k]
        /\ \A c \in copies : c.dir = d =>
            c.from = Len(delivered[d]) + 1 /\ c.from + c.n = FirstByte(d)
        /\ (\A c \in copies : c.dir # d) => FirstByte(d) = Len(delivered[d]) + 1
        /\ \A o \in Op : Dir(o) = d =>
            opEc[o] \in {"unset", "success"} /\ (pc[o] = "out" => left[o] = 0)

\* ... and a buffer is what was copied, what is being copied and what is left.
BufferInv(o) ==
    /\ left[o] \in 0..len[o]
    /\ opEc[o] = "success" => left[o] = 0
    /\ \A c \in copies : c.dir = Dir(o) /\ AwaitOf(c, o) = awaits[o] =>
        copied[o] + c.n + left[o] = len[o] /\ (opEc[o] = "success" => o \in c.wake)
    /\ (\A c \in copies : c.dir = Dir(o) => AwaitOf(c, o) # awaits[o]) =>
        copied[o] + left[o] = len[o]
StreamInv ==
    /\ len \in [Op -> Nat] /\ copied \in [Op -> Nat] /\ awaits \in [Op -> Nat] /\ start \in [Op -> Nat]
    /\ nextByte \in [Side -> Nat] /\ delivered \in [Side -> Seq(Nat)] /\ cut \in [Side -> BOOLEAN]
    /\ CopiesInv
    /\ \A d \in Side : BytesInv(d) /\ GapInv(d)
    /\ \A o \in Op : BufferInv(o)
=============================================================================
