---------------------------- MODULE BufferingSock ----------------------------
(***************************************************************************)
(* Two BufferingSockets and a thread that runs exchangeMessages on them,   *)
(* again and again.  A send only appends to the outbound buffer of its     *)
(* side; a recv takes its bytes from the inbound buffer or waits for       *)
(* processInbound.  Each side has at most one send and one recv at a time, *)
(* as the two tasks of the scheduler guarantee.                            *)
(*                                                                         *)
(* mMtx of a side guards its state: an action is one critical section, or  *)
(* the resumption of a coroutine after it.  The bytes of a direction are   *)
(* numbered from 1.                                                        *)
(***************************************************************************)
EXTENDS Integers, Sequences, FiniteSets, SequencesExt

CONSTANTS
    Caller,     \* the awaiters that are used, a subset of Op
    MaxAwaits,  \* bound: how often each of them is awaited
    MaxLen,     \* bound: the size of a span
    MayStop,    \* may a stop token be stopped?
    MayClose    \* may a side be closed?

Side == 0..1
Op   == Side \X {"send", "recv"}

ASSUME BufferingAssumption ==
    /\ Caller \subseteq Op /\ MaxAwaits \in Nat /\ MaxLen \in Nat \ {0}
    /\ MayStop \in BOOLEAN /\ MayClose \in BOOLEAN

VARIABLES
    mEc_, mInbound_,     \* of each side: its error, and does a recv wait?
    outbound, inbound,   \* mOutboundBuffer_ and mInboundBuffer_
    pc,        \* of an awaiter: "out", "start" (constructed) or "suspended"
    opEc,      \* its mEc; "unset" while it is not completed
    want,      \* the size of its mData
    stop,      \* its stop callback: "none", "possible" or "done"
    waker,     \* the thread that is about to resume it, or "none"
    awaits,    \* how often it was awaited
    xch        \* exchangeMessages: where it is, bb of getOutbound, progress

VARIABLES
    sent,      \* history: how many bytes the sends of a side have handed over
    got        \* history: the bytes that the recvs of a side were given

awaiter == <<pc, opEc, want, stop, waker, awaits>>
vars    == <<mEc_, mInbound_, outbound, inbound, awaiter, xch, sent, got>>

Code == {"success", "closed", "remoteClosed", "operation_aborted"}

EmptyBuffer == [mData |-> <<>>, mFront |-> 0, mSize |-> 0]

\* exchangeMessages handles side i: it is about to call getOutbound, or to hand
\* on bb (bytes or "none"); its local progress.
Idle == [at |-> "idle", i |-> 0, bb |-> <<>>, progress |-> FALSE]

Init ==
    /\ mEc_ = [i \in Side |-> "success"] /\ mInbound_ = [i \in Side |-> FALSE]
    /\ outbound = [i \in Side |-> EmptyBuffer] /\ inbound = [i \in Side |-> EmptyBuffer]
    /\ pc = [o \in Op |-> "out"] /\ opEc = [o \in Op |-> "unset"]
    /\ want = [o \in Op |-> 0] /\ stop = [o \in Op |-> "none"]
    /\ waker = [o \in Op |-> "none"] /\ awaits = [o \in Op |-> 0]
    /\ xch = Idle
    /\ sent = [i \in Side |-> 0] /\ got = [i \in Side |-> <<>>]
-----------------------------------------------------------------------------
\* The bytes that a buffer holds.
Bytes(b) == LET all == FlattenSeq(b.mData) IN SubSeq(all, b.mFront + 1, Len(all))

\* Mutant: the bytes are added in front.
PushFront(b, data) == [b EXCEPT !.mData = <<data>> \o @, !.mSize = @ + Len(data)]

\* Buffer::push: one more vector.
Push(b, data) == [b EXCEPT !.mData = Append(@, data), !.mSize = @ + Len(data)]

\* How many bytes the first k vectors of d hold.
Upto(d, k) == Len(FlattenSeq(SubSeq(d, 1, k)))

\* Buffer::pop(span) of n bytes, at most mSize: the vectors that are used up are
\* popped, and mFront is the offset into the next one.
Pop(b, n) ==
    LET k == CHOOSE j \in 0..Len(b.mData) :
                 /\ Upto(b.mData, j) <= b.mFront + n
                 /\ j = Len(b.mData) \/ Upto(b.mData, j + 1) > b.mFront + n
    IN [mData |-> SubSeq(b.mData, k + 1, Len(b.mData)),
        mFront |-> b.mFront + n - Upto(b.mData, k), mSize |-> b.mSize - n]

\* The waiting recv of side i takes its bytes from buffer b and is to be resumed
\* by who.
Serve(i, b, who) ==
    LET o == <<i, "recv">> IN
    /\ inbound' = [inbound EXCEPT ![i] = Pop(b, want[o])]
    /\ got' = [got EXCEPT ![i] = @ \o SubSeq(Bytes(b), 1, want[o])]
    /\ opEc' = [opEc EXCEPT ![o] = "success"]
    /\ waker' = [waker EXCEPT ![o] = who]
-----------------------------------------------------------------------------
\* send and recv construct an awaiter, which registers its stop callback.
Await(o, n) ==
    /\ o \in Caller /\ pc[o] = "out" /\ awaits[o] < MaxAwaits
    /\ pc' = [pc EXCEPT ![o] = "start"]
    /\ want' = [want EXCEPT ![o] = n] /\ awaits' = [awaits EXCEPT ![o] = @ + 1]
    /\ stop' = [stop EXCEPT ![o] = IF MayStop THEN "possible" ELSE "none"]
    /\ UNCHANGED <<mEc_, mInbound_, outbound, inbound, opEc, waker, xch, sent, got>>

\* The stop callback: an operation that has not completed is cancelled, and
\* resumed if it waits.
StopCallback(o) ==
    /\ stop[o] = "possible" /\ pc[o] # "out"
    /\ stop' = [stop EXCEPT ![o] = "done"]
    /\ IF opEc[o] = "unset"
       THEN /\ opEc' = [opEc EXCEPT ![o] = "operation_aborted"]
            /\ waker' = [waker EXCEPT ![o] = IF pc[o] = "suspended" THEN "stop" ELSE @]
            /\ mInbound_' = IF pc[o] = "suspended" THEN [mInbound_ EXCEPT ![o[1]] = FALSE] ELSE mInbound_
       ELSE UNCHANGED <<opEc, waker, mInbound_>>
    /\ UNCHANGED <<mEc_, outbound, inbound, pc, want, awaits, xch, sent, got>>

\* await_suspend takes the lock.  The operation was cancelled before ...
StartCanceled(o) ==
    /\ pc[o] = "start" /\ opEc[o] # "unset"
    /\ pc' = [pc EXCEPT ![o] = "suspended"] /\ waker' = [waker EXCEPT ![o] = "self"]
    /\ UNCHANGED <<mEc_, mInbound_, outbound, inbound, opEc, want, stop, awaits, xch, sent, got>>

\* ... or is a send, which completes ...
StartSend(o) ==
    LET i == o[1] IN
    /\ o[2] = "send" /\ pc[o] = "start" /\ opEc[o] = "unset"
    /\ outbound' = [outbound EXCEPT ![i] = Push(@, [k \in 1..want[o] |-> sent[i] + k])]
    /\ sent' = [sent EXCEPT ![i] = @ + want[o]]
    /\ opEc' = [opEc EXCEPT ![o] = "success"]
    /\ pc' = [pc EXCEPT ![o] = "suspended"] /\ waker' = [waker EXCEPT ![o] = "self"]
    /\ UNCHANGED <<mEc_, mInbound_, inbound, want, stop, awaits, xch, got>>

\* ... or a recv whose bytes are there ...
StartRecv(o) ==
    LET i == o[1] IN
    /\ o[2] = "recv" /\ pc[o] = "start" /\ opEc[o] = "unset"
    /\ inbound[i].mSize >= want[o]
    /\ Serve(i, inbound[i], "self")
    /\ pc' = [pc EXCEPT ![o] = "suspended"]
    /\ UNCHANGED <<mEc_, mInbound_, outbound, want, stop, awaits, xch, sent>>

\* ... or a recv that waits.
StartWait(o) ==
    LET i == o[1] IN
    /\ o[2] = "recv" /\ pc[o] = "start" /\ opEc[o] = "unset"
    /\ inbound[i].mSize < want[o]
    /\ mInbound_' = [mInbound_ EXCEPT ![i] = TRUE]
    /\ pc' = [pc EXCEPT ![o] = "suspended"]
    /\ UNCHANGED <<mEc_, outbound, inbound, opEc, want, stop, waker, awaits, xch, sent, got>>

\* The coroutine is resumed and the awaiter ends.
Resume(o) ==
    /\ waker[o] # "none"
    /\ pc' = [pc EXCEPT ![o] = "out"] /\ waker' = [waker EXCEPT ![o] = "none"]
    /\ opEc' = [opEc EXCEPT ![o] = "unset"] /\ want' = [want EXCEPT ![o] = 0]
    /\ stop' = [stop EXCEPT ![o] = "none"]
    /\ UNCHANGED <<mEc_, mInbound_, outbound, inbound, awaits, xch, sent, got>>

\* Mutant: the recv that waits is removed and not resumed.
Forget(i, ec, who) ==
    /\ mInbound_' = [mInbound_ EXCEPT ![i] = FALSE]
    /\ opEc' = [o \in Op |-> IF o = <<i, "recv">> /\ mInbound_[i] THEN ec ELSE opEc[o]]
    /\ UNCHANGED waker

\* The recv of side i that waits, if any, completes with ec.
FailInbound(i, ec, who) ==
    /\ mInbound_' = [mInbound_ EXCEPT ![i] = FALSE]
    /\ opEc' = [o \in Op |-> IF o = <<i, "recv">> /\ mInbound_[i] THEN ec ELSE opEc[o]]
    /\ waker' = [o \in Op |-> IF o = <<i, "recv">> /\ mInbound_[i] THEN who ELSE waker[o]]

\* SockImpl::close.  A second close fails a recv that was started after the first.
Close(i) ==
    /\ MayClose
    /\ mEc_' = [mEc_ EXCEPT ![i] = IF @ = "success" THEN "closed" ELSE @]
    /\ FailInbound(i, "operation_aborted", "close")
    /\ UNCHANGED <<outbound, inbound, pc, want, stop, awaits, xch, sent, got>>
-----------------------------------------------------------------------------
\* exchangeMessages is called.
Exchange ==
    /\ xch = Idle
    /\ xch' = [Idle EXCEPT !.at = "get"]
    /\ UNCHANGED <<mEc_, mInbound_, outbound, inbound, awaiter, sent, got>>

\* getOutbound of side i: all bytes, or "none" if there are none after an error.
GetOutbound ==
    LET i == xch.i  out == Bytes(outbound[i]) IN
    /\ xch.at = "get"
    /\ \A o \in Op : waker[o] # "exchange"
    /\ outbound' = [outbound EXCEPT ![i] = EmptyBuffer]
    /\ xch' = [xch EXCEPT !.at = IF out = <<>> /\ mEc_[i] # "success" THEN "error" ELSE "put",
                          !.bb = out]
    /\ UNCHANGED <<mEc_, mInbound_, inbound, awaiter, sent, got>>

\* The loop goes on with the other side, or starts again, or ends.
Advance(progress) ==
    IF xch.i = 0 THEN [at |-> "get", i |-> 1, bb |-> <<>>, progress |-> progress]
    ELSE IF progress THEN [at |-> "get", i |-> 0, bb |-> <<>>, progress |-> FALSE]
    ELSE Idle

\* Mutant: a recv is served by what has just arrived only.
ServedByData(i, b) ==
    /\ mInbound_[i]
    /\ want[<<i, "recv">>] <= Len(xch.bb)

\* Can the recv that waits be served from buffer b?
Servable(i, b) ==
    /\ mInbound_[i]
    /\ want[<<i, "recv">>] <= b.mSize

\* processInbound(bb) of the other side, if bb is not empty: buffer the bytes
\* and serve the recv that waits for them.
ProcessInbound ==
    LET i == 1 - xch.i  b == Push(inbound[i], xch.bb) IN
    /\ xch.at = "put" /\ xch.bb # <<>>
    /\ xch' = Advance(TRUE)
    /\ IF Servable(i, b)
       THEN /\ Serve(i, b, "exchange")
            /\ mInbound_' = [mInbound_ EXCEPT ![i] = FALSE]
       ELSE /\ inbound' = [inbound EXCEPT ![i] = b]
            /\ UNCHANGED <<got, opEc, waker, mInbound_>>
    /\ UNCHANGED <<mEc_, outbound, pc, want, stop, awaits, sent>>

NothingToPut ==
    /\ xch.at = "put" /\ xch.bb = <<>>
    /\ xch' = Advance(xch.progress)
    /\ UNCHANGED <<mEc_, mInbound_, outbound, inbound, awaiter, sent, got>>

\* setError(remoteClosed) of the other side.
SetError ==
    LET i == 1 - xch.i IN
    /\ xch.at = "error"
    /\ xch' = Advance(xch.progress)
    /\ IF mEc_[i] = "success"
       THEN /\ mEc_' = [mEc_ EXCEPT ![i] = "remoteClosed"]
            /\ FailInbound(i, "remoteClosed", "exchange")
       ELSE UNCHANGED <<mEc_, mInbound_, opEc, waker>>
    /\ UNCHANGED <<outbound, inbound, pc, want, stop, awaits, sent, got>>

AwaiterStep == \E o \in Op :
    StartCanceled(o) \/ StartSend(o) \/ StartRecv(o) \/ StartWait(o) \/ Resume(o)

ExchangeStep == Exchange \/ GetOutbound \/ ProcessInbound \/ NothingToPut \/ SetError

UserStep ==
    \/ \E o \in Op : StopCallback(o) \/ \E n \in 1..MaxLen : Await(o, n)
    \/ \E i \in Side : Close(i)

Next == AwaiterStep \/ ExchangeStep \/ UserStep

Spec == Init /\ [][Next]_vars

\* A thread inside the socket goes on, and exchangeMessages is called again and
\* again, as the class's comment asks of its user.
FairSpec == Spec /\ WF_vars(AwaiterStep) /\ WF_vars(ExchangeStep)
-----------------------------------------------------------------------------
\* Types of the variables.
TypeOK ==
    /\ mEc_ \in [Side -> Code] /\ mInbound_ \in [Side -> BOOLEAN]
    /\ pc \in [Op -> {"out", "start", "suspended"}] /\ opEc \in [Op -> Code \cup {"unset"}]
    /\ want \in [Op -> 0..MaxLen] /\ stop \in [Op -> {"none", "possible", "done"}]
    /\ waker \in [Op -> {"none", "self", "stop", "close", "exchange"}]
    /\ awaits \in [Op -> 0..MaxAwaits]
    /\ xch.at \in {"idle", "get", "put", "error"} /\ xch.i \in Side /\ xch.progress \in BOOLEAN
    /\ \A i \in Side : outbound[i].mFront = 0 /\ inbound[i].mFront \in Nat

\* What Buffer::size and pop() assert: mSize is what the vectors hold after
\* mFront, and mFront stays inside of the front vector.
SizeMatches ==
    \A i \in Side : \A b \in {inbound[i], outbound[i]} :
        /\ b.mSize = Upto(b.mData, Len(b.mData)) - b.mFront
        /\ IF b.mData = <<>> THEN b.mFront = 0 ELSE b.mFront < Len(b.mData[1])

\* Every byte is in one place, in order: what the recvs of a side were given,
\* its inbound buffer, what exchangeMessages carries and the outbound buffer of
\* the other side are together the bytes that were sent, whatever was cancelled
\* or closed meanwhile.
BytesConserved ==
    \A i \in Side :
        LET j == 1 - i
            carried == IF xch.i = j THEN xch.bb ELSE <<>> IN
        got[i] \o Bytes(inbound[i]) \o carried \o Bytes(outbound[j]) = [k \in 1..sent[j] |-> k]

\* A recv does not wait for bytes that are there: they may have come by before
\* it was awaited, or in parts.
NoStarvedRecv == \A i \in Side : mInbound_[i] => want[<<i, "recv">>] > inbound[i].mSize

\* A suspended awaiter waits in mInbound_ or has one thread that resumes it,
\* whichever of processInbound, setError, close and a stop completed it.
OneWaker ==
    \A o \in Op :
        /\ (waker[o] # "none") <=> (pc[o] = "suspended" /\ opEc[o] # "unset")
        /\ o[2] = "recv" => (mInbound_[o[1]] <=> (pc[o] = "suspended" /\ opEc[o] = "unset"))

\* A recv ends once the other side has sent enough bytes.
RecvServed ==
    \A o \in {p \in Caller : p[2] = "recv"} :
        (pc[o] # "out" /\ sent[1 - o[1]] >= Len(got[o[1]]) + want[o]) ~> pc[o] = "out"

\* "close means we should cancel all operations and cancel all future requires":
\* no recv waits on a closed socket.
ClosedRefuses == \A i \in Side : mEc_[i] = "closed" => ~mInbound_[i]
=============================================================================
