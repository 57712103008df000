----------------------------- MODULE SchedPair -----------------------------
(***************************************************************************)
(* Two schedulers joined by a byte stream, in one direction: endpoint A    *)
(* sends and endpoint B receives.  Both are instances of SockScheduler; a  *)
(* write of A puts on the wire what the next reads of B take off it.  The  *)
(* part of each endpoint that this direction does not use stays as the     *)
(* constructor left it, but for the task that exits when the endpoint      *)
(* fails (aRecvPc, bSendPc).  The buffer of a recv has the size of its     *)
(* message.  Stop tokens, flush, the destructor and the calls that a       *)
(* closed endpoint refuses are left to the runs of SockScheduler.          *)
(***************************************************************************)
EXTENDS Integers, Sequences, FiniteSets, SequencesExt, OpSeq

CONSTANTS
    Fork, RootFork,  \* the sessions, which both endpoints derive alike
    NumMessages,     \* bound: messages sent and recvs issued
    CloseAfter       \* bound: A closes its socket only after this many calls

ASSUME PairAssumption ==
    RootFork \in Fork /\ IsFiniteSet(Fork) /\ NumMessages \in Nat /\ CloseAfter \in Nat

Id      == 1..NumMessages
BadSlot == 1 + Cardinality(Fork)    \* stands for ~u32(0), which no fork gets
Slot    == 1..BadSlot

VARIABLES
    wire,    \* what A has written and B has not read
    idle,    \* the variables of an endpoint that this direction leaves alone
    got      \* history: the message each recv of B got, or 0
VARIABLES
    aEC, aForks, aLocalId, aInitiated, aClosed, aSendStatus, aSendPc, aSendOp, aSendEc, aList,
    aLast, aSendOps, aNumSends, aFork, aStatus, aResult, aSendStop, aSent, aRecvPc
VARIABLES
    bEC, bForks, bLocalId, bRemoteId, bRecvStatus, bRecvPc, bRecvOp, bRecvEc, bRecvOps, bNumIssued,
    bFork, bStatus, bResult, bRecvStop, bSlot, bNumRecvs, bSendPc

aVars == <<aEC, aForks, aLocalId, aInitiated, aClosed, aSendStatus, aSendPc, aSendOp, aSendEc, aList,
           aLast, aSendOps, aNumSends, aFork, aStatus, aResult, aSendStop, aSent, aRecvPc>>
bVars == <<bEC, bForks, bLocalId, bRemoteId, bRecvStatus, bRecvPc, bRecvOp, bRecvEc, bRecvOps, bNumIssued,
           bFork, bStatus, bResult, bRecvStop, bSlot, bNumRecvs, bSendPc>>
vars == <<wire, idle, got, aVars, bVars>>

A == INSTANCE SockScheduler WITH
        MaxSends <- NumMessages, MaxRecvs <- 0, MaxFlushes <- 0, TokenSends <- {}, TokenRecvs <- {},
        TailCancel <- FALSE, WrapCancel <- FALSE, BlockCapacity <- 8, PeerMayFail <- FALSE,
        mEC <- aEC, mSocketForks <- aForks, mLocalId <- aLocalId, mRemoteId <- [f \in Fork |-> 0],
        mInitiated <- aInitiated, sockClosed <- aClosed, destroyed <- idle.flag, terminated <- idle.flag,
        mSendStatus <- aSendStatus, sendPc <- aSendPc, sendOp <- aSendOp, sendEc <- aSendEc,
        mSendBuffer <- aList, mSendBufferLast <- aLast, mSendOps <- aSendOps, sendHole <- idle.hole,
        numSends <- aNumSends, sFork <- aFork, sStatus <- aStatus, sResult <- aResult,
        mSendCancelSrc <- "held", sendStop <- aSendStop,
        mRecvStatus <- "Idle", recvPc <- aRecvPc, recvOp <- 0, recvEc <- "success", mRecvOps <- idle.queue,
        recvHole <- idle.hole, numRecvsIssued <- 0, rFork <- idle.ops, rStatus <- idle.ops, rResult <- idle.ops,
        mRecvCancelSrc <- "held", recvStop <- idle.flag, headerSlot <- 0, mNumRecvs <- 0,
        mFlush <- idle.ops, flushOps <- idle.ops, flushWait <- idle.ops, sent <- aSent, tokenStopped <- idle.stops

B == INSTANCE SockScheduler WITH
        MaxSends <- 0, MaxRecvs <- NumMessages, MaxFlushes <- 0, TokenSends <- {}, TokenRecvs <- {},
        TailCancel <- FALSE, WrapCancel <- FALSE, BlockCapacity <- 8, PeerMayFail <- TRUE,
        mEC <- bEC, mSocketForks <- bForks, mLocalId <- bLocalId, mRemoteId <- bRemoteId,
        mInitiated <- idle.hole, sockClosed <- idle.flag, destroyed <- idle.flag, terminated <- idle.flag,
        mSendStatus <- "Idle", sendPc <- bSendPc, sendOp <- 0, sendEc <- "success",
        mSendBuffer <- idle.list, mSendBufferLast <- 0, mSendOps <- idle.queue, sendHole <- idle.hole,
        numSends <- 0, sFork <- idle.ops, sStatus <- idle.ops, sResult <- idle.ops,
        mSendCancelSrc <- "held", sendStop <- idle.flag,
        mRecvStatus <- bRecvStatus, recvPc <- bRecvPc, recvOp <- bRecvOp, recvEc <- bRecvEc, mRecvOps <- bRecvOps,
        recvHole <- idle.hole, numRecvsIssued <- bNumIssued, rFork <- bFork, rStatus <- bStatus, rResult <- bResult,
        mRecvCancelSrc <- "held", recvStop <- bRecvStop, headerSlot <- bSlot, mNumRecvs <- bNumRecvs,
        mFlush <- idle.ops, flushOps <- idle.ops, flushWait <- idle.ops, sent <- idle.list, tokenStopped <- idle.stops

Init ==
    /\ idle = [flag |-> FALSE, ops |-> <<>>, list |-> <<>>, stops |-> {},
               queue |-> [f \in Fork |-> <<>>], hole |-> [f \in Fork |-> FALSE]]
    /\ A!Init /\ B!Init /\ wire = <<>> /\ got = [o \in Id |-> 0]
-----------------------------------------------------------------------------
(* What the bytes on the wire mean.  A control message is a header of size *)
(* zero and the session; a message is a header and its body.               *)

Header(f, control) == [what |-> "header", slot |-> aLocalId[f], control |-> control]
Session(f)         == [what |-> "session", fork |-> f]
Body(o)            == [what |-> "body", message |-> o]

\* Mutant: the announcement lacks the session.
WrittenNoSession ==
    CASE aSendPc = "meta"   -> <<Header(aFork[aSendOp], TRUE)>>
      [] aSendPc = "header" -> <<Header(aFork[aSendOp], FALSE)>>
      [] aSendPc = "body"   -> <<Body(aSendOp)>>

\* Mutant: the header carries the id of the root fork.
WrittenRootId ==
    CASE aSendPc = "meta"   -> <<Header(aFork[aSendOp], TRUE), Session(aFork[aSendOp])>>
      [] aSendPc = "header" -> <<Header(RootFork, FALSE)>>
      [] aSendPc = "body"   -> <<Body(aSendOp)>>

\* What the send task writes next.
Written ==
    CASE aSendPc = "meta"   -> <<Header(aFork[aSendOp], TRUE), Session(aFork[aSendOp])>>
      [] aSendPc = "header" -> <<Header(aFork[aSendOp], FALSE)>>
      [] aSendPc = "body"   -> <<Body(aSendOp)>>

\* The forks A does not have yet.  Their names are interchangeable, so A forks
\* them in one order and B in any.
Unforked == {f \in Fork : aLocalId[f] = A!None}

SenderStep ==
    /\ UNCHANGED <<bVars, idle, got>>
    /\ \/ /\ A!SendIoDone
          /\ wire' = wire \o Written
       \/ /\ \/ \E f \in Fork : A!SendWake(f) \/ A!SendQueue(f)
             \/ Unforked # {} /\ A!ForkSocket(CHOOSE f \in Unforked : TRUE)
             \/ aNumSends + bNumIssued >= CloseAfter /\ A!CloseSocket
             \/ A!SendTaskStep
             \/ A!SendIoFail("closed")
          /\ UNCHANGED wire

ReadNext(what) == wire # <<>> /\ wire[1].what = what /\ wire' = Tail(wire)

ReceiverRead ==
    \/ /\ ReadNext("header")
       /\ B!RecvHeader(wire[1].slot, IF wire[1].control THEN "meta" ELSE "getFork")
       /\ UNCHANGED got
    \/ /\ ReadNext("session")
       /\ B!RecvNewFork(wire[1].fork) \/ B!RecvBadFork(wire[1].fork)
       /\ UNCHANGED got
    \/ /\ ReadNext("body")
       /\ B!RecvBody
       /\ got' = [got EXCEPT ![bRecvOp] = wire[1].message]

\* The stream ends after what was written before the close.
PeerGone == aClosed /\ wire = <<>>

ReceiverStep ==
    /\ UNCHANGED <<aVars, idle>>
    /\ \/ ReceiverRead
       \/ /\ \/ \E f \in Fork : B!RecvWake(f) \/ B!RecvMatch(f) \/ B!RecvQueue(f) \/ B!ForkSocket(f)
             \/ B!RecvTaskStep /\ ~B!RecvSizeBad
             \/ PeerGone /\ B!RecvIoFail("remoteClosed")
          /\ UNCHANGED <<wire, got>>

Next == SenderStep \/ ReceiverStep

Spec == Init /\ [][Next]_vars

\* The tasks go on, a write ends, and bytes that are on the wire are read.
Fairness ==
    /\ WF_vars(SenderStep /\ (A!SendTaskStep \/ A!SendIoDone \/ A!SendIoFail("closed")))
    /\ WF_vars(ReceiverStep /\ (ReceiverRead \/ B!RecvTaskStep \/ B!RecvIoFail("remoteClosed")))

FairSpec == Spec /\ Fairness
-----------------------------------------------------------------------------
(* Properties *)

\* The numbers of S in increasing order.
InOrder(S) == CHOOSE s \in [1..Cardinality(S) -> S] : Increasing(s)

\* The messages A accepted on f, without those that failed, and what the recvs
\* of f got, both in the order of the calls.
Accepted(f) ==
    InOrder({o \in 1..aNumSends : aFork[o] = f /\ aStatus[o] # "refused" /\ aResult[o] = "none"})
Received(f) ==
    LET done == InOrder({o \in 1..bNumIssued : bFork[o] = f /\ got[o] # 0})
    IN  [i \in DOMAIN done |-> got[done[i]]]
Undelivered(f) == SubSeq(Accepted(f), Len(Received(f)) + 1, Len(Accepted(f)))

Channel == INSTANCE ForkChannel WITH
    Message <- Id,
    open <- aEC = "success",
    chan <- [f \in Fork |-> Undelivered(f)],
    rcvd <- [f \in Fork |-> Received(f)]

\* The pair implements one FIFO channel per fork: interleaved forks, fork ids
\* announced on the way and recvs issued before or after their message
\* arrives do not mix messages up.
ImplementsChannel == Channel!Spec

\* The receiver reads what the sender wrote: it never takes a body for a
\* header or a control block, so a message of any fork leaves the stream where
\* the next header starts.
Framed ==
    wire # <<>> =>
        /\ bRecvPc = "meta" => wire[1].what = "session"
        /\ bRecvPc = "body" => wire[1].what = "body"
        /\ bRecvPc = "header" => wire[1].what = "header"

\* Between two schedulers no header names a fork that was not announced, and
\* no fork is announced twice.
PeerUnderstood == "badCoprotoMessageHeader" \notin {bEC, bRecvEc}

\* If every fork has as many recvs as messages, all messages arrive unless the
\* socket is closed, whatever the order of the calls on the two sides.
CountSends(f) == Cardinality({o \in 1..aNumSends : aFork[o] = f})
CountRecvs(f) == Cardinality({o \in 1..bNumIssued : bFork[o] = f})
Matched == \A f \in Fork : CountSends(f) <= CountRecvs(f)
AllArrive ==
    (Matched /\ aNumSends = NumMessages) ~>
        (\A f \in Fork : Len(Received(f)) = CountSends(f)) \/ aClosed

\* The k-th recv of a fork gets the k-th message that was sent on the fork: the
\* recvs of a fork are served in the order of the calls, and no message of the
\* fork is passed over.
ForkFifo ==
    \A o \in 1..bNumIssued : got[o] # 0 =>
        /\ aFork[got[o]] = bFork[o]
        /\ \A p \in 1..(o - 1) : bFork[p] = bFork[o] => got[p] # 0 /\ got[p] < got[o]
        /\ \A m \in 1..(got[o] - 1) : aFork[m] = bFork[o] => \E p \in 1..(o - 1) : got[p] = m
-----------------------------------------------------------------------------
(* The inductive invariant: framing, fork ids and the order of messages *)

\* What a piece of the stream is, and what comes after it.
Piece == [what : {"header"}, slot : Slot, control : BOOLEAN]
           \cup [what : {"session"}, fork : Fork] \cup [what : {"body"}, message : Id]
After(x) == IF x.what # "header" THEN "header" ELSE IF x.control THEN "session" ELSE "body"

\* What B takes off the stream next, and what A puts on it.
Reads ==
    CASE bRecvPc = "meta" -> "session"
      [] bRecvPc \in {"getFork", "requested", "gotOp", "body"} -> "body"
      [] OTHER -> "header"
Writes == IF aSendPc = "body" THEN "body" ELSE "header"

\* A task that failed does not touch the stream again.
SenderLives   == aSendPc # "exit" /\ aSendEc = "success"
ReceiverLives == bRecvPc # "exit" /\ bRecvEc = "success" /\ bEC = "success"

\* The pieces on the wire follow on each other, the first one on what B has
\* read and what A writes next on the last one.
FrameInv ==
    /\ wire \in Seq(Piece)
    /\ \A i \in 1..(Len(wire) - 1) : wire[i + 1].what = After(wire[i])
    /\ ReceiverLives /\ wire # <<>> => wire[1].what = Reads
    /\ SenderLives /\ wire # <<>> => Writes = After(wire[Len(wire)])
    /\ SenderLives /\ ReceiverLives /\ wire = <<>> => Writes = Reads

\* A's ids are given out in order, each once, before they are used.
LocalIds ==
    /\ \A f \in Fork : aLocalId[f] \in 0..Cardinality({g \in Fork : aLocalId[g] # 0})
    /\ \A f, g \in Fork : aLocalId[f] = aLocalId[g] /\ aLocalId[f] # 0 => f = g
    /\ \A o \in 1..aNumSends : aLocalId[aFork[o]] # 0

\* When piece i is read, which fork does the header before it name, and does B
\* know the id of fork f?
SlotAt(i)   == IF i = 1 THEN bSlot ELSE wire[i - 1].slot
Known(f, i) == bRemoteId[f] # 0 \/ \E j \in 1..(i - 1) : wire[j] = Session(f)

\* A fork is announced once, before the first header with its id.
Announcing(f) == aSendPc = "meta" /\ aFork[aSendOp] = f
IdInv ==
    /\ \A i \in 1..Len(wire) :
        /\ wire[i].what = "header" =>
               \E f \in Fork : wire[i].slot = aLocalId[f] /\ (wire[i].control \/ Known(f, i))
        /\ wire[i].what = "session" => aLocalId[wire[i].fork] = SlotAt(i) /\ ~Known(wire[i].fork, i)
        /\ wire[i].what = "body" =>
               wire[i].message <= aNumSends /\ aLocalId[aFork[wire[i].message]] = SlotAt(i)
    /\ aSendPc = "body" => aLocalId[aFork[aSendOp]] = SlotAt(Len(wire) + 1)
    /\ aSendPc \in {"meta", "header", "body"} => aInitiated[aFork[aSendOp]]
    /\ \A f \in Fork :
        /\ aInitiated[f] => aLocalId[f] # 0
        /\ bRemoteId[f] \in {0, aLocalId[f]}
        /\ Known(f, Len(wire) + 1) => aInitiated[f] /\ ~Announcing(f)
        /\ SenderLives /\ aInitiated[f] /\ ~Announcing(f) => Known(f, Len(wire) + 1)
    /\ Reads = "body" => \E f \in Fork : bRemoteId[f] = bSlot
    /\ bRecvPc \in {"gotOp", "body"} => bRemoteId[bFork[bRecvOp]] = bSlot

\* B fails only when A has closed and everything was read.
FailInv ==
    /\ ReceiverLives \/ (aClosed /\ wire = <<>>)
    /\ bEC # "success" => bRecvPc = "exit"
    /\ bRecvEc \in {"success", "remoteClosed"} /\ bEC \in {"success", "cancel", "remoteClosed"}

\* The messages on the wire.
IsBody(i) == i \in 1..Len(wire) /\ wire[i].what = "body"

\* A message that recv o got was sent on the fork of o, before all that is on
\* the wire and after all that earlier recvs of the fork got.
GotInv(o) ==
    /\ o <= bNumIssued /\ got[o] \in ToSet(aSent) /\ aFork[got[o]] = bFork[o]
    /\ bStatus[o] = "completed" \/ (o = bRecvOp /\ bRecvPc = "any" /\ bRecvEc = "success")
    /\ \A i \in 1..Len(wire) : IsBody(i) => got[o] < wire[i].message
    /\ \A p \in 1..(o - 1) : bFork[p] = bFork[o] => got[p] # 0 /\ got[p] < got[o]

\* What was sent was received or is on the wire, in order; nothing is passed
\* over by A, nor by B.
WireOrder ==
    /\ \A i, j \in 1..Len(wire) : IsBody(i) /\ IsBody(j) /\ i < j => wire[i].message < wire[j].message
    /\ \A i \in 1..Len(wire) : IsBody(i) => wire[i].message \in ToSet(aSent)
    /\ \A m \in ToSet(aSent) :
        (\E o \in Id : got[o] = m) \/ (\E i \in 1..Len(wire) : IsBody(i) /\ wire[i].message = m)
SendsInOrder ==
    /\ \A m \in ToSet(aSent) : 1..m \subseteq ToSet(aSent)
    /\ SenderLives => \A m \in 1..aNumSends : m \in A!Pending(aStatus) \/ m \in ToSet(aSent)
RecvsInOrder ==
    /\ ReceiverLives => \A o \in 1..bNumIssued : o \in B!Pending(bStatus) \/ got[o] # 0
    /\ bRecvPc = "any" /\ bRecvEc = "success" => got[bRecvOp] # 0
FifoInv ==
    /\ got \in [Id -> Id \cup {0}]
    /\ \A o \in Id : got[o] # 0 => GotInv(o)
    /\ WireOrder /\ SendsInOrder /\ RecvsInOrder

PairInv == FrameInv /\ LocalIds /\ IdInv /\ FailInv /\ FifoInv
=============================================================================
