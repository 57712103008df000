--------------------------- MODULE SockScheduler ---------------------------
(***************************************************************************)
(* One endpoint of a coproto socket: SockScheduler multiplexes the send    *)
(* and recv operations of all forks over one underlying socket.            *)
(*                                                                         *)
(* Three kinds of actor share the state, which the code guards by the      *)
(* recursive mutex mMutex: user threads (send, recv, fork, flush, close,   *)
(* stop callbacks, the destructor), the send task (makeSendTask) and the   *)
(* recv task (receiveDataTask).  An action is one critical section, or the *)
(* completion of one socket call.  Where a coroutine hands a handle to the *)
(* execution queue the resumed code runs in a later action; module         *)
(* ExecutionQueue shows that such a handle is resumed exactly once, as     *)
(* long as no ring buffer of the queue has grown.                          *)
(*                                                                         *)
(* A call to request_stop inside cancel may re-enter the scheduler on the  *)
(* same thread.  The nested section only completes the other direction,    *)
(* which the rest of the outer one leaves alone, so running it as the next *)
(* action gives the same state.                                            *)
(***************************************************************************)
EXTENDS Integers, Sequences, FiniteSets, SequencesExt, OpSeq

CONSTANTS
    Fork,        \* the session ids; every socket of a session is one of them
    RootFork,    \* the session the scheduler is constructed with
    Slot,        \* the fork ids a peer may put in a header
    BadSlot,     \* ~u32(0), never a legal fork id
    MaxSends,    \* bound: send operations issued
    MaxRecvs,    \* bound: recv operations issued
    MaxFlushes,  \* bound: flushes issued
    TokenSends,  \* the send operations that carry a stop token
    TokenRecvs,  \* the recv operations that carry a stop token
    TailCancel,  \* may the token of the newest queued send be stopped?
    WrapCancel,  \* may an operation be stopped whose place in its block has wrapped?
    BlockCapacity,  \* entries of the first block of a queue of operations
    PeerMayFail  \* may a socket call fail because of the peer?

SendId  == 1..MaxSends
RecvId  == 1..MaxRecvs
FlushId == 1..MaxFlushes
None    == 0        \* nullptr, or an id that is not assigned

ASSUME SchedulerAssumption ==
    /\ RootFork \in Fork /\ IsFiniteSet(Fork)
    /\ BadSlot \in Slot
    /\ MaxSends \in Nat /\ MaxRecvs \in Nat /\ MaxFlushes \in Nat
    /\ TokenSends \subseteq SendId /\ TokenRecvs \subseteq RecvId
    /\ TailCancel \in BOOLEAN /\ WrapCancel \in BOOLEAN /\ PeerMayFail \in BOOLEAN
    /\ BlockCapacity \in Nat \ {0}
    /\ None \notin Slot

VARIABLES
    mEC,             \* the error that closed the scheduler, or "success"
    mSocketForks,    \* the forks in the order they were created
    mLocalId,        \* our id of a fork, sent in headers
    mRemoteId,       \* the peer's id of a fork, received in headers
    mInitiated,      \* has our id of the fork been announced?
    sockClosed,      \* Socket::close() closed the underlying socket
    destroyed,       \* the destructor has run
    terminated       \* the destructor called std::terminate()

forkVars == <<mSocketForks, mLocalId, mRemoteId>>
lifeVars == <<sockClosed, destroyed, terminated>>

VARIABLES
    mSendStatus,     \* Idle, InUse or Closed
    sendPc,          \* what the send task does next
    sendOp, sendEc,  \* its local variables op and ec
    mSendBuffer,     \* the operations linked from mSendBufferBegin
    mSendBufferLast, \* the tail pointer of that list
    mSendOps,        \* each fork's queue of send operations
    sendHole,        \* is the newest slot of that queue an erased one?
    numSends,        \* send operations issued so far
    sFork, sStatus, sResult,  \* a send operation's fork, status, outcome
    mSendCancelSrc,  \* where the stop source of the send task is
    sendStop         \* has stop been requested on mSendToken?

VARIABLES
    mRecvStatus, recvPc, recvOp, recvEc, mRecvOps, recvHole, numRecvsIssued,
    rFork, rStatus, rResult, mRecvCancelSrc, recvStop,
    headerSlot,      \* the fork id of the header the recv task works on
    mNumRecvs        \* how many recv operations are queued

VARIABLES
    mFlush,          \* the state of each flush
    flushOps,        \* the operations that hold the flush's token
    flushWait,       \* history: what was pending when flush was called
    sent,            \* history: the sends whose body was written, in order
    tokenStopped     \* history: the operations whose token was stopped

sendOps  == <<mSendOps, sendHole, numSends, sFork, sStatus, sResult>>
sendTask == <<mSendStatus, sendPc, sendOp, sendEc, mInitiated>>
sendList == <<mSendBuffer, mSendBufferLast>>
sendStopVars == <<mSendCancelSrc, sendStop>>
recvOps  == <<mRecvOps, recvHole, numRecvsIssued, rFork, rStatus, rResult, mNumRecvs>>
recvTask == <<mRecvStatus, recvPc, recvOp, recvEc, headerSlot>>
recvStopVars == <<mRecvCancelSrc, recvStop>>
flushVars == <<mFlush, flushOps, flushWait>>
histVars == <<sent, tokenStopped>>
sendVars == <<sendOps, sendTask, sendList, sendStopVars>>
recvVars == <<recvOps, recvTask, recvStopVars>>
vars == <<mEC, forkVars, lifeVars, sendVars, recvVars, flushVars, histVars>>

Code == {"success", "cancel", "closed", "remoteClosed", "operation_aborted",
         "sendLengthZeroMsg", "badBufferSize", "badCoprotoMessageHeader"}
Status == {"Idle", "InUse", "RequestedRecvOp", "Closed"}
OpStatus == {"unused", "refused", "NotStarted", "InProgress", "Canceling", "completed"}
\* The outcome of an operation: no error, or the code of its exception.
Result == Code \cup {"none"}
Outcome(ec) == IF ec = "success" THEN "none" ELSE ec
SendPc == {"idle", "meta", "header", "body", "next", "exit"}
RecvPc == {"idle", "header", "meta", "getFork", "requested", "gotOp", "body", "any", "exit"}

\* The operations that have not completed.
Pending(st)  == {o \in DOMAIN st : st[o] \notin {"unused", "refused", "completed"}}
PendingOps   == ({"send"} \X Pending(sStatus)) \cup ({"recv"} \X Pending(rStatus))

\* The constructor: both tasks have run up to their first await.
Init ==
    /\ mEC = "success"
    /\ mSocketForks = <<RootFork>>
    /\ mLocalId = [f \in Fork |-> IF f = RootFork THEN 1 ELSE None]
    /\ mRemoteId = [f \in Fork |-> None]
    /\ mInitiated = [f \in Fork |-> FALSE]
    /\ sockClosed = FALSE /\ destroyed = FALSE /\ terminated = FALSE
    /\ mSendStatus = "Idle" /\ sendPc = "idle" /\ sendOp = None /\ sendEc = "success"
    /\ mSendBuffer = <<>> /\ mSendBufferLast = None
    /\ mSendOps = [f \in Fork |-> <<>>] /\ sendHole = [f \in Fork |-> FALSE]
    /\ numSends = 0
    /\ sFork = [o \in SendId |-> RootFork]
    /\ sStatus = [o \in SendId |-> "unused"] /\ sResult = [o \in SendId |-> "none"]
    /\ mSendCancelSrc = "held" /\ sendStop = FALSE
    /\ mRecvStatus = "Idle" /\ recvPc = "idle" /\ recvOp = None /\ recvEc = "success"
    /\ headerSlot = None /\ mNumRecvs = 0
    /\ mRecvOps = [f \in Fork |-> <<>>] /\ recvHole = [f \in Fork |-> FALSE]
    /\ numRecvsIssued = 0
    /\ rFork = [o \in RecvId |-> RootFork]
    /\ rStatus = [o \in RecvId |-> "unused"] /\ rResult = [o \in RecvId |-> "none"]
    /\ mRecvCancelSrc = "held" /\ recvStop = FALSE
    /\ mFlush = [k \in FlushId |-> "unused"]
    /\ flushOps = [k \in FlushId |-> {}] /\ flushWait = [k \in FlushId |-> {}]
    /\ sent = <<>> /\ tokenStopped = {}
-----------------------------------------------------------------------------
(* Completing operations *)

\* Mutant: the last token is dropped and the flush is not resumed.
DropTokens(done) ==
    /\ flushOps' = [k \in FlushId |-> flushOps[k] \ done]
    /\ UNCHANGED <<mFlush, flushWait>>

\* completeOn of every operation in done: an operation drops its flush tokens,
\* and the last one to hold a token resumes the flush.
ReleaseFlushes(done) ==
    /\ flushOps' = [k \in FlushId |-> flushOps[k] \ done]
    /\ mFlush' = [k \in FlushId |->
           IF flushOps[k] = {} \/ ~(flushOps[k] \subseteq done) THEN mFlush[k]
           ELSE IF mFlush[k] = "waiting" THEN "done" ELSE "resumedAfterThrow"]
    /\ UNCHANGED flushWait

\* pop_front on a queue whose newest slot may be a hole: emptying the queue
\* drops the hole too.
HoleAfter(hole, q) == hole /\ q # <<>>

\* Queue::erase of entry i: the front is popped; any other leaves a hole.
HoleAfterErase(hole, q, i) ==
    \/ hole /\ Len(q) > 1
    \/ i # 1 /\ i = Len(q)

\* Mutant: every operation reports the error.
KeepEc(ec) == ec

\* std::exchange(ec, code::cancel): the operation that failed reports ec, and
\* this is what is left for the others.
AfterFirst(ec) == IF ec = "success" THEN ec ELSE "cancel"

\* What cancel does to the send task when it raises the first error.
CloseSendTask ==
    /\ sendStop' = (sendStop \/ (mSendStatus = "InUse" /\ mSendCancelSrc = "held"))
    /\ sendPc' = IF sendPc = "idle" THEN "exit" ELSE sendPc

\* Mutant: a task that waits for a fork's recv is left asleep.
LeaveRecvTask(ec) ==
    /\ recvStop' = (recvStop \/ (mRecvStatus = "InUse" /\ mRecvCancelSrc = "held"))
    /\ recvPc' = IF recvPc = "idle" THEN "exit" ELSE recvPc
    /\ UNCHANGED recvEc

\* ... and to the recv task; ec reaches a task that waits for a fork's recv.
CloseRecvTask(ec) ==
    /\ recvStop' = (recvStop \/ (mRecvStatus = "InUse" /\ mRecvCancelSrc = "held"))
    /\ recvPc' = CASE recvPc = "idle" -> "exit"
                   [] recvPc = "requested" -> "any"
                   [] OTHER -> recvPc
    /\ recvEc' = IF recvPc = "requested" THEN ec ELSE recvEc
-----------------------------------------------------------------------------
(* User calls: send *)

Usable(f) == ~destroyed /\ mLocalId[f] # None

\* The next send operation is issued on fork f with this status and outcome.
IssueSend(f, st, res) ==
    /\ Usable(f)
    /\ numSends < MaxSends
    /\ numSends' = numSends + 1
    /\ sFork' = [sFork EXCEPT ![numSends + 1] = f]
    /\ sStatus' = [sStatus EXCEPT ![numSends + 1] = st]
    /\ sResult' = [sResult EXCEPT ![numSends + 1] = res]

\* Mutant: the operation is queued on the root fork.
EmplaceAtRoot(f) ==
    /\ mSendOps' = [mSendOps EXCEPT ![RootFork] = Append(@, numSends + 1)]
    /\ sendHole' = [sendHole EXCEPT ![f] = FALSE]

EmplaceSend(f) ==
    /\ mSendOps' = [mSendOps EXCEPT ![f] = Append(@, numSends + 1)]
    /\ sendHole' = [sendHole EXCEPT ![f] = FALSE]

\* A zero length message is refused before the lock is taken.
SendEmpty(f) ==
    /\ IssueSend(f, "refused", "sendLengthZeroMsg")
    /\ UNCHANGED <<mSendOps, sendHole>>
    /\ UNCHANGED <<mEC, forkVars, lifeVars, sendTask, sendList, sendStopVars, recvVars, flushVars, histVars>>

\* A closed scheduler refuses the message with the error that closed it.
SendRefused(f) ==
    /\ mEC # "success"
    /\ IssueSend(f, "refused", mEC)
    /\ UNCHANGED <<mSendOps, sendHole>>
    /\ UNCHANGED <<mEC, forkVars, lifeVars, sendTask, sendList, sendStopVars, recvVars, flushVars, histVars>>

\* The send task picks up o: a fork's first message is preceded by a meta
\* message that announces our fork id.
StartSend(o, f) ==
    /\ sendOp' = o
    /\ sendPc' = IF mInitiated[f] THEN "header" ELSE "meta"
    /\ mInitiated' = [mInitiated EXCEPT ![f] = TRUE]

\* The send task is idle (mNextSendOp is set): the message starts at once.
SendWake(f) ==
    /\ mEC = "success" /\ sendPc = "idle"
    /\ IssueSend(f, "InProgress", "none")
    /\ EmplaceSend(f)
    /\ mSendStatus' = "InUse"
    /\ mSendBuffer' = <<numSends + 1>> /\ mSendBufferLast' = numSends + 1
    /\ StartSend(numSends + 1, f)
    /\ UNCHANGED <<mEC, forkVars, lifeVars, sendEc, sendStopVars, recvVars, flushVars, histVars>>

\* Mutant: the message is linked behind the head, in place of what was there.
LinkAtHead(o) ==
    /\ mSendBuffer' = <<mSendBuffer[1], o>>
    /\ mSendBufferLast' = o

\* The send task is busy: the message is linked behind the tail.  Linking to
\* an operation that has been erased writes into dead storage, so the message
\* is not reachable from the head of the list.
LinkSend(o) ==
    /\ mSendBuffer' = IF mSendBufferLast \in ToSet(mSendBuffer)
                      THEN Append(mSendBuffer, o) ELSE mSendBuffer
    /\ mSendBufferLast' = o

SendQueue(f) ==
    /\ mEC = "success" /\ sendPc # "idle"
    /\ IssueSend(f, "NotStarted", "none")
    /\ EmplaceSend(f)
    /\ LinkSend(numSends + 1)
    /\ UNCHANGED <<mEC, forkVars, lifeVars, sendTask, sendStopVars, recvVars, flushVars, histVars>>

\* Queue::erase finds an operation by its address, and throws if its position,
\* which counts on past the end of the block, is not the one in the block.
\* Only then can it be the case that more operations than the block has
\* entries were put on the queue, this one included, and one has left it.
Wrapped(st, forks, o) ==
    LET put == {p \in 1..o : forks[p] = forks[o] /\ st[p] # "refused"}
    IN  Cardinality(put) > BlockCapacity /\ \E p \in put \ {o} : st[p] = "completed"

\* erase_send.  An exception leaves the stop callback: the send, completed and
\* unlinked by then, stays in its fork's queue.
EraseSend(o) ==
    \/ \E i \in DOMAIN mSendOps[sFork[o]] :
        /\ mSendOps[sFork[o]][i] = o
        /\ mSendOps' = [mSendOps EXCEPT ![sFork[o]] = RemoveAt(@, i)]
        /\ sendHole' = [sendHole EXCEPT ![sFork[o]] = HoleAfterErase(@, mSendOps[sFork[o]], i)]
    \/ WrapCancel /\ Wrapped(sStatus, sFork, o) /\ UNCHANGED <<mSendOps, sendHole>>

\* The stop callback of a send that has not started.  The tail pointer of the
\* list is not updated.
CancelQueuedSend(o) ==
    /\ o \in TokenSends /\ sStatus[o] = "NotStarted"
    /\ TailCancel \/ o # mSendBufferLast
    /\ EraseSend(o)
    /\ mSendBuffer' = IF o \in ToSet(mSendBuffer)
                      THEN RemoveAt(mSendBuffer, CHOOSE i \in DOMAIN mSendBuffer : mSendBuffer[i] = o)
                      ELSE mSendBuffer
    /\ sStatus' = [sStatus EXCEPT ![o] = "completed"]
    /\ sResult' = [sResult EXCEPT ![o] = "operation_aborted"]
    /\ ReleaseFlushes({<<"send", o>>})
    /\ UNCHANGED <<mEC, forkVars, lifeVars, numSends, sFork, sendTask, mSendBufferLast,
                   sendStopVars, recvVars, sent>>
    /\ tokenStopped' = tokenStopped \cup {<<"send", o>>}

\* The stop callback of a send in progress: the stop source of the send task
\* moves into a function on the execution queue.
CancelRunningSend(o) ==
    /\ o \in TokenSends /\ sStatus[o] = "InProgress"
    /\ sStatus' = [sStatus EXCEPT ![o] = "Canceling"]
    /\ mSendCancelSrc' = IF mSendCancelSrc = "held" THEN "queued" ELSE mSendCancelSrc
    /\ UNCHANGED <<mEC, forkVars, lifeVars, mSendOps, sendHole, numSends, sFork, sResult,
                   sendTask, sendList, sendStop, recvVars, flushVars, sent>>
    /\ tokenStopped' = tokenStopped \cup {<<"send", o>>}

\* The execution queue runs that function.  mSendToken is never replaced.
RunSendStop ==
    /\ mSendCancelSrc = "queued"
    /\ mSendCancelSrc' = "fired" /\ sendStop' = TRUE
    /\ UNCHANGED <<mEC, forkVars, lifeVars, sendOps, sendTask, sendList, recvVars, flushVars, histVars>>
-----------------------------------------------------------------------------
(* The send task *)

\* How a socket call fails: its token was stopped, the socket was closed
\* locally, or the peer is gone.
IoError(stop) ==
    (IF stop THEN {"operation_aborted"} ELSE {}) \cup
    (IF sockClosed THEN {"closed"} ELSE {}) \cup
    (IF PeerMayFail THEN {"remoteClosed"} ELSE {})

SendIoDone ==
    /\ sendPc \in {"meta", "header", "body"} /\ ~sockClosed
    /\ sendPc' = CASE sendPc = "meta" -> "header"
                   [] sendPc = "header" -> "body"
                   [] sendPc = "body" -> "next"
    /\ UNCHANGED <<mEC, forkVars, lifeVars, sendOps, mSendStatus, sendOp, sendEc, mInitiated,
                   sendList, sendStopVars, recvVars, flushVars, tokenStopped>>
    /\ sent' = IF sendPc = "body" THEN Append(sent, sendOp) ELSE sent

\* Mutant: the error of a failed write is not kept.
LoseIoError(ec) ==
    /\ sendPc \in {"meta", "header", "body"} /\ ec \in IoError(sendStop)
    /\ sendPc' = "next"
    /\ UNCHANGED <<mEC, forkVars, lifeVars, sendOps, mSendStatus, sendOp, sendEc, mInitiated,
                   sendList, sendStopVars, recvVars, flushVars, histVars>>

SendIoFail(ec) ==
    /\ sendPc \in {"meta", "header", "body"} /\ ec \in IoError(sendStop)
    /\ sendPc' = "next" /\ sendEc' = ec
    /\ UNCHANGED <<mEC, forkVars, lifeVars, sendOps, mSendStatus, sendOp, mInitiated,
                   sendList, sendStopVars, recvVars, flushVars, histVars>>

\* completePrev without an error: the head of the list completes, and its
\* fork's queue is popped.
CompleteSend(o) ==
    /\ mSendOps' = [mSendOps EXCEPT ![sFork[o]] = Tail(@)]
    /\ sendHole' = [sendHole EXCEPT ![sFork[o]] = HoleAfter(@, Tail(mSendOps[sFork[o]]))]
    /\ mSendBuffer' = Tail(mSendBuffer)
    /\ mSendBufferLast' = IF Tail(mSendBuffer) = <<>> THEN None ELSE mSendBufferLast
    /\ ReleaseFlushes({<<"send", o>>})

\* NextSendOp: the previous send is completed and the next one starts ...
SendNext ==
    /\ sendPc = "next" /\ sendEc = "success" /\ mEC = "success"
    /\ Len(mSendBuffer) > 1
    /\ CompleteSend(sendOp)
    /\ sStatus' = [sStatus EXCEPT ![sendOp] = "completed", ![mSendBuffer[2]] = "InProgress"]
    /\ StartSend(mSendBuffer[2], sFork[mSendBuffer[2]])
    /\ UNCHANGED <<mEC, forkVars, lifeVars, numSends, sFork, sResult, mSendStatus, sendEc,
                   sendStopVars, recvVars, histVars>>

\* Mutant: mSendStatus stays InUse.
IdleInUse ==
    /\ sendPc = "next" /\ sendEc = "success" /\ mEC = "success"
    /\ Len(mSendBuffer) <= 1
    /\ CompleteSend(sendOp)
    /\ sStatus' = [sStatus EXCEPT ![sendOp] = "completed"]
    /\ sendPc' = "idle" /\ sendOp' = None
    /\ UNCHANGED <<mEC, forkVars, lifeVars, numSends, sFork, sResult, mSendStatus, sendEc, mInitiated,
                   sendStopVars, recvVars, histVars>>

\* ... or there is none and the task waits in mNextSendOp ...
SendIdle ==
    /\ sendPc = "next" /\ sendEc = "success" /\ mEC = "success"
    /\ Len(mSendBuffer) <= 1
    /\ CompleteSend(sendOp)
    /\ sStatus' = [sStatus EXCEPT ![sendOp] = "completed"]
    /\ mSendStatus' = "Idle" /\ sendPc' = "idle" /\ sendOp' = None
    /\ UNCHANGED <<mEC, forkVars, lifeVars, numSends, sFork, sResult, sendEc, mInitiated,
                   sendStopVars, recvVars, histVars>>

\* ... or something failed: cancel(Sender).  The failed send reports its error,
\* the first of the others reports ec, and the rest report cancel.
SendClose ==
    LET rest == Tail(mSendBuffer)
        done == ToSet(mSendBuffer)
        ec   == AfterFirst(sendEc)
        popped(f) == Cardinality({o \in done : sFork[o] = f})
    IN
    /\ sendPc = "next" /\ (sendEc # "success" \/ mEC # "success")
    /\ mEC' = IF mEC = "success" THEN ec ELSE mEC
    /\ sStatus' = [o \in SendId |-> IF o \in done THEN "completed" ELSE sStatus[o]]
    /\ sResult' = [o \in SendId |->
           CASE o = sendOp -> Outcome(sendEc)
             [] o \in ToSet(rest) -> IF o = rest[1] THEN ec ELSE "cancel"
             [] OTHER -> sResult[o]]
    /\ mSendOps' = [f \in Fork |->
           SubSeq(mSendOps[f], popped(f) + 1, Len(mSendOps[f]))]
    /\ sendHole' = [f \in Fork |-> sendHole[f] /\ popped(f) < Len(mSendOps[f])]
    /\ ReleaseFlushes({"send"} \X done)
    /\ mSendBuffer' = <<>> /\ mSendBufferLast' = None
    /\ mSendStatus' = "Closed" /\ sendPc' = "exit" /\ sendOp' = None /\ sendEc' = "success"
    /\ IF mEC = "success"
       THEN CloseRecvTask("cancel") /\ sendStop' = (sendStop \/ mSendCancelSrc = "held")
       ELSE UNCHANGED <<recvStop, recvPc, recvEc, sendStop>>
    /\ UNCHANGED <<forkVars, lifeVars, numSends, sFork, mInitiated, mSendCancelSrc,
                   recvOps, mRecvStatus, recvOp, headerSlot, mRecvCancelSrc, histVars>>
-----------------------------------------------------------------------------
(* User calls: recv *)

IssueRecv(f, st, res) ==
    /\ Usable(f)
    /\ numRecvsIssued < MaxRecvs
    /\ numRecvsIssued' = numRecvsIssued + 1
    /\ rFork' = [rFork EXCEPT ![numRecvsIssued + 1] = f]
    /\ rStatus' = [rStatus EXCEPT ![numRecvsIssued + 1] = st]
    /\ rResult' = [rResult EXCEPT ![numRecvsIssued + 1] = res]

\* Mutant: the recv is not counted.
EmplaceUncounted(f) ==
    /\ mRecvOps' = [mRecvOps EXCEPT ![f] = Append(@, numRecvsIssued + 1)]
    /\ recvHole' = [recvHole EXCEPT ![f] = FALSE]
    /\ UNCHANGED mNumRecvs

EmplaceRecv(f) ==
    /\ mRecvOps' = [mRecvOps EXCEPT ![f] = Append(@, numRecvsIssued + 1)]
    /\ recvHole' = [recvHole EXCEPT ![f] = FALSE]
    /\ mNumRecvs' = mNumRecvs + 1

RecvRefused(f) ==
    /\ mEC # "success"
    /\ IssueRecv(f, "refused", mEC)
    /\ UNCHANGED <<mRecvOps, recvHole, mNumRecvs>>
    /\ UNCHANGED <<mEC, forkVars, lifeVars, sendVars, recvTask, recvStopVars, flushVars, histVars>>

\* The recv task is idle (mAnyRecvOp is set) and starts to read a header.
RecvWake(f) ==
    /\ mEC = "success" /\ recvPc = "idle"
    /\ IssueRecv(f, "InProgress", "none")
    /\ EmplaceRecv(f)
    /\ mRecvStatus' = "InUse" /\ recvPc' = "header"
    /\ UNCHANGED <<mEC, forkVars, lifeVars, sendVars, recvOp, recvEc, headerSlot,
                   recvStopVars, flushVars, histVars>>

\* Mutant: the header is compared with our id of the fork.
RequestedLocalId(f) == recvPc = "requested" /\ mLocalId[f] = headerSlot

\* The recv task holds a header of this fork (mGetRequestedRecvSocketFork).
Requested(f) == recvPc = "requested" /\ mRemoteId[f] = headerSlot

RecvMatch(f) ==
    /\ mEC = "success" /\ Requested(f)
    /\ IssueRecv(f, "InProgress", "none")
    /\ EmplaceRecv(f)
    /\ mRecvStatus' = "InUse" /\ recvPc' = "gotOp" /\ recvOp' = numRecvsIssued + 1
    /\ UNCHANGED <<mEC, forkVars, lifeVars, sendVars, recvEc, headerSlot,
                   recvStopVars, flushVars, histVars>>

RecvQueue(f) ==
    /\ mEC = "success" /\ recvPc # "idle" /\ ~Requested(f)
    /\ IssueRecv(f, "NotStarted", "none")
    /\ EmplaceRecv(f)
    /\ UNCHANGED <<mEC, forkVars, lifeVars, sendVars, recvTask, recvStopVars, flushVars, histVars>>

\* erase_recv: as EraseSend, the recv is no longer counted by then.
EraseRecv(o) ==
    \/ \E i \in DOMAIN mRecvOps[rFork[o]] :
        /\ mRecvOps[rFork[o]][i] = o
        /\ mRecvOps' = [mRecvOps EXCEPT ![rFork[o]] = RemoveAt(@, i)]
        /\ recvHole' = [recvHole EXCEPT ![rFork[o]] = HoleAfterErase(@, mRecvOps[rFork[o]], i)]
    \/ WrapCancel /\ Wrapped(rStatus, rFork, o) /\ UNCHANGED <<mRecvOps, recvHole>>

\* The stop callback of a recv that has not started.
CancelQueuedRecv(o) ==
    /\ o \in TokenRecvs /\ rStatus[o] = "NotStarted"
    /\ EraseRecv(o)
    /\ mNumRecvs' = mNumRecvs - 1
    /\ rStatus' = [rStatus EXCEPT ![o] = "completed"]
    /\ rResult' = [rResult EXCEPT ![o] = "operation_aborted"]
    /\ ReleaseFlushes({<<"recv", o>>})
    /\ UNCHANGED <<mEC, forkVars, lifeVars, sendVars, numRecvsIssued, rFork, recvTask, recvStopVars, sent>>
    /\ tokenStopped' = tokenStopped \cup {<<"recv", o>>}

CancelRunningRecv(o) ==
    /\ o \in TokenRecvs /\ rStatus[o] = "InProgress"
    /\ rStatus' = [rStatus EXCEPT ![o] = "Canceling"]
    /\ mRecvCancelSrc' = IF mRecvCancelSrc = "held" THEN "queued" ELSE mRecvCancelSrc
    /\ UNCHANGED <<mEC, forkVars, lifeVars, sendVars, mRecvOps, recvHole, numRecvsIssued, rFork,
                   rResult, mNumRecvs, recvTask, recvStop, flushVars, sent>>
    /\ tokenStopped' = tokenStopped \cup {<<"recv", o>>}

RunRecvStop ==
    /\ mRecvCancelSrc = "queued"
    /\ mRecvCancelSrc' = "fired" /\ recvStop' = TRUE
    /\ UNCHANGED <<mEC, forkVars, lifeVars, sendVars, recvOps, recvTask, flushVars, histVars>>
-----------------------------------------------------------------------------
(* The recv task *)

\* A failed read of a header, a control block or a body.
RecvIoFail(ec) ==
    /\ recvPc \in {"header", "meta", "body"} /\ ec \in IoError(recvStop)
    /\ recvPc' = "any" /\ recvEc' = ec
    /\ UNCHANGED <<mEC, forkVars, lifeVars, sendVars, recvOps, mRecvStatus, recvOp, headerSlot,
                   recvStopVars, flushVars, histVars>>

\* A header arrives: of a data message, or of a meta message (size zero).
RecvHeader(slot, next) ==
    /\ recvPc = "header" /\ ~sockClosed
    /\ recvPc' = next /\ headerSlot' = slot
    /\ UNCHANGED <<mEC, forkVars, lifeVars, sendVars, recvOps, mRecvStatus, recvOp, recvEc,
                   recvStopVars, flushVars, histVars>>

\* initRemoteSocketFork: the peer announces its id of session f.  The code
\* asserts that the id is not in use; the peer hands out each id once.
RecvNewFork(f) ==
    /\ recvPc = "meta" /\ ~sockClosed
    /\ headerSlot # BadSlot /\ mRemoteId[f] = None
    /\ \A g \in Fork : mRemoteId[g] # headerSlot
    /\ mRemoteId' = [mRemoteId EXCEPT ![f] = headerSlot]
    /\ mSocketForks' = IF f \in ToSet(mSocketForks) THEN mSocketForks ELSE Append(mSocketForks, f)
    /\ recvPc' = "header"
    /\ UNCHANGED <<mEC, mLocalId, lifeVars, sendVars, recvOps, mRecvStatus, recvOp, recvEc, headerSlot,
                   recvStopVars, flushVars, histVars>>

RecvBadFork(f) ==
    /\ recvPc = "meta" /\ ~sockClosed
    /\ headerSlot = BadSlot \/ mRemoteId[f] # None
    /\ recvPc' = "any" /\ recvEc' = "badCoprotoMessageHeader"
    /\ UNCHANGED <<mEC, forkVars, lifeVars, sendVars, recvOps, mRecvStatus, recvOp, headerSlot,
                   recvStopVars, flushVars, histVars>>

\* Mutant: the completed recv is not popped.
KeepPrev(prev) == mRecvOps

\* The recv operations that remain once prev, at the front of its queue, is gone.
RecvRest(prev) ==
    [f \in Fork |-> IF prev # None /\ rFork[prev] = f THEN Tail(mRecvOps[f]) ELSE mRecvOps[f]]

\* cancel(Recver): every queued recv completes, in the order of the forks; the
\* first one reports ec and the rest report cancel.  prev reports prevEc.
FailRecvs(prev, prevEc, ec) ==
    LET rest == RecvRest(prev)
        all  == UNION {ToSet(rest[f]) : f \in Fork}
        first(o) == \E i \in DOMAIN mSocketForks :
                        /\ rest[mSocketForks[i]] # <<>> /\ o = rest[mSocketForks[i]][1]
                        /\ \A j \in 1..(i - 1) : rest[mSocketForks[j]] = <<>>
        done == IF prev = None THEN all ELSE all \cup {prev}
    IN
    /\ rStatus' = [o \in RecvId |-> IF o \in done THEN "completed" ELSE rStatus[o]]
    /\ rResult' = [o \in RecvId |->
           CASE o = prev /\ prev # None -> Outcome(prevEc)
             [] o \in all -> IF first(o) THEN ec ELSE "cancel"
             [] OTHER -> rResult[o]]
    /\ mRecvOps' = [f \in Fork |-> <<>>] /\ recvHole' = [f \in Fork |-> FALSE]
    /\ mNumRecvs' = 0
    /\ mRecvStatus' = "Closed"
    /\ ReleaseFlushes({"recv"} \X done)

\* GetRequestedRecvSocketFork: which fork is the header for?  No fork: close.
GetForkUnknown ==
    /\ recvPc = "getFork" /\ \A f \in Fork : mRemoteId[f] # headerSlot
    /\ FailRecvs(None, "success", "badCoprotoMessageHeader")
    /\ mEC' = IF mEC = "success" THEN "badCoprotoMessageHeader" ELSE mEC
    /\ recvPc' = "any" /\ recvEc' = mEC'
    /\ IF mEC = "success"
       THEN CloseSendTask /\ recvStop' = (recvStop \/ mRecvCancelSrc = "held")
       ELSE UNCHANGED <<sendStop, sendPc, recvStop>>
    /\ UNCHANGED <<forkVars, lifeVars, sendOps, mSendStatus, sendOp, sendEc, mInitiated, sendList,
                   mSendCancelSrc, numRecvsIssued, rFork, recvOp, headerSlot, mRecvCancelSrc, histVars>>

GetForkClosed(f) ==
    /\ recvPc = "getFork" /\ mRemoteId[f] = headerSlot /\ mEC # "success"
    /\ recvPc' = "any" /\ recvEc' = mEC
    /\ UNCHANGED <<mEC, forkVars, lifeVars, sendVars, recvOps, mRecvStatus, recvOp, headerSlot,
                   recvStopVars, flushVars, histVars>>

\* Data arrived but the fork has no recv: wait for one.
GetForkWait(f) ==
    /\ recvPc = "getFork" /\ mRemoteId[f] = headerSlot /\ mEC = "success"
    /\ mRecvOps[f] = <<>>
    /\ mRecvStatus' = "RequestedRecvOp" /\ recvPc' = "requested"
    /\ UNCHANGED <<mEC, forkVars, lifeVars, sendVars, recvOps, recvOp, recvEc, headerSlot,
                   recvStopVars, flushVars, histVars>>

GetForkFound(f) ==
    /\ recvPc = "getFork" /\ mRemoteId[f] = headerSlot /\ mEC = "success"
    /\ mRecvOps[f] # <<>>
    /\ recvOp' = Head(mRecvOps[f]) /\ recvPc' = "gotOp"
    /\ rStatus' = [rStatus EXCEPT ![Head(mRecvOps[f])] = "InProgress"]
    /\ UNCHANGED <<mEC, forkVars, lifeVars, sendVars, mRecvOps, recvHole, numRecvsIssued, rFork, rResult,
                   mNumRecvs, mRecvStatus, recvEc, headerSlot, recvStopVars, flushVars, histVars>>

\* The buffer of the operation has the size of the message, or not.
RecvSizeOk ==
    /\ recvPc = "gotOp" /\ recvPc' = "body"
    /\ UNCHANGED <<mEC, forkVars, lifeVars, sendVars, recvOps, mRecvStatus, recvOp, recvEc, headerSlot,
                   recvStopVars, flushVars, histVars>>

RecvSizeBad ==
    /\ recvPc = "gotOp" /\ recvPc' = "any" /\ recvEc' = "badBufferSize"
    /\ UNCHANGED <<mEC, forkVars, lifeVars, sendVars, recvOps, mRecvStatus, recvOp, headerSlot,
                   recvStopVars, flushVars, histVars>>

RecvBody ==
    /\ recvPc = "body" /\ ~sockClosed /\ recvPc' = "any"
    /\ UNCHANGED <<mEC, forkVars, lifeVars, sendVars, recvOps, mRecvStatus, recvOp, recvEc, headerSlot,
                   recvStopVars, flushVars, histVars>>

\* completePrev of AnyRecvOp replaces a stop source that was moved away.
ResetRecvToken(prev) == prev # None /\ mRecvCancelSrc # "held"

CompleteRecv(o) ==
    /\ mRecvOps' = RecvRest(o)
    /\ recvHole' = [recvHole EXCEPT ![rFork[o]] = HoleAfter(@, Tail(mRecvOps[rFork[o]]))]
    /\ rStatus' = [rStatus EXCEPT ![o] = "completed"]
    /\ mNumRecvs' = mNumRecvs - 1
    /\ mRecvCancelSrc' = "held"
    /\ recvStop' = (recvStop /\ ~ResetRecvToken(o))
    /\ ReleaseFlushes({<<"recv", o>>})

\* AnyRecvOp: the previous recv completes and the next header is read ...
RecvNext ==
    /\ recvPc = "any" /\ recvEc = "success" /\ mEC = "success"
    /\ mNumRecvs > 1
    /\ CompleteRecv(recvOp)
    /\ recvPc' = "header" /\ recvOp' = None
    /\ UNCHANGED <<mEC, forkVars, lifeVars, sendVars, numRecvsIssued, rFork, rResult, mRecvStatus, recvEc,
                   headerSlot, histVars>>

\* ... or there is no recv left and the task waits in mAnyRecvOp ...
RecvIdle ==
    /\ recvPc = "any" /\ recvEc = "success" /\ mEC = "success"
    /\ mNumRecvs <= 1
    /\ CompleteRecv(recvOp)
    /\ mRecvStatus' = "Idle" /\ recvPc' = "idle" /\ recvOp' = None
    /\ UNCHANGED <<mEC, forkVars, lifeVars, sendVars, numRecvsIssued, rFork, rResult, recvEc, headerSlot, histVars>>

\* ... or something failed: cancel(Recver).
RecvClose ==
    LET ec == IF recvOp = None THEN recvEc ELSE AfterFirst(recvEc)
        stop == recvStop /\ ~ResetRecvToken(recvOp)
        held == mRecvCancelSrc = "held" \/ ResetRecvToken(recvOp)
    IN
    /\ recvPc = "any" /\ (recvEc # "success" \/ mEC # "success")
    /\ FailRecvs(recvOp, recvEc, ec)
    /\ mEC' = IF mEC = "success" THEN ec ELSE mEC
    /\ mRecvCancelSrc' = IF held THEN "held" ELSE mRecvCancelSrc
    /\ recvStop' = (stop \/ (mEC = "success" /\ held))
    /\ IF mEC = "success" THEN CloseSendTask ELSE UNCHANGED <<sendStop, sendPc>>
    /\ recvPc' = "exit" /\ recvOp' = None /\ recvEc' = "success"
    /\ UNCHANGED <<forkVars, lifeVars, sendOps, mSendStatus, sendOp, sendEc, mInitiated, sendList,
                   mSendCancelSrc, numRecvsIssued, rFork, headerSlot, histVars>>
-----------------------------------------------------------------------------
(* User calls: fork, flush, close, and the destructor *)

\* fork of a usable socket: session f gets the next local id.
ForkSocket(f) ==
    /\ ~destroyed /\ mLocalId[f] = None
    /\ mLocalId' = [mLocalId EXCEPT ![f] = 1 + Cardinality({g \in Fork : mLocalId[g] # None})]
    /\ mSocketForks' = IF f \in ToSet(mSocketForks) THEN mSocketForks ELSE Append(mSocketForks, f)
    /\ UNCHANGED <<mEC, mRemoteId, lifeVars, sendVars, recvVars, flushVars, histVars>>

\* Mutant: the token is given to the oldest recv.
FrontRecv(f) == IF mRecvOps[f] = <<>> THEN {} ELSE {<<"recv", mRecvOps[f][1]>>}

\* The newest operations of a fork, to which flush adds its token.
BackRecv(f) == IF mRecvOps[f] = <<>> THEN {} ELSE {<<"recv", mRecvOps[f][Len(mRecvOps[f])]>>}
BackSend(f) == IF mSendOps[f] = <<>> THEN {} ELSE {<<"send", mSendOps[f][Len(mSendOps[f])]>>}

FlushNow(k) ==
    /\ ~destroyed /\ mFlush[k] = "unused"
    /\ mNumRecvs = 0 /\ mSendBuffer = <<>>
    /\ mFlush' = [mFlush EXCEPT ![k] = "done"]
    /\ flushWait' = [flushWait EXCEPT ![k] = PendingOps]
    /\ UNCHANGED <<mEC, forkVars, lifeVars, sendVars, recvVars, flushOps, histVars>>

FlushWait(k) ==
    /\ ~destroyed /\ mFlush[k] = "unused"
    /\ mNumRecvs # 0 \/ mSendBuffer # <<>>
    /\ \A f \in Fork : ~recvHole[f] /\ ~sendHole[f]
    /\ mFlush' = [mFlush EXCEPT ![k] = "waiting"]
    /\ flushOps' = [flushOps EXCEPT ![k] = UNION {BackRecv(f) \cup BackSend(f) : f \in Fork}]
    /\ flushWait' = [flushWait EXCEPT ![k] = PendingOps]
    /\ UNCHANGED <<mEC, forkVars, lifeVars, sendVars, recvVars, histVars>>

\* back() of a queue whose newest slot was erased throws bad_optional_access;
\* the tokens given out before stay with their operations.
FlushThrow(k) ==
    /\ ~destroyed /\ mFlush[k] = "unused"
    /\ mNumRecvs # 0 \/ mSendBuffer # <<>>
    /\ \E i \in DOMAIN mSocketForks :
        LET f == mSocketForks[i] IN
        /\ recvHole[f] \/ sendHole[f]
        /\ \A j \in 1..(i - 1) : ~recvHole[mSocketForks[j]] /\ ~sendHole[mSocketForks[j]]
        /\ flushOps' = [flushOps EXCEPT ![k] =
               (UNION {BackRecv(mSocketForks[j]) \cup BackSend(mSocketForks[j]) : j \in 1..(i - 1)})
               \cup (IF recvHole[f] THEN {} ELSE BackRecv(f))]
    /\ mFlush' = [mFlush EXCEPT ![k] = "threw"]
    /\ flushWait' = [flushWait EXCEPT ![k] = PendingOps]
    /\ UNCHANGED <<mEC, forkVars, lifeVars, sendVars, recvVars, histVars>>

\* Socket::close() closes the underlying socket and nothing else.
CloseSocket ==
    /\ ~sockClosed /\ ~destroyed
    /\ sockClosed' = TRUE
    /\ UNCHANGED <<mEC, forkVars, destroyed, terminated, sendVars, recvVars, flushVars, histVars>>

Busy == mRecvStatus = "InUse" \/ mSendStatus = "InUse"

\* The destructor with a task in use terminates the program.  A user who sees
\* an operation pending does not destroy the socket.
DestroyBusy ==
    /\ ~destroyed /\ Busy /\ PendingOps = {}
    /\ destroyed' = TRUE /\ terminated' = TRUE
    /\ UNCHANGED <<mEC, forkVars, sockClosed, sendVars, recvVars, flushVars, histVars>>

\* The destructor: cancel(Extern, closed), then it joins both tasks.
Destroy ==
    /\ ~destroyed /\ ~Busy
    /\ destroyed' = TRUE
    /\ IF mEC = "success"
       THEN mEC' = "closed" /\ CloseSendTask /\ CloseRecvTask("closed")
       ELSE UNCHANGED <<mEC, sendStop, sendPc, recvStop, recvPc, recvEc>>
    /\ UNCHANGED <<forkVars, sockClosed, terminated, sendOps, mSendStatus, sendOp, sendEc, mInitiated, sendList,
                   mSendCancelSrc, recvOps, mRecvStatus, recvOp, headerSlot, mRecvCancelSrc, flushVars, histVars>>
-----------------------------------------------------------------------------
SendTaskStep == SendNext \/ SendIdle \/ SendClose

RecvTaskStep ==
    \/ GetForkUnknown
    \/ \E f \in Fork : GetForkClosed(f) \/ GetForkWait(f) \/ GetForkFound(f)
    \/ RecvSizeOk \/ RecvSizeBad
    \/ RecvNext \/ RecvIdle \/ RecvClose

UserStep ==
    \/ \E f \in Fork :
        \/ SendEmpty(f) \/ SendRefused(f) \/ SendWake(f) \/ SendQueue(f)
        \/ RecvRefused(f) \/ RecvWake(f) \/ RecvMatch(f) \/ RecvQueue(f)
        \/ ForkSocket(f)
    \/ \E o \in SendId : CancelQueuedSend(o) \/ CancelRunningSend(o)
    \/ \E o \in RecvId : CancelQueuedRecv(o) \/ CancelRunningRecv(o)
    \/ \E k \in FlushId : FlushNow(k) \/ FlushWait(k) \/ FlushThrow(k)
    \/ CloseSocket \/ DestroyBusy \/ Destroy

SocketStep ==
    \/ SendIoDone \/ RecvBody
    \/ \E ec \in Code : SendIoFail(ec) \/ RecvIoFail(ec)
    \/ \E slot \in Slot : RecvHeader(slot, "getFork") \/ RecvHeader(slot, "meta")
    \/ \E f \in Fork : RecvNewFork(f) \/ RecvBadFork(f)

StopStep == RunSendStop \/ RunRecvStop

Next == SendTaskStep \/ RecvTaskStep \/ UserStep \/ SocketStep \/ StopStep

Spec == Init /\ [][Next]_vars

\* A resumed task runs, a queued stop function runs, and a socket call whose
\* token is stopped or whose socket is closed comes back.  Nothing is assumed
\* of the users or of the peer.
Fairness ==
    /\ WF_vars(SendTaskStep) /\ WF_vars(RecvTaskStep)
    /\ WF_vars(RunSendStop) /\ WF_vars(RunRecvStop)
    /\ WF_vars(\E ec \in {"operation_aborted", "closed"} : SendIoFail(ec))
    /\ WF_vars(\E ec \in {"operation_aborted", "closed"} : RecvIoFail(ec))

FairSpec == Spec /\ Fairness
-----------------------------------------------------------------------------
(* Properties *)

\* Types of the variables, one part per group of variables.
ForkTypeOK ==
    /\ mEC \in Code
    /\ mSocketForks \in Seq(Fork)
    /\ mLocalId \in [Fork -> Nat] /\ mRemoteId \in [Fork -> Slot \cup {None}]
    /\ sockClosed \in BOOLEAN /\ destroyed \in BOOLEAN /\ terminated \in BOOLEAN
SendTypeOK ==
    /\ mSendStatus \in Status /\ sendPc \in SendPc /\ sendEc \in Code
    /\ sendOp \in SendId \cup {None} /\ mInitiated \in [Fork -> BOOLEAN]
    /\ mSendBuffer \in Seq(SendId) /\ mSendBufferLast \in SendId \cup {None}
    /\ mSendOps \in [Fork -> Seq(SendId)] /\ sendHole \in [Fork -> BOOLEAN]
    /\ numSends \in 0..MaxSends /\ sFork \in [SendId -> Fork]
    /\ sStatus \in [SendId -> OpStatus] /\ sResult \in [SendId -> Result]
    /\ mSendCancelSrc \in {"held", "queued", "fired"} /\ sendStop \in BOOLEAN
    /\ sent \in Seq(SendId)
RecvTypeOK ==
    /\ mRecvStatus \in Status /\ recvPc \in RecvPc /\ recvEc \in Code
    /\ recvOp \in RecvId \cup {None} /\ headerSlot \in Slot \cup {None}
    /\ mRecvOps \in [Fork -> Seq(RecvId)] /\ recvHole \in [Fork -> BOOLEAN]
    /\ numRecvsIssued \in 0..MaxRecvs /\ rFork \in [RecvId -> Fork]
    /\ rStatus \in [RecvId -> OpStatus] /\ rResult \in [RecvId -> Result]
    /\ mNumRecvs \in Nat
    /\ mRecvCancelSrc \in {"held", "queued", "fired"} /\ recvStop \in BOOLEAN
OpSet == ({"send"} \X SendId) \cup ({"recv"} \X RecvId)
FlushTypeOK ==
    /\ mFlush \in [FlushId -> {"unused", "waiting", "done", "threw", "resumedAfterThrow"}]
    /\ flushOps \in [FlushId -> SUBSET OpSet] /\ flushWait \in [FlushId -> SUBSET OpSet]
    /\ tokenStopped \subseteq OpSet
TypeOK == ForkTypeOK /\ SendTypeOK /\ RecvTypeOK /\ FlushTypeOK

\* No send is lost: the sends that have not completed are exactly those linked
\* in the list the send task follows, oldest first, and while the task is idle
\* there are none (send, NextSendOp and the stop callback share the list).
SendsReachable ==
    /\ ToSet(mSendBuffer) = Pending(sStatus)
    /\ Increasing(mSendBuffer)
    /\ sendPc \in {"idle", "exit"} => mSendBuffer = <<>>

\* The two structures that hold a send agree: a fork's queue holds the listed
\* sends of that fork in the same order, so popping the front of the queue
\* removes the send that completed (asserted by completePrev and cancel).
SendQueuesAgree ==
    \A f \in Fork :
        /\ ToSet(mSendOps[f]) = {o \in ToSet(mSendBuffer) : sFork[o] = f}
        /\ Increasing(mSendOps[f])

\* The send task works on the head of the list, the head is never NotStarted
\* (so its stop callback never unlinks it) and nothing behind it has started.
HeadInProgress ==
    sendPc \in {"meta", "header", "body", "next"} =>
        /\ mSendBuffer # <<>> /\ mSendBuffer[1] = sendOp
        /\ sStatus[sendOp] \in {"InProgress", "Canceling"}
        /\ \A i \in 2..Len(mSendBuffer) : sStatus[mSendBuffer[i]] = "NotStarted"

\* A send reports no error exactly if its body was written, and the bodies are
\* written in the order of the calls.
SentInOrder ==
    /\ Increasing(sent)
    /\ \A o \in SendId : sStatus[o] = "completed" => (sResult[o] = "none" <=> o \in ToSet(sent))

\* mNumRecvs, on which the recv task decides to sleep and flush to return,
\* counts the recvs that have not completed.
RecvsCounted == mNumRecvs = Cardinality(Pending(rStatus))

\* The recvs that have not completed are queued on their forks in the order of
\* the calls, and the one the task is filling is at the front (asserted by
\* AnyRecvOp::completePrev), where no stop callback can erase it.
RecvsQueued ==
    /\ \A f \in Fork :
        /\ ToSet(mRecvOps[f]) = {o \in Pending(rStatus) : rFork[o] = f}
        /\ Increasing(mRecvOps[f])
    /\ recvOp # None =>
        /\ mRecvOps[rFork[recvOp]] # <<>> /\ mRecvOps[rFork[recvOp]][1] = recvOp
        /\ rStatus[recvOp] \in {"InProgress", "Canceling"}

\* No recv waits for a task that sleeps: while the task is idle there is no
\* recv, and while it waits for a recv of one fork that fork has none.
NoMissedRecv ==
    /\ recvPc \in {"idle", "exit"} => Pending(rStatus) = {}
    /\ \A f \in Fork : recvPc = "requested" /\ mRemoteId[f] = headerSlot => mRecvOps[f] = <<>>

\* The status that the destructor tests tells whether a task is working.
StatusTellsTask ==
    /\ (mSendStatus = "InUse") = (sendPc \notin {"idle", "exit"})
    /\ recvPc \in {"idle", "requested", "exit"} => mRecvStatus # "InUse"
    /\ mEC = "success" => (mRecvStatus = "Idle") = (recvPc = "idle")

\* In each direction at most one operation reports the failure that closed the
\* socket; the others report cancel (std::exchange(ec, code::cancel)).
Failure == Code \ {"success", "cancel", "operation_aborted"}
Causes(st, res) == {o \in DOMAIN st : st[o] = "completed" /\ res[o] \in Failure}
OneCause ==
    /\ \A o, p \in Causes(sStatus, sResult) : o = p
    /\ \A o, p \in Causes(rStatus, rResult) : o = p

\* A flush that waits is held by an operation that has not completed: its
\* coroutine will be resumed.
FlushHeld ==
    \A k \in FlushId : mFlush[k] = "waiting" => flushOps[k] # {} /\ flushOps[k] \subseteq PendingOps

\* The inductive invariants: what the properties above need besides each other.
SendInv ==
    /\ \A o \in SendId : sStatus[o] = "unused" <=> o > numSends
    /\ mSendBufferLast = IF mSendBuffer = <<>> THEN None ELSE mSendBuffer[Len(mSendBuffer)]
    /\ sendPc = "exit" => mEC # "success"
    /\ (mSendStatus = "InUse") = (sendPc \notin {"idle", "exit"})
    /\ SendsReachable /\ SendQueuesAgree /\ HeadInProgress

RecvLocals ==
    /\ recvPc = "exit" => mEC # "success"
    /\ recvOp # None => recvPc \in {"gotOp", "body", "any"}
    /\ recvPc \in {"gotOp", "body"} => recvOp # None
    /\ recvPc # "any" => recvEc = "success"
    /\ recvPc = "any" /\ recvEc = "success" => recvOp # None
    /\ recvPc \in {"getFork", "requested"} => headerSlot # None
    /\ \A f, g \in Fork : mRemoteId[f] = mRemoteId[g] /\ mRemoteId[f] # None => f = g

RecvInv ==
    /\ \A o \in RecvId : rStatus[o] = "unused" <=> o > numRecvsIssued
    /\ RecvLocals /\ RecvsCounted /\ RecvsQueued /\ NoMissedRecv
    /\ recvPc \in {"idle", "requested", "exit"} => mRecvStatus # "InUse"
    /\ mEC = "success" => (mRecvStatus = "Idle") = (recvPc = "idle")

SentInv ==
    /\ SentInOrder
    /\ sendPc # "next" => sendEc = "success"
    /\ sendPc = "next" /\ sendEc = "success" => sendOp \in ToSet(sent)
    /\ \A o \in Pending(sStatus) : sResult[o] = "none"
    /\ \A o \in ToSet(sent) :
        /\ sStatus[o] = "completed" \/ (o = sendOp /\ sendPc = "next" /\ sendEc = "success")
        /\ \A p \in Pending(sStatus) : o <= p

CauseInv ==
    /\ OneCause
    /\ Causes(sStatus, sResult) # {} => sendPc = "exit"
    /\ Causes(rStatus, rResult) # {} => mEC # "success" /\ Pending(rStatus) = {}
    /\ \A o \in Pending(rStatus) : rResult[o] = "none"

\* A flush is not resumed before the operations that were pending when it was
\* called have completed, unless one of them is cancelled by its stop token.
FlushSound ==
    \A k \in FlushId :
        mFlush[k] = "done" /\ flushWait[k] \cap tokenStopped = {} => flushWait[k] \cap PendingOps = {}

\* Operation p was issued on the fork of q, in its direction, and not after it.
OpFork(p) == IF p[1] = "send" THEN sFork[p[2]] ELSE rFork[p[2]]
NotAfter(p, q) == p[1] = q[1] /\ OpFork(p) = OpFork(q) /\ p[2] <= q[2]

IssuedOps == ({"send"} \X (1..numSends)) \cup ({"recv"} \X (1..numRecvsIssued))

FlushInv ==
    /\ FlushHeld /\ FlushSound
    /\ \A k \in FlushId :
        /\ flushWait[k] \subseteq IssuedOps
        /\ mFlush[k] = "waiting" =>
            /\ flushOps[k] \subseteq flushWait[k]
            /\ flushWait[k] \cap tokenStopped = {} =>
                \A p \in flushWait[k] \cap PendingOps : \E q \in flushOps[k] : NotAfter(p, q)

\* flush "completes when all current operations complete", also if some of them
\* are cancelled.
FlushComplete ==
    \A k \in FlushId : mFlush[k] = "done" => flushWait[k] \cap PendingOps = {}

\* flush does not throw.
FlushNoThrow == \A k \in FlushId : mFlush[k] \notin {"threw", "resumedAfterThrow"}

\* Unless an operation was cancelled by its stop token, the destructor does not
\* terminate the program once every operation has completed.
SafeToDestroy == terminated => tokenStopped # {}

DestroyInv ==
    /\ SafeToDestroy
    /\ mRecvStatus = "InUse" /\ tokenStopped = {} => Pending(rStatus) # {}

\* Once every operation has completed, as flush promises, the destructor does
\* not terminate the program.
NeverTerminates == ~terminated

\* The user may go on using the socket after cancelling a message: only a
\* failure closes it.
CancelKeepsOpen ==
    mEC = "cancel" => \/ \E o \in SendId : sResult[o] \in Failure
                      \/ \E o \in RecvId : rResult[o] \in Failure

\* A stop token cancels the operation it was given to: an accepted operation
\* that ends as aborted is one whose own token was stopped.
Aborted(st, res) == {o \in DOMAIN st : st[o] = "completed" /\ res[o] = "operation_aborted"}
AbortHitsOwner ==
    /\ \A o \in Aborted(sStatus, sResult) : <<"send", o>> \in tokenStopped
    /\ \A o \in Aborted(rStatus, rResult) : <<"recv", o>> \in tokenStopped

\* The exception of an operation that failed does not say "success".
ErrorNamesCause ==
    /\ \A o \in SendId : sResult[o] # "success"
    /\ \A o \in RecvId : rResult[o] # "success"

\* Once an error closes the scheduler both tasks exit and every operation
\* completes, whichever socket calls are outstanding.
CloseDrains ==
    mEC # "success" ~> (sendPc = "exit" /\ recvPc = "exit" /\ PendingOps = {})

\* Socket::close() cancels all operations that are currently being performed.
CloseCancelsAll == sockClosed ~> PendingOps = {}
=============================================================================
