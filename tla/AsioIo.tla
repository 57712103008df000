------------------------------- MODULE AsioIo -------------------------------
(***************************************************************************)
(* Sends, recvs and close of a TCP or TLS socket (detail::AsioSocket).     *)
(*                                                                         *)
(* An operation is an Awaiter in the frame of the coroutine that awaits    *)
(* it; three parties use it and none of them owns it.  The initiator is    *)
(* the function that await_suspend dispatches to the socket's executor,    *)
(* the callback is the completion handler, and the stopper is a thread     *)
(* that runs the stop callback.  Initiator and callback meet at            *)
(* mSynchronousFlag: the later one resumes the coroutine, which destroys   *)
(* the Awaiter.                                                            *)
(*                                                                         *)
(* The executor is a strand (AsioAcceptor, AsioConnect and makePair), or   *)
(* any executor a user's own socket came with.  Boost.Asio is external:    *)
(* an operation is pending until the transport ends it, an emission of its *)
(* cancellation signal hits it, or the socket is closed; then its handler  *)
(* is queued.                                                              *)
(***************************************************************************)
EXTENDS Integers, FiniteSets

CONSTANT MaxAwaits   \* bound: operations awaited

ASSUME AsioIoAssumption == MaxAwaits \in Nat

Type == {"send", "recv"}   \* Awaiter::Type: the scheduler has one of each at a time
None == "none"

VARIABLES
    stranded,    \* is the executor of the socket a strand?
    strand,      \* is a function running on the strand?
    mSslLock,    \* is an operation being initiated?
    mOpCount,    \* AsioLifetime of the socket's state: who holds a lock on it
    closed,      \* has the socket been closed?
    closing,     \* what close() is doing
    terminated   \* the reason std::terminate was called for, or None

sockVars == <<stranded, strand, mSslLock, mOpCount, closed, closing, terminated>>

VARIABLES
    awaits,      \* operations awaited so far
    phase,       \* the coroutine: "none", "suspended", "resumed"
    resumes,     \* how often its handle was resumed
    initPc, cbPc, stopPc,        \* where the three parties are
    op, mEc,                     \* the operation below and its outcome
    mToken,                      \* was a stop token given?
    mCancellationRequested, mSynchronousFlag,
    mActiveCount                 \* AsioLifetime of the Awaiter

opVars == <<awaits, phase, resumes, initPc, cbPc, stopPc, op, mEc, mToken,
            mCancellationRequested, mSynchronousFlag, mActiveCount>>
vars == <<sockVars, opVars>>

Ec == {"success", "operation_aborted", "closed", "remoteClosed"}
InitPc == {"none", "posted", "open", "sent", "release", "join"}
CbPc   == {"none", "queued", "release", "join"}
StopPc == {"none", "armed", "emit", "fired"}

Init ==
    /\ stranded \in BOOLEAN
    /\ strand = FALSE /\ mSslLock = FALSE /\ mOpCount = {} /\ closed = FALSE
    /\ closing = "no" /\ terminated = None
    /\ awaits = 0 /\ phase = [t \in Type |-> "none"]
    /\ resumes = [t \in Type |-> 0]
    /\ initPc = [t \in Type |-> "none"] /\ cbPc = [t \in Type |-> "none"]
    /\ stopPc = [t \in Type |-> "none"]
    /\ op = [t \in Type |-> "none"] /\ mEc = [t \in Type |-> None]
    /\ mToken = [t \in Type |-> FALSE]
    /\ mCancellationRequested = [t \in Type |-> FALSE]
    /\ mSynchronousFlag = [t \in Type |-> FALSE]
    /\ mActiveCount = [t \in Type |-> {}]
-----------------------------------------------------------------------------
\* Only one function at a time runs on a strand.
Enter == ~strand /\ strand' = stranded

Stay == stranded' = stranded /\ strand' = strand

Leave == strand' = FALSE /\ stranded' = stranded

\* The handle is resumed: the coroutine goes on and may destroy the Awaiter.
Resume(t) ==
    /\ phase' = [phase EXCEPT ![t] = "resumed"]
    /\ resumes' = [resumes EXCEPT ![t] = @ + 1]

\* Mutant: the first one resumes.
FirstResumes(t) ==
    /\ mSynchronousFlag' = [mSynchronousFlag EXCEPT ![t] = TRUE]
    /\ IF mSynchronousFlag[t] THEN UNCHANGED <<phase, resumes>> ELSE Resume(t)

\* Both parties come to mSynchronousFlag.exchange(true); the second resumes.
Meet(t) ==
    /\ mSynchronousFlag' = [mSynchronousFlag EXCEPT ![t] = TRUE]
    /\ IF mSynchronousFlag[t] THEN Resume(t) ELSE UNCHANGED <<phase, resumes>>

\* emit: a pending operation is aborted and its handler queued; without one
\* the signal has no handler, or a stale one, and nothing happens.
Emit(t) ==
    IF op[t] = "pending"
    THEN /\ op' = [op EXCEPT ![t] = "operation_aborted"]
         /\ cbPc' = [cbPc EXCEPT ![t] = "queued"]
    ELSE UNCHANGED <<op, cbPc>>

\* The constructor registers the stop callback; if the token was stopped
\* before, the callback runs here, and its emission reaches nothing.  Then
\* await_suspend dispatches the initiator with a lock on each lifetime.
Await(t, token, stopped) ==
    /\ closing # "destroyed"
    /\ phase[t] = "none" /\ awaits < MaxAwaits /\ (stopped => token)
    /\ awaits' = awaits + 1
    /\ phase' = [phase EXCEPT ![t] = "suspended"]
    /\ initPc' = [initPc EXCEPT ![t] = "posted"]
    /\ stopPc' = [stopPc EXCEPT ![t] = IF stopped THEN "fired" ELSE IF token THEN "armed" ELSE "none"]
    /\ mToken' = [mToken EXCEPT ![t] = token]
    /\ mCancellationRequested' = [mCancellationRequested EXCEPT ![t] = stopped]
    /\ mActiveCount' = [mActiveCount EXCEPT ![t] = {"initiator"}]
    /\ mOpCount' = mOpCount \cup {<<t, "initiator">>}
    /\ UNCHANGED <<stranded, strand, mSslLock, closed, closing, terminated, resumes, cbPc, op, mEc, mSynchronousFlag>>

Cancelled(t) == mToken[t] /\ mCancellationRequested[t]

\* Both locks of one party are released.
Unlock(t, who) ==
    /\ mOpCount' = mOpCount \ {<<t, who>>}
    /\ mActiveCount' = [mActiveCount EXCEPT ![t] = @ \ {who}]

\* Mutant: no outcome is stored.
AbortUnset(t) ==
    /\ initPc[t] = "posted" /\ Cancelled(t) /\ ~strand
    /\ Unlock(t, "initiator")
    /\ initPc' = [initPc EXCEPT ![t] = "none"]
    /\ Resume(t)
    /\ UNCHANGED <<stranded, strand, mSslLock, closed, closing, terminated, awaits, cbPc, stopPc, op, mEc,
                   mToken, mCancellationRequested, mSynchronousFlag>>

\* The initiator finds that stop was requested and resumes at once.
StartAborted(t) ==
    /\ initPc[t] = "posted" /\ Cancelled(t) /\ ~strand
    /\ Unlock(t, "initiator")
    /\ mEc' = [mEc EXCEPT ![t] = "operation_aborted"]
    /\ initPc' = [initPc EXCEPT ![t] = "none"]
    /\ Resume(t)
    /\ UNCHANGED <<stranded, strand, mSslLock, closed, closing, terminated, awaits, cbPc, stopPc, op,
                   mToken, mCancellationRequested, mSynchronousFlag>>

\* Otherwise it takes mSslLock, which must be free ...
Start(t) ==
    /\ initPc[t] = "posted" /\ ~Cancelled(t)
    /\ Enter
    /\ initPc' = [initPc EXCEPT ![t] = "open"]
    /\ terminated' = IF mSslLock THEN "sslLock" ELSE None
    /\ mSslLock' = TRUE
    /\ UNCHANGED <<stranded, mOpCount, closed, closing, awaits, phase, resumes, cbPc, stopPc, op, mEc, mToken,
                   mCancellationRequested, mSynchronousFlag, mActiveCount>>

\* ... and calls async_write or async_read, whose handler holds locks of its
\* own.  On a closed socket the operation fails at once.
Initiate(t) ==
    /\ initPc[t] = "open"
    /\ initPc' = [initPc EXCEPT ![t] = "sent"]
    /\ op' = [op EXCEPT ![t] = IF closed THEN "closed" ELSE "pending"]
    /\ cbPc' = [cbPc EXCEPT ![t] = IF closed THEN "queued" ELSE "none"]
    /\ mOpCount' = mOpCount \cup {<<t, "callback">>}
    /\ mActiveCount' = [mActiveCount EXCEPT ![t] = @ \cup {"callback"}]
    /\ mSslLock' = FALSE
    /\ Stay
    /\ UNCHANGED <<closed, closing, terminated, awaits, phase, resumes, stopPc, mEc, mToken,
                   mCancellationRequested, mSynchronousFlag>>

\* A stop callback that ran before the call emitted to nothing: emit again.
Recheck(t) ==
    /\ initPc[t] = "sent"
    /\ initPc' = [initPc EXCEPT ![t] = "release"]
    /\ IF Cancelled(t) THEN Emit(t) ELSE UNCHANGED <<op, cbPc>>
    /\ Stay
    /\ UNCHANGED <<mSslLock, mOpCount, closed, closing, terminated, awaits, phase, resumes, stopPc, mEc, mToken,
                   mCancellationRequested, mSynchronousFlag, mActiveCount>>

InitRelease(t) ==
    /\ initPc[t] = "release"
    /\ initPc' = [initPc EXCEPT ![t] = "join"]
    /\ Unlock(t, "initiator")
    /\ Stay
    /\ UNCHANGED <<mSslLock, closed, closing, terminated, awaits, phase, resumes, cbPc, stopPc, op, mEc, mToken,
                   mCancellationRequested, mSynchronousFlag>>

InitJoin(t) ==
    /\ initPc[t] = "join"
    /\ initPc' = [initPc EXCEPT ![t] = "none"]
    /\ Meet(t)
    /\ Leave
    /\ UNCHANGED <<mSslLock, mOpCount, closed, closing, terminated, awaits, cbPc, stopPc, op, mEc, mToken,
                   mCancellationRequested, mActiveCount>>
-----------------------------------------------------------------------------
(* The transport and the completion handler *)

\* The bytes are written or read, or the peer is gone.
Transfer(t, ec) ==
    /\ op[t] = "pending"
    /\ op' = [op EXCEPT ![t] = ec]
    /\ cbPc' = [cbPc EXCEPT ![t] = "queued"]
    /\ UNCHANGED <<sockVars, awaits, phase, resumes, initPc, stopPc, mEc, mToken,
                   mCancellationRequested, mSynchronousFlag, mActiveCount>>

Callback(t) ==
    /\ cbPc[t] = "queued"
    /\ Enter
    /\ cbPc' = [cbPc EXCEPT ![t] = "release"]
    /\ mEc' = [mEc EXCEPT ![t] = op[t]]
    /\ op' = [op EXCEPT ![t] = "none"]
    /\ UNCHANGED <<stranded, mSslLock, mOpCount, closed, closing, terminated, awaits, phase, resumes, initPc,
                   stopPc, mToken, mCancellationRequested, mSynchronousFlag, mActiveCount>>

\* Mutant: the locks go with the frame of the callback, after it has resumed.
ReleaseNothing(t) ==
    /\ cbPc[t] = "release"
    /\ cbPc' = [cbPc EXCEPT ![t] = "join"]
    /\ Stay
    /\ UNCHANGED <<mSslLock, mOpCount, closed, closing, terminated, awaits, phase, resumes, initPc, stopPc, op, mEc,
                   mToken, mCancellationRequested, mSynchronousFlag, mActiveCount>>

CallbackRelease(t) ==
    /\ cbPc[t] = "release"
    /\ cbPc' = [cbPc EXCEPT ![t] = "join"]
    /\ Unlock(t, "callback")
    /\ Stay
    /\ UNCHANGED <<mSslLock, closed, closing, terminated, awaits, phase, resumes, initPc, stopPc, op, mEc, mToken,
                   mCancellationRequested, mSynchronousFlag>>

CallbackJoin(t) ==
    /\ cbPc[t] = "join"
    /\ cbPc' = [cbPc EXCEPT ![t] = "none"]
    /\ Meet(t)
    /\ Leave
    /\ UNCHANGED <<mSslLock, mOpCount, closed, closing, terminated, awaits, initPc, stopPc, op, mEc, mToken,
                   mCancellationRequested, mActiveCount>>
-----------------------------------------------------------------------------
(* The stop callback and the destructor of the Awaiter *)

StopFlag(t) ==
    /\ stopPc[t] = "armed"
    /\ stopPc' = [stopPc EXCEPT ![t] = "emit"]
    /\ mCancellationRequested' = [mCancellationRequested EXCEPT ![t] = TRUE]
    /\ UNCHANGED <<sockVars, awaits, phase, resumes, initPc, cbPc, op, mEc, mToken,
                   mSynchronousFlag, mActiveCount>>

StopEmit(t) ==
    /\ stopPc[t] = "emit"
    /\ stopPc' = [stopPc EXCEPT ![t] = "fired"]
    /\ Emit(t)
    /\ UNCHANGED <<sockVars, awaits, phase, resumes, initPc, mEc, mToken,
                   mCancellationRequested, mSynchronousFlag, mActiveCount>>

\* What the fields of a new Awaiter are.
Forget(t) ==
    /\ resumes' = [resumes EXCEPT ![t] = 0]
    /\ mEc' = [mEc EXCEPT ![t] = None] /\ mToken' = [mToken EXCEPT ![t] = FALSE]
    /\ mCancellationRequested' = [mCancellationRequested EXCEPT ![t] = FALSE]
    /\ mSynchronousFlag' = [mSynchronousFlag EXCEPT ![t] = FALSE]

\* Members are destroyed from the last to the first: mReg waits for a stop
\* callback that runs, then mActiveCount terminates if a lock is held.
DestroyAwaiter(t) ==
    /\ phase[t] = "resumed" /\ stopPc[t] # "emit"
    /\ phase' = [phase EXCEPT ![t] = "none"]
    /\ stopPc' = [stopPc EXCEPT ![t] = "none"]
    /\ terminated' = IF mActiveCount[t] # {} THEN "lifetime" ELSE terminated
    /\ Forget(t)
    /\ UNCHANGED <<stranded, strand, mSslLock, mOpCount, closed, closing, awaits, initPc, cbPc, op, mActiveCount>>
-----------------------------------------------------------------------------
(* close() and the destructor of the socket *)

CloseCall ==
    /\ closing = "no"
    /\ closing' = "posted"
    /\ mOpCount' = mOpCount \cup {<<"close", "initiator">>}
    /\ UNCHANGED <<stranded, strand, mSslLock, closed, terminated, opVars>>

\* Mutant: only the recv is cancelled.
CloseRecvOnly == {t \in {"recv"} : op[t] = "pending"}

\* What closing the descriptor aborts.
ClosedOps == {t \in Type : op[t] = "pending"}

CloseRun ==
    /\ closing = "posted"
    /\ ~strand
    /\ closing' = "resumed" /\ closed' = TRUE
    /\ op' = [t \in Type |-> IF t \in ClosedOps THEN "operation_aborted" ELSE op[t]]
    /\ cbPc' = [t \in Type |-> IF t \in ClosedOps THEN "queued" ELSE cbPc[t]]
    /\ mOpCount' = mOpCount \ {<<"close", "initiator">>}
    /\ UNCHANGED <<stranded, strand, mSslLock, terminated, awaits, phase, resumes, initPc, stopPc, mEc, mToken,
                   mCancellationRequested, mSynchronousFlag, mActiveCount>>

\* The user destroys the socket when none of its calls is running.
DestroySocket ==
    /\ closing \in {"no", "resumed"} /\ \A t \in Type : phase[t] = "none"
    /\ closing' = "destroyed"
    /\ terminated' = IF mOpCount # {} THEN "lifetime" ELSE terminated
    /\ UNCHANGED <<stranded, strand, mSslLock, mOpCount, closed, opVars>>
-----------------------------------------------------------------------------
InitStep(t) == StartAborted(t) \/ Start(t) \/ Initiate(t) \/ Recheck(t) \/ InitRelease(t) \/ InitJoin(t)
CallbackStep(t) == Callback(t) \/ CallbackRelease(t) \/ CallbackJoin(t)

UserStep ==
    \/ \E t \in Type, token, stopped \in BOOLEAN : Await(t, token, stopped)
    \/ \E t \in Type : StopFlag(t) \/ DestroyAwaiter(t)
    \/ CloseCall \/ DestroySocket

Next ==
    /\ terminated = None
    /\ \/ UserStep \/ CloseRun
       \/ \E t \in Type :
            \/ InitStep(t) \/ CallbackStep(t) \/ StopEmit(t)
            \/ \E ec \in {"success", "remoteClosed"} : Transfer(t, ec)

Spec == Init /\ [][Next]_vars

\* The io threads run what is queued and a thread in the stop callback goes
\* on.  Nothing is assumed of the user or of the peer.
Fairness ==
    /\ \A t \in Type :
        /\ WF_vars(terminated = None /\ InitStep(t))
        /\ WF_vars(terminated = None /\ CallbackStep(t))
        /\ WF_vars(terminated = None /\ StopEmit(t))
    /\ WF_vars(terminated = None /\ CloseRun)

FairSpec == Spec /\ Fairness
-----------------------------------------------------------------------------
(* Properties *)

\* Types of the variables.
TypeOK ==
    /\ stranded \in BOOLEAN /\ strand \in BOOLEAN /\ mSslLock \in BOOLEAN /\ closed \in BOOLEAN
    /\ mOpCount \subseteq ((Type \cup {"close"}) \X {"initiator", "callback"})
    /\ closing \in {"no", "posted", "resumed", "destroyed"}
    /\ terminated \in {None, "sslLock", "lifetime"}
    /\ awaits \in 0..MaxAwaits /\ phase \in [Type -> {"none", "suspended", "resumed"}]
    /\ resumes \in [Type -> 0..1]
    /\ initPc \in [Type -> InitPc] /\ cbPc \in [Type -> CbPc] /\ stopPc \in [Type -> StopPc]
    /\ op \in [Type -> Ec \cup {"none", "pending"}] /\ mEc \in [Type -> Ec \cup {None}]
    /\ mToken \in [Type -> BOOLEAN] /\ mCancellationRequested \in [Type -> BOOLEAN]
    /\ mSynchronousFlag \in [Type -> BOOLEAN]
    /\ mActiveCount \in [Type -> SUBSET {"initiator", "callback"}]

\* The coroutine is resumed once, and by the last of initiator and callback:
\* once it may destroy the Awaiter, neither has a step left, whether the
\* executor is a strand or lets them overlap.
LastOneResumes ==
    \A t \in Type : phase[t] # "suspended" =>
        initPc[t] = "none" /\ cbPc[t] = "none" /\ op[t] # "pending"

\* await_resume finds an outcome (it asserts that mEc is set), and the outcome
\* says aborted only if the token was stopped or the socket closed.
OutcomeKnown ==
    \A t \in Type : phase[t] = "resumed" =>
        /\ mEc[t] # None
        /\ mEc[t] = "operation_aborted" => Cancelled(t) \/ closed

\* No AsioLifetime is destroyed while a lock on it is held, neither the
\* Awaiter's nor that of the socket's state.
LifetimesOutlast == terminated # "lifetime"

\* Two operations are never initiated at the same time on a socket whose
\* executor is a strand (mSslLock would terminate the program).
InitiationsApart == terminated = "sslLock" => ~stranded

\* The stop callback emits on a signal that exists.
EmitAlive == \A t \in Type : stopPc[t] = "emit" => phase[t] # "none"

\* A stop is not lost between its callback, which may come before the
\* operation is there, and the initiator, which looks again: once both are
\* past, a stopped operation is not pending.
StopNotLost ==
    \A t \in Type : stopPc[t] = "fired" /\ initPc[t] \in {"none", "release", "join"} => op[t] # "pending"

\* An operation whose token is stopped, before or after it starts, ends though
\* the peer does nothing; so does every operation of a socket that is closed,
\* those started later too.
StopOrCloseEnds ==
    \A t \in Type :
        (phase[t] = "suspended" /\ (mCancellationRequested[t] \/ closed)) ~> (phase[t] # "suspended" \/ terminated # None)
=============================================================================
