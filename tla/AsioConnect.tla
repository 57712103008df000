----------------------------- MODULE AsioConnect -----------------------------
(***************************************************************************)
(* Making a connection: AsioAcceptor::Awaiter, AsioConnect with its        *)
(* retries, AsioTlsAcceptor::AcceptAwaiter and AsioTlsConnect.             *)
(*                                                                         *)
(* The object lives in the frame of the coroutine that awaits it and is    *)
(* used by several threads: the initiator (await_suspend, on the thread of *)
(* the user or, for a retry, of the timer), the callback of accept or      *)
(* connect, the callback of the TLS handshake, and a thread in the stop    *)
(* callback.  The last to come to mSynchronousFlag resumes the coroutine,  *)
(* which destroys the object.  TCP has two parties and a flag that is      *)
(* exchanged; TLS has three and a counter that starts at 2.                *)
(*                                                                         *)
(* Boost.Asio is external.  accept and connect complete on a strand, the   *)
(* handshake on the strand of the socket, which is the same one for        *)
(* connect.  Emitting the cancellation signal aborts the call that is      *)
(* pending; a retry timer only expires early, which it may do anyway,      *)
(* since its handler ignores the error.  Delays are left out.              *)
(***************************************************************************)
EXTENDS Integers

CONSTANTS
    CharSigned,  \* is char signed?  AsioConnect::mSynchronousFlag is a char
    MaxTails     \* bound: threads that can be in the tail of retry()

ASSUME AsioConnectAssumption == CharSigned \in BOOLEAN /\ MaxTails \in Nat \ {0}

VARIABLES
    kind,        \* which of the four operations this is
    mToken,      \* was a stop token given?
    mRetryOnFailure,
    phase,       \* the coroutine and then the object: see Phase
    resumes,     \* how often the coroutine was resumed
    initPc, cbPc, stopPc,   \* where initiator, callback and stopper are
    tails,       \* initiators that are in the tail of retry()
    conn, hs,    \* the accept or connect call, and the handshake
    timer,       \* is the retry timer running?
    mEc, mCancellationRequested, mSynchronousFlag,
    last         \* history: the call that ended last, and how

fixed == <<kind, mToken, mRetryOnFailure>>
vars == <<fixed, phase, resumes, initPc, cbPc, stopPc, tails, conn, hs, timer, mEc,
          mCancellationRequested, mSynchronousFlag, last>>

Kind  == {"accept", "connect", "tlsAccept", "tlsConnect"}
Tls   == kind \in {"tlsAccept", "tlsConnect"}
Client == kind \in {"connect", "tlsConnect"}
Phase == {"suspended", "resumed", "destroying", "destroyed"}
Ec    == {"success", "refused", "failed", "operation_aborted"}

\* The object has been constructed and await_suspend is about to run.  If the
\* token was stopped before, the stop callback has run in await_ready.
Init ==
    /\ kind \in Kind /\ mToken \in BOOLEAN
    /\ mRetryOnFailure \in IF Client THEN BOOLEAN ELSE {FALSE}
    /\ mCancellationRequested \in IF mToken THEN BOOLEAN ELSE {FALSE}
    /\ stopPc = IF mCancellationRequested THEN "fired" ELSE IF mToken THEN "armed" ELSE "none"
    /\ phase = "suspended" /\ resumes = 0
    /\ initPc = "start" /\ cbPc = "none" /\ tails = 0
    /\ conn = "none" /\ hs = "none" /\ timer = FALSE /\ mEc = "success"
    /\ mSynchronousFlag = IF Tls THEN 2 ELSE 0
    /\ last = <<"none", "success">>
-----------------------------------------------------------------------------
Cancelled == mToken /\ mCancellationRequested

\* emit: the pending call is aborted, if there is one.
Emit ==
    /\ conn' = IF conn = "pending" THEN "operation_aborted" ELSE conn
    /\ hs' = IF hs = "pending" THEN "operation_aborted" ELSE hs
    /\ last' = CASE conn = "pending" -> <<"conn", "operation_aborted">>
                 [] hs = "pending" -> <<"hs", "operation_aborted">>
                 [] OTHER -> last

Resume == phase' = "resumed" /\ resumes' = resumes + 1

Retriable(ec) == ec = "refused" /\ mRetryOnFailure

\* The value of the flag, which wraps where char is unsigned.
Wrap(n) == IF kind = "tlsConnect" /\ ~CharSigned THEN n % 256 ELSE n

\* AsioAcceptor without a token: there is no flag to meet at.
Direct == kind = "accept" /\ ~mToken
-----------------------------------------------------------------------------
(* The initiator: await_suspend *)

Initiate ==
    /\ initPc = "start"
    /\ conn' = "pending"
    /\ initPc' = IF Direct THEN "none" ELSE "sent"
    /\ UNCHANGED <<fixed, last, phase, resumes, cbPc, stopPc, tails, hs, timer, mEc,
                   mCancellationRequested, mSynchronousFlag>>

Recheck ==
    /\ initPc = "sent"
    /\ initPc' = "join"
    /\ IF Cancelled THEN Emit ELSE UNCHANGED <<conn, hs, last>>
    /\ UNCHANGED <<fixed, phase, resumes, cbPc, stopPc, tails, timer, mEc,
                   mCancellationRequested, mSynchronousFlag>>

\* Mutant: the initiator never retries.
InitJoinNoRetry ==
    /\ initPc = "join" /\ ~Tls
    /\ initPc' = "none"
    /\ mSynchronousFlag' = 1
    /\ IF mSynchronousFlag = 0 THEN UNCHANGED <<phase, resumes>> ELSE Resume
    /\ UNCHANGED <<fixed, last, cbPc, stopPc, tails, conn, hs, timer, mEc, mCancellationRequested>>

\* TCP: exchange(1).  If the callback was there first, go on in its place.
InitJoin ==
    /\ initPc = "join" /\ ~Tls
    /\ initPc' = "none"
    /\ mSynchronousFlag' = 1
    /\ IF mSynchronousFlag = 0
       THEN UNCHANGED <<phase, resumes, timer, tails>>
       ELSE IF Retriable(mEc) /\ ~mCancellationRequested
       THEN timer' = TRUE /\ tails' = tails + 1 /\ UNCHANGED <<phase, resumes>>
       ELSE Resume /\ UNCHANGED <<timer, tails>>
    /\ UNCHANGED <<fixed, last, cbPc, stopPc, conn, hs, mEc, mCancellationRequested>>

\* TLS: one less.  If the others were there first, resume; a refused connect
\* is not tried again here.
InitJoinTls ==
    /\ initPc = "join" /\ Tls
    /\ initPc' = "none"
    /\ mSynchronousFlag' = Wrap(mSynchronousFlag - 1)
    /\ IF mSynchronousFlag = 0 THEN Resume ELSE UNCHANGED <<phase, resumes>>
    /\ UNCHANGED <<fixed, last, cbPc, stopPc, tails, conn, hs, timer, mEc, mCancellationRequested>>
-----------------------------------------------------------------------------
(* The network and the callbacks *)

\* The call ends: a client's may be refused, any may fail.
Connected(ec) ==
    /\ conn = "pending"
    /\ ec = "refused" => Client
    /\ conn' = ec /\ last' = <<"conn", ec>>
    /\ UNCHANGED <<fixed, phase, resumes, initPc, cbPc, stopPc, tails, hs, timer, mEc,
                   mCancellationRequested, mSynchronousFlag>>

\* Its handler is queued until the strand is free.
CallbackReady == conn \in Ec /\ cbPc = "none"

Handled == conn' = "none" /\ mEc' = conn

\* Mutant: stop does not keep the callback from retrying.
CallbackRetries ==
    /\ CallbackReady /\ ~Tls
    /\ Handled
    /\ mSynchronousFlag' = IF Direct THEN mSynchronousFlag ELSE 1
    /\ IF mSynchronousFlag = 0 /\ ~Direct
       THEN UNCHANGED <<phase, resumes, timer, cbPc>>
       ELSE IF Retriable(conn)
       THEN timer' = TRUE /\ cbPc' = "tail" /\ UNCHANGED <<phase, resumes>>
       ELSE Resume /\ UNCHANGED <<timer, cbPc>>
    /\ UNCHANGED <<fixed, last, initPc, stopPc, tails, hs, mCancellationRequested>>

\* TCP: exchange(1), then retry or resume if the initiator was there first.
Callback ==
    /\ CallbackReady /\ ~Tls
    /\ Handled
    /\ mSynchronousFlag' = IF Direct THEN mSynchronousFlag ELSE 1
    /\ IF mSynchronousFlag = 0 /\ ~Direct
       THEN UNCHANGED <<phase, resumes, timer, cbPc>>
       ELSE IF Retriable(conn) /\ ~mCancellationRequested
       THEN timer' = TRUE /\ cbPc' = "tail" /\ UNCHANGED <<phase, resumes>>
       ELSE Resume /\ UNCHANGED <<timer, cbPc>>
    /\ UNCHANGED <<fixed, last, initPc, stopPc, tails, hs, mCancellationRequested>>

\* Mutant: only the callback itself is counted.
CallbackFailOne ==
    LET f == Wrap(mSynchronousFlag - 1) IN
    /\ CallbackReady /\ Tls /\ conn # "success"
    /\ Handled
    /\ mSynchronousFlag' = f
    /\ IF f >= 0
       THEN UNCHANGED <<phase, resumes, timer, cbPc>>
       ELSE IF kind = "tlsConnect" /\ Retriable(conn)
       THEN timer' = TRUE /\ cbPc' = "tail" /\ UNCHANGED <<phase, resumes>>
       ELSE Resume /\ UNCHANGED <<timer, cbPc>>
    /\ UNCHANGED <<fixed, last, initPc, stopPc, tails, hs, mCancellationRequested>>

\* TLS, the call failed: the callback counts for the handshake too.  A refused
\* connect is tried again even if stop was requested.
CallbackFail ==
    LET f == Wrap(mSynchronousFlag - 2) IN
    /\ CallbackReady /\ Tls /\ conn # "success"
    /\ Handled
    /\ mSynchronousFlag' = f
    /\ IF f >= 0
       THEN UNCHANGED <<phase, resumes, timer, cbPc>>
       ELSE IF kind = "tlsConnect" /\ Retriable(conn)
       THEN timer' = TRUE /\ cbPc' = "tail" /\ UNCHANGED <<phase, resumes>>
       ELSE Resume /\ UNCHANGED <<timer, cbPc>>
    /\ UNCHANGED <<fixed, last, initPc, stopPc, tails, hs, mCancellationRequested>>

\* TLS, the call succeeded: start the handshake ...
CallbackHandshake ==
    /\ CallbackReady /\ Tls /\ conn = "success"
    /\ Handled
    /\ hs' = "pending" /\ cbPc' = "sent"
    /\ UNCHANGED <<fixed, last, phase, resumes, initPc, stopPc, tails, timer,
                   mCancellationRequested, mSynchronousFlag>>

\* ... look at stop again ...
CallbackRecheck ==
    /\ cbPc = "sent"
    /\ cbPc' = "join"
    /\ IF Cancelled THEN Emit ELSE UNCHANGED <<conn, hs, last>>
    /\ UNCHANGED <<fixed, phase, resumes, initPc, stopPc, tails, timer, mEc,
                   mCancellationRequested, mSynchronousFlag>>

\* ... and count.  What the handshake left in mEc is never "refused".
CallbackJoin ==
    /\ cbPc = "join"
    /\ cbPc' = "none"
    /\ mSynchronousFlag' = Wrap(mSynchronousFlag - 1)
    /\ IF mSynchronousFlag = 0 THEN Resume ELSE UNCHANGED <<phase, resumes>>
    /\ UNCHANGED <<fixed, last, initPc, stopPc, tails, conn, hs, timer, mEc, mCancellationRequested>>

Handshaked(ec) ==
    /\ hs = "pending"
    /\ hs' = ec /\ last' = <<"hs", ec>>
    /\ UNCHANGED <<fixed, phase, resumes, initPc, cbPc, stopPc, tails, conn, timer, mEc,
                   mCancellationRequested, mSynchronousFlag>>

\* Mutant: the outcome of the handshake is not stored.
HandshakeIgnored ==
    /\ hs \in Ec /\ (kind = "tlsConnect" => cbPc = "none")
    /\ hs' = "none"
    /\ mSynchronousFlag' = Wrap(mSynchronousFlag - 1)
    /\ IF mSynchronousFlag = 0 THEN Resume ELSE UNCHANGED <<phase, resumes>>
    /\ UNCHANGED <<fixed, last, initPc, cbPc, stopPc, tails, conn, timer, mEc, mCancellationRequested>>

\* The callback of the handshake, which for connect shares the strand.
HandshakeCallback ==
    /\ hs \in Ec /\ (kind = "tlsConnect" => cbPc = "none")
    /\ hs' = "none" /\ mEc' = hs
    /\ mSynchronousFlag' = Wrap(mSynchronousFlag - 1)
    /\ IF mSynchronousFlag = 0 THEN Resume ELSE UNCHANGED <<phase, resumes>>
    /\ UNCHANGED <<fixed, last, initPc, cbPc, stopPc, tails, conn, timer, mCancellationRequested>>
-----------------------------------------------------------------------------
(* retry() *)

\* Mutant: the flag keeps its value.
TimerKeepsFlag ==
    /\ timer /\ tails < MaxTails
    /\ timer' = FALSE /\ initPc' = "start"
    /\ UNCHANGED <<fixed, last, phase, resumes, cbPc, stopPc, tails, conn, hs, mEc, mCancellationRequested,
                   mSynchronousFlag>>

\* The timer's handler: a new attempt, on a thread that is free.
TimerFires ==
    /\ timer /\ tails < MaxTails
    /\ timer' = FALSE /\ initPc' = "start"
    /\ mSynchronousFlag' = IF Tls THEN 2 ELSE 0
    /\ UNCHANGED <<fixed, last, phase, resumes, cbPc, stopPc, tails, conn, hs, mEc, mCancellationRequested>>

\* After it has set the timer retry() looks at mToken and
\* mCancellationRequested again: called by the callback ...
CallbackTail ==
    /\ cbPc = "tail"
    /\ cbPc' = "none"
    /\ IF Cancelled THEN Emit ELSE UNCHANGED <<conn, hs, last>>
    /\ UNCHANGED <<fixed, phase, resumes, initPc, stopPc, tails, timer, mEc,
                   mCancellationRequested, mSynchronousFlag>>

\* ... or by an initiator.
InitTail ==
    /\ tails > 0
    /\ tails' = tails - 1
    /\ IF Cancelled THEN Emit ELSE UNCHANGED <<conn, hs, last>>
    /\ UNCHANGED <<fixed, phase, resumes, initPc, cbPc, stopPc, timer, mEc,
                   mCancellationRequested, mSynchronousFlag>>
-----------------------------------------------------------------------------
(* The stop callback and the destructor *)

StopFlag ==
    /\ stopPc = "armed" /\ phase # "destroyed"
    /\ stopPc' = "emit"
    /\ mCancellationRequested' = TRUE
    /\ UNCHANGED <<fixed, last, phase, resumes, initPc, cbPc, tails, conn, hs, timer, mEc, mSynchronousFlag>>

StopEmit ==
    /\ stopPc = "emit"
    /\ stopPc' = "fired"
    /\ Emit
    /\ UNCHANGED <<fixed, phase, resumes, initPc, cbPc, tails, timer, mEc,
                   mCancellationRequested, mSynchronousFlag>>

\* Members are destroyed from the last to the first: mCancelSignal ...
DestroySignal ==
    /\ phase = "resumed"
    /\ phase' = "destroying"
    /\ UNCHANGED <<fixed, last, resumes, initPc, cbPc, stopPc, tails, conn, hs, timer, mEc,
                   mCancellationRequested, mSynchronousFlag>>

\* ... before mReg, which waits for a stop callback that runs.
DestroyReg ==
    /\ phase = "destroying" /\ stopPc # "emit"
    /\ phase' = "destroyed"
    /\ UNCHANGED <<fixed, last, resumes, initPc, cbPc, stopPc, tails, conn, hs, timer, mEc,
                   mCancellationRequested, mSynchronousFlag>>
-----------------------------------------------------------------------------
ThreadStep ==
    \/ Initiate \/ Recheck \/ InitJoin \/ InitJoinTls
    \/ Callback \/ CallbackFail \/ CallbackHandshake \/ CallbackRecheck \/ CallbackJoin
    \/ HandshakeCallback \/ TimerFires \/ CallbackTail \/ InitTail \/ StopEmit

Next ==
    \/ ThreadStep \/ StopFlag \/ DestroySignal \/ DestroyReg
    \/ \E ec \in {"success", "refused", "failed"} : Connected(ec)
    \/ \E ec \in {"success", "failed"} : Handshaked(ec)

Spec == Init /\ [][Next]_vars

\* A thread goes on, a queued handler runs, a timer expires.  Nothing is
\* assumed of the network.
Fairness ==
    /\ WF_vars(Initiate) /\ WF_vars(Recheck) /\ WF_vars(InitJoin) /\ WF_vars(InitJoinTls)
    /\ WF_vars(Callback \/ CallbackFail \/ CallbackHandshake)
    /\ WF_vars(CallbackRecheck) /\ WF_vars(CallbackJoin) /\ WF_vars(HandshakeCallback)
    /\ WF_vars(TimerFires) /\ WF_vars(CallbackTail) /\ WF_vars(InitTail) /\ WF_vars(StopEmit)

FairSpec == Spec /\ Fairness
-----------------------------------------------------------------------------
(* Properties *)

\* Types of the variables.
TypeOK ==
    /\ kind \in Kind /\ mToken \in BOOLEAN /\ mRetryOnFailure \in BOOLEAN
    /\ phase \in Phase /\ resumes \in 0..1
    /\ initPc \in {"none", "start", "sent", "join"}
    /\ cbPc \in {"none", "sent", "join", "tail"}
    /\ stopPc \in {"none", "armed", "emit", "fired"}
    /\ tails \in 0..MaxTails
    /\ conn \in Ec \cup {"none", "pending"} /\ hs \in Ec \cup {"none", "pending"}
    /\ timer \in BOOLEAN /\ mEc \in Ec /\ mCancellationRequested \in BOOLEAN
    /\ mSynchronousFlag \in -1..255 /\ last \in {"none", "conn", "hs"} \X Ec

\* Whoever resumes is the last one to come to the flag: once the coroutine goes
\* on, and may destroy the object, neither call nor timer is outstanding and no
\* initiator and no callback has a step left.  The exception is the tail of
\* retry() over TCP: it runs after the initiator has come to the flag and still
\* reads the object, while another party resumes.
LastOneResumes ==
    phase # "suspended" =>
        /\ initPc = "none" /\ cbPc = "none" /\ ~timer
        /\ conn = "none" /\ hs = "none" /\ (tails = 0 \/ kind = "connect")

\* While the coroutine is suspended somebody will resume it: a call or the
\* timer is outstanding, or the initiator or the callback is still to come to
\* the flag.
NotAbandoned ==
    phase = "suspended" => timer \/ conn # "none" \/ hs # "none" \/ initPc # "none" \/ cbPc \in {"sent", "join"}

\* A stop is not lost, though its callback may emit before the call or the
\* handshake is there: once the party that started it has looked again, it is
\* not pending.
StopNotLost ==
    stopPc = "fired" =>
        /\ conn = "pending" => initPc \in {"start", "sent"}
        /\ hs = "pending" => cbPc = "sent"

\* A connect over TCP that may retry never ends as refused, unless stop was
\* requested.
RefusedRetried ==
    kind = "connect" /\ mRetryOnFailure /\ phase # "suspended" /\ mEc = "refused" => mCancellationRequested

\* The coroutine learns how the last call ended, whoever resumes it, and over
\* TLS it gets a socket only after the handshake.
OutcomeTrue ==
    phase # "suspended" =>
        /\ mEc = last[2]
        /\ Tls /\ mEc = "success" => last[1] = "hs"

\* A stop ends the operation, though the network does nothing.  A TLS connect
\* that may retry is not included: it is tried again as often as it is refused.
StopEnds ==
    (mCancellationRequested /\ ~(kind = "tlsConnect" /\ mRetryOnFailure)) ~> phase # "suspended"

\* A stop ends a TLS connect that may retry, too.
StopEndsRetries == mCancellationRequested ~> phase # "suspended"

\* No initiator is in the tail of retry() when the object may be destroyed.
TailsAlive == phase \in {"destroying", "destroyed"} => tails = 0

\* The stop callback emits on a signal that exists.
SignalAlive == stopPc = "emit" => phase \notin {"destroying", "destroyed"}
=============================================================================
