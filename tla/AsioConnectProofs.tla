-------------------------- MODULE AsioConnectProofs --------------------------
(***************************************************************************)
(* Proofs about AsioConnect, for every bound on the tails of retry() and   *)
(* any number of retries, where char is signed.                            *)
(***************************************************************************)
EXTENDS AsioConnect, TLAPS

Count(b) == IF b THEN 1 ELSE 0

\* How many parties are still to come to mSynchronousFlag.  Over TLS the call
\* stands for its own callback and for that of the handshake.
Underway  == initPc = "start" \/ conn # "none"
Remaining ==
    Count(initPc # "none") +
    IF ~Tls THEN Count(Underway)
    ELSE IF Underway THEN 2
    ELSE Count(cbPc \in {"sent", "join"}) + Count(hs # "none")

\* The flag tells who is still to come.
FlagInv ==
    /\ Tls => mSynchronousFlag = Remaining - 1
    /\ ~Tls /\ ~Direct => mSynchronousFlag = Count(Remaining # 2)

\* When nobody is to come, the coroutine was resumed or the timer runs, but
\* not both.
PartyInv ==
    /\ (phase # "suspended" \/ timer) <=> Remaining = 0
    /\ timer => phase = "suspended"

\* Which parties can be where.
ShapeInv ==
    /\ initPc = "start" => conn = "none"
    /\ Direct => initPc \in {"none", "start"}
    /\ hs # "none" \/ cbPc \in {"sent", "join"} => Tls /\ ~Underway
    /\ cbPc = "tail" => (timer \/ Underway) /\ hs = "none"
    /\ timer \/ cbPc = "tail" \/ tails > 0 => mRetryOnFailure
    /\ mRetryOnFailure => Client
    /\ tails > 0 => ~Tls
    /\ initPc # "none" => tails < MaxTails

\* A stop callback has run only if there is a token, and what is pending
\* after it has run will be looked at again.
StopInv ==
    /\ stopPc # "none" => mToken
    /\ stopPc \in {"emit", "fired"} => mCancellationRequested
    /\ StopNotLost

\* mEc and what was reported last.
OutcomeInv ==
    /\ conn \in Ec => last = <<"conn", conn>>
    /\ hs \in Ec => last = <<"hs", hs>>
    /\ conn \notin Ec /\ hs \notin Ec => mEc = last[2]
    /\ Tls /\ ~Underway /\ hs = "none" /\ mEc = "success" => last[1] = "hs"

\* The types, and that the coroutine is resumed at most once.
Types == TypeOK /\ resumes = Count(phase # "suspended")

IInv == Types /\ FlagInv /\ PartyInv /\ ShapeInv /\ StopInv /\ OutcomeInv /\ RefusedRetried
-----------------------------------------------------------------------------
\* It holds when await_suspend starts.
LEMMA InitIInv == Init => IInv
<1> SUFFICES ASSUME Init PROVE IInv  OBVIOUS
<1> USE AsioConnectAssumption DEF Init, Tls, Client, Direct, Count, Underway, Remaining
<1>1. mRetryOnFailure \in BOOLEAN /\ (mRetryOnFailure => Client)  OBVIOUS
<1>2. mCancellationRequested \in BOOLEAN /\ (mCancellationRequested => mToken)  OBVIOUS
<1>3. timer \in BOOLEAN  OBVIOUS
<1>4. Types  BY <1>1, <1>2, <1>3 DEF Types, TypeOK, Phase, Kind, Ec
<1>5. FlagInv /\ PartyInv  BY DEF FlagInv, PartyInv
<1>6. ShapeInv  BY <1>1 DEF ShapeInv
<1>7. StopInv  BY <1>2 DEF StopInv, StopNotLost
<1>8. OutcomeInv /\ RefusedRetried  BY DEF OutcomeInv, RefusedRetried, Ec
<1> QED BY <1>4, <1>5, <1>6, <1>7, <1>8 DEF IInv

\* The initiator keeps the invariant: it takes itself off those to come.
LEMMA InitiatorStep ==
    ASSUME CharSigned, IInv,
           Initiate \/ Recheck \/ InitJoin \/ InitJoinTls
    PROVE  IInv'
<1> USE AsioConnectAssumption
        DEF IInv, Types, TypeOK, Phase, Kind, Ec, Tls, Client, Direct, Count, Underway, Remaining, ShapeInv, fixed
<1>1. CASE Initiate
  <2>2. Types'  BY <1>1 DEF Initiate, FlagInv, PartyInv
  <2>3. FlagInv' /\ PartyInv' /\ ShapeInv'  BY <1>1 DEF Initiate, FlagInv, PartyInv
  <2>4. StopInv' /\ OutcomeInv' /\ RefusedRetried'
    BY <1>1 DEF Initiate, PartyInv, StopInv, StopNotLost, OutcomeInv, RefusedRetried
  <2> QED BY <2>2, <2>3, <2>4
<1>2. CASE Recheck
  <2>2. Types'  BY <1>2 DEF Recheck, FlagInv, PartyInv, Cancelled, Emit
  <2>3. FlagInv' /\ PartyInv' /\ ShapeInv'  BY <1>2 DEF Recheck, FlagInv, PartyInv, Cancelled, Emit
  <2>4. StopInv' /\ OutcomeInv' /\ RefusedRetried'
    BY <1>2 DEF Recheck, PartyInv, StopInv, StopNotLost, OutcomeInv, RefusedRetried, Cancelled, Emit
  <2> QED BY <2>2, <2>3, <2>4
<1>3. CASE InitJoin
  <2>1. timer' \in BOOLEAN /\ mCancellationRequested' \in BOOLEAN  BY <1>3 DEF InitJoin, Resume, Retriable
  <2>2. Types'  BY <1>3, <2>1 DEF InitJoin, FlagInv, PartyInv, Resume, Retriable
  <2>3. FlagInv' /\ PartyInv' /\ ShapeInv'  BY <1>3 DEF InitJoin, FlagInv, PartyInv, Resume, Retriable
  <2>4. StopInv' /\ OutcomeInv' /\ RefusedRetried'
    BY <1>3 DEF InitJoin, PartyInv, StopInv, StopNotLost, OutcomeInv, RefusedRetried, Resume, Retriable
  <2> QED BY <2>2, <2>3, <2>4
<1>4. CASE InitJoinTls
  <2>2. Types'  BY <1>4 DEF InitJoinTls, FlagInv, PartyInv, Resume, Wrap
  <2>3. FlagInv' /\ PartyInv' /\ ShapeInv'  BY <1>4 DEF InitJoinTls, FlagInv, PartyInv, Resume, Wrap
  <2>4. StopInv' /\ OutcomeInv' /\ RefusedRetried'
    BY <1>4 DEF InitJoinTls, PartyInv, StopInv, StopNotLost, OutcomeInv, RefusedRetried, Resume, Wrap
  <2> QED BY <2>2, <2>3, <2>4
<1> QED BY <1>1, <1>2, <1>3, <1>4

\* The callbacks keep it: a failed call takes two off, a handshake one by one.
LEMMA CallbackStep ==
    ASSUME CharSigned, IInv,
           Callback \/ CallbackFail \/ CallbackHandshake \/ CallbackRecheck \/ CallbackJoin \/ HandshakeCallback
    PROVE  IInv'
<1> USE AsioConnectAssumption
        DEF IInv, Types, TypeOK, Phase, Kind, Ec, Tls, Client, Direct, Count, Underway, Remaining, ShapeInv, fixed
<1>1. CASE Callback
  <2>1. timer' \in BOOLEAN /\ mCancellationRequested' \in BOOLEAN
    BY <1>1 DEF Callback, CallbackReady, Handled, Resume, Retriable
  <2>2. Types'  BY <1>1, <2>1 DEF Callback, FlagInv, PartyInv, CallbackReady, Handled, Resume, Retriable
  <2>3. FlagInv' /\ PartyInv' /\ ShapeInv'
    BY <1>1 DEF Callback, FlagInv, PartyInv, CallbackReady, Handled, Resume, Retriable
  <2>4. StopInv' /\ OutcomeInv' /\ RefusedRetried'
    BY <1>1 DEF Callback, PartyInv, StopInv, StopNotLost, OutcomeInv, RefusedRetried, CallbackReady, Handled, Resume, Retriable
  <2> QED BY <2>2, <2>3, <2>4
<1>2. CASE CallbackFail
  <2>1. timer' \in BOOLEAN /\ mCancellationRequested' \in BOOLEAN
    BY <1>2 DEF CallbackFail, CallbackReady, Handled, Resume, Retriable, Wrap
  <2>2. Types'
    BY <1>2, <2>1 DEF CallbackFail, FlagInv, PartyInv, CallbackReady, Handled, Resume, Retriable, Wrap
  <2>3. FlagInv' /\ PartyInv' /\ ShapeInv'
    BY <1>2 DEF CallbackFail, FlagInv, PartyInv, CallbackReady, Handled, Resume, Retriable, Wrap
  <2>4. StopInv' /\ OutcomeInv' /\ RefusedRetried'
    BY <1>2 DEF CallbackFail, PartyInv, StopInv, StopNotLost, OutcomeInv, RefusedRetried, CallbackReady, Handled, Resume, Retriable, Wrap
  <2> QED BY <2>2, <2>3, <2>4
<1>3. CASE CallbackHandshake
  <2>2. Types'  BY <1>3 DEF CallbackHandshake, FlagInv, PartyInv, CallbackReady, Handled
  <2>3. FlagInv' /\ PartyInv' /\ ShapeInv'
    BY <1>3 DEF CallbackHandshake, FlagInv, PartyInv, CallbackReady, Handled
  <2>4. StopInv' /\ OutcomeInv' /\ RefusedRetried'
    BY <1>3 DEF CallbackHandshake, PartyInv, StopInv, StopNotLost, OutcomeInv, RefusedRetried, CallbackReady, Handled
  <2> QED BY <2>2, <2>3, <2>4
<1>4. CASE CallbackRecheck
  <2>2. Types'  BY <1>4 DEF CallbackRecheck, FlagInv, PartyInv, Cancelled, Emit
  <2>3. FlagInv' /\ PartyInv' /\ ShapeInv'  BY <1>4 DEF CallbackRecheck, FlagInv, PartyInv, Cancelled, Emit
  <2>4. StopInv' /\ OutcomeInv' /\ RefusedRetried'
    BY <1>4 DEF CallbackRecheck, PartyInv, StopInv, StopNotLost, OutcomeInv, RefusedRetried, Cancelled, Emit
  <2> QED BY <2>2, <2>3, <2>4
<1>5. CASE CallbackJoin
  <2>2. Types'  BY <1>5 DEF CallbackJoin, FlagInv, PartyInv, Resume, Wrap
  <2>3. FlagInv' /\ PartyInv' /\ ShapeInv'  BY <1>5 DEF CallbackJoin, FlagInv, PartyInv, Resume, Wrap
  <2>4. StopInv' /\ OutcomeInv' /\ RefusedRetried'
    BY <1>5 DEF CallbackJoin, PartyInv, StopInv, StopNotLost, OutcomeInv, RefusedRetried, Resume, Wrap
  <2> QED BY <2>2, <2>3, <2>4
<1>6. CASE HandshakeCallback
  <2>2. Types'  BY <1>6 DEF HandshakeCallback, FlagInv, PartyInv, Resume, Wrap
  <2>3. FlagInv' /\ PartyInv' /\ ShapeInv'  BY <1>6 DEF HandshakeCallback, FlagInv, PartyInv, Resume, Wrap
  <2>4. StopInv' /\ OutcomeInv' /\ RefusedRetried'
    BY <1>6 DEF HandshakeCallback, PartyInv, StopInv, StopNotLost, OutcomeInv, RefusedRetried, Resume, Wrap
  <2> QED BY <2>2, <2>3, <2>4
<1> QED BY <1>1, <1>2, <1>3, <1>4, <1>5, <1>6

\* A retry keeps it: the flag is reset when all are to come again.
LEMMA RetryStep ==
    ASSUME CharSigned, IInv,
           TimerFires \/ CallbackTail \/ InitTail
    PROVE  IInv'
<1> USE AsioConnectAssumption
        DEF IInv, Types, TypeOK, Phase, Kind, Ec, Tls, Client, Direct, Count, Underway, Remaining, ShapeInv, fixed
<1>1. CASE TimerFires
  <2>1. timer' \in BOOLEAN /\ mCancellationRequested' \in BOOLEAN  BY <1>1 DEF TimerFires
  <2>2. Types'  BY <1>1, <2>1 DEF TimerFires, FlagInv, PartyInv
  <2>3. FlagInv' /\ PartyInv' /\ ShapeInv'  BY <1>1 DEF TimerFires, FlagInv, PartyInv
  <2>4. StopInv' /\ OutcomeInv' /\ RefusedRetried'
    BY <1>1 DEF TimerFires, PartyInv, StopInv, StopNotLost, OutcomeInv, RefusedRetried
  <2> QED BY <2>2, <2>3, <2>4
<1>2. CASE CallbackTail
  <2>2. Types'  BY <1>2 DEF CallbackTail, FlagInv, PartyInv, Cancelled, Emit
  <2>3. FlagInv' /\ PartyInv' /\ ShapeInv'  BY <1>2 DEF CallbackTail, FlagInv, PartyInv, Cancelled, Emit
  <2>4. StopInv' /\ OutcomeInv' /\ RefusedRetried'
    BY <1>2 DEF CallbackTail, PartyInv, StopInv, StopNotLost, OutcomeInv, RefusedRetried, Cancelled, Emit
  <2> QED BY <2>2, <2>3, <2>4
<1>3. CASE InitTail
  <2>2. Types'  BY <1>3 DEF InitTail, FlagInv, PartyInv, Cancelled, Emit
  <2>3. FlagInv' /\ PartyInv' /\ ShapeInv'  BY <1>3 DEF InitTail, FlagInv, PartyInv, Cancelled, Emit
  <2>4. StopInv' /\ OutcomeInv' /\ RefusedRetried'
    BY <1>3 DEF InitTail, PartyInv, StopInv, StopNotLost, OutcomeInv, RefusedRetried, Cancelled, Emit
  <2> QED BY <2>2, <2>3, <2>4
<1> QED BY <1>1, <1>2, <1>3

\* A stop and the destructor keep it: they do not touch the flag.
LEMMA StopStep ==
    ASSUME CharSigned, IInv,
           StopFlag \/ StopEmit \/ DestroySignal \/ DestroyReg
    PROVE  IInv'
<1> USE AsioConnectAssumption
        DEF IInv, Types, TypeOK, Phase, Kind, Ec, Tls, Client, Direct, Count, Underway, Remaining, ShapeInv, fixed
<1>1. CASE StopFlag
  <2>1. timer' \in BOOLEAN /\ mCancellationRequested' \in BOOLEAN  BY <1>1 DEF StopFlag
  <2>2. Types'  BY <1>1, <2>1 DEF StopFlag, FlagInv, PartyInv
  <2>3. FlagInv' /\ PartyInv' /\ ShapeInv'  BY <1>1 DEF StopFlag, FlagInv, PartyInv
  <2>4. StopInv' /\ OutcomeInv' /\ RefusedRetried'
    BY <1>1 DEF StopFlag, PartyInv, StopInv, StopNotLost, OutcomeInv, RefusedRetried
  <2> QED BY <2>2, <2>3, <2>4
<1>2. CASE StopEmit
  <2>2. Types'  BY <1>2 DEF StopEmit, FlagInv, PartyInv, Emit
  <2>3. FlagInv' /\ PartyInv' /\ ShapeInv'  BY <1>2 DEF StopEmit, FlagInv, PartyInv, Emit
  <2>4. StopInv' /\ OutcomeInv' /\ RefusedRetried'
    BY <1>2 DEF StopEmit, PartyInv, StopInv, StopNotLost, OutcomeInv, RefusedRetried, Emit
  <2> QED BY <2>2, <2>3, <2>4
<1>3. CASE DestroySignal
  <2>2. Types'  BY <1>3 DEF DestroySignal, FlagInv, PartyInv
  <2>3. FlagInv' /\ PartyInv' /\ ShapeInv'  BY <1>3 DEF DestroySignal, FlagInv, PartyInv
  <2>4. StopInv' /\ OutcomeInv' /\ RefusedRetried'
    BY <1>3 DEF DestroySignal, PartyInv, StopInv, StopNotLost, OutcomeInv, RefusedRetried
  <2> QED BY <2>2, <2>3, <2>4
<1>4. CASE DestroyReg
  <2>2. Types'  BY <1>4 DEF DestroyReg, FlagInv, PartyInv
  <2>3. FlagInv' /\ PartyInv' /\ ShapeInv'  BY <1>4 DEF DestroyReg, FlagInv, PartyInv
  <2>4. StopInv' /\ OutcomeInv' /\ RefusedRetried'
    BY <1>4 DEF DestroyReg, PartyInv, StopInv, StopNotLost, OutcomeInv, RefusedRetried
  <2> QED BY <2>2, <2>3, <2>4
<1> QED BY <1>1, <1>2, <1>3, <1>4

\* The network keeps it: a call that was pending has an outcome.
LEMMA NetworkStep ==
    ASSUME CharSigned, IInv, NEW ec \in {"success", "refused", "failed"},
           Connected(ec) \/ Handshaked(ec)
    PROVE  IInv'
<1> USE AsioConnectAssumption
        DEF IInv, Types, TypeOK, Phase, Kind, Ec, Tls, Client, Direct, Count, Underway, Remaining, ShapeInv, fixed
<1>1. CASE Connected(ec)
  <2>2. Types'  BY <1>1 DEF Connected, FlagInv, PartyInv
  <2>3. FlagInv' /\ PartyInv' /\ ShapeInv'  BY <1>1 DEF Connected, FlagInv, PartyInv
  <2>4. StopInv' /\ OutcomeInv' /\ RefusedRetried'
    BY <1>1 DEF Connected, PartyInv, StopInv, StopNotLost, OutcomeInv, RefusedRetried
  <2> QED BY <2>2, <2>3, <2>4
<1>2. CASE Handshaked(ec)
  <2>2. Types'  BY <1>2 DEF Handshaked, FlagInv, PartyInv
  <2>3. FlagInv' /\ PartyInv' /\ ShapeInv'  BY <1>2 DEF Handshaked, FlagInv, PartyInv
  <2>4. StopInv' /\ OutcomeInv' /\ RefusedRetried'
    BY <1>2 DEF Handshaked, PartyInv, StopInv, StopNotLost, OutcomeInv, RefusedRetried
  <2> QED BY <2>2, <2>3, <2>4
<1> QED BY <1>1, <1>2

\* Every step keeps it.
LEMMA Step ==
    ASSUME CharSigned, IInv, [Next]_vars
    PROVE  IInv'
<1>1. CASE ThreadStep
  BY <1>1, InitiatorStep, CallbackStep, RetryStep, StopStep DEF ThreadStep
<1>2. CASE StopFlag \/ DestroySignal \/ DestroyReg
  BY <1>2, StopStep
<1>3. CASE \E ec \in {"success", "refused", "failed"} : Connected(ec)
  BY <1>3, NetworkStep
<1>4. CASE \E ec \in {"success", "failed"} : Handshaked(ec)
  BY <1>4, NetworkStep
<1>5. CASE UNCHANGED vars
  <2>1. StopInv' /\ OutcomeInv' /\ RefusedRetried'
    BY <1>5 DEF vars, fixed, IInv, StopInv, StopNotLost, OutcomeInv, RefusedRetried, Tls, Ec, Underway
  <2>2. FlagInv' /\ PartyInv' /\ ShapeInv'
    BY <1>5 DEF vars, fixed, IInv, FlagInv, PartyInv, ShapeInv, Remaining, Underway, Tls, Direct, Client, Count
  <2>3. Types'
    BY <1>5 DEF vars, fixed, IInv, Types, TypeOK, Count
  <2> QED BY <2>1, <2>2, <2>3 DEF IInv
<1> QED BY <1>1, <1>2, <1>3, <1>4, <1>5 DEF Next

\* The flag always counts the parties that are still to come to it.
THEOREM FlagCounts ==
    ASSUME CharSigned
    PROVE  Spec => []IInv
BY InitIInv, Step, PTL DEF Spec

\* Once the coroutine has gone on, and may destroy the object, no call, timer
\* or handshake is outstanding, and no callback and no initiator before its
\* exchange or decrement of mSynchronousFlag is left, with any number of
\* retries, and stops at any time.  Excepted is the initiator of a plain
\* connect in the tail of retry(), which runs after its exchange.
THEOREM NothingOutstanding ==
    ASSUME CharSigned
    PROVE  Spec => []LastOneResumes
<1>1. IInv => LastOneResumes
  BY DEF IInv, PartyInv, ShapeInv, Types, TypeOK, Remaining, Underway, Count, LastOneResumes, Tls, Client, Kind
<1> QED BY <1>1, FlagCounts, PTL

\* A suspended coroutine always has somebody left who can resume it.
THEOREM NobodyAbandoned ==
    ASSUME CharSigned
    PROVE  Spec => []NotAbandoned
<1>1. IInv => NotAbandoned
  BY DEF IInv, PartyInv, ShapeInv, Types, TypeOK, Remaining, Underway, Count, NotAbandoned
<1> QED BY <1>1, FlagCounts, PTL

\* What the coroutine is told is what the last call reported, whichever party
\* resumes it.
THEOREM OutcomesTrue ==
    ASSUME CharSigned
    PROVE  Spec => []OutcomeTrue
<1>1. IInv => OutcomeTrue
  BY DEF IInv, PartyInv, ShapeInv, OutcomeInv, Types, TypeOK, Remaining, Underway, Count, OutcomeTrue, Ec, Tls
<1> QED BY <1>1, FlagCounts, PTL

\* A TCP connect that may retry gives up on a refusal only if it was stopped.
THEOREM RefusalsRetried ==
    ASSUME CharSigned
    PROVE  Spec => []RefusedRetried
<1>1. IInv => RefusedRetried  BY DEF IInv
<1> QED BY <1>1, FlagCounts, PTL

\* A stop is never lost: what is pending after the stop callback emitted is
\* looked at again by the party that started it.
THEOREM NoStopLost ==
    ASSUME CharSigned
    PROVE  Spec => []StopNotLost
<1>1. IInv => StopNotLost  BY DEF IInv, StopInv
<1> QED BY <1>1, FlagCounts, PTL
=============================================================================
