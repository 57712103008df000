---------------------------- MODULE AsioIoProofs ----------------------------
(***************************************************************************)
(* Proofs about AsioIo, for any number of operations one after the other   *)
(* in both directions, on a strand or not.                                 *)
(***************************************************************************)
EXTENDS AsioIo, TLAPS

\* The call below has not been made, or has not come to the flag yet.
CallToCome(t) == initPc[t] \in {"posted", "open"} \/ op[t] # "none" \/ cbPc[t] # "none"
InitToCome(t) == initPc[t] # "none"

\* Who is still to come to mSynchronousFlag, and what the flag says of it.
MeetInv(t) ==
    /\ phase[t] = "suspended" <=> CallToCome(t) \/ InitToCome(t)
    /\ phase[t] = "suspended" => (mSynchronousFlag[t] <=> ~(CallToCome(t) /\ InitToCome(t)))
    /\ phase[t] = "none" => ~mSynchronousFlag[t] /\ stopPc[t] = "none"
    /\ resumes[t] = IF phase[t] = "resumed" THEN 1 ELSE 0

\* Where the operation below and the callback are.
CallInv(t) ==
    /\ initPc[t] \in {"posted", "open"} => op[t] = "none" /\ cbPc[t] = "none"
    /\ op[t] \in Ec <=> cbPc[t] = "queued"
    /\ op[t] = "pending" => cbPc[t] = "none"

\* A party holds its locks until it is about to come to the flag.
InitHolds(t) == initPc[t] \in {"posted", "open", "sent", "release"}
CallHolds(t) == op[t] # "none" \/ cbPc[t] \in {"queued", "release"}
LockInv(t) ==
    /\ "initiator" \in mActiveCount[t] <=> InitHolds(t)
    /\ "callback" \in mActiveCount[t] <=> CallHolds(t)
    /\ <<t, "initiator">> \in mOpCount <=> InitHolds(t)
    /\ <<t, "callback">> \in mOpCount <=> CallHolds(t)

\* The outcome is known once the callback has run, and has a cause.
OutcomeInv(t) ==
    /\ phase[t] = "none" => mEc[t] = None
    /\ cbPc[t] \in {"release", "join"} => mEc[t] # None
    /\ phase[t] = "resumed" \/ (phase[t] = "suspended" /\ ~CallToCome(t)) => mEc[t] # None
    /\ "operation_aborted" \in {op[t], mEc[t]} => Cancelled(t) \/ closed

\* The stop callback runs only if there is a token, and is not lost.
StopInv(t) ==
    /\ stopPc[t] # "none" => mToken[t]
    /\ stopPc[t] \in {"emit", "fired"} => mCancellationRequested[t]
    /\ stopPc[t] = "fired" /\ initPc[t] \in {"none", "release", "join"} => op[t] # "pending"

\* close() holds a lock on the socket's state until it has run.
CloseInv ==
    /\ <<"close", "initiator">> \in mOpCount <=> closing = "posted"
    /\ <<"close", "callback">> \notin mOpCount
    /\ terminated # "lifetime"

\* On a strand one initiator or callback runs at a time, so that mSslLock is
\* free whenever an initiator comes to it.
InitRuns(t) == initPc[t] \in {"open", "sent", "release", "join"}
CallRuns(t) == cbPc[t] \in {"release", "join"}
StrandInv ==
    /\ terminated # "sslLock"
    /\ ~strand => \A t \in Type : ~InitRuns(t) /\ ~CallRuns(t)
    /\ \A t \in Type : InitRuns(t) => ~CallRuns(t)
    /\ \A t, v \in Type : t # v => ~((InitRuns(t) \/ CallRuns(t)) /\ (InitRuns(v) \/ CallRuns(v)))
    /\ mSslLock => \E t \in Type : initPc[t] = "open"

Each(t) == MeetInv(t) /\ CallInv(t) /\ LockInv(t) /\ OutcomeInv(t) /\ StopInv(t)

IInv ==
    /\ TypeOK /\ CloseInv /\ (stranded => StrandInv)
    /\ \A t \in Type : Each(t)
-----------------------------------------------------------------------------
\* It holds for a socket that is not used yet.
LEMMA InitIInv == Init => IInv
<1> SUFFICES ASSUME Init PROVE IInv  OBVIOUS
<1> USE AsioIoAssumption DEF Init, Type, None, Ec, InitPc, CbPc, StopPc, Cancelled
<1>1. strand \in BOOLEAN /\ mSslLock \in BOOLEAN /\ closed \in BOOLEAN  OBVIOUS
<1>2. TypeOK  BY <1>1 DEF TypeOK
<1>3. CloseInv  BY DEF CloseInv
<1>4. StrandInv  BY DEF StrandInv, InitRuns, CallRuns
<1>5. ASSUME NEW t \in Type PROVE Each(t)
  BY DEF Each, MeetInv, CallInv, LockInv, OutcomeInv, StopInv, CallToCome, InitToCome, InitHolds, CallHolds
<1> QED BY <1>2, <1>3, <1>4, <1>5 DEF IInv

\* The start, the stop and the end of an Awaiter keep the invariant.
LEMMA AwaitStep ==
    ASSUME IInv, terminated = None, NEW u \in Type, NEW token \in BOOLEAN, NEW stopped \in BOOLEAN,
           Await(u, token, stopped) \/ StopFlag(u) \/ StopEmit(u) \/ DestroyAwaiter(u)
    PROVE  IInv'
<1> USE AsioIoAssumption
        DEF IInv, Each, Type, None, Ec, InitPc, CbPc, StopPc, Cancelled, CallToCome, InitToCome,
            InitHolds, CallHolds, InitRuns, CallRuns
<1>1. CASE Await(u, token, stopped)
  <2>1. strand' \in BOOLEAN /\ mSslLock' \in BOOLEAN /\ closed' \in BOOLEAN  BY <1>1 DEF TypeOK, Await
  <2>2. TypeOK'  BY <1>1, <2>1 DEF TypeOK, MeetInv, CallInv, Await
  <2>3. CloseInv'  BY <1>1 DEF TypeOK, CloseInv, LockInv, MeetInv, Await
  <2>4. (stranded => StrandInv)'  BY <1>1 DEF TypeOK, CallInv, StrandInv, MeetInv, Await
  <2>5. ASSUME NEW t \in Type PROVE Each(t)'
    <3>1. MeetInv(t)' /\ CallInv(t)'  BY <1>1 DEF TypeOK, MeetInv, CallInv, Await
    <3>2. LockInv(t)'  BY <1>1 DEF TypeOK, LockInv, MeetInv, CallInv, Await
    <3>3. OutcomeInv(t)'  BY <1>1 DEF TypeOK, OutcomeInv, MeetInv, CallInv, StopInv, Await
    <3>4. StopInv(t)'  BY <1>1 DEF TypeOK, StopInv, MeetInv, CallInv, Await
    <3> QED BY <3>1, <3>2, <3>3, <3>4
  <2> QED BY <2>2, <2>3, <2>4, <2>5
<1>2. CASE StopFlag(u)
  <2>1. strand' \in BOOLEAN /\ mSslLock' \in BOOLEAN /\ closed' \in BOOLEAN
    BY <1>2 DEF TypeOK, StopFlag, sockVars
  <2>2. TypeOK'  BY <1>2, <2>1 DEF TypeOK, MeetInv, CallInv, StopFlag, sockVars
  <2>3. CloseInv'  BY <1>2 DEF TypeOK, CloseInv, LockInv, MeetInv, StopFlag, sockVars
  <2>4. (stranded => StrandInv)'  BY <1>2 DEF TypeOK, CallInv, StrandInv, StopFlag, sockVars
  <2>5. ASSUME NEW t \in Type PROVE Each(t)'
    <3>1. MeetInv(t)' /\ CallInv(t)'  BY <1>2 DEF TypeOK, MeetInv, CallInv, StopFlag, sockVars
    <3>2. LockInv(t)'  BY <1>2 DEF TypeOK, LockInv, MeetInv, CallInv, StopFlag, sockVars
    <3>3. OutcomeInv(t)'  BY <1>2 DEF TypeOK, OutcomeInv, MeetInv, CallInv, StopInv, StopFlag, sockVars
    <3>4. StopInv(t)'  BY <1>2 DEF TypeOK, StopInv, MeetInv, CallInv, StopFlag, sockVars
    <3> QED BY <3>1, <3>2, <3>3, <3>4
  <2> QED BY <2>2, <2>3, <2>4, <2>5
<1>3. CASE StopEmit(u)
  <2>1. strand' \in BOOLEAN /\ mSslLock' \in BOOLEAN /\ closed' \in BOOLEAN
    BY <1>3 DEF TypeOK, StopEmit, Emit, sockVars
  <2>2. TypeOK'  BY <1>3, <2>1 DEF TypeOK, MeetInv, CallInv, StopEmit, Emit, sockVars
  <2>3. CloseInv'  BY <1>3 DEF TypeOK, CloseInv, LockInv, MeetInv, StopEmit, Emit, sockVars
  <2>4. (stranded => StrandInv)'  BY <1>3 DEF TypeOK, CallInv, StrandInv, StopEmit, Emit, sockVars
  <2>5. ASSUME NEW t \in Type PROVE Each(t)'
    <3>1. MeetInv(t)' /\ CallInv(t)'  BY <1>3 DEF TypeOK, MeetInv, CallInv, StopEmit, Emit, sockVars
    <3>2. LockInv(t)'  BY <1>3 DEF TypeOK, LockInv, MeetInv, CallInv, StopEmit, Emit, sockVars
    <3>3. OutcomeInv(t)'  BY <1>3 DEF TypeOK, OutcomeInv, MeetInv, CallInv, StopInv, StopEmit, Emit, sockVars
    <3>4. StopInv(t)'  BY <1>3 DEF TypeOK, StopInv, MeetInv, CallInv, StopEmit, Emit, sockVars
    <3> QED BY <3>1, <3>2, <3>3, <3>4
  <2> QED BY <2>2, <2>3, <2>4, <2>5
<1>4. CASE DestroyAwaiter(u)
  <2>1. strand' \in BOOLEAN /\ mSslLock' \in BOOLEAN /\ closed' \in BOOLEAN
    BY <1>4 DEF TypeOK, DestroyAwaiter, Forget
  <2>2. TypeOK'  BY <1>4, <2>1 DEF TypeOK, MeetInv, CallInv, DestroyAwaiter, Forget
  <2>3. CloseInv'  BY <1>4 DEF TypeOK, CloseInv, LockInv, MeetInv, DestroyAwaiter, Forget
  <2>4. (stranded => StrandInv)'  BY <1>4 DEF TypeOK, CallInv, StrandInv, DestroyAwaiter, Forget
  <2>5. ASSUME NEW t \in Type PROVE Each(t)'
    <3>1. MeetInv(t)' /\ CallInv(t)'  BY <1>4 DEF TypeOK, MeetInv, CallInv, DestroyAwaiter, Forget
    <3>2. LockInv(t)'  BY <1>4 DEF TypeOK, LockInv, MeetInv, CallInv, DestroyAwaiter, Forget
    <3>3. OutcomeInv(t)'  BY <1>4 DEF TypeOK, OutcomeInv, MeetInv, CallInv, StopInv, DestroyAwaiter, Forget
    <3>4. StopInv(t)'  BY <1>4 DEF TypeOK, StopInv, MeetInv, CallInv, DestroyAwaiter, Forget
    <3> QED BY <3>1, <3>2, <3>3, <3>4
  <2> QED BY <2>2, <2>3, <2>4, <2>5
<1> QED BY <1>1, <1>2, <1>3, <1>4

\* The initiator keeps it: it gives up its locks, then comes to the flag.
LEMMA InitiatorStep ==
    ASSUME IInv, terminated = None, NEW u \in Type,
           StartAborted(u) \/ Start(u) \/ Initiate(u) \/ Recheck(u) \/ InitRelease(u) \/ InitJoin(u)
    PROVE  IInv'
<1> USE AsioIoAssumption
        DEF IInv, Each, Type, None, Ec, InitPc, CbPc, StopPc, Cancelled, CallToCome, InitToCome,
            InitHolds, CallHolds, InitRuns, CallRuns
<1>1. CASE StartAborted(u)
  <2>1. strand' \in BOOLEAN /\ mSslLock' \in BOOLEAN /\ closed' \in BOOLEAN
    BY <1>1 DEF TypeOK, StartAborted, Unlock, Resume
  <2>2. TypeOK'  BY <1>1, <2>1 DEF TypeOK, MeetInv, CallInv, StartAborted, Unlock, Resume
  <2>3. CloseInv'  BY <1>1 DEF TypeOK, CloseInv, LockInv, MeetInv, StartAborted, Unlock, Resume
  <2>4. (stranded => StrandInv)'  BY <1>1 DEF TypeOK, CallInv, StrandInv, StartAborted, Unlock, Resume
  <2>5. ASSUME NEW t \in Type PROVE Each(t)'
    <3>1. MeetInv(t)' /\ CallInv(t)'  BY <1>1 DEF TypeOK, MeetInv, CallInv, StartAborted, Unlock, Resume
    <3>2. LockInv(t)'  BY <1>1 DEF TypeOK, LockInv, MeetInv, CallInv, StartAborted, Unlock, Resume
    <3>3. OutcomeInv(t)'
      BY <1>1 DEF TypeOK, OutcomeInv, MeetInv, CallInv, StopInv, StartAborted, Unlock, Resume
    <3>4. StopInv(t)'  BY <1>1 DEF TypeOK, StopInv, MeetInv, CallInv, StartAborted, Unlock, Resume
    <3> QED BY <3>1, <3>2, <3>3, <3>4
  <2> QED BY <2>2, <2>3, <2>4, <2>5
<1>2. CASE Start(u)
  <2>1. strand' \in BOOLEAN /\ mSslLock' \in BOOLEAN /\ closed' \in BOOLEAN  BY <1>2 DEF TypeOK, Start, Enter
  <2>2. TypeOK'  BY <1>2, <2>1 DEF TypeOK, MeetInv, CallInv, Start, Enter
  <2>3. CloseInv'  BY <1>2 DEF TypeOK, CloseInv, LockInv, MeetInv, Start, Enter
  <2>4. (stranded => StrandInv)'  BY <1>2 DEF TypeOK, CallInv, StrandInv, Start, Enter
  <2>5. ASSUME NEW t \in Type PROVE Each(t)'
    <3>1. MeetInv(t)' /\ CallInv(t)'  BY <1>2 DEF TypeOK, MeetInv, CallInv, Start, Enter
    <3>2. LockInv(t)'  BY <1>2 DEF TypeOK, LockInv, MeetInv, CallInv, Start, Enter
    <3>3. OutcomeInv(t)'  BY <1>2 DEF TypeOK, OutcomeInv, MeetInv, CallInv, StopInv, Start, Enter
    <3>4. StopInv(t)'  BY <1>2 DEF TypeOK, StopInv, MeetInv, CallInv, Start, Enter
    <3> QED BY <3>1, <3>2, <3>3, <3>4
  <2> QED BY <2>2, <2>3, <2>4, <2>5
<1>3. CASE Initiate(u)
  <2>1. strand' \in BOOLEAN /\ mSslLock' \in BOOLEAN /\ closed' \in BOOLEAN
    BY <1>3 DEF TypeOK, Initiate, Stay
  <2>2. TypeOK'  BY <1>3, <2>1 DEF TypeOK, MeetInv, CallInv, Initiate, Stay
  <2>3. CloseInv'  BY <1>3 DEF TypeOK, CloseInv, LockInv, MeetInv, Initiate, Stay
  <2>4. (stranded => StrandInv)'  BY <1>3 DEF TypeOK, CallInv, StrandInv, Initiate, Stay
  <2>5. ASSUME NEW t \in Type PROVE Each(t)'
    <3>1. MeetInv(t)' /\ CallInv(t)'  BY <1>3 DEF TypeOK, MeetInv, CallInv, Initiate, Stay
    <3>2. LockInv(t)'  BY <1>3 DEF TypeOK, LockInv, MeetInv, CallInv, Initiate, Stay
    <3>3. OutcomeInv(t)'  BY <1>3 DEF TypeOK, OutcomeInv, MeetInv, CallInv, StopInv, Initiate, Stay
    <3>4. StopInv(t)'  BY <1>3 DEF TypeOK, StopInv, MeetInv, CallInv, Initiate, Stay
    <3> QED BY <3>1, <3>2, <3>3, <3>4
  <2> QED BY <2>2, <2>3, <2>4, <2>5
<1>4. CASE Recheck(u)
  <2>1. strand' \in BOOLEAN /\ mSslLock' \in BOOLEAN /\ closed' \in BOOLEAN
    BY <1>4 DEF TypeOK, Recheck, Emit, Stay
  <2>2. TypeOK'  BY <1>4, <2>1 DEF TypeOK, MeetInv, CallInv, Recheck, Emit, Stay
  <2>3. CloseInv'  BY <1>4 DEF TypeOK, CloseInv, LockInv, MeetInv, Recheck, Emit, Stay
  <2>4. (stranded => StrandInv)'  BY <1>4 DEF TypeOK, CallInv, StrandInv, Recheck, Emit, Stay
  <2>5. ASSUME NEW t \in Type PROVE Each(t)'
    <3>1. MeetInv(t)' /\ CallInv(t)'  BY <1>4 DEF TypeOK, MeetInv, CallInv, Recheck, Emit, Stay
    <3>2. LockInv(t)'  BY <1>4 DEF TypeOK, LockInv, MeetInv, CallInv, Recheck, Emit, Stay
    <3>3. OutcomeInv(t)'  BY <1>4 DEF TypeOK, OutcomeInv, MeetInv, CallInv, StopInv, Recheck, Emit, Stay
    <3>4. StopInv(t)'  BY <1>4 DEF TypeOK, StopInv, MeetInv, CallInv, Recheck, Emit, Stay
    <3> QED BY <3>1, <3>2, <3>3, <3>4
  <2> QED BY <2>2, <2>3, <2>4, <2>5
<1>5. CASE InitRelease(u)
  <2>1. strand' \in BOOLEAN /\ mSslLock' \in BOOLEAN /\ closed' \in BOOLEAN
    BY <1>5 DEF TypeOK, InitRelease, Unlock, Stay
  <2>2. TypeOK'  BY <1>5, <2>1 DEF TypeOK, MeetInv, CallInv, InitRelease, Unlock, Stay
  <2>3. CloseInv'  BY <1>5 DEF TypeOK, CloseInv, LockInv, MeetInv, InitRelease, Unlock, Stay
  <2>4. (stranded => StrandInv)'  BY <1>5 DEF TypeOK, CallInv, StrandInv, InitRelease, Unlock, Stay
  <2>5. ASSUME NEW t \in Type PROVE Each(t)'
    <3>1. MeetInv(t)' /\ CallInv(t)'  BY <1>5 DEF TypeOK, MeetInv, CallInv, InitRelease, Unlock, Stay
    <3>2. LockInv(t)'  BY <1>5 DEF TypeOK, LockInv, MeetInv, CallInv, InitRelease, Unlock, Stay
    <3>3. OutcomeInv(t)'  BY <1>5 DEF TypeOK, OutcomeInv, MeetInv, CallInv, StopInv, InitRelease, Unlock, Stay
    <3>4. StopInv(t)'  BY <1>5 DEF TypeOK, StopInv, MeetInv, CallInv, InitRelease, Unlock, Stay
    <3> QED BY <3>1, <3>2, <3>3, <3>4
  <2> QED BY <2>2, <2>3, <2>4, <2>5
<1>6. CASE InitJoin(u)
  <2>1. strand' \in BOOLEAN /\ mSslLock' \in BOOLEAN /\ closed' \in BOOLEAN
    BY <1>6 DEF TypeOK, InitJoin, Meet, Resume, Leave
  <2>2. TypeOK'  BY <1>6, <2>1 DEF TypeOK, MeetInv, CallInv, InitJoin, Meet, Resume, Leave
  <2>3. CloseInv'  BY <1>6 DEF TypeOK, CloseInv, LockInv, MeetInv, InitJoin, Meet, Resume, Leave
  <2>4. (stranded => StrandInv)'  BY <1>6 DEF TypeOK, CallInv, StrandInv, InitJoin, Meet, Resume, Leave
  <2>5. ASSUME NEW t \in Type PROVE Each(t)'
    <3>1. MeetInv(t)' /\ CallInv(t)'  BY <1>6 DEF TypeOK, MeetInv, CallInv, InitJoin, Meet, Resume, Leave
    <3>2. LockInv(t)'  BY <1>6 DEF TypeOK, LockInv, MeetInv, CallInv, InitJoin, Meet, Resume, Leave
    <3>3. OutcomeInv(t)'
      BY <1>6 DEF TypeOK, OutcomeInv, MeetInv, CallInv, StopInv, InitJoin, Meet, Resume, Leave
    <3>4. StopInv(t)'  BY <1>6 DEF TypeOK, StopInv, MeetInv, CallInv, InitJoin, Meet, Resume, Leave
    <3> QED BY <3>1, <3>2, <3>3, <3>4
  <2> QED BY <2>2, <2>3, <2>4, <2>5
<1> QED BY <1>1, <1>2, <1>3, <1>4, <1>5, <1>6

\* The transport and the callback keep it.
LEMMA HandlerStep ==
    ASSUME IInv, terminated = None, NEW u \in Type, NEW ec \in {"success", "remoteClosed"},
           Transfer(u, ec) \/ Callback(u) \/ CallbackRelease(u) \/ CallbackJoin(u)
    PROVE  IInv'
<1> USE AsioIoAssumption
        DEF IInv, Each, Type, None, Ec, InitPc, CbPc, StopPc, Cancelled, CallToCome, InitToCome,
            InitHolds, CallHolds, InitRuns, CallRuns
<1>1. CASE Transfer(u, ec)
  <2>1. strand' \in BOOLEAN /\ mSslLock' \in BOOLEAN /\ closed' \in BOOLEAN
    BY <1>1 DEF TypeOK, Transfer, sockVars
  <2>2. TypeOK'  BY <1>1, <2>1 DEF TypeOK, MeetInv, CallInv, Transfer, sockVars
  <2>3. CloseInv'  BY <1>1 DEF TypeOK, CloseInv, LockInv, MeetInv, Transfer, sockVars
  <2>4. (stranded => StrandInv)'  BY <1>1 DEF TypeOK, CallInv, StrandInv, Transfer, sockVars
  <2>5. ASSUME NEW t \in Type PROVE Each(t)'
    <3>1. MeetInv(t)' /\ CallInv(t)'  BY <1>1 DEF TypeOK, MeetInv, CallInv, Transfer, sockVars
    <3>2. LockInv(t)'  BY <1>1 DEF TypeOK, LockInv, MeetInv, CallInv, Transfer, sockVars
    <3>3. OutcomeInv(t)'  BY <1>1 DEF TypeOK, OutcomeInv, MeetInv, CallInv, StopInv, Transfer, sockVars
    <3>4. StopInv(t)'  BY <1>1 DEF TypeOK, StopInv, MeetInv, CallInv, Transfer, sockVars
    <3> QED BY <3>1, <3>2, <3>3, <3>4
  <2> QED BY <2>2, <2>3, <2>4, <2>5
<1>2. CASE Callback(u)
  <2>1. strand' \in BOOLEAN /\ mSslLock' \in BOOLEAN /\ closed' \in BOOLEAN
    BY <1>2 DEF TypeOK, Callback, Enter
  <2>2. TypeOK'  BY <1>2, <2>1 DEF TypeOK, MeetInv, CallInv, Callback, Enter
  <2>3. CloseInv'  BY <1>2 DEF TypeOK, CloseInv, LockInv, MeetInv, Callback, Enter
  <2>4. (stranded => StrandInv)'  BY <1>2 DEF TypeOK, CallInv, StrandInv, Callback, Enter
  <2>5. ASSUME NEW t \in Type PROVE Each(t)'
    <3>1. MeetInv(t)' /\ CallInv(t)'  BY <1>2 DEF TypeOK, MeetInv, CallInv, Callback, Enter
    <3>2. LockInv(t)'  BY <1>2 DEF TypeOK, LockInv, MeetInv, CallInv, Callback, Enter
    <3>3. OutcomeInv(t)'  BY <1>2 DEF TypeOK, OutcomeInv, MeetInv, CallInv, StopInv, Callback, Enter
    <3>4. StopInv(t)'  BY <1>2 DEF TypeOK, StopInv, MeetInv, CallInv, Callback, Enter
    <3> QED BY <3>1, <3>2, <3>3, <3>4
  <2> QED BY <2>2, <2>3, <2>4, <2>5
<1>3. CASE CallbackRelease(u)
  <2>1. strand' \in BOOLEAN /\ mSslLock' \in BOOLEAN /\ closed' \in BOOLEAN
    BY <1>3 DEF TypeOK, CallbackRelease, Unlock, Stay
  <2>2. TypeOK'  BY <1>3, <2>1 DEF TypeOK, MeetInv, CallInv, CallbackRelease, Unlock, Stay
  <2>3. CloseInv'  BY <1>3 DEF TypeOK, CloseInv, LockInv, MeetInv, CallbackRelease, Unlock, Stay
  <2>4. (stranded => StrandInv)'  BY <1>3 DEF TypeOK, CallInv, StrandInv, CallbackRelease, Unlock, Stay
  <2>5. ASSUME NEW t \in Type PROVE Each(t)'
    <3>1. MeetInv(t)' /\ CallInv(t)'  BY <1>3 DEF TypeOK, MeetInv, CallInv, CallbackRelease, Unlock, Stay
    <3>2. LockInv(t)'  BY <1>3 DEF TypeOK, LockInv, MeetInv, CallInv, CallbackRelease, Unlock, Stay
    <3>3. OutcomeInv(t)'
      BY <1>3 DEF TypeOK, OutcomeInv, MeetInv, CallInv, StopInv, CallbackRelease, Unlock, Stay
    <3>4. StopInv(t)'  BY <1>3 DEF TypeOK, StopInv, MeetInv, CallInv, CallbackRelease, Unlock, Stay
    <3> QED BY <3>1, <3>2, <3>3, <3>4
  <2> QED BY <2>2, <2>3, <2>4, <2>5
<1>4. CASE CallbackJoin(u)
  <2>1. strand' \in BOOLEAN /\ mSslLock' \in BOOLEAN /\ closed' \in BOOLEAN
    BY <1>4 DEF TypeOK, CallbackJoin, Meet, Resume, Leave
  <2>2. TypeOK'  BY <1>4, <2>1 DEF TypeOK, MeetInv, CallInv, CallbackJoin, Meet, Resume, Leave
  <2>3. CloseInv'  BY <1>4 DEF TypeOK, CloseInv, LockInv, MeetInv, CallbackJoin, Meet, Resume, Leave
  <2>4. (stranded => StrandInv)'  BY <1>4 DEF TypeOK, CallInv, StrandInv, CallbackJoin, Meet, Resume, Leave
  <2>5. ASSUME NEW t \in Type PROVE Each(t)'
    <3>1. MeetInv(t)' /\ CallInv(t)'  BY <1>4 DEF TypeOK, MeetInv, CallInv, CallbackJoin, Meet, Resume, Leave
    <3>2. LockInv(t)'  BY <1>4 DEF TypeOK, LockInv, MeetInv, CallInv, CallbackJoin, Meet, Resume, Leave
    <3>3. OutcomeInv(t)'
      BY <1>4 DEF TypeOK, OutcomeInv, MeetInv, CallInv, StopInv, CallbackJoin, Meet, Resume, Leave
    <3>4. StopInv(t)'  BY <1>4 DEF TypeOK, StopInv, MeetInv, CallInv, CallbackJoin, Meet, Resume, Leave
    <3> QED BY <3>1, <3>2, <3>3, <3>4
  <2> QED BY <2>2, <2>3, <2>4, <2>5
<1> QED BY <1>1, <1>2, <1>3, <1>4

\* close() and the destructor of the socket keep it.
LEMMA CloseStep ==
    ASSUME IInv, terminated = None, 
           CloseCall \/ CloseRun \/ DestroySocket
    PROVE  IInv'
<1> USE AsioIoAssumption
        DEF IInv, Each, Type, None, Ec, InitPc, CbPc, StopPc, Cancelled, CallToCome, InitToCome,
            InitHolds, CallHolds, InitRuns, CallRuns
<1>1. CASE CloseCall
  <2>1. strand' \in BOOLEAN /\ mSslLock' \in BOOLEAN /\ closed' \in BOOLEAN
    BY <1>1 DEF TypeOK, CloseCall, opVars
  <2>2. TypeOK'  BY <1>1, <2>1 DEF TypeOK, MeetInv, CallInv, CloseCall, opVars
  <2>3. CloseInv'  BY <1>1 DEF TypeOK, CloseInv, LockInv, MeetInv, CloseCall, opVars
  <2>4. (stranded => StrandInv)'  BY <1>1 DEF TypeOK, CallInv, StrandInv, CloseCall, opVars
  <2>5. ASSUME NEW t \in Type PROVE Each(t)'
    <3>1. MeetInv(t)' /\ CallInv(t)'  BY <1>1 DEF TypeOK, MeetInv, CallInv, CloseCall, opVars
    <3>2. LockInv(t)'  BY <1>1 DEF TypeOK, LockInv, MeetInv, CallInv, CloseCall, opVars
    <3>3. OutcomeInv(t)'  BY <1>1 DEF TypeOK, OutcomeInv, MeetInv, CallInv, StopInv, CloseCall, opVars
    <3>4. StopInv(t)'  BY <1>1 DEF TypeOK, StopInv, MeetInv, CallInv, CloseCall, opVars
    <3> QED BY <3>1, <3>2, <3>3, <3>4
  <2> QED BY <2>2, <2>3, <2>4, <2>5
<1>2. CASE CloseRun
  <2>1. strand' \in BOOLEAN /\ mSslLock' \in BOOLEAN /\ closed' \in BOOLEAN
    BY <1>2 DEF TypeOK, CloseRun, ClosedOps
  <2>2. TypeOK'  BY <1>2, <2>1 DEF TypeOK, MeetInv, CallInv, CloseRun, ClosedOps
  <2>3. CloseInv'  BY <1>2 DEF TypeOK, CloseInv, LockInv, MeetInv, CloseRun, ClosedOps
  <2>4. (stranded => StrandInv)'  BY <1>2 DEF TypeOK, CallInv, StrandInv, CloseRun, ClosedOps
  <2>5. ASSUME NEW t \in Type PROVE Each(t)'
    <3>1. MeetInv(t)' /\ CallInv(t)'  BY <1>2 DEF TypeOK, MeetInv, CallInv, CloseRun, ClosedOps
    <3>2. LockInv(t)'  BY <1>2 DEF TypeOK, LockInv, MeetInv, CallInv, CloseRun, ClosedOps
    <3>3. OutcomeInv(t)'  BY <1>2 DEF TypeOK, OutcomeInv, MeetInv, CallInv, StopInv, CloseRun, ClosedOps
    <3>4. StopInv(t)'  BY <1>2 DEF TypeOK, StopInv, MeetInv, CallInv, CloseRun, ClosedOps
    <3> QED BY <3>1, <3>2, <3>3, <3>4
  <2> QED BY <2>2, <2>3, <2>4, <2>5
<1>3. CASE DestroySocket
  <2>1. strand' \in BOOLEAN /\ mSslLock' \in BOOLEAN /\ closed' \in BOOLEAN
    BY <1>3 DEF TypeOK, DestroySocket, opVars
  <2>2. TypeOK'  BY <1>3, <2>1 DEF TypeOK, MeetInv, CallInv, DestroySocket, opVars
  <2>3. CloseInv'  BY <1>3 DEF TypeOK, CloseInv, LockInv, MeetInv, DestroySocket, opVars
  <2>4. (stranded => StrandInv)'  BY <1>3 DEF TypeOK, CallInv, StrandInv, DestroySocket, opVars
  <2>5. ASSUME NEW t \in Type PROVE Each(t)'
    <3>1. MeetInv(t)' /\ CallInv(t)'  BY <1>3 DEF TypeOK, MeetInv, CallInv, DestroySocket, opVars
    <3>2. LockInv(t)'  BY <1>3 DEF TypeOK, LockInv, MeetInv, CallInv, DestroySocket, opVars
    <3>3. OutcomeInv(t)'  BY <1>3 DEF TypeOK, OutcomeInv, MeetInv, CallInv, StopInv, DestroySocket, opVars
    <3>4. StopInv(t)'  BY <1>3 DEF TypeOK, StopInv, MeetInv, CallInv, DestroySocket, opVars
    <3> QED BY <3>1, <3>2, <3>3, <3>4
  <2> QED BY <2>2, <2>3, <2>4, <2>5
<1> QED BY <1>1, <1>2, <1>3

\* Every step keeps it.
LEMMA Step ==
    ASSUME IInv, [Next]_vars
    PROVE  IInv'
<1>1. CASE Next
  <2> USE <1>1 DEF Next
  <2>1. CASE UserStep
    BY <2>1, AwaitStep, CloseStep DEF UserStep
  <2>2. CASE CloseRun
    BY <2>2, CloseStep
  <2>3. ASSUME NEW t \in Type, InitStep(t) \/ CallbackStep(t) \/ StopEmit(t) PROVE IInv'
    <3>1. TRUE \in BOOLEAN /\ "success" \in {"success", "remoteClosed"}  OBVIOUS
    <3> QED BY <2>3, <3>1, AwaitStep, InitiatorStep, HandlerStep DEF InitStep, CallbackStep
  <2>4. ASSUME NEW t \in Type, NEW ec \in {"success", "remoteClosed"}, Transfer(t, ec) PROVE IInv'
    BY <2>4, HandlerStep
  <2> QED BY <2>1, <2>2, <2>3, <2>4
<1>2. CASE UNCHANGED vars
  <2> USE <1>2 DEF vars, sockVars, opVars
  <2>1. (TypeOK /\ CloseInv /\ (stranded => StrandInv))'
    BY DEF IInv, TypeOK, CloseInv, StrandInv, InitRuns, CallRuns
  <2>2. ASSUME NEW t \in Type PROVE Each(t)'
    BY DEF IInv, Each, MeetInv, CallInv, LockInv, OutcomeInv, StopInv, Cancelled,
       CallToCome, InitToCome, InitHolds, CallHolds
  <2> QED BY <2>1, <2>2 DEF IInv
<1> QED BY <1>1, <1>2

\* Flag, locks, outcome and stop always fit the places where the parties are.
THEOREM PartiesFit == Spec => []IInv
BY InitIInv, Step, PTL DEF Spec

\* The coroutine is resumed by the last of initiator and callback, so neither
\* touches an Awaiter that may be gone.
THEOREM LastResumes == Spec => []LastOneResumes
<1>1. IInv => LastOneResumes
  BY DEF IInv, Each, MeetInv, CallToCome, InitToCome, LastOneResumes, TypeOK, Type
<1> QED BY <1>1, PartiesFit, PTL

\* await_resume always finds an outcome, and an abort has a cause.
THEOREM OutcomesKnown == Spec => []OutcomeKnown
<1>1. IInv => OutcomeKnown
  BY DEF IInv, Each, OutcomeInv, OutcomeKnown
<1> QED BY <1>1, PartiesFit, PTL

\* No AsioLifetime is destroyed while somebody holds a lock on it.
THEOREM LocksReleased == Spec => []LifetimesOutlast
<1>1. IInv => LifetimesOutlast
  BY DEF IInv, CloseInv, LifetimesOutlast
<1> QED BY <1>1, PartiesFit, PTL

\* On a strand no two operations are initiated at the same time; a stop is
\* never lost, and its callback finds the signal it emits on.
THEOREM StopsAndStarts == Spec => [](InitiationsApart /\ StopNotLost /\ EmitAlive)
<1>1. IInv => InitiationsApart
  BY DEF IInv, StrandInv, InitiationsApart
<1>2. IInv => StopNotLost /\ EmitAlive
  BY DEF IInv, Each, StopInv, MeetInv, StopNotLost, EmitAlive
<1> QED BY <1>1, <1>2, PartiesFit, PTL
=============================================================================
