------------------------ MODULE SockSchedulerProofs ------------------------
(***************************************************************************)
(* The inductive invariant of SockScheduler and what follows from it: the  *)
(* queues of the sends, the queues of the recvs, what operations and       *)
(* flushes report, and the theorems.  They hold for every set of forks and *)
(* slots and every number of operations, and assume ~TailCancel and        *)
(* ~WrapCancel: run lost_send shows that cancelling the newest queued send *)
(* breaks the list of the sends, and an operation whose position in its    *)
(* block has wrapped is completed but not erased when it is stopped.       *)
(***************************************************************************)
EXTENDS SockScheduler, OpSeqProofs
-----------------------------------------------------------------------------
(* The sends *)

\* The parts of SendInv about the structures that hold the send operations ...
SendData ==
    /\ \A o \in SendId : sStatus[o] = "unused" <=> o > numSends
    /\ mSendBufferLast = IF mSendBuffer = <<>> THEN None ELSE mSendBuffer[Len(mSendBuffer)]
    /\ ToSet(mSendBuffer) = Pending(sStatus)
    /\ Increasing(mSendBuffer)
    /\ SendQueuesAgree

\* ... and about the send task.
SendControl ==
    /\ sendPc = "exit" => mEC # "success"
    /\ (mSendStatus = "InUse") = (sendPc \notin {"idle", "exit"})
    /\ sendPc \in {"idle", "exit"} => mSendBuffer = <<>>
    /\ HeadInProgress

SendTypes ==
    /\ mSendBuffer \in Seq(SendId) /\ mSendBufferLast \in SendId \cup {None}
    /\ mSendOps \in [Fork -> Seq(SendId)] 
    /\ numSends \in 0..MaxSends /\ sFork \in [SendId -> Fork]
    /\ sStatus \in [SendId -> OpStatus] 

LEMMA SendInvParts == SendInv <=> SendData /\ SendControl
BY DEF SendInv, SendData, SendControl, SendsReachable

LEMMA SendTypesOf == SendTypeOK => SendTypes
BY DEF SendTypeOK, SendTypes

LEMMA SendIdNat == SendId \in SUBSET Nat /\ RecvId \in SUBSET Nat
BY SchedulerAssumption DEF SendId, RecvId, SchedulerAssumption

\* What is queued was issued and has not completed.
LEMMA SendQueued ==
    ASSUME SendTypes, SendData
    PROVE  /\ \A o \in ToSet(mSendBuffer) :
                o \in SendId /\ o <= numSends /\ sStatus[o] \in {"NotStarted", "InProgress", "Canceling"}
           /\ \A f \in Fork : \A o \in ToSet(mSendOps[f]) : o \in ToSet(mSendBuffer) /\ sFork[o] = f
<1>1. ASSUME NEW o \in ToSet(mSendBuffer)
      PROVE  o \in SendId /\ o <= numSends /\ sStatus[o] \in {"NotStarted", "InProgress", "Canceling"}
  <2>1. o \in SendId /\ sStatus[o] \notin {"unused", "refused", "completed"}
    BY <1>1 DEF SendData, Pending, SendTypes
  <2>2. o <= numSends
    BY <2>1, SendIdNat DEF SendData, SendTypes
  <2> QED BY <2>1, <2>2 DEF SendTypes, OpStatus
<1> QED BY <1>1 DEF SendData, SendQueuesAgree

\* A new operation at the end of the list and of its fork's queue.
LEMMA EnqueueSend ==
    ASSUME SendTypes, SendData, NEW f \in Fork, NEW st \in {"NotStarted", "InProgress"},
           IssueSend(f, st, "none"), EmplaceSend(f),
           mSendBuffer' = Append(mSendBuffer, numSends + 1), mSendBufferLast' = numSends + 1
    PROVE  /\ SendTypes' /\ SendData'
           /\ Len(mSendBuffer') = Len(mSendBuffer) + 1
           /\ \A i \in 1..Len(mSendBuffer) : mSendBuffer'[i] = mSendBuffer[i]
           /\ mSendBuffer'[Len(mSendBuffer) + 1] = numSends + 1
           /\ \A o \in ToSet(mSendBuffer) : sStatus'[o] = sStatus[o]
           /\ sStatus'[numSends + 1] = st
<1> DEFINE n == numSends + 1
<1>1. n \in SendId /\ numSends \in Nat /\ n \in Nat
  BY SchedulerAssumption DEF IssueSend, SendTypes, SendId, SchedulerAssumption
<1>2. /\ numSends' = n
      /\ sFork' = [sFork EXCEPT ![n] = f]
      /\ sStatus' = [sStatus EXCEPT ![n] = st]
      /\ mSendOps' = [mSendOps EXCEPT ![f] = Append(@, n)]
      /\ numSends < MaxSends
  BY DEF IssueSend, EmplaceSend
<1>3. mSendBuffer \in Seq(SendId) /\ mSendOps[f] \in Seq(SendId)  BY DEF SendTypes
<1>4. /\ Append(mSendBuffer, n) \in Seq(SendId)
      /\ Len(Append(mSendBuffer, n)) = Len(mSendBuffer) + 1
      /\ Append(mSendBuffer, n)[Len(mSendBuffer) + 1] = n
      /\ \A i \in 1..Len(mSendBuffer) : Append(mSendBuffer, n)[i] = mSendBuffer[i]
      /\ ToSet(Append(mSendBuffer, n)) = ToSet(mSendBuffer) \cup {n}
  BY <1>1, <1>3, AppendFacts
<1>5. /\ Append(mSendOps[f], n) \in Seq(SendId)
      /\ Len(Append(mSendOps[f], n)) = Len(mSendOps[f]) + 1
      /\ Append(mSendOps[f], n)[Len(mSendOps[f]) + 1] = n
      /\ \A i \in 1..Len(mSendOps[f]) : Append(mSendOps[f], n)[i] = mSendOps[f][i]
      /\ ToSet(Append(mSendOps[f], n)) = ToSet(mSendOps[f]) \cup {n}
  BY <1>1, <1>3, AppendFacts
<1> HIDE DEF n
<1>6. SendTypes'
  <2>1. numSends' \in 0..MaxSends
    BY <1>1, <1>2, SchedulerAssumption DEF SchedulerAssumption, n
  <2>2. sFork' \in [SendId -> Fork] /\ sStatus' \in [SendId -> OpStatus]
    BY <1>1, <1>2 DEF SendTypes, OpStatus
  <2>3. mSendOps' \in [Fork -> Seq(SendId)]  BY <1>2, <1>5 DEF SendTypes
  <2>4. mSendBuffer' \in Seq(SendId) /\ mSendBufferLast' \in SendId \cup {None}
    BY <1>1, <1>4 DEF n
  <2> QED BY <2>1, <2>2, <2>3, <2>4 DEF SendTypes
<1>7. \A o \in ToSet(mSendBuffer) : o \in SendId /\ o # n /\ o < n
  <2> SUFFICES ASSUME NEW o \in ToSet(mSendBuffer) PROVE o \in SendId /\ o # n /\ o < n
    OBVIOUS
  <2>1. o \in SendId /\ o <= numSends  BY SendQueued
  <2>2. o \in Nat  BY <2>1, SendIdNat
  <2> QED BY <1>1, <2>1, <2>2 DEF n
<1>8. \A o \in SendId : sStatus'[o] = IF o = n THEN st ELSE sStatus[o]
  BY <1>1, <1>2 DEF SendTypes
<1>9. \A o \in SendId : sFork'[o] = IF o = n THEN f ELSE sFork[o]
  BY <1>1, <1>2 DEF SendTypes
<1>10. (\A o \in SendId : sStatus[o] = "unused" <=> o > numSends)'
  BY <1>1, <1>2, <1>8, SendIdNat DEF SendData, n
<1>11. (mSendBufferLast = IF mSendBuffer = <<>> THEN None ELSE mSendBuffer[Len(mSendBuffer)])'
  <2>1. mSendBuffer' # <<>>  BY <1>3, <1>4 DEF n
  <2> QED BY <1>4, <2>1 DEF n
<1>12. (ToSet(mSendBuffer) = Pending(sStatus))'
  <2>1. DOMAIN sStatus = SendId /\ DOMAIN sStatus' = SendId  BY <1>6 DEF SendTypes
  <2>2. Pending(sStatus') = Pending(sStatus) \cup {n}
    BY <1>1, <1>8, <2>1 DEF Pending
  <2> QED BY <1>4, <2>2 DEF SendData, n
<1>13. Increasing(mSendBuffer)'
  BY <1>3, <1>4, <1>7, InToSet DEF SendData, Increasing, n
<1>14. SendQueuesAgree'
  <2> SUFFICES ASSUME NEW g \in Fork
               PROVE  /\ ToSet(mSendOps'[g]) = {o \in ToSet(mSendBuffer') : sFork'[o] = g}
                      /\ Increasing(mSendOps'[g])
    BY DEF SendQueuesAgree
  <2>0. mSendBuffer' = Append(mSendBuffer, n)  BY DEF n
  <2>1. CASE g = f
    <3>1. mSendOps'[g] = Append(mSendOps[f], n)  BY <1>2, <2>1 DEF SendTypes
    <3>2. ToSet(mSendOps[f]) = {o \in ToSet(mSendBuffer) : sFork[o] = f} /\ Increasing(mSendOps[f])
      BY DEF SendData, SendQueuesAgree
    <3>3. ToSet(mSendOps'[g]) = {o \in ToSet(mSendBuffer') : sFork'[o] = g}
      <4>1. \A o \in ToSet(mSendBuffer) : sFork'[o] = sFork[o]  BY <1>7, <1>9
      <4>2. sFork'[n] = f  BY <1>1, <1>9
      <4>3. ToSet(mSendBuffer') = ToSet(mSendBuffer) \cup {n}  BY <1>4, <2>0
      <4>4. ToSet(mSendOps'[g]) = ToSet(mSendOps[f]) \cup {n}  BY <1>5, <3>1
      <4> QED BY <2>1, <3>2, <4>1, <4>2, <4>3, <4>4
    <3>4. \A i \in 1..Len(mSendOps[f]) : mSendOps[f][i] < n
      BY <1>3, <1>7, <3>2, InToSet
    <3>5. Increasing(Append(mSendOps[f], n))
      BY <1>3, <1>5, <3>2, <3>4 DEF Increasing
    <3> QED BY <3>1, <3>3, <3>5
  <2>2. CASE g # f
    <3>1. mSendOps'[g] = mSendOps[g]  BY <1>2, <2>2 DEF SendTypes
    <3>2. ToSet(mSendOps[g]) = {o \in ToSet(mSendBuffer) : sFork[o] = g} /\ Increasing(mSendOps[g])
      BY DEF SendData, SendQueuesAgree
    <3> QED BY <1>1, <1>4, <1>7, <1>9, <2>0, <2>2, <3>1, <3>2
  <2> QED BY <2>1, <2>2
<1> QED BY <1>1, <1>4, <1>6, <1>7, <1>8, <1>10, <1>11, <1>12, <1>13, <1>14 DEF SendData, n

\* An operation leaves the list and its fork's queue.
LEMMA DequeueSend ==
    ASSUME SendTypes, SendData, NEW o \in ToSet(mSendBuffer), NEW q \in Seq(SendId),
           mSendBuffer' \in Seq(SendId), Increasing(mSendBuffer'),
           ToSet(mSendBuffer') = ToSet(mSendBuffer) \ {o},
           Increasing(q), ToSet(q) = ToSet(mSendOps[sFork[o]]) \ {o},
           mSendOps' = [mSendOps EXCEPT ![sFork[o]] = q],
           sStatus' \in [SendId -> OpStatus],
           \A p \in SendId : sStatus'[p] = "unused" <=> sStatus[p] = "unused",
           Pending(sStatus') = Pending(sStatus) \ {o},
           mSendBufferLast' = (IF mSendBuffer' = <<>> THEN None ELSE mSendBuffer'[Len(mSendBuffer')]),
           UNCHANGED <<numSends, sFork>>
    PROVE  SendTypes' /\ SendData'
<1>0. sFork[o] \in Fork /\ o \in SendId  BY SendQueued DEF SendTypes
<1>1. mSendBufferLast' \in SendId \cup {None}
  <2>1. mSendBuffer' # <<>> => Len(mSendBuffer') \in 1..Len(mSendBuffer')  OBVIOUS
  <2> QED BY <2>1
<1>2. SendTypes'  BY <1>0, <1>1 DEF SendTypes
<1>3. SendQueuesAgree'
  <2> SUFFICES ASSUME NEW g \in Fork
               PROVE  /\ ToSet(mSendOps'[g]) = {p \in ToSet(mSendBuffer') : sFork'[p] = g}
                      /\ Increasing(mSendOps'[g])
    BY DEF SendQueuesAgree
  <2>1. ToSet(mSendOps[g]) = {p \in ToSet(mSendBuffer) : sFork[p] = g} /\ Increasing(mSendOps[g])
    BY DEF SendData, SendQueuesAgree
  <2>2. CASE g = sFork[o]
    <3>1. mSendOps'[g] = q  BY <1>0, <2>2 DEF SendTypes
    <3> QED BY <2>1, <2>2, <3>1
  <2>3. CASE g # sFork[o]
    <3>1. mSendOps'[g] = mSendOps[g]  BY <1>0, <2>3 DEF SendTypes
    <3> QED BY <2>1, <2>3, <3>1
  <2> QED BY <2>2, <2>3
<1>4. (\A p \in SendId : sStatus[p] = "unused" <=> p > numSends)'  BY DEF SendData
<1> QED BY <1>2, <1>3, <1>4 DEF SendData

\* The send the task works on is at the front of its fork's queue.
LEMMA SendFront ==
    ASSUME SendTypes, SendData, SendControl, sendPc \in {"meta", "header", "body", "next"}
    PROVE  /\ mSendBuffer # <<>> /\ mSendBuffer[1] = sendOp
           /\ sendOp \in ToSet(mSendBuffer) /\ sendOp \in SendId /\ sFork[sendOp] \in Fork
           /\ mSendOps[sFork[sendOp]] \in Seq(SendId) /\ Increasing(mSendOps[sFork[sendOp]])
           /\ mSendOps[sFork[sendOp]] # <<>> /\ mSendOps[sFork[sendOp]][1] = sendOp
<1>1. mSendBuffer # <<>> /\ mSendBuffer[1] = sendOp  BY DEF SendControl, HeadInProgress
<1>2. mSendBuffer \in Seq(SendId) /\ Increasing(mSendBuffer)  BY DEF SendTypes, SendData
<1>3. sendOp \in ToSet(mSendBuffer)  BY <1>1, <1>2, SendIdNat, TailFacts
<1>4. sendOp \in SendId /\ sFork[sendOp] \in Fork  BY <1>3, SendQueued DEF SendTypes
<1>5. PICK t : t = mSendOps[sFork[sendOp]]  OBVIOUS
<1>6. t \in Seq(SendId) /\ Increasing(t) /\ ToSet(t) \subseteq ToSet(mSendBuffer) /\ sendOp \in ToSet(t)
  BY <1>3, <1>4, <1>5 DEF SendTypes, SendData, SendQueuesAgree
<1>7. t # <<>> /\ t[1] = sendOp  BY <1>1, <1>2, <1>6, SendIdNat, FrontOfIncreasing
<1> QED BY <1>1, <1>3, <1>4, <1>5, <1>6, <1>7

\* The types that SendTypes leaves out.
SendTaskTypes ==
    /\ mSendStatus \in Status /\ sendPc \in SendPc /\ sendEc \in Code
    /\ sendOp \in SendId \cup {None} /\ mInitiated \in [Fork -> BOOLEAN]
    /\ sendHole \in [Fork -> BOOLEAN] /\ sResult \in [SendId -> Result]
    /\ mSendCancelSrc \in {"held", "queued", "fired"} /\ sendStop \in BOOLEAN
    /\ sent \in Seq(SendId)

SendSide == SendTypes /\ SendTaskTypes /\ SendData /\ SendControl

LEMMA SendSideParts == SendSide <=> SendTypeOK /\ SendInv
<1>1. SendTypeOK <=> SendTypes /\ SendTaskTypes  BY DEF SendTypeOK, SendTypes, SendTaskTypes
<1> QED BY <1>1, SendInvParts DEF SendSide

\* Steps that leave the send side alone.
LEMMA SendFrame ==
    ASSUME SendSide, UNCHANGED <<sendVars, sent>>, mEC # "success" => mEC' # "success"
    PROVE  SendSide'
<1>1. /\ UNCHANGED <<mSendStatus, sendPc, sendOp, sendEc, mInitiated, mSendBuffer, mSendBufferLast>>
      /\ UNCHANGED <<mSendOps, sendHole, numSends, sFork, sStatus, sResult, mSendCancelSrc, sendStop, sent>>
  BY DEF sendVars, sendOps, sendTask, sendList, sendStopVars
<1>2. SendTypes' /\ SendTaskTypes'  BY <1>1 DEF SendSide, SendTypes, SendTaskTypes
<1>3. SendData'  BY <1>1 DEF SendSide, SendData, SendQueuesAgree
<1>4. SendControl'  BY <1>1 DEF SendSide, SendControl, HeadInProgress
<1> QED BY <1>2, <1>3, <1>4 DEF SendSide

\* cancel raises an error while the send task may be waiting for an operation.
LEMMA SendCancelled ==
    ASSUME SendSide, CloseSendTask, mEC' # "success",
           UNCHANGED <<sendOps, mSendStatus, sendOp, sendEc, mInitiated, sendList, mSendCancelSrc, sent>>
    PROVE  SendSide'
<1>1. /\ UNCHANGED <<mSendStatus, sendOp, sendEc, mInitiated, mSendBuffer, mSendBufferLast>>
      /\ UNCHANGED <<mSendOps, sendHole, numSends, sFork, sStatus, sResult, mSendCancelSrc, sent>>
  BY DEF sendOps, sendList
<1>2. SendTypes' /\ SendTaskTypes'  BY <1>1 DEF SendSide, SendTypes, SendTaskTypes, CloseSendTask, SendPc
<1>3. SendData'  BY <1>1 DEF SendSide, SendData, SendQueuesAgree
<1>4. SendControl'  BY <1>1 DEF SendSide, SendControl, HeadInProgress, CloseSendTask
<1> QED BY <1>2, <1>3, <1>4 DEF SendSide

\* A refused message is never queued.
LEMMA SendRefusal ==
    ASSUME SendSide, NEW f \in Fork, NEW res \in Code, IssueSend(f, "refused", res),
           UNCHANGED <<mSendOps, sendHole, sendTask, sendList, sendStopVars, sent, mEC>>
    PROVE  SendSide'
<1> DEFINE n == numSends + 1
<1>1. n \in SendId /\ n \in Nat /\ numSends \in Nat /\ n \in 0..MaxSends
  BY SchedulerAssumption DEF IssueSend, SendSide, SendTypes, SendId, SchedulerAssumption
<1>2. /\ UNCHANGED <<mSendStatus, sendPc, sendOp, sendEc, mInitiated, mSendBuffer, mSendBufferLast>>
      /\ UNCHANGED <<mSendOps, sendHole, mSendCancelSrc, sendStop, sent, mEC>>
      /\ numSends' = n /\ sFork' = [sFork EXCEPT ![n] = f]
      /\ sStatus' = [sStatus EXCEPT ![n] = "refused"] /\ sResult' = [sResult EXCEPT ![n] = res]
  BY DEF sendTask, sendList, sendStopVars, IssueSend
<1>3. \A o \in ToSet(mSendBuffer) : o \in SendId /\ o < n
  <2> SUFFICES ASSUME NEW o \in ToSet(mSendBuffer) PROVE o \in SendId /\ o < n  OBVIOUS
  <2>1. o \in SendId /\ o <= numSends  BY SendQueued DEF SendSide
  <2>2. o \in Nat  BY <2>1, SendIdNat
  <2> QED BY <1>1, <2>1, <2>2
<1> HIDE DEF n
<1>4. SendTypes'
  <2>1. sFork' \in [SendId -> Fork] /\ sStatus' \in [SendId -> OpStatus]
    BY <1>1, <1>2 DEF SendSide, SendTypes, OpStatus
  <2> QED BY <1>1, <1>2, <2>1 DEF SendSide, SendTypes
<1>5. SendTaskTypes'  BY <1>1, <1>2 DEF SendSide, SendTaskTypes, Result
<1>6. /\ \A o \in SendId : sStatus'[o] = IF o = n THEN "refused" ELSE sStatus[o]
      /\ \A o \in SendId : sFork'[o] = IF o = n THEN f ELSE sFork[o]
  BY <1>1, <1>2 DEF SendSide, SendTypes
<1>7. \A o \in ToSet(mSendBuffer) : sStatus'[o] = sStatus[o] /\ sFork'[o] = sFork[o]
  <2> SUFFICES ASSUME NEW o \in ToSet(mSendBuffer) PROVE sStatus'[o] = sStatus[o] /\ sFork'[o] = sFork[o]
    OBVIOUS
  <2>1. o \in SendId /\ o < n /\ o \in Nat  BY <1>3, SendIdNat
  <2> QED BY <1>1, <1>6, <2>1
<1>8. SendData'
  <2>1. (\A o \in SendId : sStatus[o] = "unused" <=> o > numSends)'
    BY <1>1, <1>2, <1>6, SendIdNat DEF SendSide, SendData, n
  <2>2. Pending(sStatus') = Pending(sStatus)
    <3>1. DOMAIN sStatus = SendId /\ DOMAIN sStatus' = SendId  BY <1>4 DEF SendSide, SendTypes
    <3>2. sStatus[n] = "unused"  BY <1>1 DEF SendSide, SendData, n
    <3> QED BY <1>6, <3>1, <3>2 DEF Pending
  <2>3. SendQueuesAgree'
    BY <1>2, <1>7 DEF SendSide, SendData, SendQueuesAgree
  <2> QED BY <1>2, <2>1, <2>2, <2>3 DEF SendSide, SendData
<1>9. SendControl'
  <2>1. mSendBuffer \in Seq(SendId)  BY DEF SendSide, SendTypes
  <2>2. ASSUME sendPc \in {"meta", "header", "body", "next"} PROVE HeadInProgress'
    <3>1. sendOp \in ToSet(mSendBuffer)  BY <2>2, SendFront DEF SendSide
    <3>2. \A i \in 2..Len(mSendBuffer) : mSendBuffer[i] \in ToSet(mSendBuffer)  BY <2>1, InToSet
    <3> QED BY <1>2, <1>7, <2>2, <3>1, <3>2 DEF SendSide, SendControl, HeadInProgress
  <2>3. HeadInProgress'  BY <1>2, <2>2 DEF HeadInProgress
  <2> QED BY <1>2, <2>3 DEF SendSide, SendControl
<1> QED BY <1>4, <1>5, <1>8, <1>9 DEF SendSide

LEMMA SendWakeSide ==
    ASSUME SendSide, NEW f \in Fork, SendWake(f)
    PROVE  SendSide'
<1> DEFINE n == numSends + 1
<1>1. /\ sendPc = "idle" /\ mEC = "success" /\ IssueSend(f, "InProgress", "none") /\ EmplaceSend(f)
      /\ mSendStatus' = "InUse" /\ mSendBuffer' = <<n>> /\ mSendBufferLast' = n
      /\ sendOp' = n /\ sendPc' \in {"header", "meta"}
      /\ mInitiated' = [mInitiated EXCEPT ![f] = TRUE]
      /\ UNCHANGED <<mEC, sendEc, mSendCancelSrc, sendStop, sent>>
  BY DEF SendWake, StartSend, sendStopVars, histVars
<1>2. mSendBuffer = <<>>  BY <1>1 DEF SendSide, SendControl
<1>3. n \in SendId
  BY <1>1, SchedulerAssumption DEF IssueSend, SendSide, SendTypes, SendId, SchedulerAssumption
<1>4. mSendBuffer' = Append(mSendBuffer, n)
  <2>1. Append(<<>>, n) = <<n>>  OBVIOUS
  <2> QED BY <1>1, <1>2, <2>1
<1>5. /\ SendTypes' /\ SendData' /\ Len(mSendBuffer') = Len(mSendBuffer) + 1
      /\ mSendBuffer'[Len(mSendBuffer) + 1] = n /\ sStatus'[n] = "InProgress"
  BY <1>1, <1>4, EnqueueSend DEF SendSide
<1>6. SendTaskTypes'
  <2>1. sResult' = [sResult EXCEPT ![n] = "none"] /\ sendHole' = [sendHole EXCEPT ![f] = FALSE]
    BY <1>1 DEF IssueSend, EmplaceSend
  <2> QED BY <1>1, <1>3, <2>1 DEF SendSide, SendTaskTypes, Status, SendPc, Result
<1>7. SendControl'
  <2>1. Len(mSendBuffer') = 1 /\ mSendBuffer'[1] = n /\ mSendBuffer' # <<>>  BY <1>2, <1>5
  <2>2. HeadInProgress'  BY <1>1, <1>5, <2>1 DEF HeadInProgress
  <2> QED BY <1>1, <2>2 DEF SendControl
<1> QED BY <1>5, <1>6, <1>7 DEF SendSide

LEMMA SendQueueSide ==
    ASSUME SendSide, NEW f \in Fork, SendQueue(f)
    PROVE  SendSide'
<1> DEFINE n == numSends + 1
<1>1. /\ sendPc # "idle" /\ mEC = "success" /\ IssueSend(f, "NotStarted", "none") /\ EmplaceSend(f)
      /\ LinkSend(n) /\ UNCHANGED <<mEC, mSendStatus, sendPc, sendOp, sendEc, mInitiated>>
      /\ UNCHANGED <<mSendCancelSrc, sendStop, sent>>
  BY DEF SendQueue, sendTask, sendStopVars, histVars
<1>2. sendPc \in {"meta", "header", "body", "next"}
  BY <1>1 DEF SendSide, SendControl, SendTaskTypes, SendPc
<1>3. n \in SendId
  BY <1>1, SchedulerAssumption DEF IssueSend, SendSide, SendTypes, SendId, SchedulerAssumption
<1>4. mSendBuffer \in Seq(SendId) /\ mSendBuffer # <<>>
  BY <1>2, SendFront DEF SendSide, SendTypes
<1>5. mSendBuffer' = Append(mSendBuffer, n) /\ mSendBufferLast' = n
  <2>1. Len(mSendBuffer) \in 1..Len(mSendBuffer)  BY <1>4
  <2>2. mSendBufferLast = mSendBuffer[Len(mSendBuffer)]  BY <1>4 DEF SendSide, SendData
  <2>3. mSendBufferLast \in ToSet(mSendBuffer)  BY <1>4, <2>1, <2>2, InToSet
  <2> QED BY <1>1, <2>3 DEF LinkSend
<1>6. /\ SendTypes' /\ SendData' /\ Len(mSendBuffer') = Len(mSendBuffer) + 1
      /\ \A i \in 1..Len(mSendBuffer) : mSendBuffer'[i] = mSendBuffer[i]
      /\ mSendBuffer'[Len(mSendBuffer) + 1] = n
      /\ \A o \in ToSet(mSendBuffer) : sStatus'[o] = sStatus[o]
      /\ sStatus'[n] = "NotStarted"
  BY <1>1, <1>5, EnqueueSend DEF SendSide
<1>7. SendTaskTypes'
  <2>1. sResult' = [sResult EXCEPT ![n] = "none"] /\ sendHole' = [sendHole EXCEPT ![f] = FALSE]
    BY <1>1 DEF IssueSend, EmplaceSend
  <2> QED BY <1>1, <1>3, <2>1 DEF SendSide, SendTaskTypes, Result
<1>8. HeadInProgress'
  <2>1. Len(mSendBuffer) \in Nat \ {0}  BY <1>4
  <2>2. \A i \in 1..Len(mSendBuffer) : sStatus'[mSendBuffer'[i]] = sStatus[mSendBuffer[i]]
    BY <1>4, <1>6, InToSet
  <2>3. mSendBuffer'[1] = sendOp /\ sStatus'[sendOp] \in {"InProgress", "Canceling"}
    BY <1>2, <1>6, <2>1, <2>2 DEF SendSide, SendControl, HeadInProgress
  <2>4. ASSUME NEW i \in 2..Len(mSendBuffer') PROVE sStatus'[mSendBuffer'[i]] = "NotStarted"
    <3>1. CASE i = Len(mSendBuffer) + 1  BY <1>6, <3>1
    <3>2. CASE i \in 2..Len(mSendBuffer)
      <4>1. i \in 1..Len(mSendBuffer)  BY <2>1, <3>2
      <4>2. sStatus[mSendBuffer[i]] = "NotStarted"  BY <1>2, <3>2 DEF SendSide, SendControl, HeadInProgress
      <4> QED BY <2>2, <4>1, <4>2
    <3> QED BY <1>6, <2>1, <3>1, <3>2
  <2>5. mSendBuffer' # <<>>  BY <1>6, <2>1, <1>4, <1>5
  <2> QED BY <1>1, <2>3, <2>4, <2>5 DEF HeadInProgress
<1>9. SendControl'
  BY <1>1, <1>2, <1>8 DEF SendSide, SendControl
<1> QED BY <1>6, <1>7, <1>9 DEF SendSide

LEMMA CancelRunningSendSide ==
    ASSUME SendSide, NEW o \in SendId, CancelRunningSend(o)
    PROVE  SendSide'
<1>1. /\ sStatus[o] = "InProgress" /\ sStatus' = [sStatus EXCEPT ![o] = "Canceling"]
      /\ mSendCancelSrc' = (IF mSendCancelSrc = "held" THEN "queued" ELSE mSendCancelSrc)
      /\ UNCHANGED <<mEC, mSendStatus, sendPc, sendOp, sendEc, mInitiated, mSendBuffer, mSendBufferLast>>
      /\ UNCHANGED <<mSendOps, sendHole, numSends, sFork, sResult, sendStop, sent>>
  BY DEF CancelRunningSend, sendTask, sendList
<1>2. \A p \in SendId : sStatus'[p] = IF p = o THEN "Canceling" ELSE sStatus[p]
  BY <1>1 DEF SendSide, SendTypes
<1>3. SendTypes' /\ SendTaskTypes'  BY <1>1 DEF SendSide, SendTypes, SendTaskTypes, OpStatus
<1>4. SendData'
  <2>1. DOMAIN sStatus = SendId /\ DOMAIN sStatus' = SendId  BY <1>3 DEF SendSide, SendTypes
  <2>2. Pending(sStatus') = Pending(sStatus)  BY <1>1, <1>2, <2>1 DEF Pending
  <2>3. (\A p \in SendId : sStatus[p] = "unused" <=> p > numSends)'
    BY <1>1, <1>2 DEF SendSide, SendData
  <2> QED BY <1>1, <2>2, <2>3 DEF SendSide, SendData, SendQueuesAgree
<1>5. HeadInProgress'
  <2> SUFFICES ASSUME sendPc \in {"meta", "header", "body", "next"} PROVE HeadInProgress'
    BY <1>1 DEF HeadInProgress
  <2>1. sendOp \in SendId  BY SendFront DEF SendSide
  <2>2. \A i \in 2..Len(mSendBuffer) : mSendBuffer[i] \in SendId /\ sStatus[mSendBuffer[i]] = "NotStarted"
    <3>1. mSendBuffer \in Seq(SendId)  BY DEF SendSide, SendTypes
    <3> QED BY <3>1 DEF SendSide, SendControl, HeadInProgress
  <2> QED BY <1>1, <1>2, <2>1, <2>2 DEF SendSide, SendControl, HeadInProgress
<1>6. SendControl'  BY <1>1, <1>5 DEF SendSide, SendControl
<1> QED BY <1>3, <1>4, <1>6 DEF SendSide

\* The tail stays the tail and the head stays the head when another entry is unlinked.
LEMMA CancelQueuedSendSide ==
    ASSUME SendSide, ~TailCancel, ~WrapCancel, NEW o \in SendId, CancelQueuedSend(o)
    PROVE  SendSide'
<1>1. /\ sStatus[o] = "NotStarted" /\ o # mSendBufferLast
      /\ sStatus' = [sStatus EXCEPT ![o] = "completed"]
      /\ sResult' = [sResult EXCEPT ![o] = "operation_aborted"]
      /\ UNCHANGED <<mEC, mSendStatus, sendPc, sendOp, sendEc, mInitiated, mSendBufferLast>>
      /\ UNCHANGED <<numSends, sFork, mSendCancelSrc, sendStop, sent>>
  BY DEF CancelQueuedSend, sendTask, sendStopVars
<1>2. o \in ToSet(mSendBuffer)  BY <1>1 DEF SendSide, SendData, Pending, SendTypes
<1>3. mSendBuffer \in Seq(SendId) /\ Increasing(mSendBuffer)  BY DEF SendSide, SendTypes, SendData
<1>4. PICK k : /\ k \in 1..Len(mSendBuffer) /\ mSendBuffer[k] = o
               /\ mSendBuffer' = RemoveAt(mSendBuffer, k)
  <2>1. PICK j \in 1..Len(mSendBuffer) : mSendBuffer[j] = o  BY <1>2, <1>3, InToSet
  <2>2. DOMAIN mSendBuffer = 1..Len(mSendBuffer)  BY <1>3
  <2>3. PICK c : c = CHOOSE i \in DOMAIN mSendBuffer : mSendBuffer[i] = o  OBVIOUS
  <2>4. c \in 1..Len(mSendBuffer) /\ mSendBuffer[c] = o  BY <2>1, <2>2, <2>3
  <2>5. mSendBuffer' = RemoveAt(mSendBuffer, c)  BY <1>2, <2>3 DEF CancelQueuedSend
  <2> QED BY <2>4, <2>5
<1>5. /\ mSendBuffer' \in Seq(SendId) /\ Len(mSendBuffer') = Len(mSendBuffer) - 1
      /\ \A j \in 1..Len(mSendBuffer)-1 :
            mSendBuffer'[j] = (IF j < k THEN mSendBuffer[j] ELSE mSendBuffer[j+1])
      /\ ToSet(mSendBuffer') = ToSet(mSendBuffer) \ {o}
      /\ Increasing(mSendBuffer')
  BY <1>3, <1>4, SendIdNat, RemoveAtFacts
<1>6. sFork[o] \in Fork  BY DEF SendSide, SendTypes
<1>7. PICK old : old = mSendOps[sFork[o]]  OBVIOUS
<1>8. old \in Seq(SendId) /\ Increasing(old)  BY <1>6, <1>7 DEF SendSide, SendTypes, SendData, SendQueuesAgree
<1>9. PICK i \in 1..Len(old) : /\ old[i] = o /\ mSendOps' = [mSendOps EXCEPT ![sFork[o]] = RemoveAt(old, i)]
                              /\ sendHole' = [sendHole EXCEPT ![sFork[o]] = HoleAfterErase(@, old, i)]
  <2>1. DOMAIN old = 1..Len(old)  BY <1>8
  <2>2. PICK j \in DOMAIN mSendOps[sFork[o]] :
            /\ mSendOps[sFork[o]][j] = o
            /\ mSendOps' = [mSendOps EXCEPT ![sFork[o]] = RemoveAt(@, j)]
            /\ sendHole' = [sendHole EXCEPT ![sFork[o]] = HoleAfterErase(@, mSendOps[sFork[o]], j)]
    BY DEF CancelQueuedSend, EraseSend
  <2>3. j \in 1..Len(old) /\ old[j] = o  BY <1>7, <2>1, <2>2
  <2>4. mSendOps' = [mSendOps EXCEPT ![sFork[o]] = RemoveAt(old, j)]  BY <1>7, <2>2
  <2>5. sendHole' = [sendHole EXCEPT ![sFork[o]] = HoleAfterErase(@, old, j)]  BY <1>7, <2>2
  <2> QED BY <2>3, <2>4, <2>5
<1>10. PICK q : q = RemoveAt(old, i)  OBVIOUS
<1>11. q \in Seq(SendId) /\ Increasing(q) /\ ToSet(q) = ToSet(old) \ {o}
  BY <1>8, <1>9, <1>10, SendIdNat, RemoveAtFacts
<1>12. \A p \in SendId : sStatus'[p] = IF p = o THEN "completed" ELSE sStatus[p]
  BY <1>1 DEF SendSide, SendTypes
<1>13. sStatus' \in [SendId -> OpStatus]  BY <1>1 DEF SendSide, SendTypes, OpStatus
<1>14. Pending(sStatus') = Pending(sStatus) \ {o}
  <2>1. DOMAIN sStatus = SendId /\ DOMAIN sStatus' = SendId  BY <1>13 DEF SendSide, SendTypes
  <2> QED BY <1>1, <1>12, <2>1 DEF Pending
<1>15. Len(mSendBuffer) \in Nat \ {0} /\ mSendBuffer # <<>>  BY <1>3, <1>4
<1>16. sendPc \in {"meta", "header", "body", "next"}
  BY <1>15 DEF SendSide, SendControl, SendTaskTypes, SendPc
<1>17. k < Len(mSendBuffer)
  <2>1. mSendBufferLast = mSendBuffer[Len(mSendBuffer)]  BY <1>15 DEF SendSide, SendData
  <2> QED BY <1>1, <1>4, <1>15, <2>1
<1>18. 1 < k
  <2>1. mSendBuffer[1] = sendOp /\ sStatus[sendOp] \in {"InProgress", "Canceling"}
    BY <1>16 DEF SendSide, SendControl, HeadInProgress
  <2> QED BY <1>1, <1>4, <2>1
<1>19. mSendBuffer' # <<>> /\ Len(mSendBuffer') \in Nat \ {0}  BY <1>4, <1>5, <1>15, <1>17, <1>18
<1>20. mSendBufferLast' = (IF mSendBuffer' = <<>> THEN None ELSE mSendBuffer'[Len(mSendBuffer')])
  <2>1. mSendBuffer'[Len(mSendBuffer) - 1] = mSendBuffer[Len(mSendBuffer)]
    <3>1. Len(mSendBuffer) - 1 \in 1..Len(mSendBuffer)-1 /\ ~(Len(mSendBuffer) - 1 < k)
      BY <1>4, <1>15, <1>17, <1>18
    <3>2. Len(mSendBuffer) - 1 + 1 = Len(mSendBuffer)  BY <1>15
    <3> QED BY <1>5, <3>1, <3>2
  <2>2. mSendBufferLast = mSendBuffer[Len(mSendBuffer)]  BY <1>15 DEF SendSide, SendData
  <2> QED BY <1>1, <1>5, <1>19, <2>1, <2>2
<1>21. SendTypes' /\ SendData'
  <2>1. \A p \in SendId : sStatus'[p] = "unused" <=> sStatus[p] = "unused"  BY <1>1, <1>12
  <2>2. ToSet(q) = ToSet(mSendOps[sFork[o]]) \ {o}  BY <1>7, <1>11
  <2>3. mSendOps' = [mSendOps EXCEPT ![sFork[o]] = q]  BY <1>9, <1>10
  <2>4. SendTypes /\ SendData  BY DEF SendSide
  <2>5. UNCHANGED <<numSends, sFork>>  BY <1>1
  <2> QED BY <1>2, <1>5, <1>11, <1>13, <1>14, <1>20, <2>1, <2>2, <2>3, <2>4, <2>5, DequeueSend
<1>22. SendTaskTypes'
  <2>1. sResult' \in [SendId -> Result]  BY <1>1 DEF SendSide, SendTaskTypes, Result, Code
  <2>2. sendHole' \in [Fork -> BOOLEAN]
    <3>1. sendHole[sFork[o]] \in BOOLEAN  BY <1>6 DEF SendSide, SendTaskTypes
    <3>2. HoleAfterErase(sendHole[sFork[o]], old, i) \in BOOLEAN  BY DEF HoleAfterErase
    <3> QED BY <1>9, <3>2 DEF SendSide, SendTaskTypes
  <2> QED BY <1>1, <2>1, <2>2 DEF SendSide, SendTaskTypes
<1>23. HeadInProgress'
  <2>1. mSendBuffer'[1] = mSendBuffer[1]  BY <1>4, <1>5, <1>15, <1>17, <1>18
  <2>2. ASSUME NEW j \in 2..Len(mSendBuffer') PROVE sStatus'[mSendBuffer'[j]] = "NotStarted"
    <3>1. PICK m \in 2..Len(mSendBuffer) : mSendBuffer'[j] = mSendBuffer[m]
      <4>1. j \in 1..Len(mSendBuffer)-1 /\ j \in 2..Len(mSendBuffer) /\ j + 1 \in 2..Len(mSendBuffer)
        BY <1>5, <1>15
      <4> QED BY <1>5, <4>1
    <3>2. sStatus[mSendBuffer[m]] = "NotStarted" /\ mSendBuffer[m] \in SendId
      BY <1>3, <1>16 DEF SendSide, SendControl, HeadInProgress
    <3>3. mSendBuffer'[j] # o
      <4>1. j \in 1..Len(mSendBuffer')  BY <1>19
      <4>2. mSendBuffer'[j] \in ToSet(mSendBuffer')  BY <1>5, <4>1, InToSet
      <4> QED BY <1>5, <4>2
    <3> QED BY <1>12, <3>1, <3>2, <3>3
  <2>3. sStatus'[sendOp] = sStatus[sendOp]
    <3>1. sendOp \in SendId /\ sStatus[sendOp] \in {"InProgress", "Canceling"}
      BY <1>16, SendFront DEF SendSide, SendControl, HeadInProgress
    <3> QED BY <1>1, <1>12, <3>1
  <2> QED BY <1>1, <1>16, <1>19, <2>1, <2>2, <2>3 DEF SendSide, SendControl, HeadInProgress
<1>24. SendControl'  BY <1>1, <1>16, <1>23 DEF SendSide, SendControl
<1> QED BY <1>21, <1>22, <1>24 DEF SendSide

\* Steps that only move the send task on, or stop its token.
LEMMA SendMoves ==
    ASSUME SendSide, RunSendStop \/ SendIoDone \/ \E ec \in Code : SendIoFail(ec)
    PROVE  SendSide'
<1>1. /\ UNCHANGED <<mEC, mSendStatus, sendOp, mInitiated, mSendBuffer, mSendBufferLast>>
      /\ UNCHANGED <<mSendOps, sendHole, numSends, sFork, sStatus, sResult>>
      /\ \/ sendPc' = sendPc
         \/ sendPc \in {"meta", "header", "body"} /\ sendPc' \in {"header", "body", "next"}
      /\ sendEc' = sendEc \/ sendEc' \in Code
  BY DEF RunSendStop, SendIoDone, SendIoFail, sendOps, sendTask, sendList
<1>2. SendTypes'  BY <1>1 DEF SendSide, SendTypes
<1>3. SendData'  BY <1>1 DEF SendSide, SendData, SendQueuesAgree
<1>4. HeadInProgress'  BY <1>1 DEF SendSide, SendControl, HeadInProgress
<1>5. SendControl'  BY <1>1, <1>4 DEF SendSide, SendControl
<1>6. sent' \in Seq(SendId)
  <2>1. ASSUME SendIoDone PROVE sent' \in Seq(SendId)
    <3>1. sendOp \in SendId  BY <2>1, SendFront DEF SendIoDone, SendSide
    <3>2. sent \in Seq(SendId)  BY DEF SendSide, SendTaskTypes
    <3>3. Append(sent, sendOp) \in Seq(SendId)  BY <3>1, <3>2, AppendFacts
    <3> QED BY <2>1, <3>2, <3>3 DEF SendIoDone
  <2>2. ASSUME ~SendIoDone PROVE sent' = sent  BY <2>2 DEF RunSendStop, SendIoFail, histVars
  <2> QED BY <2>1, <2>2 DEF SendSide, SendTaskTypes
<1>7. mSendCancelSrc' \in {"held", "queued", "fired"} /\ sendStop' \in BOOLEAN
  BY DEF RunSendStop, SendIoDone, SendIoFail, sendStopVars, SendSide, SendTaskTypes
<1>8. SendTaskTypes'  BY <1>1, <1>6, <1>7 DEF SendSide, SendTaskTypes, SendPc
<1> QED BY <1>2, <1>3, <1>5, <1>8 DEF SendSide

\* completePrev: the head leaves the list and the front leaves its fork's queue.
LEMMA CompleteSendData ==
    ASSUME SendSide, sendPc = "next", CompleteSend(sendOp), UNCHANGED <<numSends, sFork>>,
           sStatus' \in [SendId -> OpStatus],
           \A p \in SendId : sStatus'[p] = "unused" <=> sStatus[p] = "unused",
           Pending(sStatus') = Pending(sStatus) \ {sendOp}
    PROVE  /\ SendTypes' /\ SendData' /\ sendHole' \in [Fork -> BOOLEAN]
           /\ Len(mSendBuffer) \in Nat \ {0} /\ Len(mSendBuffer') = Len(mSendBuffer) - 1
           /\ \A i \in 1..Len(mSendBuffer)-1 : mSendBuffer'[i] = mSendBuffer[i+1]
<1>1. /\ mSendBuffer # <<>> /\ mSendBuffer[1] = sendOp
      /\ sendOp \in ToSet(mSendBuffer) /\ sendOp \in SendId /\ sFork[sendOp] \in Fork
      /\ mSendOps[sFork[sendOp]] \in Seq(SendId) /\ Increasing(mSendOps[sFork[sendOp]])
      /\ mSendOps[sFork[sendOp]] # <<>> /\ mSendOps[sFork[sendOp]][1] = sendOp
  BY SendFront DEF SendSide
<1>2. mSendBuffer \in Seq(SendId) /\ Increasing(mSendBuffer)  BY DEF SendSide, SendTypes, SendData
<1>3. mSendBuffer' = Tail(mSendBuffer)  BY DEF CompleteSend
<1>4. /\ mSendBuffer' \in Seq(SendId)
      /\ Len(mSendBuffer) \in Nat \ {0} /\ Len(mSendBuffer') = Len(mSendBuffer) - 1
      /\ \A i \in 1..Len(mSendBuffer)-1 : mSendBuffer'[i] = mSendBuffer[i+1]
      /\ ToSet(mSendBuffer') = ToSet(mSendBuffer) \ {sendOp}
      /\ Increasing(mSendBuffer')
  BY <1>1, <1>2, <1>3, SendIdNat, TailFacts
<1>5. PICK old : old = mSendOps[sFork[sendOp]]  OBVIOUS
<1>6. PICK q : q = Tail(old)  OBVIOUS
<1>7. q \in Seq(SendId) /\ ToSet(q) = ToSet(old) \ {sendOp} /\ Increasing(q)
  BY <1>1, <1>5, <1>6, SendIdNat, TailFacts
<1>8. mSendOps' = [mSendOps EXCEPT ![sFork[sendOp]] = q]  BY <1>5, <1>6 DEF CompleteSend
<1>9. mSendBufferLast' = (IF mSendBuffer' = <<>> THEN None ELSE mSendBuffer'[Len(mSendBuffer')])
  <2>1. mSendBufferLast = mSendBuffer[Len(mSendBuffer)]  BY <1>1 DEF SendSide, SendData
  <2>2. mSendBufferLast' = IF mSendBuffer' = <<>> THEN None ELSE mSendBufferLast
    BY <1>3 DEF CompleteSend
  <2>3. ASSUME mSendBuffer' # <<>> PROVE mSendBuffer'[Len(mSendBuffer')] = mSendBuffer[Len(mSendBuffer)]
    <3>1. Len(mSendBuffer') \in 1..Len(mSendBuffer)-1 /\ Len(mSendBuffer') + 1 = Len(mSendBuffer)
      BY <1>4, <2>3
    <3> QED BY <1>4, <3>1
  <2> QED BY <2>1, <2>2, <2>3
<1>10. SendTypes' /\ SendData'
  <2>1. SendTypes /\ SendData  BY DEF SendSide
  <2>2. ToSet(q) = ToSet(mSendOps[sFork[sendOp]]) \ {sendOp}  BY <1>5, <1>7
  <2> QED BY <1>1, <1>4, <1>7, <1>8, <1>9, <2>1, <2>2, DequeueSend
<1>11. sendHole' \in [Fork -> BOOLEAN]
  <2>1. sendHole' = [sendHole EXCEPT ![sFork[sendOp]] = HoleAfter(@, Tail(mSendOps[sFork[sendOp]]))]
    BY DEF CompleteSend
  <2>2. HoleAfter(sendHole[sFork[sendOp]], Tail(mSendOps[sFork[sendOp]])) \in BOOLEAN
    BY <1>1 DEF HoleAfter, SendSide, SendTaskTypes
  <2> QED BY <1>1, <2>1, <2>2 DEF SendSide, SendTaskTypes
<1> QED BY <1>4, <1>10, <1>11

LEMMA SendNextSide ==
    ASSUME SendSide, SendNext
    PROVE  SendSide'
<1> DEFINE nx == mSendBuffer[2]
<1>1. /\ sendPc = "next" /\ mEC = "success" /\ Len(mSendBuffer) > 1 /\ CompleteSend(sendOp)
      /\ sStatus' = [sStatus EXCEPT ![sendOp] = "completed", ![nx] = "InProgress"]
      /\ sendOp' = nx /\ sendPc' \in {"header", "meta"}
      /\ mInitiated' = [mInitiated EXCEPT ![sFork[nx]] = TRUE]
      /\ UNCHANGED <<mEC, numSends, sFork, sResult, mSendStatus, sendEc, mSendCancelSrc, sendStop, sent>>
  BY DEF SendNext, StartSend, sendStopVars, histVars
<1>2. /\ mSendBuffer \in Seq(SendId) /\ Increasing(mSendBuffer) /\ Len(mSendBuffer) \in Nat
      /\ DOMAIN mSendBuffer = 1..Len(mSendBuffer)
  BY DEF SendSide, SendTypes, SendData
<1>3. mSendBuffer[1] = sendOp /\ sendOp \in SendId /\ sendOp \in Nat  BY <1>1, SendFront, SendIdNat DEF SendSide
<1>4. nx \in SendId /\ nx \in ToSet(mSendBuffer) /\ nx # sendOp
  <2>1. 1 \in 1..Len(mSendBuffer) /\ 2 \in 1..Len(mSendBuffer)  BY <1>1, <1>2
  <2>2. nx \in SendId /\ nx \in ToSet(mSendBuffer)  BY <1>2, <2>1, InToSet
  <2>3. sendOp < nx  BY <1>2, <1>3, <2>1 DEF Increasing
  <2> QED BY <1>3, <2>2, <2>3, SendIdNat
<1>5. sStatus[nx] = "NotStarted" /\ sStatus[sendOp] \in {"InProgress", "Canceling"}
  <2>1. 2 \in 2..Len(mSendBuffer)  BY <1>1, <1>2
  <2> QED BY <1>1, <2>1 DEF SendSide, SendControl, HeadInProgress
<1> HIDE DEF nx
<1>6. \A p \in SendId : sStatus'[p] = (IF p = nx THEN "InProgress" ELSE IF p = sendOp THEN "completed" ELSE sStatus[p])
  BY <1>1, <1>3, <1>4 DEF SendSide, SendTypes
<1>7. sStatus' \in [SendId -> OpStatus]  BY <1>1 DEF SendSide, SendTypes, OpStatus
<1>8. Pending(sStatus') = Pending(sStatus) \ {sendOp}
  <2>1. DOMAIN sStatus = SendId /\ DOMAIN sStatus' = SendId  BY <1>7 DEF SendSide, SendTypes
  <2> QED BY <1>3, <1>4, <1>5, <1>6, <2>1 DEF Pending
<1>9. /\ SendTypes' /\ SendData' /\ sendHole' \in [Fork -> BOOLEAN]
      /\ Len(mSendBuffer) \in Nat \ {0} /\ Len(mSendBuffer') = Len(mSendBuffer) - 1
      /\ \A i \in 1..Len(mSendBuffer)-1 : mSendBuffer'[i] = mSendBuffer[i+1]
  <2>1. \A p \in SendId : sStatus'[p] = "unused" <=> sStatus[p] = "unused"  BY <1>5, <1>6
  <2> QED BY <1>1, <1>7, <1>8, <2>1, CompleteSendData
<1>10. SendTaskTypes'
  <2>1. sFork[nx] \in Fork  BY <1>4 DEF SendSide, SendTypes
  <2>2. mInitiated' \in [Fork -> BOOLEAN]  BY <1>1, <2>1 DEF SendSide, SendTaskTypes
  <2> QED BY <1>1, <1>4, <1>9, <2>2 DEF SendSide, SendTaskTypes, SendPc
<1>11. HeadInProgress'
  <2>1. mSendBuffer'[1] = nx /\ mSendBuffer' # <<>>  BY <1>1, <1>9 DEF nx
  <2>2. sStatus'[nx] = "InProgress"  BY <1>4, <1>6
  <2>3. ASSUME NEW i \in 2..Len(mSendBuffer') PROVE sStatus'[mSendBuffer'[i]] = "NotStarted"
    <3>1. /\ i + 1 \in 2..Len(mSendBuffer) /\ i \in 1..Len(mSendBuffer)-1 /\ i + 1 \in 1..Len(mSendBuffer)
          /\ 1 \in 1..Len(mSendBuffer) /\ 2 \in 1..Len(mSendBuffer) /\ 1 < i + 1 /\ 2 < i + 1
      BY <1>9
    <3>2. PICK p : p = mSendBuffer[i + 1]  OBVIOUS
    <3>3. p \in SendId /\ sStatus[p] = "NotStarted" /\ mSendBuffer'[i] = p
      BY <1>1, <1>2, <1>9, <3>1, <3>2 DEF SendSide, SendControl, HeadInProgress
    <3>4. sendOp < p /\ nx < p  BY <1>2, <1>3, <3>1, <3>2 DEF Increasing, nx
    <3>5. p # sendOp /\ p # nx  BY <1>3, <1>4, <3>3, <3>4, SendIdNat
    <3> QED BY <1>6, <3>3, <3>5
  <2> QED BY <1>1, <2>1, <2>2, <2>3 DEF HeadInProgress
<1>12. SendControl'
  <2>1. mSendStatus' = "InUse"  BY <1>1 DEF SendSide, SendControl, SendTaskTypes
  <2> QED BY <1>1, <1>11, <2>1 DEF SendControl
<1> QED BY <1>9, <1>10, <1>12 DEF SendSide

LEMMA SendIdleSide ==
    ASSUME SendSide, SendIdle
    PROVE  SendSide'
<1>1. /\ sendPc = "next" /\ mEC = "success" /\ Len(mSendBuffer) <= 1 /\ CompleteSend(sendOp)
      /\ sStatus' = [sStatus EXCEPT ![sendOp] = "completed"]
      /\ mSendStatus' = "Idle" /\ sendOp' = None /\ sendPc' = "idle"
      /\ UNCHANGED <<mEC, numSends, sFork, sResult, sendEc, mInitiated, mSendCancelSrc, sendStop, sent>>
  BY DEF SendIdle, sendStopVars, histVars
<1>2. sendOp \in SendId /\ sStatus[sendOp] \in {"InProgress", "Canceling"}
  BY <1>1, SendFront DEF SendSide, SendControl, HeadInProgress
<1>3. \A p \in SendId : sStatus'[p] = IF p = sendOp THEN "completed" ELSE sStatus[p]
  BY <1>1 DEF SendSide, SendTypes
<1>4. sStatus' \in [SendId -> OpStatus]  BY <1>1 DEF SendSide, SendTypes, OpStatus
<1>5. Pending(sStatus') = Pending(sStatus) \ {sendOp}
  <2>1. DOMAIN sStatus = SendId /\ DOMAIN sStatus' = SendId  BY <1>4 DEF SendSide, SendTypes
  <2> QED BY <1>2, <1>3, <2>1 DEF Pending
<1>6. /\ SendTypes' /\ SendData' /\ sendHole' \in [Fork -> BOOLEAN]
      /\ Len(mSendBuffer) \in Nat \ {0} /\ Len(mSendBuffer') = Len(mSendBuffer) - 1
  <2>1. \A p \in SendId : sStatus'[p] = "unused" <=> sStatus[p] = "unused"  BY <1>2, <1>3
  <2> QED BY <1>1, <1>4, <1>5, <2>1, CompleteSendData
<1>7. mSendBuffer' = <<>>
  <2>1. Len(mSendBuffer') = 0  BY <1>1, <1>6
  <2> QED BY <1>6, <2>1 DEF SendTypes
<1>8. SendTaskTypes'  BY <1>1, <1>6 DEF SendSide, SendTaskTypes, SendPc, Status
<1>9. SendControl'  BY <1>1, <1>7 DEF SendControl, HeadInProgress
<1> QED BY <1>6, <1>8, <1>9 DEF SendSide

\* cancel(Sender): every fork's queue is popped once per listed send, which empties it.
LEMMA SendCloseSide ==
    ASSUME SendSide, SendClose
    PROVE  SendSide' /\ mEC' # "success"
<1> DEFINE done == ToSet(mSendBuffer)
           popped(f) == Cardinality({o \in done : sFork[o] = f})
           ec == AfterFirst(sendEc)
<1>1. /\ sendPc = "next" /\ (sendEc # "success" \/ mEC # "success")
      /\ mEC' = (IF mEC = "success" THEN ec ELSE mEC)
      /\ sStatus' = [o \in SendId |-> IF o \in done THEN "completed" ELSE sStatus[o]]
      /\ mSendOps' = [f \in Fork |-> SubSeq(mSendOps[f], popped(f) + 1, Len(mSendOps[f]))]
      /\ mSendBuffer' = <<>> /\ mSendBufferLast' = None
      /\ mSendStatus' = "Closed" /\ sendPc' = "exit" /\ sendOp' = None /\ sendEc' = "success"
      /\ UNCHANGED <<numSends, sFork, mInitiated, mSendCancelSrc, sent>>
  BY DEF SendClose, histVars
<1>2. mEC' # "success"  BY <1>1 DEF AfterFirst
<1>3. \A f \in Fork : mSendOps'[f] = <<>>
  <2> SUFFICES ASSUME NEW f \in Fork PROVE mSendOps'[f] = <<>>  OBVIOUS
  <2>1. PICK q : q = mSendOps[f]  OBVIOUS
  <2>2. q \in Seq(SendId) /\ Increasing(q) /\ ToSet(q) = {o \in done : sFork[o] = f}
    BY <2>1 DEF SendSide, SendTypes, SendData, SendQueuesAgree
  <2>3. popped(f) = Len(q)  BY <2>2, SendIdNat, CardOfIncreasing
  <2>4. mSendOps'[f] = SubSeq(q, popped(f) + 1, Len(q))  BY <1>1, <2>1
  <2>5. mSendOps'[f] = SubSeq(q, Len(q) + 1, Len(q))  BY <2>3, <2>4
  <2>6. SubSeq(q, Len(q) + 1, Len(q)) = <<>>
    <3>1. PICK m \in Int : m = Len(q) + 1  BY <2>2
    <3>2. Len(q) \in Int /\ m > Len(q)  BY <2>2, <3>1
    <3> QED BY <2>2, <3>1, <3>2, SubSeqEmpty
  <2> QED BY <2>5, <2>6
<1>4. sStatus' \in [SendId -> OpStatus]  BY <1>1 DEF SendSide, SendTypes, OpStatus
<1>5. SendTypes'
  <2>1. mSendOps' \in [Fork -> Seq(SendId)]
    <3>1. mSendOps' = [f \in Fork |-> mSendOps'[f]]  BY <1>1
    <3>0. <<>> \in Seq(SendId)  OBVIOUS
    <3>2. \A f \in Fork : mSendOps'[f] \in Seq(SendId)  BY <1>3, <3>0, Zenon
    <3> QED BY <3>1, <3>2, Zenon
  <2>2. mSendBuffer' \in Seq(SendId)
    <3>1. <<>> \in Seq(SendId)  OBVIOUS
    <3> QED BY <1>1, <3>1
  <2> QED BY <1>1, <1>4, <2>1, <2>2 DEF SendSide, SendTypes
<1>6. SendTaskTypes'
  <2>1. sendStop' \in BOOLEAN /\ sendHole' \in [Fork -> BOOLEAN]
    BY DEF SendClose, SendSide, SendTaskTypes
  <2>2. sResult' \in [SendId -> Result]
    <3>1. sResult' = [o \in SendId |->
              CASE o = sendOp -> Outcome(sendEc)
                [] o \in ToSet(Tail(mSendBuffer)) -> IF o = Tail(mSendBuffer)[1] THEN ec ELSE "cancel"
                [] OTHER -> sResult[o]]
      BY DEF SendClose
    <3>2. Outcome(sendEc) \in Result  BY DEF Outcome, Result, SendSide, SendTaskTypes
    <3>3. ec \in Result /\ "cancel" \in Result /\ \A o \in SendId : sResult[o] \in Result
      BY DEF AfterFirst, Result, Code, SendSide, SendTaskTypes
    <3> HIDE DEF ec
    <3> QED BY <3>1, <3>2, <3>3
  <2> QED BY <1>1, <2>1, <2>2 DEF SendSide, SendTaskTypes, Status, SendPc, Code
<1>7. SendData'
  <2>1. ToSet(mSendBuffer') = {}
    <3>1. mSendBuffer' \in Seq(SendId)  BY <1>5 DEF SendTypes
    <3> QED BY <1>1, <3>1, EmptyQueue
  <2>2. Pending(sStatus') = {}
    <3>1. DOMAIN sStatus = SendId /\ DOMAIN sStatus' = SendId  BY <1>4 DEF SendSide, SendTypes
    <3>2. done = Pending(sStatus)  BY DEF SendSide, SendData
    <3> QED BY <1>1, <3>1, <3>2 DEF Pending
  <2>3. Increasing(mSendBuffer')  BY <1>1 DEF Increasing
  <2>4. SendQueuesAgree'
    <3> SUFFICES ASSUME NEW f \in Fork
                 PROVE  /\ ToSet(mSendOps'[f]) = {o \in ToSet(mSendBuffer') : sFork'[o] = f}
                        /\ Increasing(mSendOps'[f])
      BY DEF SendQueuesAgree
    <3>1. mSendOps'[f] = mSendBuffer'  BY <1>1, <1>3
    <3> QED BY <2>1, <2>3, <3>1
  <2>5. (\A o \in SendId : sStatus[o] = "unused" <=> o > numSends)'
    <3>1. \A o \in done : o \in SendId /\ sStatus[o] # "unused"  BY SendQueued DEF SendSide
    <3> QED BY <1>1, <3>1 DEF SendSide, SendData
  <2> QED BY <1>1, <2>1, <2>2, <2>3, <2>4, <2>5 DEF SendData
<1>8. SendControl'  BY <1>1, <1>2 DEF SendControl, HeadInProgress
<1> QED BY <1>2, <1>5, <1>6, <1>7, <1>8 DEF SendSide

\* The actions of the recv task and of recv calls that touch nothing of the send side.
RecvOnly ==
    \/ \E f \in Fork : \/ RecvRefused(f) \/ RecvWake(f) \/ RecvMatch(f) \/ RecvQueue(f)
                       \/ GetForkClosed(f) \/ GetForkWait(f) \/ GetForkFound(f)
                       \/ RecvNewFork(f) \/ RecvBadFork(f) \/ ForkSocket(f)
    \/ \E o \in RecvId : CancelQueuedRecv(o) \/ CancelRunningRecv(o)
    \/ \E ec \in Code : RecvIoFail(ec)
    \/ \E slot \in Slot : RecvHeader(slot, "getFork") \/ RecvHeader(slot, "meta")
    \/ RunRecvStop \/ RecvSizeOk \/ RecvSizeBad \/ RecvBody \/ RecvNext \/ RecvIdle

\* The user calls that touch no queue and no task.
LifeOnly ==
    \/ \E k \in FlushId : FlushNow(k) \/ FlushWait(k) \/ FlushThrow(k)
    \/ CloseSocket \/ DestroyBusy

\* The steps of the send task and of send calls.
SendOnly ==
    \/ \E f \in Fork : SendEmpty(f) \/ SendRefused(f) \/ SendWake(f) \/ SendQueue(f)
    \/ \E o \in SendId : CancelQueuedSend(o) \/ CancelRunningSend(o)
    \/ \E ec \in Code : SendIoFail(ec)
    \/ RunSendStop \/ SendIoDone \/ SendNext \/ SendIdle

LEMMA NextCases ==
    Next <=> SendOnly \/ RecvOnly \/ LifeOnly \/ SendClose \/ RecvClose \/ GetForkUnknown \/ Destroy
BY DEF Next, SendTaskStep, RecvTaskStep, UserStep, SocketStep, StopStep, SendOnly, RecvOnly, LifeOnly

LEMMA RecvOnlyFrame == RecvOnly => UNCHANGED <<sendVars, sent, mEC>>
<1> SUFFICES ASSUME RecvOnly PROVE UNCHANGED <<sendVars, sent, mEC>>  OBVIOUS
<1>1. CASE \E f \in Fork : RecvRefused(f) \/ RecvWake(f) \/ RecvMatch(f) \/ RecvQueue(f)
  BY <1>1 DEF RecvRefused, RecvWake, RecvMatch, RecvQueue, histVars
<1>2. CASE \E f \in Fork : \/ GetForkClosed(f) \/ GetForkWait(f) \/ GetForkFound(f)
                           \/ RecvNewFork(f) \/ RecvBadFork(f) \/ ForkSocket(f)
  BY <1>2 DEF GetForkClosed, GetForkWait, GetForkFound, RecvNewFork, RecvBadFork, ForkSocket, histVars
<1>3. CASE \E o \in RecvId : CancelQueuedRecv(o) \/ CancelRunningRecv(o)
  BY <1>3 DEF CancelQueuedRecv, CancelRunningRecv
<1>4. CASE \/ \E ec \in Code : RecvIoFail(ec)
           \/ \E slot \in Slot : RecvHeader(slot, "getFork") \/ RecvHeader(slot, "meta")
  BY <1>4 DEF RecvIoFail, RecvHeader, histVars
<1>5. CASE RunRecvStop \/ RecvSizeOk \/ RecvSizeBad \/ RecvBody \/ RecvNext \/ RecvIdle
  BY <1>5 DEF RunRecvStop, RecvSizeOk, RecvSizeBad, RecvBody, RecvNext, RecvIdle, histVars
<1> QED BY <1>1, <1>2, <1>3, <1>4, <1>5 DEF RecvOnly

LEMMA LifeOnlyFrame ==
    LifeOnly => UNCHANGED <<mEC, forkVars, sendVars, recvVars, histVars>>
BY DEF LifeOnly, FlushNow, FlushWait, FlushThrow, CloseSocket, DestroyBusy

LEMMA SendOnlyFrame == SendOnly => UNCHANGED <<mEC, forkVars, recvVars>>
<1> SUFFICES ASSUME SendOnly PROVE UNCHANGED <<mEC, forkVars, recvVars>>  OBVIOUS
<1>1. CASE \E f \in Fork : SendEmpty(f) \/ SendRefused(f) \/ SendWake(f) \/ SendQueue(f)
  BY <1>1 DEF SendEmpty, SendRefused, SendWake, SendQueue
<1>2. CASE \E o \in SendId : CancelQueuedSend(o) \/ CancelRunningSend(o)
  BY <1>2 DEF CancelQueuedSend, CancelRunningSend
<1>3. CASE (\E ec \in Code : SendIoFail(ec)) \/ RunSendStop \/ SendIoDone \/ SendNext \/ SendIdle
  BY <1>3 DEF SendIoFail, RunSendStop, SendIoDone, SendNext, SendIdle
<1> QED BY <1>1, <1>2, <1>3 DEF SendOnly

\* The send side of the invariant is inductive without the recv side.
LEMMA SendStep ==
    ASSUME ~TailCancel, ~WrapCancel, SendSide, mEC \in Code, [Next]_vars
    PROVE  SendSide'
<1>1. CASE UNCHANGED vars  BY <1>1, SendFrame DEF vars, histVars
<1>2. CASE RecvOnly  BY <1>2, RecvOnlyFrame, SendFrame
<1>3. CASE LifeOnly  BY <1>3, LifeOnlyFrame, SendFrame DEF histVars
<1>4. CASE SendOnly
  <2>1. ASSUME NEW f \in Fork, SendEmpty(f) PROVE SendSide'
    BY <2>1, SendRefusal DEF SendEmpty, Code, histVars
  <2>2. ASSUME NEW f \in Fork, SendRefused(f) PROVE SendSide'
    BY <2>2, SendRefusal DEF SendRefused, histVars
  <2>3. ASSUME NEW o \in SendId, CancelQueuedSend(o) \/ CancelRunningSend(o) PROVE SendSide'
    BY <2>3, CancelQueuedSendSide, CancelRunningSendSide
  <2> QED BY <1>4, <2>1, <2>2, <2>3, SendWakeSide, SendQueueSide, SendMoves, SendNextSide, SendIdleSide
          DEF SendOnly
<1>5. CASE SendClose  BY <1>5, SendCloseSide
<1>6. CASE RecvClose
  <2>1. /\ UNCHANGED <<sendOps, mSendStatus, sendOp, sendEc, mInitiated, sendList, mSendCancelSrc, sent>>
        /\ IF mEC = "success" THEN CloseSendTask ELSE UNCHANGED <<sendStop, sendPc>>
        /\ mEC' # "success"
    BY <1>6 DEF RecvClose, AfterFirst, histVars
  <2>2. CASE mEC = "success"  BY <2>1, <2>2, SendCancelled
  <2>3. CASE mEC # "success"
    <3>1. UNCHANGED <<sendVars, sent>>  BY <2>1, <2>3 DEF sendVars, sendTask, sendStopVars
    <3> QED BY <2>1, <3>1, SendFrame
  <2> QED BY <2>2, <2>3
<1>7. CASE GetForkUnknown
  <2>1. /\ UNCHANGED <<sendOps, mSendStatus, sendOp, sendEc, mInitiated, sendList, mSendCancelSrc, sent>>
        /\ mEC = "success" => CloseSendTask
        /\ mEC # "success" => UNCHANGED <<sendStop, sendPc>>
        /\ mEC' # "success"
    BY <1>7 DEF GetForkUnknown, histVars
  <2>2. CASE mEC = "success"  BY <2>1, <2>2, SendCancelled
  <2>3. CASE mEC # "success"
    <3>1. UNCHANGED <<sendVars, sent>>  BY <2>1, <2>3 DEF sendVars, sendTask, sendStopVars
    <3> QED BY <2>1, <3>1, SendFrame
  <2> QED BY <2>2, <2>3
<1>8. CASE Destroy
  <2>1. /\ UNCHANGED <<sendOps, mSendStatus, sendOp, sendEc, mInitiated, sendList, mSendCancelSrc, sent>>
        /\ mEC = "success" => CloseSendTask
        /\ mEC # "success" => UNCHANGED <<sendStop, sendPc>>
        /\ mEC' # "success"
    BY <1>8 DEF Destroy, histVars
  <2>2. CASE mEC = "success"  BY <2>1, <2>2, SendCancelled
  <2>3. CASE mEC # "success"
    <3>1. UNCHANGED <<sendVars, sent>>  BY <2>1, <2>3 DEF sendVars, sendTask, sendStopVars
    <3> QED BY <2>1, <3>1, SendFrame
  <2> QED BY <2>2, <2>3
<1> QED BY <1>1, <1>2, <1>3, <1>4, <1>5, <1>6, <1>7, <1>8, NextCases
-----------------------------------------------------------------------------
(* The recvs *)

\* The structures that hold the recv operations ...
RecvTypes ==
    /\ mRecvOps \in [Fork -> Seq(RecvId)] /\ numRecvsIssued \in 0..MaxRecvs
    /\ rFork \in [RecvId -> Fork] /\ rStatus \in [RecvId -> OpStatus] /\ mNumRecvs \in Nat

RecvQueuesAgree ==
    \A f \in Fork :
        /\ ToSet(mRecvOps[f]) = {o \in Pending(rStatus) : rFork[o] = f}
        /\ Increasing(mRecvOps[f])

RecvData ==
    /\ \A o \in RecvId : rStatus[o] = "unused" <=> o > numRecvsIssued
    /\ mNumRecvs = Cardinality(Pending(rStatus))
    /\ RecvQueuesAgree

\* ... and the recv task.
RecvTaskTypes ==
    /\ mRecvStatus \in Status /\ recvPc \in RecvPc /\ recvEc \in Code
    /\ recvOp \in RecvId \cup {None} /\ headerSlot \in Slot \cup {None}
    /\ recvHole \in [Fork -> BOOLEAN] /\ rResult \in [RecvId -> Result]
    /\ mRecvCancelSrc \in {"held", "queued", "fired"} /\ recvStop \in BOOLEAN
    /\ mRemoteId \in [Fork -> Slot \cup {None}] /\ mEC \in Code

RecvFilling ==
    recvOp # None =>
        /\ mRecvOps[rFork[recvOp]] # <<>> /\ mRecvOps[rFork[recvOp]][1] = recvOp
        /\ rStatus[recvOp] \in {"InProgress", "Canceling"}

RecvStatusOK ==
    /\ recvPc \in {"idle", "requested", "exit"} => mRecvStatus # "InUse"
    /\ mEC = "success" => (mRecvStatus = "Idle") = (recvPc = "idle")

RecvControl == RecvFilling /\ RecvLocals /\ NoMissedRecv /\ RecvStatusOK

RecvSide == RecvTypes /\ RecvTaskTypes /\ RecvData /\ RecvControl

LEMMA RecvSideParts ==
    RecvSide <=> /\ RecvTypeOK /\ RecvInv /\ mRemoteId \in [Fork -> Slot \cup {None}] /\ mEC \in Code
<1>1. RecvTypes /\ RecvTaskTypes <=>
        RecvTypeOK /\ mRemoteId \in [Fork -> Slot \cup {None}] /\ mEC \in Code
  BY DEF RecvTypeOK, RecvTypes, RecvTaskTypes
<1>2. RecvsQueued <=> RecvQueuesAgree /\ RecvFilling
  BY DEF RecvsQueued, RecvQueuesAgree, RecvFilling
<1>3. RecvInv <=> RecvData /\ RecvControl
  BY <1>2 DEF RecvInv, RecvData, RecvControl, RecvsCounted, RecvStatusOK
<1> QED BY <1>1, <1>3 DEF RecvSide

LEMMA PendingRecvs ==
    ASSUME RecvTypes
    PROVE  /\ Pending(rStatus) \subseteq RecvId /\ IsFiniteSet(Pending(rStatus))
           /\ Cardinality(Pending(rStatus)) \in Nat
           /\ Pending(rStatus) = {o \in RecvId : rStatus[o] \notin {"unused", "refused", "completed"}}
<1>1. Pending(rStatus) = {o \in RecvId : rStatus[o] \notin {"unused", "refused", "completed"}}
  BY DEF RecvTypes, Pending
<1>2. IsFiniteSet(RecvId)  BY SchedulerAssumption, FS_Interval DEF SchedulerAssumption, RecvId
<1>3. IsFiniteSet(Pending(rStatus))  BY <1>1, <1>2, FS_Subset
<1> QED BY <1>1, <1>3, FS_CardinalityType

\* What is queued was issued and has not completed.
LEMMA RecvQueued ==
    ASSUME RecvTypes, RecvData
    PROVE  /\ \A o \in Pending(rStatus) : o \in RecvId /\ o \in Nat /\ o <= numRecvsIssued
           /\ \A f \in Fork : \A o \in ToSet(mRecvOps[f]) : o \in Pending(rStatus) /\ rFork[o] = f
<1>1. ASSUME NEW o \in Pending(rStatus) PROVE o \in RecvId /\ o \in Nat /\ o <= numRecvsIssued
  <2>1. o \in RecvId /\ rStatus[o] # "unused"  BY PendingRecvs
  <2>2. o \in Nat  BY <2>1, SendIdNat
  <2> QED BY <2>1, <2>2 DEF RecvData, RecvTypes
<1> QED BY <1>1 DEF RecvData, RecvQueuesAgree

\* A new operation at the end of its fork's queue.
LEMMA EnqueueRecv ==
    ASSUME RecvTypes, RecvData, NEW f \in Fork, NEW st \in {"NotStarted", "InProgress"},
           IssueRecv(f, st, "none"), EmplaceRecv(f)
    PROVE  /\ RecvTypes' /\ RecvData'
           /\ numRecvsIssued + 1 \in RecvId /\ numRecvsIssued + 1 # None
           /\ \A o \in Pending(rStatus) : rStatus'[o] = rStatus[o] /\ rFork'[o] = rFork[o]
           /\ rStatus'[numRecvsIssued + 1] = st /\ rFork'[numRecvsIssued + 1] = f
           /\ mRecvOps'[f] = Append(mRecvOps[f], numRecvsIssued + 1)
           /\ \A g \in Fork \ {f} : mRecvOps'[g] = mRecvOps[g]
<1> DEFINE n == numRecvsIssued + 1
<1>1. n \in RecvId /\ numRecvsIssued \in Nat /\ n \in Nat /\ n \in 0..MaxRecvs /\ n # None
  BY SchedulerAssumption DEF IssueRecv, RecvTypes, RecvId, SchedulerAssumption, None
<1>2. /\ numRecvsIssued' = n
      /\ rFork' = [rFork EXCEPT ![n] = f]
      /\ rStatus' = [rStatus EXCEPT ![n] = st]
      /\ mRecvOps' = [mRecvOps EXCEPT ![f] = Append(@, n)]
      /\ mNumRecvs' = mNumRecvs + 1
  BY DEF IssueRecv, EmplaceRecv
<1>3. mRecvOps[f] \in Seq(RecvId)  BY DEF RecvTypes
<1>4. rStatus[n] = "unused"  BY <1>1 DEF RecvData
<1>5. /\ Append(mRecvOps[f], n) \in Seq(RecvId)
      /\ Len(Append(mRecvOps[f], n)) = Len(mRecvOps[f]) + 1
      /\ Append(mRecvOps[f], n)[Len(mRecvOps[f]) + 1] = n
      /\ \A i \in 1..Len(mRecvOps[f]) : Append(mRecvOps[f], n)[i] = mRecvOps[f][i]
      /\ ToSet(Append(mRecvOps[f], n)) = ToSet(mRecvOps[f]) \cup {n}
  BY <1>1, <1>3, AppendFacts
<1>6. \A o \in Pending(rStatus) : o \in RecvId /\ o # n /\ o < n
  <2> SUFFICES ASSUME NEW o \in Pending(rStatus) PROVE o \in RecvId /\ o # n /\ o < n
    OBVIOUS
  <2>1. o \in RecvId /\ o \in Nat /\ o <= numRecvsIssued  BY RecvQueued
  <2> QED BY <1>1, <2>1
<1> HIDE DEF n
<1>7. RecvTypes'
  <2>1. rFork' \in [RecvId -> Fork] /\ rStatus' \in [RecvId -> OpStatus]
    BY <1>1, <1>2 DEF RecvTypes, OpStatus
  <2>2. mRecvOps' \in [Fork -> Seq(RecvId)]  BY <1>2, <1>5 DEF RecvTypes
  <2>3. mNumRecvs' \in Nat  BY <1>2 DEF RecvTypes
  <2> QED BY <1>1, <1>2, <2>1, <2>2, <2>3 DEF RecvTypes
<1>8. /\ \A o \in RecvId : rStatus'[o] = IF o = n THEN st ELSE rStatus[o]
      /\ \A o \in RecvId : rFork'[o] = IF o = n THEN f ELSE rFork[o]
  BY <1>1, <1>2 DEF RecvTypes
<1>9. Pending(rStatus') = Pending(rStatus) \cup {n} /\ n \notin Pending(rStatus)
  <2>1. DOMAIN rStatus = RecvId /\ DOMAIN rStatus' = RecvId  BY <1>7 DEF RecvTypes
  <2> QED BY <1>1, <1>4, <1>8, <2>1 DEF Pending
<1>10. mNumRecvs' = Cardinality(Pending(rStatus'))
  <2>1. Cardinality(Pending(rStatus) \cup {n}) = Cardinality(Pending(rStatus)) + 1
    BY <1>9, PendingRecvs, FS_AddElement
  <2> QED BY <1>2, <1>9, <2>1 DEF RecvData
<1>11. (\A o \in RecvId : rStatus[o] = "unused" <=> o > numRecvsIssued)'
  BY <1>1, <1>2, <1>8, SendIdNat DEF RecvData, n
<1>12. \A g \in Fork \ {f} : mRecvOps'[g] = mRecvOps[g]  BY <1>2 DEF RecvTypes
<1>13. mRecvOps'[f] = Append(mRecvOps[f], n)  BY <1>2 DEF RecvTypes
<1>14. RecvQueuesAgree'
  <2> SUFFICES ASSUME NEW g \in Fork
               PROVE  /\ ToSet(mRecvOps'[g]) = {o \in Pending(rStatus') : rFork'[o] = g}
                      /\ Increasing(mRecvOps'[g])
    BY DEF RecvQueuesAgree
  <2>1. ToSet(mRecvOps[g]) = {o \in Pending(rStatus) : rFork[o] = g} /\ Increasing(mRecvOps[g])
    BY DEF RecvData, RecvQueuesAgree
  <2>2. \A o \in Pending(rStatus) : rFork'[o] = rFork[o]  BY <1>6, <1>8
  <2>3. rFork'[n] = f  BY <1>1, <1>8
  <2>4. CASE g = f
    <3>1. ToSet(mRecvOps'[g]) = ToSet(mRecvOps[g]) \cup {n}  BY <1>5, <1>13, <2>4
    <3>2. \A i \in 1..Len(mRecvOps[f]) : mRecvOps[f][i] < n  BY <1>3, <1>6, <2>1, <2>4, InToSet
    <3>3. Increasing(Append(mRecvOps[f], n))  BY <1>3, <1>5, <2>1, <2>4, <3>2 DEF Increasing
    <3>4. ToSet(mRecvOps'[g]) = {o \in Pending(rStatus') : rFork'[o] = g}
      BY <1>9, <2>1, <2>2, <2>3, <2>4, <3>1
    <3> QED BY <1>13, <2>4, <3>3, <3>4
  <2>5. CASE g # f  BY <1>9, <1>12, <2>1, <2>2, <2>3, <2>5
  <2> QED BY <2>4, <2>5
<1>15. \A o \in Pending(rStatus) : rStatus'[o] = rStatus[o] /\ rFork'[o] = rFork[o]  BY <1>6, <1>8
<1>16. rStatus'[n] = st /\ rFork'[n] = f  BY <1>1, <1>8
<1> QED BY <1>1, <1>7, <1>10, <1>11, <1>12, <1>13, <1>14, <1>15, <1>16 DEF RecvData, n

\* An operation leaves its fork's queue and is no longer counted.
LEMMA DequeueRecv ==
    ASSUME RecvTypes, RecvData, NEW o \in Pending(rStatus), NEW q \in Seq(RecvId),
           Increasing(q), ToSet(q) = ToSet(mRecvOps[rFork[o]]) \ {o},
           mRecvOps' = [mRecvOps EXCEPT ![rFork[o]] = q],
           rStatus' = [rStatus EXCEPT ![o] = "completed"],
           mNumRecvs' = mNumRecvs - 1, UNCHANGED <<numRecvsIssued, rFork>>
    PROVE  /\ RecvTypes' /\ RecvData' /\ Pending(rStatus') = Pending(rStatus) \ {o}
           /\ \A p \in RecvId \ {o} : rStatus'[p] = rStatus[p]
<1>0. o \in RecvId /\ rFork[o] \in Fork /\ rStatus[o] \notin {"unused", "completed"}
  BY PendingRecvs DEF RecvTypes
<1>1. rStatus' \in [RecvId -> OpStatus] /\ mRecvOps' \in [Fork -> Seq(RecvId)]
  BY <1>0 DEF RecvTypes, OpStatus
<1>2. \A p \in RecvId : rStatus'[p] = IF p = o THEN "completed" ELSE rStatus[p]
  BY DEF RecvTypes
<1>3. Pending(rStatus') = Pending(rStatus) \ {o}
  <2>1. DOMAIN rStatus = RecvId /\ DOMAIN rStatus' = RecvId  BY <1>1 DEF RecvTypes
  <2> QED BY <1>2, <2>1 DEF Pending
<1>4. mNumRecvs' = Cardinality(Pending(rStatus'))
  BY <1>3, PendingRecvs, FS_RemoveElement DEF RecvData
<1>5. mNumRecvs' \in Nat
  <2>1. IsFiniteSet(Pending(rStatus) \ {o})  BY PendingRecvs, FS_Subset
  <2> QED BY <1>3, <1>4, <2>1, FS_CardinalityType
<1>6. RecvTypes'  BY <1>1, <1>5 DEF RecvTypes
<1>7. RecvQueuesAgree'
  <2> SUFFICES ASSUME NEW g \in Fork
               PROVE  /\ ToSet(mRecvOps'[g]) = {p \in Pending(rStatus') : rFork'[p] = g}
                      /\ Increasing(mRecvOps'[g])
    BY DEF RecvQueuesAgree
  <2>1. ToSet(mRecvOps[g]) = {p \in Pending(rStatus) : rFork[p] = g} /\ Increasing(mRecvOps[g])
    BY DEF RecvData, RecvQueuesAgree
  <2>2. CASE g = rFork[o]
    <3>1. mRecvOps'[g] = q  BY <1>0, <2>2 DEF RecvTypes
    <3> QED BY <1>3, <2>1, <2>2, <3>1
  <2>3. CASE g # rFork[o]
    <3>1. mRecvOps'[g] = mRecvOps[g]  BY <1>0, <2>3 DEF RecvTypes
    <3> QED BY <1>3, <2>1, <2>3, <3>1
  <2> QED BY <2>2, <2>3
<1>8. (\A p \in RecvId : rStatus[p] = "unused" <=> p > numRecvsIssued)'
  BY <1>0, <1>2 DEF RecvData
<1> QED BY <1>2, <1>3, <1>4, <1>6, <1>7, <1>8 DEF RecvData

\* Steps that leave the recv side alone.
LEMMA RecvFrame ==
    ASSUME RecvSide, UNCHANGED <<recvVars, mRemoteId, mEC>>
    PROVE  RecvSide'
<1>1. /\ UNCHANGED <<mRecvStatus, recvPc, recvOp, recvEc, headerSlot, mRemoteId, mEC>>
      /\ UNCHANGED <<mRecvOps, recvHole, numRecvsIssued, rFork, rStatus, rResult, mNumRecvs, mRecvCancelSrc, recvStop>>
  BY DEF recvVars, recvOps, recvTask, recvStopVars
<1>2. RecvTypes' /\ RecvTaskTypes'  BY <1>1 DEF RecvSide, RecvTypes, RecvTaskTypes
<1>3. RecvData'  BY <1>1 DEF RecvSide, RecvData, RecvQueuesAgree
<1>4. RecvControl'
  BY <1>1 DEF RecvSide, RecvControl, RecvFilling, RecvLocals, NoMissedRecv, RecvStatusOK
<1> QED BY <1>2, <1>3, <1>4 DEF RecvSide

\* cancel raises an error: a task that waits for an operation is resumed with ec.
LEMMA RecvCancelled ==
    ASSUME RecvSide, NEW ec \in Code \ {"success"}, CloseRecvTask(ec), mEC' \in Code \ {"success"},
           UNCHANGED <<recvOps, mRecvStatus, recvOp, headerSlot, mRecvCancelSrc, mRemoteId>>
    PROVE  RecvSide'
<1>1. /\ UNCHANGED <<mRecvStatus, recvOp, headerSlot, mRecvCancelSrc, mRemoteId>>
      /\ UNCHANGED <<mRecvOps, recvHole, numRecvsIssued, rFork, rStatus, rResult, mNumRecvs>>
  BY DEF recvOps
<1>2. /\ recvPc = "idle" => recvPc' = "exit" /\ recvEc' = recvEc
      /\ recvPc = "requested" => recvPc' = "any" /\ recvEc' = ec
      /\ recvPc \notin {"idle", "requested"} => recvPc' = recvPc /\ recvEc' = recvEc
      /\ recvStop' \in BOOLEAN
  BY DEF CloseRecvTask, RecvSide, RecvTaskTypes
<1>3. RecvTypes' /\ RecvTaskTypes'  BY <1>1, <1>2 DEF RecvSide, RecvTypes, RecvTaskTypes, RecvPc
<1>4. RecvData'  BY <1>1 DEF RecvSide, RecvData, RecvQueuesAgree
<1>5. RecvFilling'  BY <1>1 DEF RecvSide, RecvControl, RecvFilling
<1>6. RecvLocals'  BY <1>1, <1>2 DEF RecvSide, RecvControl, RecvLocals
<1>7. NoMissedRecv'  BY <1>1, <1>2 DEF RecvSide, RecvControl, NoMissedRecv
<1>8. RecvStatusOK'  BY <1>1, <1>2 DEF RecvSide, RecvControl, RecvStatusOK
<1> QED BY <1>3, <1>4, <1>5, <1>6, <1>7, <1>8 DEF RecvSide, RecvControl

LEMMA RecvRefusedSide ==
    ASSUME RecvSide, NEW f \in Fork, RecvRefused(f)
    PROVE  RecvSide'
<1> DEFINE n == numRecvsIssued + 1
<1>1. n \in RecvId /\ numRecvsIssued \in Nat /\ n \in Nat /\ n \in 0..MaxRecvs
  BY SchedulerAssumption DEF RecvRefused, IssueRecv, RecvSide, RecvTypes, RecvId, SchedulerAssumption
<1>2. /\ UNCHANGED <<mRecvStatus, recvPc, recvOp, recvEc, headerSlot, mRemoteId, mEC>>
      /\ UNCHANGED <<mRecvOps, recvHole, mNumRecvs, mRecvCancelSrc, recvStop>>
      /\ numRecvsIssued' = n /\ rFork' = [rFork EXCEPT ![n] = f]
      /\ rStatus' = [rStatus EXCEPT ![n] = "refused"] /\ rResult' = [rResult EXCEPT ![n] = mEC]
      /\ mEC # "success"
  BY DEF RecvRefused, IssueRecv, forkVars, recvTask, recvStopVars
<1>3. \A o \in Pending(rStatus) : o \in RecvId /\ o # n
  <2> SUFFICES ASSUME NEW o \in Pending(rStatus) PROVE o \in RecvId /\ o # n  OBVIOUS
  <2>1. o \in RecvId /\ o \in Nat /\ o <= numRecvsIssued  BY RecvQueued DEF RecvSide
  <2> QED BY <1>1, <2>1
<1>4. rStatus[n] = "unused"  BY <1>1 DEF RecvSide, RecvData
<1>5. (\A o \in RecvId : rStatus[o] = "unused" <=> o > numRecvsIssued)'
  <2>1. \A o \in RecvId : rStatus'[o] = IF o = n THEN "refused" ELSE rStatus[o]
    BY <1>1, <1>2 DEF RecvSide, RecvTypes
  <2> QED BY <1>1, <1>2, <2>1, SendIdNat DEF RecvSide, RecvData
<1> HIDE DEF n
<1>6. RecvTypes' /\ RecvTaskTypes'
  <2>1. rFork' \in [RecvId -> Fork] /\ rStatus' \in [RecvId -> OpStatus] /\ rResult' \in [RecvId -> Result]
    BY <1>1, <1>2 DEF RecvSide, RecvTypes, RecvTaskTypes, OpStatus, Result
  <2> QED BY <1>1, <1>2, <2>1 DEF RecvSide, RecvTypes, RecvTaskTypes
<1>7. Pending(rStatus') = Pending(rStatus)
  <2>1. DOMAIN rStatus = RecvId /\ DOMAIN rStatus' = RecvId  BY <1>6 DEF RecvSide, RecvTypes
  <2> QED BY <1>1, <1>2, <1>4, <2>1 DEF Pending
<1>8. \A o \in Pending(rStatus) : rStatus'[o] = rStatus[o] /\ rFork'[o] = rFork[o]
  BY <1>1, <1>2, <1>3 DEF RecvSide, RecvTypes
<1>9. RecvData'  BY <1>2, <1>5, <1>7, <1>8 DEF RecvSide, RecvData, RecvQueuesAgree
<1>10. recvOp # None => recvOp \in Pending(rStatus)
  BY PendingRecvs DEF RecvSide, RecvControl, RecvFilling, RecvTaskTypes
<1>11. RecvFilling'  BY <1>2, <1>8, <1>10 DEF RecvSide, RecvControl, RecvFilling
<1>12. RecvLocals' /\ RecvStatusOK'  BY <1>2 DEF RecvSide, RecvControl, RecvLocals, RecvStatusOK
<1>13. NoMissedRecv'  BY <1>2, <1>7 DEF RecvSide, RecvControl, NoMissedRecv
<1> QED BY <1>6, <1>9, <1>11, <1>12, <1>13 DEF RecvSide, RecvControl

LEMMA RecvCallSide ==
    ASSUME RecvSide, NEW f \in Fork, RecvWake(f) \/ RecvMatch(f) \/ RecvQueue(f)
    PROVE  RecvSide'
<1> DEFINE n == numRecvsIssued + 1
<1>1. PICK st \in {"NotStarted", "InProgress"} :
        /\ IssueRecv(f, st, "none") /\ EmplaceRecv(f)
        /\ RecvMatch(f) => st = "InProgress"
  BY DEF RecvWake, RecvMatch, RecvQueue
<1>2. /\ RecvTypes' /\ RecvData' /\ n \in RecvId /\ n # None
      /\ \A o \in Pending(rStatus) : rStatus'[o] = rStatus[o] /\ rFork'[o] = rFork[o]
      /\ rStatus'[n] = st /\ rFork'[n] = f
      /\ mRecvOps'[f] = Append(mRecvOps[f], n)
      /\ \A g \in Fork \ {f} : mRecvOps'[g] = mRecvOps[g]
  BY <1>1, EnqueueRecv DEF RecvSide
<1>3. /\ UNCHANGED <<recvEc, headerSlot, mRecvCancelSrc, recvStop, mRemoteId, mEC>> /\ mEC = "success"
      /\ \/ recvPc = "idle" /\ mRecvStatus' = "InUse" /\ recvPc' = "header" /\ recvOp' = recvOp
         \/ /\ Requested(f) /\ RecvMatch(f) /\ mRecvStatus' = "InUse" /\ recvPc' = "gotOp" /\ recvOp' = n
         \/ recvPc # "idle" /\ ~Requested(f) /\ UNCHANGED <<mRecvStatus, recvPc, recvOp>>
  BY DEF RecvWake, RecvMatch, RecvQueue, forkVars, recvTask, recvStopVars
<1> HIDE DEF n
<1>4. RecvTaskTypes'
  <2>1. rResult' = [rResult EXCEPT ![n] = "none"] /\ recvHole' = [recvHole EXCEPT ![f] = FALSE]
    BY <1>1 DEF IssueRecv, EmplaceRecv, n
  <2>2. rResult' \in [RecvId -> Result] /\ recvHole' \in [Fork -> BOOLEAN]
    BY <2>1 DEF RecvSide, RecvTaskTypes, Result
  <2> QED BY <1>2, <1>3, <2>2 DEF RecvSide, RecvTaskTypes, Status, RecvPc
<1>5. mRecvOps[f] \in Seq(RecvId)  BY DEF RecvSide, RecvTypes
<1>6. /\ Append(mRecvOps[f], n) # <<>>
      /\ mRecvOps[f] = <<>> => Append(mRecvOps[f], n)[1] = n
      /\ mRecvOps[f] # <<>> => Append(mRecvOps[f], n)[1] = mRecvOps[f][1]
  <2>1. PICK q : q = mRecvOps[f]  OBVIOUS
  <2>2. /\ Len(q) \in Nat /\ Len(Append(q, n)) = Len(q) + 1 /\ Append(q, n)[Len(q) + 1] = n
        /\ \A i \in 1..Len(q) : Append(q, n)[i] = q[i]
    BY <1>2, <1>5, <2>1, AppendFacts
  <2>3. Append(q, n) # <<>>  BY <2>1, <1>2, <1>5
  <2>4. CASE q = <<>>
    <3>1. Len(q) = 0  BY <2>4
    <3>2. Append(q, n)[0 + 1] = n  BY <2>2, <3>1
    <3> QED BY <2>1, <2>3, <2>4, <3>2
  <2>5. CASE q # <<>>
    <3>1. 1 \in 1..Len(q)  BY <1>5, <2>1, <2>5
    <3> QED BY <2>1, <2>2, <2>3, <2>5, <3>1
  <2> QED BY <2>4, <2>5
<1>7. RecvFilling'
  <2>1. CASE recvOp' = n /\ Requested(f)
    <3>1. mRecvOps[f] = <<>>  BY <2>1 DEF RecvSide, RecvControl, NoMissedRecv, Requested
    <3>2. recvOp' = n /\ rFork'[n] = f /\ RecvMatch(f)
      <4>1. RecvMatch(f)  BY <1>3, <2>1 DEF Requested
      <4> QED BY <1>2, <2>1, <4>1
    <3>3. rStatus'[n] = "InProgress"  BY <1>1, <1>2, <3>2
    <3>4. mRecvOps'[rFork'[recvOp']] = Append(mRecvOps[f], n)  BY <1>2, <3>2
    <3> QED BY <1>6, <3>1, <3>2, <3>3, <3>4 DEF RecvFilling
  <2>2. CASE recvOp' = recvOp /\ recvOp # None
    <3>1. recvOp \in Pending(rStatus)
      BY <2>2, PendingRecvs DEF RecvSide, RecvControl, RecvFilling, RecvTaskTypes
    <3>2. rStatus'[recvOp] = rStatus[recvOp] /\ rFork'[recvOp] = rFork[recvOp] /\ rFork[recvOp] \in Fork
      BY <1>2, <3>1, PendingRecvs DEF RecvSide, RecvTypes
    <3>3. CASE rFork[recvOp] = f
      BY <1>2, <1>6, <2>2, <3>2, <3>3 DEF RecvSide, RecvControl, RecvFilling
    <3>4. CASE rFork[recvOp] # f
      <4>1. mRecvOps'[rFork'[recvOp]] = mRecvOps[rFork[recvOp]]  BY <1>2, <3>2, <3>4
      <4> QED BY <2>2, <3>2, <4>1 DEF RecvSide, RecvControl, RecvFilling
    <3> QED BY <3>3, <3>4
  <2>3. CASE recvOp' = None  BY <2>3 DEF RecvFilling
  <2> QED BY <1>3, <2>1, <2>2, <2>3
<1>8. RecvLocals'
  BY <1>2, <1>3 DEF RecvSide, RecvControl, RecvLocals, Requested
<1>9. RecvStatusOK'
  BY <1>3 DEF RecvSide, RecvControl, RecvStatusOK
<1>10. NoMissedRecv'
  <2>1. recvPc' \notin {"idle", "exit"}
    BY <1>3 DEF RecvSide, RecvControl, RecvLocals
  <2>2. ASSUME NEW g \in Fork, recvPc' = "requested", mRemoteId'[g] = headerSlot' PROVE mRecvOps'[g] = <<>>
    <3>1. ~Requested(f) /\ recvPc = "requested" /\ mRemoteId[g] = headerSlot  BY <1>3, <2>2
    <3>2. g # f  BY <3>1 DEF Requested
    <3> QED BY <1>2, <3>1, <3>2 DEF RecvSide, RecvControl, NoMissedRecv
  <2> QED BY <2>1, <2>2 DEF NoMissedRecv
<1> QED BY <1>2, <1>4, <1>7, <1>8, <1>9, <1>10 DEF RecvSide, RecvControl

LEMMA CancelRunningRecvSide ==
    ASSUME RecvSide, NEW o \in RecvId, CancelRunningRecv(o)
    PROVE  RecvSide'
<1>1. /\ rStatus[o] = "InProgress" /\ rStatus' = [rStatus EXCEPT ![o] = "Canceling"]
      /\ mRecvCancelSrc' = (IF mRecvCancelSrc = "held" THEN "queued" ELSE mRecvCancelSrc)
      /\ UNCHANGED <<mRecvStatus, recvPc, recvOp, recvEc, headerSlot, mRemoteId, mEC>>
      /\ UNCHANGED <<mRecvOps, recvHole, numRecvsIssued, rFork, rResult, mNumRecvs, recvStop>>
  BY DEF CancelRunningRecv, recvTask, forkVars
<1>2. \A p \in RecvId : rStatus'[p] = IF p = o THEN "Canceling" ELSE rStatus[p]
  BY <1>1 DEF RecvSide, RecvTypes
<1>3. RecvTypes' /\ RecvTaskTypes'  BY <1>1 DEF RecvSide, RecvTypes, RecvTaskTypes, OpStatus
<1>4. Pending(rStatus') = Pending(rStatus)
  <2>1. DOMAIN rStatus = RecvId /\ DOMAIN rStatus' = RecvId  BY <1>3 DEF RecvSide, RecvTypes
  <2> QED BY <1>1, <1>2, <2>1 DEF Pending
<1>5. RecvData'
  <2>1. (\A p \in RecvId : rStatus[p] = "unused" <=> p > numRecvsIssued)'
    BY <1>1, <1>2 DEF RecvSide, RecvData
  <2> QED BY <1>1, <1>4, <2>1 DEF RecvSide, RecvData, RecvQueuesAgree
<1>6. RecvFilling'  BY <1>1, <1>2 DEF RecvSide, RecvControl, RecvFilling, RecvTaskTypes
<1>7. RecvLocals' /\ RecvStatusOK'  BY <1>1 DEF RecvSide, RecvControl, RecvLocals, RecvStatusOK
<1>8. NoMissedRecv'  BY <1>1, <1>4 DEF RecvSide, RecvControl, NoMissedRecv
<1> QED BY <1>3, <1>5, <1>6, <1>7, <1>8 DEF RecvSide, RecvControl

\* The recv that is being filled has started, so no stop callback removes it.
LEMMA CancelQueuedRecvSide ==
    ASSUME RecvSide, ~WrapCancel, NEW o \in RecvId, CancelQueuedRecv(o)
    PROVE  RecvSide'
<1>1. /\ rStatus[o] = "NotStarted" /\ rStatus' = [rStatus EXCEPT ![o] = "completed"]
      /\ rResult' = [rResult EXCEPT ![o] = "operation_aborted"] /\ mNumRecvs' = mNumRecvs - 1
      /\ UNCHANGED <<mRecvStatus, recvPc, recvOp, recvEc, headerSlot, mRemoteId, mEC>>
      /\ UNCHANGED <<numRecvsIssued, rFork, mRecvCancelSrc, recvStop>>
  BY DEF CancelQueuedRecv, recvTask, recvStopVars, forkVars
<1>2. o \in Pending(rStatus) /\ rFork[o] \in Fork  BY <1>1, PendingRecvs DEF RecvSide, RecvTypes
<1>3. PICK old : old = mRecvOps[rFork[o]]  OBVIOUS
<1>4. old \in Seq(RecvId) /\ Increasing(old)
  BY <1>2, <1>3 DEF RecvSide, RecvTypes, RecvData, RecvQueuesAgree
<1>5. PICK i \in 1..Len(old) : /\ old[i] = o /\ mRecvOps' = [mRecvOps EXCEPT ![rFork[o]] = RemoveAt(old, i)]
                              /\ recvHole' = [recvHole EXCEPT ![rFork[o]] = HoleAfterErase(@, old, i)]
  <2>1. DOMAIN old = 1..Len(old)  BY <1>4
  <2>2. PICK j \in DOMAIN mRecvOps[rFork[o]] :
            /\ mRecvOps[rFork[o]][j] = o
            /\ mRecvOps' = [mRecvOps EXCEPT ![rFork[o]] = RemoveAt(@, j)]
            /\ recvHole' = [recvHole EXCEPT ![rFork[o]] = HoleAfterErase(@, mRecvOps[rFork[o]], j)]
    BY DEF CancelQueuedRecv, EraseRecv
  <2>3. j \in 1..Len(old) /\ old[j] = o  BY <1>3, <2>1, <2>2
  <2>4. mRecvOps' = [mRecvOps EXCEPT ![rFork[o]] = RemoveAt(old, j)]  BY <1>3, <2>2
  <2>5. recvHole' = [recvHole EXCEPT ![rFork[o]] = HoleAfterErase(@, old, j)]  BY <1>3, <2>2
  <2> QED BY <2>3, <2>4, <2>5
<1>6. PICK q : q = RemoveAt(old, i)  OBVIOUS
<1>7. /\ q \in Seq(RecvId) /\ Increasing(q) /\ ToSet(q) = ToSet(old) \ {o} /\ Len(q) = Len(old) - 1
      /\ \A j \in 1..Len(old)-1 : q[j] = (IF j < i THEN old[j] ELSE old[j+1])
  <2>1. RecvId \in SUBSET Nat  BY SendIdNat
  <2>2. /\ RemoveAt(old, i) \in Seq(RecvId) /\ Len(RemoveAt(old, i)) = Len(old) - 1
        /\ \A j \in 1..Len(old)-1 : RemoveAt(old, i)[j] = IF j < i THEN old[j] ELSE old[j+1]
    BY <1>4, <2>1, RemoveAtFacts
  <2>3. ToSet(RemoveAt(old, i)) = ToSet(old) \ {old[i]} /\ Increasing(RemoveAt(old, i))
    BY <1>4, <2>1, RemoveAtFacts
  <2> QED BY <1>5, <1>6, <2>2, <2>3
<1>8. mRecvOps' = [mRecvOps EXCEPT ![rFork[o]] = q]  BY <1>5, <1>6
<1>9. /\ RecvTypes' /\ RecvData' /\ Pending(rStatus') = Pending(rStatus) \ {o}
      /\ \A p \in RecvId \ {o} : rStatus'[p] = rStatus[p]
  <2>1. RecvTypes /\ RecvData /\ ToSet(q) = ToSet(mRecvOps[rFork[o]]) \ {o}  BY <1>3, <1>7 DEF RecvSide
  <2> QED BY <1>1, <1>2, <1>7, <1>8, <2>1, DequeueRecv
<1>10. RecvTaskTypes'
  <2>1. rResult' \in [RecvId -> Result]  BY <1>1 DEF RecvSide, RecvTaskTypes, Result, Code
  <2>2. recvHole' \in [Fork -> BOOLEAN]
    <3>1. HoleAfterErase(recvHole[rFork[o]], old, i) \in BOOLEAN
      BY <1>2 DEF HoleAfterErase, RecvSide, RecvTaskTypes
    <3> QED BY <1>5, <3>1 DEF RecvSide, RecvTaskTypes
  <2> QED BY <1>1, <2>1, <2>2 DEF RecvSide, RecvTaskTypes
<1>11. RecvFilling'
  <2> SUFFICES ASSUME recvOp # None PROVE RecvFilling'  BY <1>1 DEF RecvFilling
  <2>1. /\ recvOp \in RecvId /\ recvOp # o /\ rStatus[recvOp] \in {"InProgress", "Canceling"}
        /\ rFork[recvOp] \in Fork
        /\ mRecvOps[rFork[recvOp]] # <<>> /\ mRecvOps[rFork[recvOp]][1] = recvOp
    BY <1>1 DEF RecvSide, RecvControl, RecvFilling, RecvTaskTypes, RecvTypes
  <2>2. rStatus'[recvOp] = rStatus[recvOp]  BY <1>9, <2>1
  <2>3. CASE rFork[recvOp] = rFork[o]
    <3>1. mRecvOps'[rFork[o]] = q  BY <1>2, <1>8 DEF RecvSide, RecvTypes
    <3>2. old[1] = recvOp /\ i # 1  BY <1>3, <1>5, <2>1, <2>3
    <3>3. q # <<>> /\ q[1] = old[1]  BY <1>4, <1>7, <3>2
    <3> QED BY <1>1, <2>1, <2>2, <2>3, <3>1, <3>2, <3>3 DEF RecvFilling
  <2>4. CASE rFork[recvOp] # rFork[o]
    <3>1. mRecvOps'[rFork[recvOp]] = mRecvOps[rFork[recvOp]]  BY <1>8, <2>1, <2>4 DEF RecvSide, RecvTypes
    <3> QED BY <1>1, <2>1, <2>2, <3>1 DEF RecvFilling
  <2> QED BY <2>3, <2>4
<1>12. RecvLocals' /\ RecvStatusOK'  BY <1>1 DEF RecvSide, RecvControl, RecvLocals, RecvStatusOK
<1>13. NoMissedRecv'
  <2>1. recvPc' \in {"idle", "exit"} => Pending(rStatus') = {}
    BY <1>1, <1>9 DEF RecvSide, RecvControl, NoMissedRecv
  <2>2. ASSUME NEW g \in Fork, recvPc = "requested", mRemoteId[g] = headerSlot PROVE mRecvOps'[g] = <<>>
    <3>1. mRecvOps[g] = <<>>  BY <2>2 DEF RecvSide, RecvControl, NoMissedRecv
    <3>2. g # rFork[o]
      <4>1. Len(old) # 0  BY <1>4, <1>5
      <4> QED BY <1>3, <3>1, <4>1
    <3> QED BY <1>8, <3>1, <3>2 DEF RecvSide, RecvTypes
  <2> QED BY <1>1, <2>1, <2>2 DEF NoMissedRecv
<1> QED BY <1>9, <1>10, <1>11, <1>12, <1>13 DEF RecvSide, RecvControl

\* Steps of the recv task that complete nothing.
LEMMA RecvMoves ==
    ASSUME RecvSide,
           \/ RunRecvStop \/ RecvSizeOk \/ RecvSizeBad \/ RecvBody
           \/ \E ec \in Code : RecvIoFail(ec)
           \/ \E slot \in Slot : RecvHeader(slot, "getFork") \/ RecvHeader(slot, "meta")
           \/ \E f \in Fork : GetForkClosed(f) \/ GetForkWait(f) \/ RecvNewFork(f) \/ RecvBadFork(f)
    PROVE  RecvSide'
<1>0. None \notin Slot  BY SchedulerAssumption DEF SchedulerAssumption
<1>1. UNCHANGED <<mRecvOps, recvHole, numRecvsIssued, rFork, rStatus, rResult, mNumRecvs, recvOp, mEC>>
  BY DEF RunRecvStop, RecvSizeOk, RecvSizeBad, RecvBody, RecvIoFail, RecvHeader, GetForkClosed, GetForkWait,
         RecvNewFork, RecvBadFork, recvOps, recvTask
<1>2. RecvTypes'  BY <1>1 DEF RecvSide, RecvTypes
<1>3. RecvData'  BY <1>1 DEF RecvSide, RecvData, RecvQueuesAgree
<1>4. RecvFilling'  BY <1>1 DEF RecvSide, RecvControl, RecvFilling
<1>5. CASE RunRecvStop
  <2>1. /\ UNCHANGED <<mRecvStatus, recvPc, recvEc, headerSlot, mRemoteId>>
        /\ mRecvCancelSrc' = "fired" /\ recvStop' = TRUE
    BY <1>5 DEF RunRecvStop, recvTask, forkVars
  <2>2. RecvTaskTypes'  BY <1>1, <2>1 DEF RecvSide, RecvTaskTypes
  <2>3. RecvLocals' /\ RecvStatusOK' /\ NoMissedRecv'
    BY <1>1, <2>1 DEF RecvSide, RecvControl, RecvLocals, RecvStatusOK, NoMissedRecv
  <2> QED BY <1>2, <1>3, <1>4, <2>2, <2>3 DEF RecvSide, RecvControl
<1>6. CASE RecvSizeOk \/ RecvSizeBad \/ RecvBody
  <2>1. /\ UNCHANGED <<mRecvStatus, headerSlot, mRemoteId, mRecvCancelSrc, recvStop>>
        /\ recvPc \in {"gotOp", "body"} /\ recvPc' \in {"body", "any"}
        /\ recvEc' \in {recvEc, "badBufferSize"} /\ (recvPc' # "any" => recvEc' = recvEc)
    BY <1>6 DEF RecvSizeOk, RecvSizeBad, RecvBody, forkVars, recvStopVars
  <2>2. RecvTaskTypes'  BY <1>1, <2>1 DEF RecvSide, RecvTaskTypes, RecvPc, Code
  <2>3. RecvLocals' /\ RecvStatusOK' /\ NoMissedRecv'
    BY <1>1, <2>1 DEF RecvSide, RecvControl, RecvLocals, RecvStatusOK, NoMissedRecv
  <2> QED BY <1>2, <1>3, <1>4, <2>2, <2>3 DEF RecvSide, RecvControl
<1>7. CASE (\E ec \in Code : RecvIoFail(ec)) \/ (\E f \in Fork : RecvBadFork(f) \/ GetForkClosed(f))
  <2>1. /\ UNCHANGED <<mRecvStatus, headerSlot, mRemoteId, mRecvCancelSrc, recvStop>>
        /\ recvPc \in {"header", "meta", "body", "getFork"} /\ recvPc' = "any"
        /\ recvEc' \in Code \ {"success"}
    BY <1>7 DEF RecvIoFail, IoError, RecvBadFork, GetForkClosed, forkVars, recvStopVars, RecvSide, RecvTaskTypes, Code
  <2>2. RecvTaskTypes'  BY <1>1, <2>1 DEF RecvSide, RecvTaskTypes, RecvPc
  <2>3. RecvLocals' /\ RecvStatusOK' /\ NoMissedRecv'
    BY <1>1, <2>1 DEF RecvSide, RecvControl, RecvLocals, RecvStatusOK, NoMissedRecv
  <2> QED BY <1>2, <1>3, <1>4, <2>2, <2>3 DEF RecvSide, RecvControl
<1>8. CASE \E slot \in Slot : RecvHeader(slot, "getFork") \/ RecvHeader(slot, "meta")
  <2>1. /\ UNCHANGED <<mRecvStatus, recvEc, mRemoteId, mRecvCancelSrc, recvStop>>
        /\ recvPc = "header" /\ recvPc' \in {"getFork", "meta"} /\ headerSlot' \in Slot
    BY <1>8 DEF RecvHeader, forkVars, recvStopVars
  <2>2. RecvTaskTypes'  BY <1>1, <2>1 DEF RecvSide, RecvTaskTypes, RecvPc
  <2>3. RecvLocals' /\ RecvStatusOK' /\ NoMissedRecv'
    BY <1>0, <1>1, <2>1 DEF RecvSide, RecvControl, RecvLocals, RecvStatusOK, NoMissedRecv
  <2> QED BY <1>2, <1>3, <1>4, <2>2, <2>3 DEF RecvSide, RecvControl
<1>9. ASSUME NEW f \in Fork, GetForkWait(f) PROVE RecvSide'
  <2>1. /\ UNCHANGED <<recvEc, headerSlot, mRemoteId, mRecvCancelSrc, recvStop>>
        /\ recvPc = "getFork" /\ recvPc' = "requested" /\ mRecvStatus' = "RequestedRecvOp"
        /\ mRemoteId[f] = headerSlot /\ mRecvOps[f] = <<>>
    BY <1>9 DEF GetForkWait, forkVars, recvStopVars
  <2>2. RecvTaskTypes'  BY <1>1, <2>1 DEF RecvSide, RecvTaskTypes, RecvPc, Status
  <2>3. RecvLocals' /\ RecvStatusOK'
    BY <1>1, <2>1 DEF RecvSide, RecvControl, RecvLocals, RecvStatusOK
  <2>4. \A g \in Fork : mRemoteId[g] = headerSlot => g = f
    BY <2>1 DEF RecvSide, RecvControl, RecvLocals
  <2>5. NoMissedRecv'  BY <1>1, <2>1, <2>4 DEF NoMissedRecv
  <2> QED BY <1>2, <1>3, <1>4, <2>2, <2>3, <2>5 DEF RecvSide, RecvControl
<1>10. ASSUME NEW f \in Fork, RecvNewFork(f) PROVE RecvSide'
  <2>1. /\ UNCHANGED <<mRecvStatus, recvEc, headerSlot, mRecvCancelSrc, recvStop>>
        /\ recvPc = "meta" /\ recvPc' = "header"
        /\ mRemoteId' = [mRemoteId EXCEPT ![f] = headerSlot]
        /\ \A g \in Fork : mRemoteId[g] # headerSlot
    BY <1>10 DEF RecvNewFork, recvStopVars
  <2>2. RecvTaskTypes'  BY <1>1, <2>1 DEF RecvSide, RecvTaskTypes, RecvPc
  <2>3. \A g \in Fork : mRemoteId'[g] = IF g = f THEN headerSlot ELSE mRemoteId[g]
    BY <2>1 DEF RecvSide, RecvTaskTypes
  <2>4. \A g, h \in Fork : mRemoteId'[g] = mRemoteId'[h] /\ mRemoteId'[g] # None => g = h
    BY <2>1, <2>3 DEF RecvSide, RecvControl, RecvLocals
  <2>5. RecvLocals'  BY <1>1, <2>1, <2>4 DEF RecvSide, RecvControl, RecvLocals
  <2>6. RecvStatusOK' /\ NoMissedRecv'
    BY <1>1, <2>1 DEF RecvSide, RecvControl, RecvStatusOK, NoMissedRecv
  <2> QED BY <1>2, <1>3, <1>4, <2>2, <2>5, <2>6 DEF RecvSide, RecvControl
<1> QED BY <1>5, <1>6, <1>7, <1>8, <1>9, <1>10

LEMMA GetForkFoundSide ==
    ASSUME RecvSide, NEW f \in Fork, GetForkFound(f)
    PROVE  RecvSide'
<1>1. PICK o : o = Head(mRecvOps[f])  OBVIOUS
<1>2. /\ recvPc = "getFork" /\ mRecvOps[f] # <<>> /\ mEC = "success"
      /\ recvOp' = o /\ recvPc' = "gotOp" /\ rStatus' = [rStatus EXCEPT ![o] = "InProgress"]
      /\ UNCHANGED <<mRecvOps, recvHole, numRecvsIssued, rFork, rResult, mNumRecvs>>
      /\ UNCHANGED <<mRecvStatus, recvEc, headerSlot, mRecvCancelSrc, recvStop, mRemoteId, mEC>>
  BY <1>1 DEF GetForkFound, forkVars, recvStopVars
<1>3. mRecvOps[f] \in Seq(RecvId)  BY DEF RecvSide, RecvTypes
<1>4. mRecvOps[f][1] = o /\ o \in ToSet(mRecvOps[f])
  <2>1. 1 \in 1..Len(mRecvOps[f]) /\ mRecvOps[f][1] = o  BY <1>1, <1>2, <1>3
  <2> QED BY <1>3, <2>1, InToSet
<1>5. o \in Pending(rStatus) /\ rFork[o] = f  BY <1>4, RecvQueued DEF RecvSide
<1>6. o \in RecvId /\ rStatus[o] \notin {"unused", "refused", "completed"}
  BY <1>5, PendingRecvs DEF RecvSide
<1>7. RecvTypes' /\ RecvTaskTypes'
  BY <1>2, <1>6 DEF RecvSide, RecvTypes, RecvTaskTypes, OpStatus, RecvPc
<1>8. \A p \in RecvId : rStatus'[p] = IF p = o THEN "InProgress" ELSE rStatus[p]
  BY <1>2 DEF RecvSide, RecvTypes
<1>9. Pending(rStatus') = Pending(rStatus)
  <2>1. DOMAIN rStatus = RecvId /\ DOMAIN rStatus' = RecvId  BY <1>7 DEF RecvSide, RecvTypes
  <2> QED BY <1>6, <1>8, <2>1 DEF Pending
<1>10. RecvData'
  <2>1. (\A p \in RecvId : rStatus[p] = "unused" <=> p > numRecvsIssued)'
    BY <1>2, <1>6, <1>8 DEF RecvSide, RecvData
  <2> QED BY <1>2, <1>9, <2>1 DEF RecvSide, RecvData, RecvQueuesAgree
<1>11. RecvFilling'  BY <1>2, <1>4, <1>5, <1>6, <1>8 DEF RecvFilling
<1>12. o # None  BY <1>6, SchedulerAssumption DEF RecvId, None, SchedulerAssumption
<1>13. RecvLocals'  BY <1>2, <1>12 DEF RecvSide, RecvControl, RecvLocals
<1>14. RecvStatusOK' /\ NoMissedRecv'
  BY <1>2 DEF RecvSide, RecvControl, RecvStatusOK, NoMissedRecv
<1> QED BY <1>7, <1>10, <1>11, <1>13, <1>14 DEF RecvSide, RecvControl

\* The recv that is being filled is in the front of its queue.
LEMMA RecvFront ==
    ASSUME RecvSide, recvOp # None
    PROVE  /\ recvOp \in RecvId /\ recvOp \in Pending(rStatus) /\ rFork[recvOp] \in Fork
           /\ Tail(mRecvOps[rFork[recvOp]]) \in Seq(RecvId)
           /\ Increasing(Tail(mRecvOps[rFork[recvOp]]))
           /\ ToSet(Tail(mRecvOps[rFork[recvOp]])) = ToSet(mRecvOps[rFork[recvOp]]) \ {recvOp}
<1>1. /\ recvOp \in RecvId /\ rStatus[recvOp] \in {"InProgress", "Canceling"} /\ rFork[recvOp] \in Fork
      /\ mRecvOps[rFork[recvOp]] # <<>> /\ mRecvOps[rFork[recvOp]][1] = recvOp
  BY DEF RecvSide, RecvControl, RecvFilling, RecvTaskTypes, RecvTypes
<1>2. recvOp \in Pending(rStatus)  BY <1>1, PendingRecvs DEF RecvSide
<1>3. PICK q : q = mRecvOps[rFork[recvOp]]  OBVIOUS
<1>4. q \in Seq(RecvId) /\ Increasing(q)  BY <1>1, <1>3 DEF RecvSide, RecvTypes, RecvData, RecvQueuesAgree
<1>5. Tail(q) \in Seq(RecvId) /\ Increasing(Tail(q)) /\ ToSet(Tail(q)) = ToSet(q) \ {q[1]}
  BY <1>1, <1>3, <1>4, SendIdNat, TailFacts
<1> QED BY <1>1, <1>2, <1>3, <1>5

\* AnyRecvOp completes the recv that was filled; the task sleeps only if it was the last.
LEMMA RecvDoneSide ==
    ASSUME RecvSide, RecvNext \/ RecvIdle
    PROVE  RecvSide'
<1>1. /\ recvPc = "any" /\ recvEc = "success" /\ mEC = "success" /\ CompleteRecv(recvOp) /\ recvOp' = None
      /\ \/ recvPc' = "header" /\ mRecvStatus' = mRecvStatus
         \/ mNumRecvs <= 1 /\ recvPc' = "idle" /\ mRecvStatus' = "Idle"
      /\ UNCHANGED <<numRecvsIssued, rFork, rResult, recvEc, headerSlot, mRemoteId, mEC>>
  BY DEF RecvNext, RecvIdle, forkVars
<1>2. recvOp # None  BY <1>1 DEF RecvSide, RecvControl, RecvLocals
<1>3. PICK q : q = Tail(mRecvOps[rFork[recvOp]])  OBVIOUS
<1>4. /\ recvOp \in RecvId /\ recvOp \in Pending(rStatus) /\ rFork[recvOp] \in Fork
      /\ q \in Seq(RecvId) /\ Increasing(q) /\ ToSet(q) = ToSet(mRecvOps[rFork[recvOp]]) \ {recvOp}
  BY <1>2, <1>3, RecvFront
<1>5. mRecvOps' = [mRecvOps EXCEPT ![rFork[recvOp]] = q]
  <2>1. mRecvOps' = RecvRest(recvOp)  BY <1>1 DEF CompleteRecv
  <2> QED BY <1>2, <1>3, <1>4, <2>1 DEF RecvRest, RecvSide, RecvTypes
<1>6. /\ RecvTypes' /\ RecvData' /\ Pending(rStatus') = Pending(rStatus) \ {recvOp}
      /\ rStatus' = [rStatus EXCEPT ![recvOp] = "completed"] /\ mNumRecvs' = mNumRecvs - 1
  <2>1. RecvTypes /\ RecvData  BY DEF RecvSide
  <2>2. rStatus' = [rStatus EXCEPT ![recvOp] = "completed"] /\ mNumRecvs' = mNumRecvs - 1
    BY <1>1 DEF CompleteRecv
  <2> QED BY <1>1, <1>4, <1>5, <2>1, <2>2, DequeueRecv
<1>7. RecvTaskTypes'
  <2>1. recvHole' \in [Fork -> BOOLEAN]
    <3>1. HoleAfter(recvHole[rFork[recvOp]], Tail(mRecvOps[rFork[recvOp]])) \in BOOLEAN
      BY <1>4 DEF HoleAfter, RecvSide, RecvTaskTypes
    <3> QED BY <1>1, <3>1 DEF CompleteRecv, RecvSide, RecvTaskTypes
  <2>2. mRecvCancelSrc' = "held" /\ recvStop' \in BOOLEAN
    BY <1>1 DEF CompleteRecv, RecvSide, RecvTaskTypes
  <2> QED BY <1>1, <2>1, <2>2 DEF RecvSide, RecvTaskTypes, RecvPc, Status
<1>8. RecvFilling' /\ RecvLocals'  BY <1>1 DEF RecvFilling, RecvLocals, RecvSide, RecvControl
<1>9. RecvStatusOK'  BY <1>1 DEF RecvStatusOK, RecvSide, RecvControl
<1>10. NoMissedRecv'
  <2>1. ASSUME recvPc' = "idle" PROVE Pending(rStatus') = {}
    <3>1. mNumRecvs' \in Nat /\ mNumRecvs \in Nat  BY <1>6 DEF RecvSide, RecvTypes
    <3>2. mNumRecvs' = 0  BY <1>1, <1>6, <2>1, <3>1
    <3>3. RecvTypes' /\ mNumRecvs' = Cardinality(Pending(rStatus'))  BY <1>6 DEF RecvData
    <3>4. IsFiniteSet(Pending(rStatus'))
      <4>1. IsFiniteSet(Pending(rStatus))  BY PendingRecvs DEF RecvSide
      <4> QED BY <1>6, <4>1, FS_Subset
    <3> QED BY <3>2, <3>3, <3>4, FS_EmptySet
  <2> QED BY <1>1, <2>1 DEF NoMissedRecv
<1> QED BY <1>6, <1>7, <1>8, <1>9, <1>10 DEF RecvSide, RecvControl

\* cancel(Recver) completes every recv that is pending.
LEMMA FailRecvsData ==
    ASSUME RecvSide, NEW pe \in Code, NEW ec \in Code, FailRecvs(recvOp, pe, ec), UNCHANGED <<numRecvsIssued, rFork>>
    PROVE  /\ RecvTypes' /\ RecvData' /\ Pending(rStatus') = {} /\ mRecvStatus' = "Closed"
           /\ rResult' \in [RecvId -> Result] /\ recvHole' \in [Fork -> BOOLEAN]
<1> DEFINE rest == RecvRest(recvOp)
           all  == UNION {ToSet(rest[f]) : f \in Fork}
           done == IF recvOp = None THEN all ELSE all \cup {recvOp}
           first(o) == \E i \in DOMAIN mSocketForks :
                         /\ rest[mSocketForks[i]] # <<>> /\ o = rest[mSocketForks[i]][1]
                         /\ \A j \in 1..(i - 1) : rest[mSocketForks[j]] = <<>>
<1>1. /\ rStatus' = [o \in RecvId |-> IF o \in done THEN "completed" ELSE rStatus[o]]
      /\ mRecvOps' = [f \in Fork |-> <<>>] /\ recvHole' = [f \in Fork |-> FALSE]
      /\ mNumRecvs' = 0 /\ mRecvStatus' = "Closed"
  BY DEF FailRecvs
<1>2. done = Pending(rStatus)
  <2>1. ASSUME NEW f \in Fork
        PROVE  ToSet(rest[f]) = {o \in Pending(rStatus) : rFork[o] = f} \ (IF recvOp = None THEN {} ELSE {recvOp})
    <3>1. ToSet(mRecvOps[f]) = {o \in Pending(rStatus) : rFork[o] = f}
      BY DEF RecvSide, RecvData, RecvQueuesAgree
    <3>2. CASE recvOp # None /\ rFork[recvOp] = f
      <4>1. rest[f] = Tail(mRecvOps[f])  BY <3>2 DEF RecvRest
      <4>2. ToSet(Tail(mRecvOps[f])) = ToSet(mRecvOps[f]) \ {recvOp}  BY <3>2, RecvFront
      <4> QED BY <3>1, <3>2, <4>1, <4>2
    <3>3. CASE recvOp = None \/ rFork[recvOp] # f
      <4>1. rest[f] = mRecvOps[f]  BY <3>3 DEF RecvRest
      <4> QED BY <3>1, <3>3, <4>1
    <3> QED BY <3>2, <3>3
  <2>2. \A o \in Pending(rStatus) : rFork[o] \in Fork  BY PendingRecvs DEF RecvSide, RecvTypes
  <2> HIDE DEF rest
  <2>3. all = Pending(rStatus) \ (IF recvOp = None THEN {} ELSE {recvOp})  BY <2>1, <2>2
  <2>4. recvOp # None => recvOp \in Pending(rStatus)  BY RecvFront
  <2> QED BY <2>3, <2>4
<1>3. rResult' \in [RecvId -> Result]
  <2>1. rResult' = [o \in RecvId |->
           CASE o = recvOp /\ recvOp # None -> Outcome(pe)
             [] o \in all -> IF first(o) THEN ec ELSE "cancel"
             [] OTHER -> rResult[o]]
    BY DEF FailRecvs
  <2> HIDE DEF all, first
  <2>2. Outcome(pe) \in Result /\ ec \in Result /\ "cancel" \in Result  BY DEF Outcome, Result, Code
  <2>3. \A o \in RecvId : rResult[o] \in Result  BY DEF RecvSide, RecvTaskTypes
  <2> QED BY <2>1, <2>2, <2>3
<1> HIDE DEF done
<1>4. rStatus' \in [RecvId -> OpStatus]  BY <1>1 DEF RecvSide, RecvTypes, OpStatus
<1>5. RecvTypes'
  <2>1. <<>> \in Seq(RecvId)  OBVIOUS
  <2> QED BY <1>1, <1>4, <2>1 DEF RecvSide, RecvTypes
<1>6. Pending(rStatus') = {}
  <2>1. DOMAIN rStatus = RecvId /\ DOMAIN rStatus' = RecvId  BY <1>4 DEF RecvSide, RecvTypes
  <2> QED BY <1>1, <1>2, <2>1 DEF Pending
<1>7. RecvData'
  <2>1. Cardinality(Pending(rStatus')) = 0  BY <1>6, FS_EmptySet
  <2>2. RecvQueuesAgree'
    <3>1. <<>> \in Seq(RecvId) /\ Increasing(<<>>)  BY DEF Increasing
    <3>2. ToSet(<<>>) = {}  BY <3>1, EmptyQueue
    <3> QED BY <1>1, <1>6, <3>1, <3>2 DEF RecvQueuesAgree
  <2>3. (\A o \in RecvId : rStatus[o] = "unused" <=> o > numRecvsIssued)'
    <3>1. \A o \in done : rStatus[o] # "unused"  BY <1>2, PendingRecvs DEF RecvSide
    <3> QED BY <1>1, <3>1 DEF RecvSide, RecvData
  <2> QED BY <1>1, <2>1, <2>2, <2>3 DEF RecvData
<1> QED BY <1>1, <1>3, <1>5, <1>6, <1>7

LEMMA RecvFailSide ==
    ASSUME RecvSide, RecvClose \/ GetForkUnknown
    PROVE  RecvSide'
<1>1. CASE RecvClose
  <2> DEFINE ec == IF recvOp = None THEN recvEc ELSE AfterFirst(recvEc)
  <2>1. /\ FailRecvs(recvOp, recvEc, ec) /\ (recvEc # "success" \/ mEC # "success")
        /\ mEC' = (IF mEC = "success" THEN ec ELSE mEC)
        /\ recvPc' = "exit" /\ recvOp' = None /\ recvEc' = "success"
        /\ UNCHANGED <<numRecvsIssued, rFork, headerSlot, mRemoteId>>
    BY <1>1 DEF RecvClose, forkVars
  <2>2. recvEc \in Code /\ ec \in Code /\ mEC' \in Code \ {"success"}  BY <2>1 DEF AfterFirst, RecvSide, RecvTaskTypes, Code
  <2>3. mRecvCancelSrc' \in {"held", "queued", "fired"} /\ recvStop' \in BOOLEAN
    BY <1>1 DEF RecvClose, RecvSide, RecvTaskTypes
  <2> HIDE DEF ec
  <2>4. /\ RecvTypes' /\ RecvData' /\ Pending(rStatus') = {} /\ mRecvStatus' = "Closed"
        /\ rResult' \in [RecvId -> Result] /\ recvHole' \in [Fork -> BOOLEAN]
    BY <2>1, <2>2, FailRecvsData
  <2>5. RecvTaskTypes'  BY <2>1, <2>2, <2>3, <2>4 DEF RecvSide, RecvTaskTypes, RecvPc, Status, Code
  <2>6. RecvFilling' /\ NoMissedRecv' /\ RecvStatusOK'
    BY <2>1, <2>2, <2>4 DEF RecvFilling, NoMissedRecv, RecvStatusOK
  <2>7. RecvLocals'  BY <2>1, <2>2 DEF RecvSide, RecvControl, RecvLocals
  <2> QED BY <2>4, <2>5, <2>6, <2>7 DEF RecvSide, RecvControl
<1>2. CASE GetForkUnknown
  <2>1. /\ recvPc = "getFork" /\ FailRecvs(None, "success", "badCoprotoMessageHeader")
        /\ mEC' = (IF mEC = "success" THEN "badCoprotoMessageHeader" ELSE mEC)
        /\ recvPc' = "any" /\ recvEc' = mEC'
        /\ UNCHANGED <<numRecvsIssued, rFork, recvOp, headerSlot, mRecvCancelSrc, mRemoteId>>
    BY <1>2 DEF GetForkUnknown, forkVars
  <2>2. recvOp = None  BY <2>1 DEF RecvSide, RecvControl, RecvLocals
  <2>3. "success" \in Code /\ "badCoprotoMessageHeader" \in Code /\ mEC' \in Code \ {"success"}
    BY <2>1 DEF RecvSide, RecvTaskTypes, Code
  <2>4. recvStop' \in BOOLEAN  BY <1>2 DEF GetForkUnknown, RecvSide, RecvTaskTypes
  <2>5. /\ RecvTypes' /\ RecvData' /\ Pending(rStatus') = {} /\ mRecvStatus' = "Closed"
        /\ rResult' \in [RecvId -> Result] /\ recvHole' \in [Fork -> BOOLEAN]
    BY <2>1, <2>2, <2>3, FailRecvsData
  <2>6. RecvTaskTypes'  BY <2>1, <2>3, <2>4, <2>5 DEF RecvSide, RecvTaskTypes, RecvPc, Status
  <2>7. RecvFilling' /\ NoMissedRecv' /\ RecvStatusOK'
    BY <2>1, <2>2, <2>3, <2>5 DEF RecvFilling, NoMissedRecv, RecvStatusOK
  <2>8. RecvLocals'  BY <2>1, <2>2, <2>3 DEF RecvSide, RecvControl, RecvLocals
  <2> QED BY <2>5, <2>6, <2>7, <2>8 DEF RecvSide, RecvControl
<1> QED BY <1>1, <1>2

\* The recv side is inductive; of the send side it needs that SendClose raises an error.
LEMMA RecvStep ==
    ASSUME ~WrapCancel, RecvSide, SendSide, [Next]_vars
    PROVE  RecvSide'
<1>1. CASE UNCHANGED vars  BY <1>1, RecvFrame DEF vars, forkVars
<1>2. CASE LifeOnly  BY <1>2, LifeOnlyFrame, RecvFrame DEF forkVars
<1>3. CASE SendOnly  BY <1>3, SendOnlyFrame, RecvFrame DEF forkVars
<1>4. CASE RecvOnly
  <2>1. ASSUME NEW f \in Fork, ForkSocket(f) PROVE RecvSide'  BY <2>1, RecvFrame DEF ForkSocket
  <2>2. ASSUME NEW o \in RecvId, CancelQueuedRecv(o) \/ CancelRunningRecv(o) PROVE RecvSide'
    BY <2>2, CancelQueuedRecvSide, CancelRunningRecvSide
  <2>3. ASSUME NEW f \in Fork, RecvRefused(f) \/ RecvWake(f) \/ RecvMatch(f) \/ RecvQueue(f) PROVE RecvSide'
    BY <2>3, RecvRefusedSide, RecvCallSide
  <2>4. CASE RecvNext \/ RecvIdle  BY <2>4, RecvDoneSide
  <2>5. ASSUME NEW f \in Fork, GetForkFound(f) PROVE RecvSide'  BY <2>5, GetForkFoundSide
  <2> QED BY <1>4, <2>1, <2>2, <2>3, <2>4, <2>5, RecvMoves DEF RecvOnly
<1>5. CASE RecvClose \/ GetForkUnknown  BY <1>5, RecvFailSide
<1>6. CASE SendClose
  <2>1. /\ mEC' \in Code \ {"success"}
        /\ UNCHANGED <<recvOps, mRecvStatus, recvOp, headerSlot, mRecvCancelSrc, mRemoteId>>
        /\ mEC = "success" => CloseRecvTask("cancel")
        /\ mEC # "success" => UNCHANGED <<recvStop, recvPc, recvEc, mEC>>
    BY <1>6 DEF SendClose, AfterFirst, forkVars, RecvSide, RecvTaskTypes, Code
  <2>2. CASE mEC = "success"  BY <2>1, <2>2, RecvCancelled DEF Code
  <2>3. CASE mEC # "success"
    <3>1. UNCHANGED <<recvVars, mRemoteId, mEC>>  BY <2>1, <2>3 DEF recvVars, recvTask, recvStopVars
    <3> QED BY <3>1, RecvFrame
  <2> QED BY <2>2, <2>3
<1>7. CASE Destroy
  <2>1. /\ UNCHANGED <<recvOps, mRecvStatus, recvOp, headerSlot, mRecvCancelSrc, mRemoteId>>
        /\ mEC = "success" => CloseRecvTask("closed") /\ mEC' = "closed"
        /\ mEC # "success" => UNCHANGED <<recvStop, recvPc, recvEc, mEC>>
    BY <1>7 DEF Destroy, forkVars
  <2>2. CASE mEC = "success"  BY <2>1, <2>2, RecvCancelled DEF Code
  <2>3. CASE mEC # "success"
    <3>1. UNCHANGED <<recvVars, mRemoteId, mEC>>  BY <2>1, <2>3 DEF recvVars, recvTask, recvStopVars
    <3> QED BY <3>1, RecvFrame
  <2> QED BY <2>2, <2>3
<1> QED BY <1>1, <1>2, <1>3, <1>4, <1>5, <1>6, <1>7, NextCases
-----------------------------------------------------------------------------
(* All together *)

\* What ForkTypeOK says about the forks themselves, and FlushTypeOK.
ForkTypes ==
    /\ mSocketForks \in Seq(Fork) /\ mLocalId \in [Fork -> Nat]
    /\ sockClosed \in BOOLEAN /\ destroyed \in BOOLEAN /\ terminated \in BOOLEAN

\* The inductive invariant.
IInv == ForkTypes /\ FlushTypeOK /\ SendSide /\ RecvSide

\* The invariant holds when the constructor returns.
LEMMA InitIInv == Init => IInv
<1> SUFFICES ASSUME Init PROVE IInv  OBVIOUS
<1>0. MaxSends \in Nat /\ MaxRecvs \in Nat /\ RootFork \in Fork
  BY SchedulerAssumption DEF SchedulerAssumption
<1>1. \A S : <<>> \in Seq(S) /\ Increasing(<<>>)  BY DEF Increasing
<1>2. ToSet(<<>>) = {}
  <2>1. <<>> \in Seq({})  OBVIOUS
  <2> QED BY <2>1, EmptyQueue
<1>3. ForkTypes
  <2>1. <<RootFork>> \in Seq(Fork)  BY <1>0
  <2> QED BY <2>1 DEF Init, ForkTypes, None
<1>4. FlushTypeOK  BY DEF Init, FlushTypeOK
<1>5. SendTypes /\ SendTaskTypes
  <2>1. SendTypes  BY <1>0, <1>1 DEF Init, SendTypes, OpStatus
  <2>2. mInitiated \in [Fork -> BOOLEAN] /\ sendHole \in [Fork -> BOOLEAN] /\ sResult \in [SendId -> Result]
    BY DEF Init, Result
  <2>3. sent \in Seq(SendId)  BY <1>1 DEF Init
  <2> QED BY <2>1, <2>2, <2>3 DEF Init, SendTaskTypes, Status, SendPc, Code
<1>6. SendData
  <2>1. Pending(sStatus) = {}  BY DEF Init, Pending
  <2>2. \A o \in SendId : sStatus[o] = "unused" <=> o > numSends  BY <1>0 DEF Init, SendId
  <2>3. SendQueuesAgree  BY <1>1, <1>2 DEF Init, SendQueuesAgree
  <2>4. mSendBuffer = <<>> /\ mSendBufferLast = None  BY DEF Init
  <2> QED BY <1>1, <1>2, <2>1, <2>2, <2>3, <2>4 DEF SendData
<1>7. SendControl  BY DEF Init, SendControl, HeadInProgress
<1>8. RecvTypes /\ RecvTaskTypes
  <2>1. RecvTypes  BY <1>0, <1>1 DEF Init, RecvTypes, OpStatus
  <2>2. recvHole \in [Fork -> BOOLEAN] /\ rResult \in [RecvId -> Result] /\ mRemoteId \in [Fork -> Slot \cup {None}]
    BY DEF Init, Result
  <2> QED BY <2>1, <2>2 DEF Init, RecvTaskTypes, Status, RecvPc, Code
<1>9. Pending(rStatus) = {}  BY DEF Init, Pending
<1>10. RecvData
  <2>1. mNumRecvs = 0 /\ Cardinality({}) = 0  BY FS_EmptySet DEF Init
  <2>2. \A o \in RecvId : rStatus[o] = "unused" <=> o > numRecvsIssued  BY <1>0 DEF Init, RecvId
  <2>3. RecvQueuesAgree  BY <1>1, <1>2, <1>9 DEF Init, RecvQueuesAgree
  <2> QED BY <1>9, <2>1, <2>2, <2>3 DEF RecvData
<1>11. RecvControl
  BY <1>9 DEF Init, RecvControl, RecvFilling, RecvLocals, NoMissedRecv, RecvStatusOK
<1> QED BY <1>3, <1>4, <1>5, <1>6, <1>7, <1>8, <1>10, <1>11 DEF IInv, SendSide, RecvSide

LEMMA ForkStep ==
    ASSUME IInv, [Next]_vars
    PROVE  ForkTypes'
<1>1. ASSUME NEW f \in Fork, RecvNewFork(f) PROVE ForkTypes'
  <2>1. Append(mSocketForks, f) \in Seq(Fork)  BY AppendFacts DEF IInv, ForkTypes
  <2> QED BY <1>1, <2>1 DEF RecvNewFork, IInv, ForkTypes, lifeVars
<1>2. ASSUME NEW f \in Fork, ForkSocket(f) PROVE ForkTypes'
  <2>1. Append(mSocketForks, f) \in Seq(Fork)  BY AppendFacts DEF IInv, ForkTypes
  <2>2. PICK c : c = Cardinality({g \in Fork : mLocalId[g] # None})  OBVIOUS
  <2>3. c \in Nat
    <3>1. IsFiniteSet(Fork)  BY SchedulerAssumption DEF SchedulerAssumption
    <3>2. IsFiniteSet({g \in Fork : mLocalId[g] # None})  BY <3>1, FS_Subset
    <3> QED BY <2>2, <3>2, FS_CardinalityType
  <2>4. mLocalId' = [mLocalId EXCEPT ![f] = 1 + c]  BY <1>2, <2>2 DEF ForkSocket
  <2>5. mLocalId' \in [Fork -> Nat]  BY <2>3, <2>4 DEF IInv, ForkTypes
  <2> QED BY <1>2, <2>1, <2>5 DEF ForkSocket, IInv, ForkTypes, lifeVars
<1>3. ASSUME UNCHANGED <<mSocketForks, mLocalId>>,
             sockClosed' \in BOOLEAN, destroyed' \in BOOLEAN, terminated' \in BOOLEAN
      PROVE  ForkTypes'
  BY <1>3 DEF IInv, ForkTypes
<1>4. CASE UNCHANGED vars  BY <1>3, <1>4 DEF vars, forkVars, lifeVars, IInv, ForkTypes
<1>5. CASE LifeOnly
  BY <1>3, <1>5 DEF LifeOnly, FlushNow, FlushWait, FlushThrow, CloseSocket, DestroyBusy, forkVars, lifeVars,
     IInv, ForkTypes
<1>6. CASE SendOnly
  <2>1. UNCHANGED <<forkVars, lifeVars>>
    BY <1>6 DEF SendOnly, SendEmpty, SendRefused, SendWake, SendQueue, CancelQueuedSend, CancelRunningSend,
                SendIoFail, RunSendStop, SendIoDone, SendNext, SendIdle
  <2> QED BY <1>3, <2>1 DEF forkVars, lifeVars, IInv, ForkTypes
<1>7. CASE RecvOnly
  <2>1. CASE \E f \in Fork : ForkSocket(f) \/ RecvNewFork(f)  BY <1>1, <1>2, <2>1
  <2>2. ASSUME ~\E f \in Fork : ForkSocket(f) \/ RecvNewFork(f) PROVE UNCHANGED <<forkVars, lifeVars>>
    BY <1>7, <2>2 DEF RecvOnly, RecvRefused, RecvWake, RecvMatch, RecvQueue, GetForkClosed, GetForkWait,
       GetForkFound, RecvBadFork, CancelQueuedRecv, CancelRunningRecv, RecvIoFail, RecvHeader, RunRecvStop,
       RecvSizeOk, RecvSizeBad, RecvBody, RecvNext, RecvIdle
  <2> QED BY <1>3, <2>1, <2>2 DEF forkVars, lifeVars, IInv, ForkTypes
<1>8. CASE SendClose \/ RecvClose \/ GetForkUnknown
  BY <1>3, <1>8 DEF SendClose, RecvClose, GetForkUnknown, forkVars, lifeVars, IInv, ForkTypes
<1>9. CASE Destroy  BY <1>3, <1>9 DEF Destroy, forkVars, lifeVars, IInv, ForkTypes
<1> QED BY <1>4, <1>5, <1>6, <1>7, <1>8, <1>9, NextCases

LEMMA FlushTypeStep ==
    ASSUME IInv, [Next]_vars
    PROVE  FlushTypeOK'
<1> DEFINE States == {"unused", "waiting", "done", "threw", "resumedAfterThrow"}
<1>0. /\ mFlush \in [FlushId -> States] /\ flushOps \in [FlushId -> SUBSET OpSet]
      /\ flushWait \in [FlushId -> SUBSET OpSet] /\ tokenStopped \subseteq OpSet
  BY DEF IInv, FlushTypeOK
<1>1. ASSUME UNCHANGED flushVars, tokenStopped' \subseteq OpSet PROVE FlushTypeOK'
  BY <1>0, <1>1 DEF FlushTypeOK, flushVars
<1>2. ASSUME NEW done, ReleaseFlushes(done), tokenStopped' \subseteq OpSet PROVE FlushTypeOK'
  <2>1. flushOps' \in [FlushId -> SUBSET OpSet]  BY <1>0, <1>2 DEF ReleaseFlushes
  <2>2. mFlush' \in [FlushId -> States]
    <3>1. mFlush' = [k \in FlushId |->
              IF flushOps[k] = {} \/ ~(flushOps[k] \subseteq done) THEN mFlush[k]
              ELSE IF mFlush[k] = "waiting" THEN "done" ELSE "resumedAfterThrow"]
      BY <1>2 DEF ReleaseFlushes
    <3>2. \A k \in FlushId : mFlush[k] \in States  BY <1>0
    <3> QED BY <3>1, <3>2
  <2> QED BY <1>0, <1>2, <2>1, <2>2 DEF ReleaseFlushes, FlushTypeOK
<1>3. PendingOps \subseteq OpSet
  <2>1. Pending(sStatus) \subseteq SendId  BY DEF Pending, IInv, SendSide, SendTypes
  <2>2. Pending(rStatus) \subseteq RecvId  BY DEF Pending, IInv, RecvSide, RecvTypes
  <2> QED BY <2>1, <2>2 DEF PendingOps, OpSet
<1>4. \A f \in Fork : BackRecv(f) \subseteq OpSet /\ BackSend(f) \subseteq OpSet
  <2> SUFFICES ASSUME NEW f \in Fork PROVE BackRecv(f) \subseteq OpSet /\ BackSend(f) \subseteq OpSet  OBVIOUS
  <2>1. mRecvOps[f] \in Seq(RecvId) /\ mSendOps[f] \in Seq(SendId)
    BY DEF IInv, SendSide, RecvSide, SendTypes, RecvTypes
  <2>2. mRecvOps[f] # <<>> => mRecvOps[f][Len(mRecvOps[f])] \in RecvId  BY <2>1
  <2>3. mSendOps[f] # <<>> => mSendOps[f][Len(mSendOps[f])] \in SendId  BY <2>1
  <2> QED BY <2>2, <2>3 DEF BackRecv, BackSend, OpSet
<1>5. CASE UNCHANGED vars  BY <1>0, <1>1, <1>5 DEF vars, histVars
<1>6. CASE LifeOnly
  <2>1. tokenStopped' = tokenStopped  BY <1>6, LifeOnlyFrame DEF histVars
  <2>2. ASSUME NEW k \in FlushId, FlushNow(k) PROVE FlushTypeOK'
    BY <1>0, <1>3, <2>1, <2>2 DEF FlushNow, FlushTypeOK
  <2>3. ASSUME NEW k \in FlushId, FlushWait(k) PROVE FlushTypeOK'
    <3>1. UNION {BackRecv(f) \cup BackSend(f) : f \in Fork} \subseteq OpSet  BY <1>4
    <3> QED BY <1>0, <1>3, <2>1, <2>3, <3>1 DEF FlushWait, FlushTypeOK
  <2>4. ASSUME NEW k \in FlushId, FlushThrow(k) PROVE FlushTypeOK'
    <3>1. PICK i \in DOMAIN mSocketForks :
             flushOps' = [flushOps EXCEPT ![k] =
               (UNION {BackRecv(mSocketForks[j]) \cup BackSend(mSocketForks[j]) : j \in 1..(i - 1)})
               \cup (IF recvHole[mSocketForks[i]] THEN {} ELSE BackRecv(mSocketForks[i]))]
      BY <2>4 DEF FlushThrow
    <3>2. /\ mSocketForks[i] \in Fork
          /\ \A j \in 1..(i - 1) : mSocketForks[j] \in Fork
      BY <3>1 DEF IInv, ForkTypes
    <3>3. PICK t : t = (UNION {BackRecv(mSocketForks[j]) \cup BackSend(mSocketForks[j]) : j \in 1..(i - 1)})
               \cup (IF recvHole[mSocketForks[i]] THEN {} ELSE BackRecv(mSocketForks[i]))
      OBVIOUS
    <3>4. t \subseteq OpSet
      <4>1. BackRecv(mSocketForks[i]) \subseteq OpSet  BY <1>4, <3>2, Zenon
      <4>2. \A j \in 1..(i - 1) : BackRecv(mSocketForks[j]) \cup BackSend(mSocketForks[j]) \subseteq OpSet
        BY <1>4, <3>2
      <4>3. UNION {BackRecv(mSocketForks[j]) \cup BackSend(mSocketForks[j]) : j \in 1..(i - 1)} \subseteq OpSet
        BY <4>2, Zenon
      <4> QED BY <3>3, <4>1, <4>3
    <3>5. flushOps' = [flushOps EXCEPT ![k] = t]  BY <3>1, <3>3
    <3>6. flushOps' \in [FlushId -> SUBSET OpSet]  BY <1>0, <3>4, <3>5
    <3> QED BY <1>0, <1>3, <2>1, <2>4, <3>6 DEF FlushThrow, FlushTypeOK
  <2>5. CASE CloseSocket \/ DestroyBusy  BY <1>0, <1>1, <2>1, <2>5 DEF CloseSocket, DestroyBusy
  <2> QED BY <1>6, <2>2, <2>3, <2>4, <2>5 DEF LifeOnly
<1>7. ASSUME NEW o \in SendId, CancelQueuedSend(o) PROVE FlushTypeOK'
  <2>1. ReleaseFlushes({<<"send", o>>}) /\ tokenStopped' \subseteq OpSet
    BY <1>0, <1>7 DEF CancelQueuedSend, OpSet
  <2> QED BY <1>2, <2>1
<1>8. ASSUME NEW o \in RecvId, CancelQueuedRecv(o) PROVE FlushTypeOK'
  <2>1. ReleaseFlushes({<<"recv", o>>}) /\ tokenStopped' \subseteq OpSet
    BY <1>0, <1>8 DEF CancelQueuedRecv, OpSet
  <2> QED BY <1>2, <2>1
<1>9. CASE SendNext \/ SendIdle  BY <1>0, <1>2, <1>9 DEF SendNext, SendIdle, CompleteSend, histVars
<1>10. CASE RecvNext \/ RecvIdle  BY <1>0, <1>2, <1>10 DEF RecvNext, RecvIdle, CompleteRecv, histVars
<1>11. CASE SendClose  BY <1>0, <1>2, <1>11 DEF SendClose, histVars
<1>12. CASE RecvClose \/ GetForkUnknown
  <2>1. tokenStopped' = tokenStopped  BY <1>12 DEF RecvClose, GetForkUnknown, histVars
  <2>2. PICK prev, pe, ec : FailRecvs(prev, pe, ec)  BY <1>12 DEF RecvClose, GetForkUnknown
  <2>3. \E done : ReleaseFlushes(done)  BY <2>2 DEF FailRecvs
  <2> QED BY <1>0, <1>2, <2>1, <2>3
<1>13. CASE Destroy  BY <1>0, <1>1, <1>13 DEF Destroy, histVars
<1>14. ASSUME NEW o \in SendId, CancelRunningSend(o) PROVE FlushTypeOK'
  BY <1>0, <1>1, <1>14 DEF CancelRunningSend, OpSet
<1>15. ASSUME NEW o \in RecvId, CancelRunningRecv(o) PROVE FlushTypeOK'
  BY <1>0, <1>1, <1>15 DEF CancelRunningRecv, OpSet
<1>16. CASE SendOnly
  <2>1. CASE (\E o \in SendId : CancelQueuedSend(o) \/ CancelRunningSend(o)) \/ SendNext \/ SendIdle
    BY <1>7, <1>9, <1>14, <2>1
  <2>2. CASE \/ \E f \in Fork : SendEmpty(f) \/ SendRefused(f) \/ SendWake(f) \/ SendQueue(f)
             \/ \E ec \in Code : SendIoFail(ec)
             \/ RunSendStop \/ SendIoDone
    BY <1>0, <1>1, <2>2 DEF SendEmpty, SendRefused, SendWake, SendQueue, SendIoFail, RunSendStop, SendIoDone, histVars
  <2> QED BY <1>16, <2>1, <2>2 DEF SendOnly
<1>17. CASE RecvOnly
  <2>1. CASE (\E o \in RecvId : CancelQueuedRecv(o) \/ CancelRunningRecv(o)) \/ RecvNext \/ RecvIdle
    BY <1>8, <1>10, <1>15, <2>1
  <2>2. ASSUME ~((\E o \in RecvId : CancelQueuedRecv(o) \/ CancelRunningRecv(o)) \/ RecvNext \/ RecvIdle)
        PROVE  UNCHANGED <<flushVars, tokenStopped>>
    BY <1>17, <2>2 DEF RecvOnly, RecvRefused, RecvWake, RecvMatch, RecvQueue, GetForkClosed, GetForkWait,
       GetForkFound, RecvBadFork, RecvNewFork, ForkSocket, RecvIoFail, RecvHeader, RunRecvStop,
       RecvSizeOk, RecvSizeBad, RecvBody, histVars
  <2> QED BY <1>0, <1>1, <2>1, <2>2
<1> QED BY <1>5, <1>6, <1>11, <1>12, <1>13, <1>16, <1>17, NextCases

\* TypeOK with the inductive invariants, in the form the runs check.
LEMMA IInvParts == IInv <=> TypeOK /\ SendInv /\ RecvInv
<1>1. ForkTypeOK <=> ForkTypes /\ mRemoteId \in [Fork -> Slot \cup {None}] /\ mEC \in Code
  BY DEF ForkTypeOK, ForkTypes
<1> QED BY <1>1, SendSideParts, RecvSideParts DEF IInv, TypeOK

\* Every step keeps the inductive invariant.
LEMMA IInvStep ==
    ASSUME ~TailCancel, ~WrapCancel, IInv, [Next]_vars
    PROVE  IInv'
<1>1. SendSide'  BY SendStep DEF IInv, RecvSide, RecvTaskTypes
<1>2. RecvSide'  BY RecvStep DEF IInv
<1> QED BY <1>1, <1>2, ForkStep, FlushTypeStep DEF IInv

\* The state of the scheduler always has its type, the send task and the recv
\* task always agree with the queues and counters the user calls maintain, in
\* programs that stop neither the token of the newest queued send nor that of an
\* operation whose position in its block has wrapped.
THEOREM Invariance ==
    ASSUME ~TailCancel, ~WrapCancel
    PROVE  Spec => [](TypeOK /\ SendInv /\ RecvInv)
<1>1. Spec => []IInv  BY InitIInv, IInvStep, PTL DEF Spec
<1> QED BY <1>1, IInvParts, PTL

\* Every variable always has its type: mNumRecvs, an unsigned counter, never
\* goes below zero, and no task takes the front of an empty queue.
THEOREM TypeCorrect ==
    ASSUME ~TailCancel, ~WrapCancel
    PROVE  Spec => []TypeOK
BY Invariance, PTL

\* No send is lost: what is not completed is linked where the send task finds it.
THEOREM NoSendLost ==
    ASSUME ~TailCancel, ~WrapCancel
    PROVE  Spec => []SendsReachable
<1>1. SendInv => SendsReachable  BY DEF SendInv
<1> QED BY <1>1, Invariance, PTL

\* pop_front of a fork's queue always removes the send that completed.  Without
\* the second hypothesis a send that completed may stay in the queue: its stop
\* callback has set the error and unlinked it when erase_send throws.
THEOREM SendFrontsAgree ==
    ASSUME ~TailCancel, ~WrapCancel
    PROVE  Spec => [](SendQueuesAgree /\ HeadInProgress)
<1>1. SendInv => SendQueuesAgree /\ HeadInProgress  BY DEF SendInv
<1> QED BY <1>1, Invariance, PTL

\* mNumRecvs counts the pending recvs, and they are where the recv task looks.
\* Without the second hypothesis a recv that has completed may stay in the queue.
THEOREM RecvsAccounted ==
    ASSUME ~TailCancel, ~WrapCancel
    PROVE  Spec => [](RecvsCounted /\ RecvsQueued)
<1>1. RecvInv => RecvsCounted /\ RecvsQueued  BY DEF RecvInv
<1> QED BY <1>1, Invariance, PTL

\* No recv is left behind by a recv task that sleeps.
THEOREM NoRecvMissed ==
    ASSUME ~TailCancel, ~WrapCancel
    PROVE  Spec => []NoMissedRecv
<1>1. RecvInv => NoMissedRecv  BY DEF RecvInv
<1> QED BY <1>1, Invariance, PTL

\* The destructor's test of the two statuses is right about both tasks.
THEOREM StatusCorrect ==
    ASSUME ~TailCancel, ~WrapCancel
    PROVE  Spec => []StatusTellsTask
<1>1. SendInv /\ RecvInv => StatusTellsTask  BY DEF SendInv, RecvInv, StatusTellsTask
<1> QED BY <1>1, Invariance, PTL
-----------------------------------------------------------------------------
(* What the operations and flushes report: SentInOrder, OneCause,          *)
(* FlushHeld, FlushSound and SafeToDestroy.  Each invariant is preserved   *)
(* by every step from a state where IInv holds.                            *)

\* The pending operations of a function of statuses.
LEMMA PendingOf ==
    ASSUME NEW S, NEW st \in [S -> OpStatus]
    PROVE  Pending(st) = {o \in S : st[o] \in {"NotStarted", "InProgress", "Canceling"}}
BY DEF Pending, OpStatus

\* The sends that are pending, and what is known of their statuses.
LEMMA PendingSends ==
    ASSUME IInv
    PROVE  /\ Pending(sStatus) = {o \in SendId : sStatus[o] \in {"NotStarted", "InProgress", "Canceling"}}
           /\ Pending(sStatus) = ToSet(mSendBuffer)
           /\ \A o \in SendId : o \in Nat /\ (sStatus[o] = "unused" <=> o > numSends)
           /\ sendPc \in {"meta", "header", "body", "next"} => sendOp \in Pending(sStatus)
<1>1. Pending(sStatus) = {o \in SendId : sStatus[o] \in {"NotStarted", "InProgress", "Canceling"}}
  BY PendingOf DEF IInv, SendSide, SendTypes
<1>2. Pending(sStatus) = ToSet(mSendBuffer)  BY DEF IInv, SendSide, SendData
<1>3. \A o \in SendId : o \in Nat /\ (sStatus[o] = "unused" <=> o > numSends)
  BY SendIdNat DEF IInv, SendSide, SendData
<1> QED BY <1>1, <1>2, <1>3, SendFront DEF IInv, SendSide

\* The pending sends before and after a step.
LEMMA PendingStep ==
    ASSUME IInv, IInv'
    PROVE  /\ sStatus \in [SendId -> OpStatus] /\ sStatus' \in [SendId -> OpStatus]
           /\ Pending(sStatus) = {o \in SendId : sStatus[o] \in {"NotStarted", "InProgress", "Canceling"}}
           /\ Pending(sStatus') = {o \in SendId : sStatus'[o] \in {"NotStarted", "InProgress", "Canceling"}}
<1>1. sStatus \in [SendId -> OpStatus] /\ sStatus' \in [SendId -> OpStatus]  BY DEF IInv, SendSide, SendTypes
<1>2. Pending(sStatus') = {o \in SendId : sStatus'[o] \in {"NotStarted", "InProgress", "Canceling"}}
  BY <1>1, PendingOf
<1> QED BY <1>1, <1>2, PendingSends

\* What was written was sent by an operation that completed or that the task is
\* about to complete.
LEMMA SentOps ==
    ASSUME IInv, SentInv
    PROVE  /\ sent \in Seq(SendId) /\ ToSet(sent) \subseteq SendId
           /\ \A o \in ToSet(sent) : o \in Nat /\ o <= numSends /\ sStatus[o] # "unused"
<1>1. sent \in Seq(SendId)  BY DEF IInv, SendSide, SendTaskTypes
<1>2. ToSet(sent) \subseteq SendId  BY <1>1, InToSet
<1>3. ASSUME NEW o \in ToSet(sent) PROVE sStatus[o] # "unused"
  <2>1. CASE sStatus[o] = "completed"  BY <2>1
  <2>2. CASE o = sendOp /\ sendPc = "next"  BY <2>2, PendingSends
  <2> QED BY <1>3, <2>1, <2>2 DEF SentInv
<1>4. numSends \in Nat  BY SchedulerAssumption DEF SchedulerAssumption, IInv, SendSide, SendTypes
<1>5. ASSUME NEW o \in ToSet(sent) PROVE o \in Nat /\ o <= numSends
  BY <1>2, <1>3, <1>4, <1>5, PendingSends
<1> QED BY <1>1, <1>2, <1>3, <1>5

\* Steps that leave what SentInv speaks of alone; cancel may end an idle task.
LEMMA SentFrame ==
    ASSUME SentInv, UNCHANGED <<sendOps, sendOp, sendEc, sent>>,
           sendPc' = sendPc \/ (sendPc = "idle" /\ sendPc' = "exit")
    PROVE  SentInv'
BY DEF SentInv, SentInOrder, sendOps

\* A new operation is not among those that were written.
LEMMA SentIssue ==
    ASSUME IInv, IInv', SentInv, NEW f \in Fork,
           SendEmpty(f) \/ SendRefused(f) \/ SendWake(f) \/ SendQueue(f)
    PROVE  SentInv'
<1> DEFINE n == numSends + 1
<1>1. PICK st, res :
        /\ st \in {"refused", "InProgress", "NotStarted"}
        /\ IssueSend(f, st, res) /\ (st # "refused" => res = "none")
        /\ UNCHANGED <<sent, sendEc>>
        /\ \/ UNCHANGED <<sendOp, sendPc>>
           \/ sendPc = "idle" /\ sendPc' \in {"header", "meta"}
  BY DEF SendEmpty, SendRefused, SendWake, SendQueue, StartSend, sendTask, histVars
<1>2. n \in SendId /\ numSends \in Nat /\ n \in Nat
  BY <1>1, SchedulerAssumption DEF IssueSend, SchedulerAssumption, IInv, SendSide, SendTypes, SendId
<1>3. /\ \A o \in SendId : sStatus'[o] = IF o = n THEN st ELSE sStatus[o]
      /\ \A o \in SendId : sResult'[o] = IF o = n THEN res ELSE sResult[o]
  BY <1>1, <1>2 DEF IssueSend, IInv, SendSide, SendTypes, SendTaskTypes
<1>4. ToSet(sent) \subseteq SendId /\ \A o \in ToSet(sent) : o \in Nat /\ o < n /\ o # n
  BY <1>2, SentOps
<1> HIDE DEF n
<1>5. \A o \in Pending(sStatus') : o \in SendId /\ (o = n \/ o \in Pending(sStatus)) /\ (o = n => st # "refused")
  BY <1>3, PendingStep
<1>6. SentInOrder'  BY <1>1, <1>3, <1>4 DEF SentInv, SentInOrder
<1>7. \A o \in Pending(sStatus') : sResult'[o] = "none"
  BY <1>1, <1>3, <1>5 DEF SentInv
<1>8. \A o \in ToSet(sent) : \A p \in Pending(sStatus') : o <= p
  BY <1>2, <1>4, <1>5 DEF SentInv
<1>9. \A o \in ToSet(sent) :
        sStatus'[o] = "completed" \/ (o = sendOp' /\ sendPc' = "next" /\ sendEc' = "success")
  BY <1>1, <1>3, <1>4 DEF SentInv
<1> QED BY <1>1, <1>6, <1>7, <1>8, <1>9 DEF SentInv

\* A write ends, or a stop is requested.
LEMMA SentMoves ==
    ASSUME IInv, IInv', SentInv,
           \/ SendIoDone \/ RunSendStop \/ \E ec \in Code : SendIoFail(ec)
           \/ \E o \in SendId : CancelRunningSend(o)
    PROVE  SentInv'
<1>0. sStatus \in [SendId -> OpStatus] /\ sStatus' \in [SendId -> OpStatus] /\ sent \in Seq(SendId)
  BY DEF IInv, SendSide, SendTypes, SendTaskTypes
<1>1. CASE RunSendStop  BY <1>1, SentFrame DEF RunSendStop, sendTask, histVars
<1>2. ASSUME NEW o \in SendId, CancelRunningSend(o) PROVE SentInv'
  <2>1. /\ sStatus[o] = "InProgress" /\ sStatus' = [sStatus EXCEPT ![o] = "Canceling"]
        /\ UNCHANGED <<sResult, sent, sendOp, sendPc, sendEc>>
    BY <1>2 DEF CancelRunningSend, sendTask
  <2>2. Pending(sStatus') = Pending(sStatus)  BY <2>1, PendingStep
  <2>3. \A p \in SendId : sStatus'[p] = "completed" <=> sStatus[p] = "completed"  BY <1>0, <2>1
  <2> QED BY <2>1, <2>2, <2>3, SentOps DEF SentInv, SentInOrder
<1>3. ASSUME NEW ec \in Code, SendIoFail(ec) PROVE SentInv'
  <2>1. /\ sendPc \in {"meta", "header", "body"} /\ sendPc' = "next" /\ sendEc' = ec /\ ec # "success"
        /\ UNCHANGED <<sStatus, sResult, sent, sendOp>>
    BY <1>3 DEF SendIoFail, IoError, sendOps, histVars
  <2> QED BY <2>1 DEF SentInv, SentInOrder
<1>4. CASE SendIoDone
  <2>1. /\ sendPc \in {"meta", "header", "body"} /\ UNCHANGED <<sStatus, sResult, sendOp, sendEc>>
        /\ sendPc # "body" => sendPc' \in {"header", "body"} /\ sent' = sent
        /\ sendPc = "body" => sendPc' = "next" /\ sent' = Append(sent, sendOp)
    BY <1>4 DEF SendIoDone, sendOps
  <2>2. CASE sendPc # "body"  BY <2>1, <2>2 DEF SentInv, SentInOrder
  <2>3. CASE sendPc = "body"
    <3>1. sendOp \in Pending(sStatus) /\ sendOp \in SendId /\ sendOp \in Nat  BY <2>3, PendingSends
    <3>2. /\ Len(sent') = Len(sent) + 1 /\ sent'[Len(sent) + 1] = sendOp
          /\ \A i \in 1..Len(sent) : sent'[i] = sent[i]
          /\ ToSet(sent') = ToSet(sent) \cup {sendOp} /\ sent' \in Seq(SendId)
      <4>1. sent' = Append(sent, sendOp)  BY <2>1, <2>3
      <4> QED BY <1>0, <3>1, <4>1, AppendFacts
    <3>3. \A o \in ToSet(sent) : o \in Nat /\ sStatus[o] = "completed" /\ o <= sendOp /\ o # sendOp
      BY <2>3, <3>1, SentOps, PendingSends DEF SentInv
    <3>4. \A i \in 1..Len(sent) : sent[i] \in Nat /\ sent[i] < sendOp  BY <1>0, <3>1, <3>3, InToSet
    <3>5. Increasing(sent')
      <4>1. Increasing(sent) /\ Len(sent) \in Nat /\ DOMAIN sent = 1..Len(sent) /\ DOMAIN sent' = 1..(Len(sent) + 1)
        BY <1>0, <3>2 DEF SentInv, SentInOrder
      <4> QED BY <3>2, <3>4, <4>1 DEF Increasing
    <3>6. \A p \in Pending(sStatus) : p \in Nat /\ sendOp <= p
      <4>1. mSendBuffer \in Seq(SendId) /\ Increasing(mSendBuffer) /\ mSendBuffer # <<>> /\ mSendBuffer[1] = sendOp
        BY <2>3, SendFront DEF IInv, SendSide, SendTypes, SendData
      <4>2. \A i \in 1..Len(mSendBuffer) : mSendBuffer[i] \in Nat /\ mSendBuffer[1] <= mSendBuffer[i]
        <5>1. \A i \in 1..Len(mSendBuffer) : mSendBuffer[i] \in SendId  BY <4>1
        <5>2. \A i \in 1..Len(mSendBuffer) : mSendBuffer[i] \in Nat  BY <5>1, SendIdNat
        <5> QED BY <4>1, <5>2 DEF Increasing
      <4> QED BY <4>1, <4>2, PendingSends, InToSet
    <3>7. SentInOrder'
      <4>1. sStatus[sendOp] # "completed"  BY <3>1, PendingSends
      <4>2. \A p \in SendId : sStatus[p] = "completed" => (p \in ToSet(sent') <=> p \in ToSet(sent))
        BY <3>2, <4>1
      <4> QED BY <2>1, <3>5, <4>2 DEF SentInv, SentInOrder
    <3>8. sendEc = "success"  BY <2>3 DEF SentInv
    <3> QED BY <2>1, <2>3, <3>2, <3>3, <3>6, <3>7, <3>8 DEF SentInv
  <2> QED BY <2>2, <2>3
<1> QED BY <1>1, <1>2, <1>3, <1>4

\* A send that is cancelled before it starts was not written.
LEMMA SentCancel ==
    ASSUME IInv, IInv', SentInv, NEW o \in SendId, CancelQueuedSend(o)
    PROVE  SentInv'
<1>0. sStatus \in [SendId -> OpStatus] /\ sStatus' \in [SendId -> OpStatus] /\ sResult \in [SendId -> Result]
  BY DEF IInv, SendSide, SendTypes, SendTaskTypes
<1>1. /\ sStatus[o] = "NotStarted" /\ sStatus' = [sStatus EXCEPT ![o] = "completed"]
      /\ sResult' = [sResult EXCEPT ![o] = "operation_aborted"]
      /\ UNCHANGED <<sent, sendOp, sendPc, sendEc>>
  BY DEF CancelQueuedSend, sendTask
<1>2. Pending(sStatus') = Pending(sStatus) \ {o}  BY <1>1, PendingStep
<1>3. o \notin ToSet(sent)
  <2>1. sendPc = "next" => sStatus[sendOp] \in {"InProgress", "Canceling"}
    BY DEF IInv, SendSide, SendControl, HeadInProgress
  <2> QED BY <1>1, <2>1 DEF SentInv
<1>4. /\ \A p \in SendId : p # o => sStatus'[p] = sStatus[p] /\ sResult'[p] = sResult[p]
      /\ sResult'[o] = "operation_aborted"
  BY <1>0, <1>1
<1>5. SentInOrder'  BY <1>1, <1>3, <1>4 DEF SentInv, SentInOrder
<1>6. \A p \in ToSet(sent) : sStatus'[p] = sStatus[p]  BY <1>3, <1>4, SentOps
<1>7. \A p \in Pending(sStatus') : p \in Pending(sStatus) /\ sResult'[p] = sResult[p]
  BY <1>2, <1>4, PendingSends
<1> QED BY <1>1, <1>5, <1>6, <1>7 DEF SentInv

\* A send that completes without an error was written.
LEMMA SentComplete ==
    ASSUME IInv, IInv', SentInv, SendNext \/ SendIdle
    PROVE  SentInv'
<1>0. sStatus \in [SendId -> OpStatus] /\ sStatus' \in [SendId -> OpStatus]
  BY DEF IInv, SendSide, SendTypes
<1>1. /\ sendPc = "next" /\ sendEc = "success" /\ sendPc' \in {"header", "meta", "idle"}
      /\ UNCHANGED <<sResult, sent, sendEc>>
  BY DEF SendNext, SendIdle, StartSend, histVars
<1>2. sendOp \in SendId /\ sendOp \in Pending(sStatus) /\ sResult[sendOp] = "none" /\ sendOp \in ToSet(sent)
  BY <1>1, PendingSends DEF SentInv
<1>3. \A p \in SendId : /\ sStatus'[p] = "completed" <=> sStatus[p] = "completed" \/ p = sendOp
                        /\ p \in Pending(sStatus') => p \in Pending(sStatus)
  <2>1. CASE SendIdle
    <3>1. sStatus' = [sStatus EXCEPT ![sendOp] = "completed"]  BY <2>1 DEF SendIdle
    <3> QED BY <1>2, <3>1, PendingStep
  <2>2. CASE SendNext
    <3>1. PICK nx : nx = mSendBuffer[2]  OBVIOUS
    <3>2. sStatus' = [sStatus EXCEPT ![sendOp] = "completed", ![nx] = "InProgress"]  BY <2>2, <3>1 DEF SendNext
    <3>3. nx \in Pending(sStatus) /\ nx # sendOp
      <4>1. /\ mSendBuffer \in Seq(SendId) /\ Len(mSendBuffer) > 1 /\ mSendBuffer[1] = sendOp
            /\ Increasing(mSendBuffer)
        BY <1>1, <2>2, SendFront DEF SendNext, IInv, SendSide, SendTypes, SendData
      <4>2. 2 \in 1..Len(mSendBuffer) /\ 1 \in 1..Len(mSendBuffer) /\ sendOp \in Nat  BY <1>2, <4>1, SendIdNat
      <4>3. nx \in ToSet(mSendBuffer)  BY <3>1, <4>1, <4>2, InToSet
      <4>4. mSendBuffer[1] < mSendBuffer[2]  BY <4>1, <4>2 DEF Increasing
      <4> QED BY <3>1, <4>1, <4>2, <4>3, <4>4, PendingSends
    <3>4. nx \in SendId /\ sStatus[nx] # "completed"  BY <3>3, PendingSends
    <3> QED BY <1>2, <3>2, <3>3, <3>4, PendingStep
  <2> QED BY <2>1, <2>2
<1>4. SentInOrder'  BY <1>1, <1>2, <1>3 DEF SentInv, SentInOrder
<1>5. \A p \in ToSet(sent) : sStatus'[p] = "completed"  BY <1>1, <1>3, SentOps DEF SentInv
<1>6. Pending(sStatus') \subseteq SendId  BY PendingStep
<1>7. \A p \in Pending(sStatus') : p \in Pending(sStatus)  BY <1>3, <1>6
<1> QED BY <1>1, <1>4, <1>5, <1>7 DEF SentInv

\* After a failure the sends that were not written report an error.
LEMMA SentClose ==
    ASSUME IInv, IInv', SentInv, SendClose
    PROVE  SentInv'
<1> DEFINE done == ToSet(mSendBuffer)
           rest == Tail(mSendBuffer)
           ec == AfterFirst(sendEc)
<1>0. sStatus \in [SendId -> OpStatus] /\ sStatus' \in [SendId -> OpStatus]
  BY DEF IInv, SendSide, SendTypes
<1>1. /\ sendPc = "next" /\ sendPc' = "exit" /\ sendEc' = "success" /\ sent' = sent
      /\ sStatus' = [o \in SendId |-> IF o \in done THEN "completed" ELSE sStatus[o]]
      /\ sResult' = [o \in SendId |->
             CASE o = sendOp -> Outcome(sendEc)
               [] o \in ToSet(rest) -> IF o = rest[1] THEN ec ELSE "cancel"
               [] OTHER -> sResult[o]]
  BY DEF SendClose, histVars
<1>2. ec # "none" /\ (Outcome(sendEc) = "none" <=> sendEc = "success")
  BY DEF AfterFirst, Outcome, IInv, SendSide, SendTaskTypes, Code
<1>3. done = Pending(sStatus) /\ sendOp \in done /\ sendOp \in SendId  BY <1>1, PendingSends
<1>4. ToSet(rest) = done \ {sendOp}
  <2>1. mSendBuffer \in Seq(SendId) /\ Increasing(mSendBuffer) /\ mSendBuffer # <<>> /\ mSendBuffer[1] = sendOp
    BY <1>1, SendFront DEF IInv, SendSide, SendTypes, SendData
  <2> QED BY <2>1, SendIdNat, TailFacts
<1>5. sendOp \in ToSet(sent) <=> sendEc = "success"
  BY <1>1, <1>3, PendingSends DEF SentInv
<1> HIDE DEF rest, ec, done
<1>6. /\ sResult'[sendOp] = Outcome(sendEc)
      /\ \A o \in SendId : o \in done /\ o # sendOp => sResult'[o] # "none"
      /\ \A o \in SendId : o \notin done => sResult'[o] = sResult[o]
  BY <1>1, <1>2, <1>3, <1>4
<1>7. \A o \in done : o # sendOp => o \notin ToSet(sent)  BY <1>3, PendingSends DEF SentInv
<1>8. SentInOrder'
  <2> SUFFICES ASSUME NEW o \in SendId, sStatus'[o] = "completed"
               PROVE  sResult'[o] = "none" <=> o \in ToSet(sent)
    BY <1>1 DEF SentInv, SentInOrder
  <2>1. CASE o = sendOp  BY <1>2, <1>5, <1>6, <2>1
  <2>2. CASE o \in done /\ o # sendOp  BY <1>6, <1>7, <2>2
  <2>3. CASE o \notin done  BY <1>1, <1>6, <2>3 DEF SentInv, SentInOrder
  <2> QED BY <2>1, <2>2, <2>3
<1>9. Pending(sStatus') = {}  BY <1>1, <1>3, PendingStep
<1>10. \A o \in ToSet(sent) : sStatus'[o] = "completed"  BY <1>1, <1>3, SentOps DEF SentInv
<1> QED BY <1>1, <1>8, <1>9, <1>10 DEF SentInv

\* Every step keeps SentInv.
LEMMA SentStep ==
    ASSUME IInv, IInv', SentInv, [Next]_vars
    PROVE  SentInv'
<1>1. CASE UNCHANGED vars  BY <1>1, SentFrame DEF vars, sendVars, sendTask, histVars
<1>2. CASE RecvOnly  BY <1>2, RecvOnlyFrame, SentFrame DEF sendVars, sendTask
<1>3. CASE LifeOnly  BY <1>3, LifeOnlyFrame, SentFrame DEF sendVars, sendTask, histVars
<1>4. CASE SendOnly
  BY <1>4, SentIssue, SentMoves, SentCancel, SentComplete DEF SendOnly
<1>5. CASE RecvClose \/ GetForkUnknown \/ Destroy
  <2>1. /\ UNCHANGED <<sendOps, sendOp, sendEc, sent>>
        /\ sendPc' = sendPc \/ (sendPc = "idle" /\ sendPc' = "exit")
    BY <1>5 DEF RecvClose, GetForkUnknown, Destroy, CloseSendTask, histVars
  <2> QED BY <2>1, SentFrame
<1> QED BY <1>1, <1>2, <1>3, <1>4, <1>5, SentClose, NextCases

-----------------------------------------------------------------------------
\* Steps that complete no operation and issue none.
LEMMA CauseFrame ==
    ASSUME CauseInv, UNCHANGED <<sStatus, sResult, rStatus, rResult>>, sendPc = "exit" => sendPc' = "exit",
           mEC # "success" => mEC' # "success"
    PROVE  CauseInv'
BY DEF CauseInv, OneCause, Causes, Pending

\* The error that closes the scheduler stays, and an exited send task too.
LEMMA ErrorStays ==
    ASSUME IInv, [Next]_vars
    PROVE  (mEC # "success" => mEC' # "success") /\ (sendPc = "exit" => sendPc' = "exit")
<1>1. CASE UNCHANGED vars  BY <1>1 DEF vars, sendVars, sendTask
<1>2. CASE RecvOnly  BY <1>2, RecvOnlyFrame DEF sendVars, sendTask
<1>3. CASE LifeOnly  BY <1>3, LifeOnlyFrame DEF sendVars, sendTask
<1>4. CASE SendOnly
  <2>1. mEC' = mEC  BY <1>4, SendOnlyFrame
  <2>2. sendPc = "exit" => mEC # "success"  BY DEF IInv, SendSide, SendControl
  <2>3. sendPc = "exit" => sendPc' = "exit"
    BY <1>4, <2>2 DEF SendOnly, SendEmpty, SendRefused, SendWake, SendQueue, CancelQueuedSend, CancelRunningSend,
       SendIoFail, RunSendStop, SendIoDone, SendNext, SendIdle, sendTask
  <2> QED BY <2>1, <2>3
<1>5. CASE SendClose \/ RecvClose \/ GetForkUnknown \/ Destroy
  BY <1>5 DEF SendClose, RecvClose, GetForkUnknown, Destroy, CloseSendTask
<1> QED BY <1>1, <1>2, <1>3, <1>4, <1>5, NextCases

\* Before the send task has failed, a send that ends reports no failure.
LEMMA CauseSend ==
    ASSUME IInv, IInv', SentInv, SentInv', CauseInv, SendOnly, [Next]_vars
    PROVE  CauseInv'
<1>0. /\ DOMAIN sStatus = SendId /\ DOMAIN sStatus' = SendId /\ sResult \in [SendId -> Result]
      /\ \A o \in SendId : sStatus[o] = "unused" <=> o > numSends
  BY PendingSends, PendingStep DEF IInv, SendSide, SendTaskTypes
<1>1. UNCHANGED <<mEC, rStatus, rResult>>  BY SendOnlyFrame DEF recvVars, recvOps
<1>2. SUFFICES Causes(sStatus', sResult') = Causes(sStatus, sResult)
  BY <1>1, ErrorStays DEF CauseInv, OneCause, Causes, Pending
<1>3. ASSUME NEW f \in Fork, SendEmpty(f) \/ SendRefused(f) \/ SendWake(f) \/ SendQueue(f)
      PROVE  Causes(sStatus', sResult') = Causes(sStatus, sResult)
  <2>1. PICK st, res : st \in {"refused", "InProgress", "NotStarted"} /\ IssueSend(f, st, res)
    BY <1>3 DEF SendEmpty, SendRefused, SendWake, SendQueue
  <2>2. numSends + 1 \in SendId /\ numSends \in Nat
    BY <2>1, SchedulerAssumption DEF IssueSend, SchedulerAssumption, IInv, SendSide, SendTypes, SendId
  <2>3. sStatus[numSends + 1] = "unused"  BY <1>0, <2>2
  <2> QED BY <1>0, <2>1, <2>2, <2>3, PendingStep DEF IssueSend, Causes
<1>4. ASSUME NEW o \in SendId, CancelQueuedSend(o) \/ CancelRunningSend(o)
      PROVE  Causes(sStatus', sResult') = Causes(sStatus, sResult)
  <2>1. /\ sStatus[o] \in {"NotStarted", "InProgress"}
        /\ \A p \in SendId : p # o => sStatus'[p] = sStatus[p] /\ sResult'[p] = sResult[p]
        /\ sStatus'[o] # "completed" \/ sResult'[o] = "operation_aborted"
    BY <1>0, <1>4, PendingStep DEF CancelQueuedSend, CancelRunningSend
  <2> QED BY <1>0, <2>1 DEF Causes, Failure
<1>5. CASE SendNext \/ SendIdle
  <2>1. sResult' = sResult /\ sendPc = "next" /\ sendOp \in SendId
    BY <1>5, PendingSends DEF SendNext, SendIdle
  <2>2. sResult[sendOp] = "none"  BY <2>1, PendingSends DEF SentInv
  <2>3. \A o \in SendId : o # sendOp => (sStatus'[o] = "completed" <=> sStatus[o] = "completed")
    <3>1. CASE SendIdle  BY <2>1, <3>1, PendingStep DEF SendIdle
    <3>2. CASE SendNext
      <4>1. mSendBuffer[2] \in SendId /\ sStatus[mSendBuffer[2]] = "NotStarted"
        <5>1. mSendBuffer \in Seq(SendId) /\ Len(mSendBuffer) > 1  BY <3>2 DEF SendNext, IInv, SendSide, SendTypes
        <5>2. \A i \in 2..Len(mSendBuffer) : sStatus[mSendBuffer[i]] = "NotStarted"
          BY <2>1 DEF IInv, SendSide, SendControl, HeadInProgress
        <5> QED BY <5>1, <5>2
      <4> QED BY <2>1, <3>2, <4>1, PendingStep DEF SendNext
    <3> QED BY <1>5, <3>1, <3>2
  <2> QED BY <1>0, <2>1, <2>2, <2>3 DEF Causes, Failure, Code
<1>6. CASE RunSendStop \/ SendIoDone \/ \E ec \in Code : SendIoFail(ec)
  BY <1>6 DEF RunSendStop, SendIoDone, SendIoFail, sendOps
<1> QED BY <1>3, <1>4, <1>5, <1>6 DEF SendOnly

\* When the send task fails only the send it worked on reports the failure.
LEMMA CauseSendClose ==
    ASSUME IInv, IInv', CauseInv, SendClose
    PROVE  CauseInv'
<1> DEFINE rest == Tail(mSendBuffer)
           ec == AfterFirst(sendEc)
           done == ToSet(mSendBuffer)
<1>1. /\ sendPc = "next" /\ sendPc' = "exit" /\ (sendEc # "success" \/ mEC # "success")
      /\ UNCHANGED <<rStatus, rResult>> /\ (mEC' = IF mEC = "success" THEN ec ELSE mEC)
      /\ sStatus' = [o \in SendId |-> IF o \in done THEN "completed" ELSE sStatus[o]]
      /\ sResult' = [o \in SendId |->
             CASE o = sendOp -> Outcome(sendEc)
               [] o \in ToSet(rest) -> IF o = rest[1] THEN ec ELSE "cancel"
               [] OTHER -> sResult[o]]
  BY DEF SendClose, recvOps
<1>2. ec \notin Failure /\ "cancel" \notin Failure /\ mEC' # "success"
  BY <1>1 DEF AfterFirst, Failure
<1>3. Causes(sStatus, sResult) = {}  BY <1>1 DEF CauseInv
<1>4. ToSet(rest) = done \ {sendOp} /\ sendOp \in SendId
  <2>1. mSendBuffer \in Seq(SendId) /\ Increasing(mSendBuffer) /\ mSendBuffer # <<>> /\ mSendBuffer[1] = sendOp
    BY <1>1, SendFront DEF IInv, SendSide, SendTypes, SendData
  <2> QED BY <1>1, <2>1, SendIdNat, TailFacts, PendingSends
<1>5. DOMAIN sStatus = SendId /\ DOMAIN sStatus' = SendId  BY PendingStep
<1> HIDE DEF rest, ec, done
<1>6. \A o \in SendId : o # sendOp => o \notin Causes(sStatus', sResult')
  <2> SUFFICES ASSUME NEW o \in SendId, o # sendOp PROVE ~(sStatus'[o] = "completed" /\ sResult'[o] \in Failure)
    BY DEF Causes
  <2>1. CASE o \in done  BY <1>1, <1>2, <1>4, <2>1
  <2>2. CASE o \notin done  BY <1>1, <1>3, <1>4, <1>5, <2>2 DEF Causes
  <2> QED BY <2>1, <2>2
<1>7. Causes(sStatus', sResult') \subseteq SendId  BY <1>5 DEF Causes
<1> QED BY <1>1, <1>2, <1>6, <1>7 DEF CauseInv, OneCause, Causes, Pending

\* The recvs before and after a step.
LEMMA RecvStatuses ==
    ASSUME IInv, IInv'
    PROVE  /\ rStatus \in [RecvId -> OpStatus] /\ rStatus' \in [RecvId -> OpStatus]
           /\ rResult \in [RecvId -> Result]
           /\ Pending(rStatus) = {o \in RecvId : rStatus[o] \in {"NotStarted", "InProgress", "Canceling"}}
           /\ Pending(rStatus') = {o \in RecvId : rStatus'[o] \in {"NotStarted", "InProgress", "Canceling"}}
           /\ \A o \in RecvId : o \in Nat /\ (rStatus[o] = "unused" <=> o > numRecvsIssued)
<1>1. /\ rStatus \in [RecvId -> OpStatus] /\ rStatus' \in [RecvId -> OpStatus]
      /\ rResult \in [RecvId -> Result]
  BY DEF IInv, RecvSide, RecvTypes, RecvTaskTypes
<1>2. Pending(rStatus) = {o \in RecvId : rStatus[o] \in {"NotStarted", "InProgress", "Canceling"}}
  BY <1>1, PendingOf
<1>3. Pending(rStatus') = {o \in RecvId : rStatus'[o] \in {"NotStarted", "InProgress", "Canceling"}}
  BY <1>1, PendingOf
<1> QED BY <1>1, <1>2, <1>3, SendIdNat DEF IInv, RecvSide, RecvData

\* Without an error a recv that ends reports no failure.
LEMMA CauseRecv ==
    ASSUME IInv, IInv', CauseInv, RecvOnly
    PROVE  CauseInv'
<1> DEFINE C == Causes(rStatus, rResult)
<1>0. DOMAIN rStatus = RecvId /\ DOMAIN rStatus' = RecvId  BY RecvStatuses
<1>1. UNCHANGED <<mEC, sStatus, sResult, sendPc>>  BY RecvOnlyFrame DEF sendVars, sendOps, sendTask
<1>2. SUFFICES /\ Causes(rStatus', rResult') = C
               /\ mEC # "success" => Pending(rStatus') \subseteq Pending(rStatus)
               /\ \A o \in Pending(rStatus') : rResult'[o] = "none"
  BY <1>1 DEF CauseInv, OneCause, Causes, Pending
<1>3. ASSUME NEW f \in Fork, RecvRefused(f) \/ RecvWake(f) \/ RecvMatch(f) \/ RecvQueue(f)
      PROVE  /\ Causes(rStatus', rResult') = C
             /\ mEC # "success" => Pending(rStatus') \subseteq Pending(rStatus)
             /\ \A o \in Pending(rStatus') : rResult'[o] = "none"
  <2>1. PICK st, res :
          /\ st \in {"refused", "InProgress", "NotStarted"}
          /\ IssueRecv(f, st, res)
          /\ st # "refused" => res = "none" /\ mEC = "success"
    BY <1>3 DEF RecvRefused, RecvWake, RecvMatch, RecvQueue
  <2>2. PICK n : n = numRecvsIssued + 1  OBVIOUS
  <2>3. n \in RecvId /\ rStatus[n] = "unused"
    <3>1. n \in RecvId /\ numRecvsIssued \in Nat
      BY <2>1, <2>2, SchedulerAssumption DEF IssueRecv, SchedulerAssumption, IInv, RecvSide, RecvTypes, RecvId
    <3> QED BY <2>2, <3>1, RecvStatuses
  <2>4. /\ \A o \in RecvId : o # n => rStatus'[o] = rStatus[o] /\ rResult'[o] = rResult[o]
        /\ rStatus'[n] = st /\ rResult'[n] = res
    BY <2>1, <2>2, <2>3, RecvStatuses DEF IssueRecv
  <2>0. st \in {"refused", "InProgress", "NotStarted"}  BY <2>1
  <2>5. Causes(rStatus', rResult') = C  BY <1>0, <2>0, <2>3, <2>4 DEF Causes
  <2>6. \A o \in Pending(rStatus') : (o = n /\ st # "refused") \/ (o # n /\ o \in Pending(rStatus) /\ o \in RecvId)
    BY <2>3, <2>4, RecvStatuses
  <2> QED BY <2>1, <2>4, <2>5, <2>6 DEF CauseInv
<1>4. ASSUME NEW o \in RecvId, CancelQueuedRecv(o) \/ CancelRunningRecv(o)
      PROVE  /\ Causes(rStatus', rResult') = C
             /\ Pending(rStatus') \subseteq Pending(rStatus)
             /\ \A p \in Pending(rStatus') : rResult'[p] = "none"
  <2>1. /\ rStatus[o] \in {"NotStarted", "InProgress"}
        /\ \A p \in RecvId : p # o => rStatus'[p] = rStatus[p] /\ rResult'[p] = rResult[p]
        /\ \/ rStatus'[o] = "Canceling" /\ rResult'[o] = rResult[o]
           \/ rStatus'[o] = "completed" /\ rResult'[o] = "operation_aborted"
    BY <1>4, RecvStatuses DEF CancelQueuedRecv, CancelRunningRecv
  <2>2. Causes(rStatus', rResult') = C  BY <1>0, <2>1 DEF Causes, Failure
  <2>3. \A p \in Pending(rStatus') : p \in Pending(rStatus) /\ rResult'[p] = rResult[p]
    BY <2>1, RecvStatuses
  <2> QED BY <2>2, <2>3 DEF CauseInv
<1>5. CASE RecvNext \/ RecvIdle
  <2>1. rResult' = rResult /\ rStatus' = [rStatus EXCEPT ![recvOp] = "completed"] /\ recvOp # None
    BY <1>5 DEF RecvNext, RecvIdle, CompleteRecv, IInv, RecvSide, RecvControl, RecvLocals
  <2>2. recvOp \in RecvId /\ recvOp \in Pending(rStatus) /\ rResult[recvOp] = "none"
    BY <2>1, RecvFront DEF IInv, CauseInv
  <2>3. Causes(rStatus', rResult') = C  BY <1>0, <2>1, <2>2, RecvStatuses DEF Causes, Failure, Code
  <2>4. Pending(rStatus') \subseteq Pending(rStatus)  BY <2>1, <2>2, RecvStatuses
  <2> QED BY <2>1, <2>3, <2>4 DEF CauseInv
<1>6. ASSUME NEW f \in Fork, GetForkFound(f)
      PROVE  /\ Causes(rStatus', rResult') = C
             /\ Pending(rStatus') \subseteq Pending(rStatus)
             /\ \A p \in Pending(rStatus') : rResult'[p] = "none"
  <2>1. PICK o : o = Head(mRecvOps[f])  OBVIOUS
  <2>2. rResult' = rResult /\ rStatus' = [rStatus EXCEPT ![o] = "InProgress"] /\ mRecvOps[f] # <<>>
    BY <1>6, <2>1 DEF GetForkFound
  <2>3. o \in Pending(rStatus) /\ o \in RecvId
    <3>1. mRecvOps[f] \in Seq(RecvId) /\ ToSet(mRecvOps[f]) \subseteq Pending(rStatus)
      BY RecvQueued DEF IInv, RecvSide, RecvTypes
    <3>2. o = mRecvOps[f][1] /\ 1 \in 1..Len(mRecvOps[f])  BY <2>1, <2>2, <3>1
    <3> QED BY <3>1, <3>2, InToSet, RecvStatuses
  <2>4. Causes(rStatus', rResult') = C  BY <1>0, <2>2, <2>3, RecvStatuses DEF Causes
  <2>5. Pending(rStatus') = Pending(rStatus)  BY <2>2, <2>3, RecvStatuses
  <2> QED BY <2>2, <2>4, <2>5 DEF CauseInv
<1>7. ASSUME UNCHANGED <<rStatus, rResult>>
      PROVE  /\ Causes(rStatus', rResult') = C
             /\ Pending(rStatus') \subseteq Pending(rStatus)
             /\ \A p \in Pending(rStatus') : rResult'[p] = "none"
  BY <1>7 DEF CauseInv, Causes, Pending
<1>8. CASE \/ \E f \in Fork : \/ GetForkClosed(f) \/ GetForkWait(f) \/ RecvNewFork(f) \/ RecvBadFork(f) \/ ForkSocket(f)
           \/ \E ec \in Code : RecvIoFail(ec)
           \/ \E slot \in Slot : RecvHeader(slot, "getFork") \/ RecvHeader(slot, "meta")
           \/ RunRecvStop \/ RecvSizeOk \/ RecvSizeBad \/ RecvBody
  <2>1. UNCHANGED <<rStatus, rResult>>
    BY <1>8 DEF GetForkClosed, GetForkWait, RecvNewFork, RecvBadFork, ForkSocket, RecvIoFail, RecvHeader,
       RunRecvStop, RecvSizeOk, RecvSizeBad, RecvBody, recvVars, recvOps
  <2> QED BY <1>7, <2>1
<1> QED BY <1>3, <1>4, <1>5, <1>6, <1>8 DEF RecvOnly

\* cancel(Recver) reaches every recv that is pending.
LEMMA RestRecvs ==
    ASSUME IInv
    PROVE  LET all == UNION {ToSet(RecvRest(recvOp)[f]) : f \in Fork}
           IN  (IF recvOp = None THEN all ELSE all \cup {recvOp}) = Pending(rStatus)
<1> DEFINE rest == RecvRest(recvOp)
           all  == UNION {ToSet(rest[f]) : f \in Fork}
           done == IF recvOp = None THEN all ELSE all \cup {recvOp}
<1>1. ASSUME NEW f \in Fork, NEW o \in ToSet(rest[f]) PROVE o \in Pending(rStatus)
  <2>1. CASE recvOp # None /\ rFork[recvOp] = f
    BY <1>1, <2>1, RecvFront, RecvQueued DEF RecvRest, IInv, RecvSide
  <2>2. CASE ~(recvOp # None /\ rFork[recvOp] = f)
    BY <1>1, <2>2, RecvQueued DEF RecvRest, IInv, RecvSide
  <2> QED BY <2>1, <2>2
<1>2. done \subseteq Pending(rStatus)  BY <1>1, RecvFront DEF IInv
<1>3. ASSUME NEW o \in Pending(rStatus), o # recvOp \/ recvOp = None PROVE o \in all
  <2>1. o \in RecvId /\ rFork[o] \in Fork /\ o \in ToSet(mRecvOps[rFork[o]])
    BY PendingRecvs DEF IInv, RecvSide, RecvTypes, RecvData, RecvQueuesAgree
  <2>2. o \in ToSet(rest[rFork[o]])
    <3>1. CASE recvOp # None /\ rFork[recvOp] = rFork[o]  BY <1>3, <2>1, <3>1, RecvFront DEF RecvRest, IInv
    <3>2. CASE ~(recvOp # None /\ rFork[recvOp] = rFork[o])  BY <2>1, <3>2 DEF RecvRest
    <3> QED BY <3>1, <3>2
  <2> QED BY <2>1, <2>2
<1>4. Pending(rStatus) \subseteq done  BY <1>3
<1> QED BY <1>2, <1>4

\* cancel(Recver) hands its error to one recv at most: the one that failed, or
\* the first one of the first fork that has any.
LEMMA CauseFail ==
    ASSUME IInv, IInv', CauseInv, RecvClose \/ GetForkUnknown
    PROVE  CauseInv'
<1>0. DOMAIN rStatus = RecvId /\ DOMAIN rStatus' = RecvId  BY RecvStatuses
<1>1. PICK prev, pe, ec :
        /\ FailRecvs(prev, pe, ec) /\ prev = recvOp
        /\ prev # None => ec \notin Failure
  <2>1. CASE RecvClose  BY <2>1 DEF RecvClose, AfterFirst, Failure
  <2>2. CASE GetForkUnknown
    BY <2>2 DEF GetForkUnknown, IInv, RecvSide, RecvControl, RecvLocals
  <2> QED BY <2>1, <2>2
<1>2. UNCHANGED <<sStatus, sResult>> /\ (sendPc = "exit" => sendPc' = "exit") /\ mEC' # "success"
  BY DEF RecvClose, GetForkUnknown, CloseSendTask, sendOps, AfterFirst
<1> DEFINE rest == RecvRest(prev)
           all  == UNION {ToSet(rest[f]) : f \in Fork}
           first(o) == \E i \in DOMAIN mSocketForks :
                           /\ rest[mSocketForks[i]] # <<>> /\ o = rest[mSocketForks[i]][1]
                           /\ \A j \in 1..(i - 1) : rest[mSocketForks[j]] = <<>>
           done == IF prev = None THEN all ELSE all \cup {prev}
<1>3. /\ rStatus' = [o \in RecvId |-> IF o \in done THEN "completed" ELSE rStatus[o]]
      /\ rResult' = [o \in RecvId |->
             CASE o = prev /\ prev # None -> Outcome(pe)
               [] o \in all -> IF first(o) THEN ec ELSE "cancel"
               [] OTHER -> rResult[o]]
  BY <1>1 DEF FailRecvs
<1>4. \A o, p : first(o) /\ first(p) => o = p
  <2> SUFFICES ASSUME NEW o, NEW p, first(o), first(p) PROVE o = p  OBVIOUS
  <2>1. PICK i \in DOMAIN mSocketForks :
            /\ rest[mSocketForks[i]] # <<>> /\ o = rest[mSocketForks[i]][1]
            /\ \A j \in 1..(i - 1) : rest[mSocketForks[j]] = <<>>
    OBVIOUS
  <2>2. PICK k \in DOMAIN mSocketForks :
            /\ rest[mSocketForks[k]] # <<>> /\ p = rest[mSocketForks[k]][1]
            /\ \A j \in 1..(k - 1) : rest[mSocketForks[j]] = <<>>
    OBVIOUS
  <2>3. DOMAIN mSocketForks = 1..Len(mSocketForks) /\ Len(mSocketForks) \in Nat  BY DEF IInv, ForkTypes
  <2>4. ~(i < k) /\ ~(k < i)  BY <2>1, <2>2, <2>3
  <2>5. i = k  BY <2>3, <2>4
  <2> QED BY <2>1, <2>2, <2>5
<1>5. done = Pending(rStatus)  BY <1>1, RestRecvs
<1>6. Pending(rStatus') = {}  BY <1>3, <1>5, RecvStatuses
<1> HIDE DEF rest, all, first, done
<1>7. ASSUME NEW o \in RecvId, o \notin done PROVE rStatus'[o] = rStatus[o] /\ rResult'[o] = rResult[o]
  <2>1. ~(o = prev /\ prev # None) /\ o \notin all  BY <1>7 DEF done
  <2> QED BY <1>3, <1>7, <2>1
<1>8. \A o, p \in Causes(rStatus', rResult') : o = p
  <2>1. CASE Causes(rStatus, rResult) # {}
    <3>1. Pending(rStatus) = {}  BY <2>1 DEF CauseInv
    <3>2. done = {}  BY <1>5, <3>1
    <3>3. Causes(rStatus', rResult') = Causes(rStatus, rResult)  BY <1>0, <1>7, <3>2 DEF Causes
    <3> QED BY <3>3 DEF CauseInv, OneCause
  <2>2. CASE Causes(rStatus, rResult) = {}
    <3>1. \A o \in Causes(rStatus', rResult') : o \in done /\ o \in RecvId /\ rResult'[o] \in Failure
      BY <1>0, <1>7, <2>2 DEF Causes
    <3>2. CASE prev # None
      <4>1. \A o \in RecvId : o # prev /\ o \in done => rResult'[o] \in {ec, "cancel"}
        BY <1>3, <3>2 DEF done
      <4> QED BY <1>1, <3>1, <3>2, <4>1 DEF Failure
    <3>3. CASE prev = None
      <4>1. \A o \in RecvId : o \in done /\ ~first(o) => rResult'[o] = "cancel"  BY <1>3, <3>3 DEF done
      <4>2. \A o \in Causes(rStatus', rResult') : first(o)  BY <3>1, <4>1 DEF Failure
      <4> QED BY <1>4, <4>2
    <3> QED BY <3>2, <3>3
  <2> QED BY <2>1, <2>2
<1> QED BY <1>2, <1>6, <1>8 DEF CauseInv, OneCause, Causes

\* Every step keeps CauseInv.
LEMMA CauseStep ==
    ASSUME IInv, IInv', SentInv, SentInv', CauseInv, [Next]_vars
    PROVE  CauseInv'
<1>1. CASE UNCHANGED vars
  BY <1>1, CauseFrame DEF vars, sendVars, sendOps, sendTask, recvVars, recvOps
<1>2. CASE LifeOnly
  BY <1>2, LifeOnlyFrame, CauseFrame DEF sendVars, sendOps, sendTask, recvVars, recvOps
<1>3. CASE Destroy
  BY <1>3, ErrorStays, CauseFrame DEF Destroy, sendOps, recvOps
<1> QED BY <1>1, <1>2, <1>3, CauseSend, CauseSendClose, CauseRecv, CauseFail, NextCases

-----------------------------------------------------------------------------
(* flush *)

\* A tagged operation is the pair of its tag and its number.
LEMMA TaggedPair ==
    ASSUME NEW t, NEW S, NEW p \in {t} \X S
    PROVE  p[1] = t /\ p[2] \in S /\ p = <<t, p[2]>>
<1>1. PICK o \in S : p = <<t, o>>  OBVIOUS
<1> QED BY <1>1

\* The pending operations were issued; each is tagged with its direction.
LEMMA PendingPairs ==
    ASSUME IInv
    PROVE  /\ PendingOps \subseteq IssuedOps
           /\ \A p \in PendingOps : \/ p[1] = "send" /\ p[2] \in Pending(sStatus) /\ p = <<"send", p[2]>>
                                    \/ p[1] = "recv" /\ p[2] \in Pending(rStatus) /\ p = <<"recv", p[2]>>
           /\ \A o \in Pending(sStatus) : <<"send", o>> \in PendingOps
           /\ \A o \in Pending(rStatus) : <<"recv", o>> \in PendingOps
<1>1. \A o \in Pending(sStatus) : o \in 1..numSends
  <2>1. \A o \in Pending(sStatus) : o \in SendId /\ o <= numSends
    BY PendingSends, SendQueued DEF IInv, SendSide
  <2> QED BY <2>1, SchedulerAssumption DEF SendId, SchedulerAssumption, IInv, SendSide, SendTypes
<1>2. \A o \in Pending(rStatus) : o \in 1..numRecvsIssued
  <2>1. \A o \in Pending(rStatus) : o \in RecvId /\ o <= numRecvsIssued
    BY RecvQueued DEF IInv, RecvSide
  <2> QED BY <2>1, SchedulerAssumption DEF RecvId, SchedulerAssumption, IInv, RecvSide, RecvTypes
<1>3. PendingOps \subseteq IssuedOps  BY <1>1, <1>2 DEF PendingOps, IssuedOps
<1>4. \A p \in PendingOps : \/ p[1] = "send" /\ p[2] \in Pending(sStatus) /\ p = <<"send", p[2]>>
                            \/ p[1] = "recv" /\ p[2] \in Pending(rStatus) /\ p = <<"recv", p[2]>>
  <2> SUFFICES ASSUME NEW p \in PendingOps
               PROVE  \/ p[1] = "send" /\ p[2] \in Pending(sStatus) /\ p = <<"send", p[2]>>
                      \/ p[1] = "recv" /\ p[2] \in Pending(rStatus) /\ p = <<"recv", p[2]>>
    OBVIOUS
  <2>1. CASE p \in {"send"} \X Pending(sStatus)  BY <2>1, TaggedPair
  <2>2. CASE p \in {"recv"} \X Pending(rStatus)  BY <2>2, TaggedPair
  <2> QED BY <2>1, <2>2 DEF PendingOps
<1>5. \A o \in Pending(sStatus) : <<"send", o>> \in PendingOps  BY DEF PendingOps
<1>6. \A o \in Pending(rStatus) : <<"recv", o>> \in PendingOps  BY DEF PendingOps
<1> QED BY <1>3, <1>4, <1>5, <1>6

\* A step that completes nothing and leaves the flushes alone.
LEMMA FlushFrame ==
    ASSUME FlushInv, FlushTypeOK, UNCHANGED flushVars,
           PendingOps \subseteq PendingOps', PendingOps' \cap IssuedOps \subseteq PendingOps,
           IssuedOps \subseteq IssuedOps', tokenStopped \subseteq tokenStopped',
           \A p \in IssuedOps : OpFork(p)' = OpFork(p)
    PROVE  FlushInv'
<1>1. UNCHANGED <<mFlush, flushOps, flushWait>>  BY DEF flushVars
<1>2. FlushHeld'  BY <1>1 DEF FlushInv, FlushHeld
<1>3. \A k \in FlushId : flushWait[k] \subseteq IssuedOps  BY DEF FlushInv
<1>4. FlushSound'
  <2> SUFFICES ASSUME NEW k \in FlushId, mFlush[k] = "done", flushWait[k] \cap tokenStopped' = {}
               PROVE  flushWait[k] \cap PendingOps' = {}
    BY <1>1 DEF FlushSound
  <2>1. flushWait[k] \cap PendingOps = {}  BY DEF FlushInv, FlushSound
  <2> QED BY <1>3, <2>1
<1>5. ASSUME NEW k \in FlushId, mFlush[k] = "waiting", flushWait[k] \cap tokenStopped' = {},
             NEW p \in flushWait[k] \cap PendingOps'
      PROVE  \E q \in flushOps[k] : NotAfter(p, q)'
  <2>1. p \in IssuedOps /\ p \in PendingOps  BY <1>3
  <2>2. flushWait[k] \cap tokenStopped = {}  BY <1>5
  <2>3. PICK q \in flushOps[k] : NotAfter(p, q)  BY <1>5, <2>1, <2>2 DEF FlushInv
  <2>4. q \in IssuedOps  BY <1>3, <1>5, <2>3 DEF FlushInv
  <2>5. OpFork(p)' = OpFork(p) /\ OpFork(q)' = OpFork(q)  BY <2>1, <2>4
  <2>6. NotAfter(p, q)'  BY <2>3, <2>5 DEF NotAfter
  <2> QED BY <2>3, <2>6
<1>6. \A k \in FlushId : mFlush[k] = "waiting" => flushOps[k] \subseteq flushWait[k]  BY DEF FlushInv
<1> QED BY <1>1, <1>2, <1>3, <1>4, <1>5, <1>6 DEF FlushInv

\* A step that completes the operations in done.  Unless it is cancelled an
\* operation completes after the older ones of its fork.
LEMMA FlushRelease ==
    ASSUME FlushInv, FlushTypeOK, NEW done, ReleaseFlushes(done), PendingOps' = PendingOps \ done,
           UNCHANGED <<numSends, numRecvsIssued, sFork, rFork>>, tokenStopped \subseteq tokenStopped',
           \A q \in done : q \in tokenStopped' \/ \A p \in PendingOps : NotAfter(p, q) => p \in done
    PROVE  FlushInv'
<1>1. /\ \A k \in FlushId : flushOps'[k] = flushOps[k] \ done
      /\ \A k \in FlushId : mFlush'[k] =
             IF flushOps[k] = {} \/ ~(flushOps[k] \subseteq done) THEN mFlush[k]
             ELSE IF mFlush[k] = "waiting" THEN "done" ELSE "resumedAfterThrow"
      /\ flushWait' = flushWait
  BY DEF ReleaseFlushes
<1>2. \A p, q : NotAfter(p, q)' <=> NotAfter(p, q)  BY DEF NotAfter, OpFork
<1>3. IssuedOps' = IssuedOps  BY DEF IssuedOps
<1>4. ASSUME NEW k \in FlushId, mFlush'[k] = "waiting"
      PROVE  mFlush[k] = "waiting" /\ flushOps[k] # {} /\ ~(flushOps[k] \subseteq done)
             /\ flushOps[k] \subseteq PendingOps /\ flushOps[k] \subseteq flushWait[k]
  <2>1. mFlush[k] = "waiting" /\ (flushOps[k] = {} \/ ~(flushOps[k] \subseteq done))  BY <1>1, <1>4
  <2> QED BY <2>1 DEF FlushInv, FlushHeld
<1>5. FlushHeld'  BY <1>1, <1>4 DEF FlushHeld
<1>6. ASSUME NEW k \in FlushId, mFlush[k] = "waiting", flushWait[k] \cap tokenStopped' = {},
             NEW p \in flushWait[k] \cap (PendingOps \ done)
      PROVE  \E q \in flushOps[k] \ done : NotAfter(p, q)
  <2>1. flushWait[k] \cap tokenStopped = {} /\ p \in flushWait[k] \cap PendingOps  BY <1>6
  <2>2. PICK q \in flushOps[k] : NotAfter(p, q)  BY <1>6, <2>1 DEF FlushInv
  <2>3. q \in flushWait[k] /\ q \notin tokenStopped'  BY <1>6, <2>2 DEF FlushInv
  <2>4. q \notin done  BY <1>6, <2>2, <2>3
  <2> QED BY <2>2, <2>4
<1>7. FlushSound'
  <2> SUFFICES ASSUME NEW k \in FlushId, mFlush'[k] = "done", flushWait[k] \cap tokenStopped' = {}
               PROVE  flushWait[k] \cap PendingOps' = {}
    BY <1>1 DEF FlushSound
  <2>1. CASE mFlush[k] = "done"
    <3>1. flushWait[k] \cap PendingOps = {}  BY <2>1 DEF FlushInv, FlushSound
    <3> QED BY <3>1
  <2>2. CASE mFlush[k] # "done"
    <3>1. mFlush[k] = "waiting" /\ flushOps[k] \subseteq done  BY <1>1, <2>2
    <3> QED BY <1>6, <3>1
  <2> QED BY <2>1, <2>2
<1>8. ASSUME NEW k \in FlushId PROVE flushWait'[k] \subseteq IssuedOps'  BY <1>1, <1>3 DEF FlushInv
<1>9. ASSUME NEW k \in FlushId, mFlush'[k] = "waiting"
      PROVE  /\ flushOps'[k] \subseteq flushWait'[k]
             /\ flushWait'[k] \cap tokenStopped' = {} =>
                    \A p \in flushWait'[k] \cap PendingOps' : \E q \in flushOps'[k] : NotAfter(p, q)'
  BY <1>1, <1>2, <1>4, <1>6, <1>9
<1> QED BY <1>5, <1>7, <1>8, <1>9 DEF FlushInv

\* The newest operations of the forks are pending, and every pending operation
\* is one of them or older than one.
LEMMA BackOps ==
    ASSUME IInv
    PROVE  /\ \A f \in Fork : BackRecv(f) \cup BackSend(f) \subseteq PendingOps
           /\ \A p \in PendingOps : \E f \in Fork : \E q \in BackRecv(f) \cup BackSend(f) : NotAfter(p, q)
<1>1. ASSUME NEW f \in Fork
      PROVE  /\ mSendOps[f] \in Seq(SendId) /\ Increasing(mSendOps[f])
             /\ mRecvOps[f] \in Seq(RecvId) /\ Increasing(mRecvOps[f])
             /\ \A o \in ToSet(mSendOps[f]) : o \in Pending(sStatus) /\ sFork[o] = f
             /\ \A o \in ToSet(mRecvOps[f]) : o \in Pending(rStatus) /\ rFork[o] = f
  <2>1. mSendOps[f] \in Seq(SendId) /\ Increasing(mSendOps[f])
    BY DEF IInv, SendSide, SendTypes, SendData, SendQueuesAgree
  <2>2. mRecvOps[f] \in Seq(RecvId) /\ Increasing(mRecvOps[f])
    BY DEF IInv, RecvSide, RecvTypes, RecvData, RecvQueuesAgree
  <2> QED BY <2>1, <2>2, SendQueued, RecvQueued, PendingSends DEF IInv, SendSide, RecvSide
<1>2. ASSUME NEW f \in Fork
      PROVE  /\ mSendOps[f] # <<>> => /\ mSendOps[f][Len(mSendOps[f])] \in ToSet(mSendOps[f])
                                      /\ \A o \in ToSet(mSendOps[f]) : o <= mSendOps[f][Len(mSendOps[f])]
             /\ mRecvOps[f] # <<>> => /\ mRecvOps[f][Len(mRecvOps[f])] \in ToSet(mRecvOps[f])
                                      /\ \A o \in ToSet(mRecvOps[f]) : o <= mRecvOps[f][Len(mRecvOps[f])]
  BY <1>1, SendIdNat, LastOfIncreasing
<1>3. ASSUME NEW f \in Fork PROVE BackRecv(f) \cup BackSend(f) \subseteq PendingOps
  BY <1>1, <1>2, PendingPairs DEF BackRecv, BackSend
<1>4. ASSUME NEW p \in PendingOps
      PROVE  \E f \in Fork : \E q \in BackRecv(f) \cup BackSend(f) : NotAfter(p, q)
  <2>1. CASE p[1] = "send"
    <3> DEFINE f == sFork[p[2]]
               q == <<"send", mSendOps[f][Len(mSendOps[f])]>>
    <3>1. p[2] \in ToSet(mSendBuffer) /\ p[2] \in SendId  BY <2>1, PendingPairs, PendingSends
    <3>2. f \in Fork /\ p[2] \in ToSet(mSendOps[f])
      BY <3>1 DEF IInv, SendSide, SendTypes, SendData, SendQueuesAgree
    <3>3. mSendOps[f] # <<>>  BY <1>1, <3>2, EmptyQueue
    <3>4. q \in BackSend(f) /\ sFork[q[2]] = f /\ p[2] <= q[2] /\ q[1] = "send"
      BY <1>1, <1>2, <3>2, <3>3 DEF BackSend
    <3>5. NotAfter(p, q)  BY <2>1, <3>4 DEF NotAfter, OpFork
    <3> QED BY <3>2, <3>4, <3>5
  <2>2. CASE p[1] = "recv"
    <3> DEFINE f == rFork[p[2]]
               q == <<"recv", mRecvOps[f][Len(mRecvOps[f])]>>
    <3>1. p[2] \in Pending(rStatus) /\ p[2] \in RecvId  BY <2>2, PendingPairs, RecvQueued DEF IInv, RecvSide
    <3>2. f \in Fork /\ p[2] \in ToSet(mRecvOps[f])
      BY <3>1 DEF IInv, RecvSide, RecvTypes, RecvData, RecvQueuesAgree
    <3>3. mRecvOps[f] # <<>>  BY <1>1, <3>2, EmptyQueue
    <3>4. q \in BackRecv(f) /\ rFork[q[2]] = f /\ p[2] <= q[2] /\ q[1] = "recv"
      BY <1>1, <1>2, <3>2, <3>3 DEF BackRecv
    <3>5. NotAfter(p, q)  BY <2>2, <3>4 DEF NotAfter, OpFork
    <3> QED BY <3>2, <3>4, <3>5
  <2> QED BY <2>1, <2>2, PendingPairs
<1> QED BY <1>3, <1>4

\* flush returns at once, hands out its tokens, or throws.
LEMMA FlushStart ==
    ASSUME IInv, FlushInv, NEW k \in FlushId, FlushNow(k) \/ FlushWait(k) \/ FlushThrow(k)
    PROVE  FlushInv'
<1>1. UNCHANGED <<sendVars, recvVars, tokenStopped>>
  BY DEF FlushNow, FlushWait, FlushThrow, histVars
<1>2. PendingOps' = PendingOps /\ IssuedOps' = IssuedOps /\ \A p, q : NotAfter(p, q)' <=> NotAfter(p, q)
  BY <1>1 DEF sendVars, recvVars, sendOps, recvOps, PendingOps, Pending, IssuedOps, NotAfter, OpFork
<1>3. /\ mFlush \in [FlushId -> {"unused", "waiting", "done", "threw", "resumedAfterThrow"}]
      /\ flushOps \in [FlushId -> SUBSET OpSet] /\ flushWait \in [FlushId -> SUBSET OpSet]
  BY DEF IInv, FlushTypeOK
<1>4. /\ flushWait' = [flushWait EXCEPT ![k] = PendingOps]
      /\ \A j \in FlushId \ {k} : mFlush'[j] = mFlush[j] /\ flushOps'[j] = flushOps[j]
  BY <1>3 DEF FlushNow, FlushWait, FlushThrow
<1>5. flushWait'[k] = PendingOps /\ \A j \in FlushId \ {k} : flushWait'[j] = flushWait[j]
  BY <1>3, <1>4
<1>6. /\ mFlush'[k] = "done" => PendingOps = {}
      /\ mFlush'[k] = "waiting" =>
            /\ flushOps'[k] # {} /\ flushOps'[k] \subseteq PendingOps
            /\ \A p \in PendingOps : \E q \in flushOps'[k] : NotAfter(p, q)
  <2>1. CASE FlushThrow(k)
    <3>1. mFlush'[k] = "threw"  BY <1>3, <2>1 DEF FlushThrow
    <3> QED BY <3>1
  <2>2. CASE FlushNow(k)
    <3>1. mFlush'[k] = "done" /\ mNumRecvs = 0 /\ mSendBuffer = <<>>  BY <1>3, <2>2 DEF FlushNow
    <3>2. Pending(rStatus) = {}  BY <3>1, PendingRecvs, FS_EmptySet DEF IInv, RecvSide, RecvData
    <3>3. Pending(sStatus) = {}
      BY <3>1, PendingSends, EmptyQueue DEF IInv, SendSide, SendTypes
    <3> QED BY <3>1, <3>2, <3>3 DEF PendingOps
  <2>3. CASE FlushWait(k)
    <3>1. mFlush'[k] = "waiting" /\ flushOps'[k] = UNION {BackRecv(f) \cup BackSend(f) : f \in Fork}
      BY <1>3, <2>3 DEF FlushWait
    <3>2. flushOps'[k] \subseteq PendingOps  BY <3>1, BackOps
    <3>3. \A p \in PendingOps : \E q \in flushOps'[k] : NotAfter(p, q)
      <4> SUFFICES ASSUME NEW p \in PendingOps PROVE \E q \in flushOps'[k] : NotAfter(p, q)  OBVIOUS
      <4>1. PICK f \in Fork : \E q \in BackRecv(f) \cup BackSend(f) : NotAfter(p, q)  BY BackOps
      <4> QED BY <3>1, <4>1
    <3>4. PendingOps # {}
      <4>1. CASE mNumRecvs # 0
        <5>1. Pending(rStatus) # {}  BY <4>1, FS_EmptySet DEF IInv, RecvSide, RecvData
        <5> QED BY <5>1, PendingPairs
      <4>2. CASE mSendBuffer # <<>>
        <5>1. Pending(sStatus) # {}  BY <4>2, PendingSends, EmptyQueue DEF IInv, SendSide, SendTypes
        <5> QED BY <5>1, PendingPairs
      <4> QED BY <2>3, <4>1, <4>2 DEF FlushWait
    <3> QED BY <3>1, <3>2, <3>3, <3>4
  <2> QED BY <2>1, <2>2, <2>3
<1>7. FlushHeld'
  <2> SUFFICES ASSUME NEW j \in FlushId, mFlush'[j] = "waiting"
               PROVE  flushOps'[j] # {} /\ flushOps'[j] \subseteq PendingOps
    BY <1>2 DEF FlushHeld
  <2>1. CASE j = k  BY <1>6, <2>1
  <2>2. CASE j # k  BY <1>4, <2>2 DEF FlushInv, FlushHeld
  <2> QED BY <2>1, <2>2
<1>8. FlushSound'
  <2> SUFFICES ASSUME NEW j \in FlushId, mFlush'[j] = "done", flushWait'[j] \cap tokenStopped = {}
               PROVE  flushWait'[j] \cap PendingOps = {}
    BY <1>1, <1>2 DEF FlushSound
  <2>1. CASE j = k  BY <1>6, <2>1
  <2>2. CASE j # k  BY <1>4, <1>5, <2>2 DEF FlushInv, FlushSound
  <2> QED BY <2>1, <2>2
<1>9. ASSUME NEW j \in FlushId
      PROVE  /\ flushWait'[j] \subseteq IssuedOps
             /\ mFlush'[j] = "waiting" =>
                  /\ flushOps'[j] \subseteq flushWait'[j]
                  /\ flushWait'[j] \cap tokenStopped = {} =>
                        \A p \in flushWait'[j] \cap PendingOps : \E q \in flushOps'[j] : NotAfter(p, q)
  <2>1. CASE j = k  BY <1>5, <1>6, <2>1, PendingPairs
  <2>2. CASE j # k  BY <1>4, <1>5, <2>2 DEF FlushInv
  <2> QED BY <2>1, <2>2
<1> QED BY <1>1, <1>2, <1>7, <1>8, <1>9 DEF FlushInv

\* No send completes, and the issued ones keep their fork.
SendsGrow ==
    /\ numSends' \in Nat /\ numSends <= numSends'
    /\ Pending(sStatus) \subseteq Pending(sStatus')
    /\ \A o \in Pending(sStatus') : o \in 1..numSends => o \in Pending(sStatus)
    /\ \A o \in 1..numSends : sFork'[o] = sFork[o]

\* No recv completes.
RecvsGrow ==
    /\ numRecvsIssued' \in Nat /\ numRecvsIssued <= numRecvsIssued'
    /\ Pending(rStatus) \subseteq Pending(rStatus')
    /\ \A o \in Pending(rStatus') : o \in 1..numRecvsIssued => o \in Pending(rStatus)
    /\ \A o \in 1..numRecvsIssued : rFork'[o] = rFork[o]

\* The issued counters are numbers.
LEMMA Issued ==
    ASSUME IInv
    PROVE  /\ numSends \in Nat /\ numRecvsIssued \in Nat
           /\ 1..numSends \subseteq SendId /\ 1..numRecvsIssued \subseteq RecvId
BY SchedulerAssumption DEF SchedulerAssumption, IInv, SendSide, SendTypes, RecvSide, RecvTypes, SendId, RecvId

\* Steps that leave a direction's operations alone do not complete one.
LEMMA UnchangedGrow ==
    ASSUME IInv
    PROVE  /\ UNCHANGED <<numSends, sFork, sStatus>> => SendsGrow
           /\ UNCHANGED <<numRecvsIssued, rFork, rStatus>> => RecvsGrow
BY Issued DEF SendsGrow, RecvsGrow, Pending

\* A step that only issues operations keeps what flush promised.
LEMMA FlushQuiet ==
    ASSUME IInv, FlushInv, UNCHANGED flushVars, tokenStopped \subseteq tokenStopped', SendsGrow, RecvsGrow
    PROVE  FlushInv'
<1>0. /\ numSends \in Nat /\ numRecvsIssued \in Nat
      /\ FlushTypeOK
  BY Issued DEF IInv
<1>1. IssuedOps \subseteq IssuedOps'
  <2>1. 1..numSends \subseteq 1..numSends' /\ 1..numRecvsIssued \subseteq 1..numRecvsIssued'
    BY <1>0 DEF SendsGrow, RecvsGrow
  <2> QED BY <2>1 DEF IssuedOps
<1>2. PendingOps \subseteq PendingOps'  BY DEF PendingOps, SendsGrow, RecvsGrow
<1>3. PendingOps' \cap IssuedOps \subseteq PendingOps
  <2> SUFFICES ASSUME NEW p \in PendingOps', p \in IssuedOps PROVE p \in PendingOps  OBVIOUS
  <2>1. CASE p \in {"send"} \X Pending(sStatus')
    <3>1. p[1] = "send" /\ p[2] \in Pending(sStatus') /\ p = <<"send", p[2]>>  BY <2>1, TaggedPair
    <3>2. p[2] \in 1..numSends  BY <3>1, TaggedPair DEF IssuedOps
    <3> QED BY <3>1, <3>2 DEF PendingOps, SendsGrow
  <2>2. CASE p \in {"recv"} \X Pending(rStatus')
    <3>1. p[1] = "recv" /\ p[2] \in Pending(rStatus') /\ p = <<"recv", p[2]>>  BY <2>2, TaggedPair
    <3>2. p[2] \in 1..numRecvsIssued  BY <3>1, TaggedPair DEF IssuedOps
    <3> QED BY <3>1, <3>2 DEF PendingOps, RecvsGrow
  <2> QED BY <2>1, <2>2 DEF PendingOps
<1>4. ASSUME NEW p \in IssuedOps PROVE OpFork(p)' = OpFork(p)
  <2>1. CASE p \in {"send"} \X (1..numSends)
    <3>1. p[1] = "send" /\ p[2] \in 1..numSends  BY <2>1, TaggedPair
    <3> QED BY <3>1 DEF OpFork, SendsGrow
  <2>2. CASE p \in {"recv"} \X (1..numRecvsIssued)
    <3>1. p[1] = "recv" /\ p[2] \in 1..numRecvsIssued  BY <2>2, TaggedPair
    <3> QED BY <3>1 DEF OpFork, RecvsGrow
  <2> QED BY <2>1, <2>2 DEF IssuedOps
<1> QED BY <1>0, <1>1, <1>2, <1>3, <1>4, FlushFrame

\* The sends in D complete: each was cancelled or no older send of its fork is left.
LEMMA FlushSendsDone ==
    ASSUME IInv, FlushInv, NEW D, ReleaseFlushes({"send"} \X D), Pending(sStatus') = Pending(sStatus) \ D,
           UNCHANGED <<numSends, sFork, numRecvsIssued, rFork, rStatus>>, tokenStopped \subseteq tokenStopped',
           \A q \in D : \/ <<"send", q>> \in tokenStopped'
                        \/ \A p \in Pending(sStatus) : sFork[p] = sFork[q] /\ p <= q => p \in D
    PROVE  FlushInv'
<1>1. FlushTypeOK  BY DEF IInv
<1>2. PendingOps' = PendingOps \ ({"send"} \X D)  BY DEF PendingOps, Pending
<1>3. ASSUME NEW q \in {"send"} \X D, q \notin tokenStopped', NEW p \in PendingOps, NotAfter(p, q)
      PROVE  p \in {"send"} \X D
  <2>1. q[1] = "send" /\ q[2] \in D /\ q = <<"send", q[2]>>  BY TaggedPair
  <2>2. p[1] = "send" /\ p[2] \in Pending(sStatus) /\ p = <<"send", p[2]>>
    BY <1>3, <2>1, PendingPairs DEF NotAfter
  <2>3. sFork[p[2]] = sFork[q[2]] /\ p[2] <= q[2]  BY <1>3, <2>1, <2>2 DEF NotAfter, OpFork
  <2>4. p[2] \in D  BY <1>3, <2>1, <2>2, <2>3
  <2> QED BY <2>2, <2>4
<1> QED BY <1>1, <1>2, <1>3, FlushRelease

\* The recvs in D complete, under the same condition.
LEMMA FlushRecvsDone ==
    ASSUME IInv, FlushInv, NEW D, ReleaseFlushes({"recv"} \X D), Pending(rStatus') = Pending(rStatus) \ D,
           UNCHANGED <<numRecvsIssued, rFork, numSends, sFork, sStatus>>, tokenStopped \subseteq tokenStopped',
           \A q \in D : \/ <<"recv", q>> \in tokenStopped'
                        \/ \A p \in Pending(rStatus) : rFork[p] = rFork[q] /\ p <= q => p \in D
    PROVE  FlushInv'
<1>1. FlushTypeOK  BY DEF IInv
<1>2. PendingOps' = PendingOps \ ({"recv"} \X D)  BY DEF PendingOps, Pending
<1>3. ASSUME NEW q \in {"recv"} \X D, q \notin tokenStopped', NEW p \in PendingOps, NotAfter(p, q)
      PROVE  p \in {"recv"} \X D
  <2>1. q[1] = "recv" /\ q[2] \in D /\ q = <<"recv", q[2]>>  BY TaggedPair
  <2>2. p[1] = "recv" /\ p[2] \in Pending(rStatus) /\ p = <<"recv", p[2]>>
    BY <1>3, <2>1, PendingPairs DEF NotAfter
  <2>3. rFork[p[2]] = rFork[q[2]] /\ p[2] <= q[2]  BY <1>3, <2>1, <2>2 DEF NotAfter, OpFork
  <2>4. p[2] \in D  BY <1>3, <2>1, <2>2, <2>3
  <2> QED BY <2>2, <2>4
<1> QED BY <1>1, <1>2, <1>3, FlushRelease

\* The sends: a call issues, a stop callback or the task completes.
LEMMA FlushSendStep ==
    ASSUME IInv, IInv', FlushInv, SendOnly
    PROVE  FlushInv'
<1>0. UNCHANGED <<numRecvsIssued, rFork, rStatus>>  BY SendOnlyFrame DEF recvVars, recvOps
<1>1. RecvsGrow  BY <1>0, UnchangedGrow
<1>2. ASSUME NEW f \in Fork, SendEmpty(f) \/ SendRefused(f) \/ SendWake(f) \/ SendQueue(f)
      PROVE  FlushInv'
  <2>1. PICK st, res : st \in {"refused", "InProgress", "NotStarted"} /\ IssueSend(f, st, res)
    BY <1>2 DEF SendEmpty, SendRefused, SendWake, SendQueue
  <2>2. UNCHANGED <<flushVars, tokenStopped>>
    BY <1>2 DEF SendEmpty, SendRefused, SendWake, SendQueue, histVars
  <2>3. PICK n : n = numSends + 1  OBVIOUS
  <2>4. n \in SendId /\ numSends \in Nat /\ sStatus[n] = "unused" /\ numSends' = n
    BY <2>1, <2>3, PendingSends, Issued, SchedulerAssumption DEF IssueSend, SchedulerAssumption, SendId
  <2>5. /\ \A o \in SendId : o # n => sStatus'[o] = sStatus[o]
        /\ sFork' = [sFork EXCEPT ![n] = f] /\ sFork \in [SendId -> Fork]
    BY <2>1, <2>3, <2>4, PendingStep DEF IssueSend, IInv, SendSide, SendTypes
  <2>6. \A o \in 1..numSends : o \in SendId /\ o # n  BY <2>3, <2>4, Issued
  <2>7. SendsGrow
    <3>1. Pending(sStatus) \subseteq Pending(sStatus')  BY <2>4, <2>5, PendingStep
    <3>2. \A o \in Pending(sStatus') : o \in 1..numSends => o \in Pending(sStatus)
      BY <2>5, <2>6, PendingStep
    <3>3. \A o \in 1..numSends : sFork'[o] = sFork[o]  BY <2>5, <2>6
    <3>4. numSends' \in Nat /\ numSends <= numSends'  BY <2>3, <2>4
    <3> QED BY <3>1, <3>2, <3>3, <3>4 DEF SendsGrow
  <2> QED BY <1>1, <2>2, <2>7, FlushQuiet
<1>3. ASSUME NEW o \in SendId, CancelRunningSend(o) PROVE FlushInv'
  <2>1. /\ sStatus[o] = "InProgress" /\ sStatus' = [sStatus EXCEPT ![o] = "Canceling"]
        /\ UNCHANGED <<numSends, sFork, flushVars>> /\ tokenStopped \subseteq tokenStopped'
    BY <1>3 DEF CancelRunningSend
  <2>2. Pending(sStatus') = Pending(sStatus)  BY <2>1, PendingStep
  <2>3. SendsGrow
    <3>1. numSends \in Nat /\ \A o1 \in 1..numSends : sFork'[o1] = sFork[o1]  BY <2>1, Issued
    <3>2. numSends' \in Nat /\ numSends <= numSends'  BY <2>1, <3>1
    <3>3. /\ Pending(sStatus) \subseteq Pending(sStatus')
          /\ \A o1 \in Pending(sStatus') : o1 \in 1..numSends => o1 \in Pending(sStatus)
      BY <2>2
    <3> QED BY <3>1, <3>2, <3>3 DEF SendsGrow
  <2> QED BY <1>1, <2>1, <2>3, FlushQuiet
<1>4. ASSUME NEW o \in SendId, CancelQueuedSend(o) PROVE FlushInv'
  <2>1. /\ sStatus[o] = "NotStarted" /\ sStatus' = [sStatus EXCEPT ![o] = "completed"]
        /\ UNCHANGED <<numSends, sFork>> /\ ReleaseFlushes({<<"send", o>>})
        /\ tokenStopped' = tokenStopped \cup {<<"send", o>>}
    BY <1>4 DEF CancelQueuedSend
  <2>2. Pending(sStatus') = Pending(sStatus) \ {o}  BY <2>1, PendingStep
  <2>3. {<<"send", o>>} = {"send"} \X {o}  OBVIOUS
  <2> QED BY <1>0, <2>1, <2>2, <2>3, FlushSendsDone
<1>5. CASE SendNext \/ SendIdle
  <2>1. /\ sendPc = "next" /\ ReleaseFlushes({<<"send", sendOp>>})
        /\ UNCHANGED <<numSends, sFork, tokenStopped>>
    BY <1>5 DEF SendNext, SendIdle, CompleteSend, histVars
  <2>2. sendOp \in SendId /\ sendOp \in Nat /\ \A p \in Pending(sStatus) : p \in Nat /\ sendOp <= p
    <3>1. mSendBuffer \in Seq(SendId) /\ Increasing(mSendBuffer) /\ mSendBuffer # <<>> /\ mSendBuffer[1] = sendOp
      BY <2>1, SendFront DEF IInv, SendSide, SendTypes, SendData
    <3> QED BY <2>1, <3>1, SendIdNat, FirstOfIncreasing, PendingSends
  <2>3. Pending(sStatus') = Pending(sStatus) \ {sendOp}
    <3>1. CASE SendIdle
      <4>1. sStatus' = [sStatus EXCEPT ![sendOp] = "completed"]  BY <3>1 DEF SendIdle
      <4> QED BY <2>2, <4>1, PendingStep
    <3>2. CASE SendNext
      <4>1. PICK nx : nx = mSendBuffer[2]  OBVIOUS
      <4>2. sStatus' = [sStatus EXCEPT ![sendOp] = "completed", ![nx] = "InProgress"]
        BY <3>2, <4>1 DEF SendNext
      <4>3. nx \in SendId /\ sStatus[nx] = "NotStarted"
        <5>1. mSendBuffer \in Seq(SendId) /\ Len(mSendBuffer) > 1  BY <3>2 DEF SendNext, IInv, SendSide, SendTypes
        <5>2. \A i \in 2..Len(mSendBuffer) : sStatus[mSendBuffer[i]] = "NotStarted"
          BY <2>1 DEF IInv, SendSide, SendControl, HeadInProgress
        <5> QED BY <4>1, <5>1, <5>2
      <4>4. sStatus[sendOp] \in {"InProgress", "Canceling"}
        BY <2>1 DEF IInv, SendSide, SendControl, HeadInProgress
      <4> QED BY <2>2, <4>2, <4>3, <4>4, PendingStep
    <3> QED BY <1>5, <3>1, <3>2
  <2>4. {<<"send", sendOp>>} = {"send"} \X {sendOp}  OBVIOUS
  <2>5. \A p \in Pending(sStatus) : p <= sendOp => p \in {sendOp}  BY <2>2
  <2> QED BY <1>0, <2>1, <2>3, <2>4, <2>5, FlushSendsDone
<1>6. CASE RunSendStop \/ SendIoDone \/ \E ec \in Code : SendIoFail(ec)
  <2>1. UNCHANGED <<numSends, sFork, sStatus, flushVars, tokenStopped>>
    BY <1>6 DEF RunSendStop, SendIoDone, SendIoFail, sendOps, histVars
  <2> QED BY <1>1, <2>1, UnchangedGrow, FlushQuiet
<1> QED BY <1>2, <1>3, <1>4, <1>5, <1>6 DEF SendOnly

\* The recvs: a call issues, a stop callback or the task completes.
LEMMA FlushRecvStep ==
    ASSUME IInv, IInv', FlushInv, RecvOnly
    PROVE  FlushInv'
<1>0. UNCHANGED <<numSends, sFork, sStatus>>  BY RecvOnlyFrame DEF sendVars, sendOps
<1>1. SendsGrow  BY <1>0, UnchangedGrow
<1>2. ASSUME NEW f \in Fork, RecvRefused(f) \/ RecvWake(f) \/ RecvMatch(f) \/ RecvQueue(f)
      PROVE  FlushInv'
  <2>1. PICK st, res : st \in {"refused", "InProgress", "NotStarted"} /\ IssueRecv(f, st, res)
    BY <1>2 DEF RecvRefused, RecvWake, RecvMatch, RecvQueue
  <2>2. UNCHANGED <<flushVars, tokenStopped>>
    BY <1>2 DEF RecvRefused, RecvWake, RecvMatch, RecvQueue, histVars
  <2>3. PICK n : n = numRecvsIssued + 1  OBVIOUS
  <2>4. n \in RecvId /\ numRecvsIssued \in Nat /\ rStatus[n] = "unused" /\ numRecvsIssued' = n
    BY <2>1, <2>3, RecvStatuses, Issued, SchedulerAssumption DEF IssueRecv, SchedulerAssumption, RecvId
  <2>5. /\ \A o \in RecvId : o # n => rStatus'[o] = rStatus[o]
        /\ rFork' = [rFork EXCEPT ![n] = f] /\ rFork \in [RecvId -> Fork]
    BY <2>1, <2>3, <2>4, RecvStatuses DEF IssueRecv, IInv, RecvSide, RecvTypes
  <2>6. \A o \in 1..numRecvsIssued : o \in RecvId /\ o # n  BY <2>3, <2>4, Issued
  <2>7. RecvsGrow
    <3>1. Pending(rStatus) \subseteq Pending(rStatus')  BY <2>4, <2>5, RecvStatuses
    <3>2. \A o \in Pending(rStatus') : o \in 1..numRecvsIssued => o \in Pending(rStatus)
      BY <2>5, <2>6, RecvStatuses
    <3>3. \A o \in 1..numRecvsIssued : rFork'[o] = rFork[o]  BY <2>5, <2>6
    <3>4. numRecvsIssued' \in Nat /\ numRecvsIssued <= numRecvsIssued'  BY <2>3, <2>4
    <3> QED BY <3>1, <3>2, <3>3, <3>4 DEF RecvsGrow
  <2> QED BY <1>1, <2>2, <2>7, FlushQuiet
<1>3. ASSUME NEW o \in RecvId, CancelRunningRecv(o) PROVE FlushInv'
  <2>1. /\ rStatus[o] = "InProgress" /\ rStatus' = [rStatus EXCEPT ![o] = "Canceling"]
        /\ UNCHANGED <<numRecvsIssued, rFork, flushVars>> /\ tokenStopped \subseteq tokenStopped'
    BY <1>3 DEF CancelRunningRecv
  <2>2. Pending(rStatus') = Pending(rStatus)  BY <2>1, RecvStatuses
  <2>3. RecvsGrow
    <3>1. numRecvsIssued \in Nat /\ \A o1 \in 1..numRecvsIssued : rFork'[o1] = rFork[o1]  BY <2>1, Issued
    <3>2. numRecvsIssued' \in Nat /\ numRecvsIssued <= numRecvsIssued'  BY <2>1, <3>1
    <3>3. /\ Pending(rStatus) \subseteq Pending(rStatus')
          /\ \A o1 \in Pending(rStatus') : o1 \in 1..numRecvsIssued => o1 \in Pending(rStatus)
      BY <2>2
    <3> QED BY <3>1, <3>2, <3>3 DEF RecvsGrow
  <2> QED BY <1>1, <2>1, <2>3, FlushQuiet
<1>4. ASSUME NEW o \in RecvId, CancelQueuedRecv(o) PROVE FlushInv'
  <2>1. /\ rStatus[o] = "NotStarted" /\ rStatus' = [rStatus EXCEPT ![o] = "completed"]
        /\ UNCHANGED <<numRecvsIssued, rFork>> /\ ReleaseFlushes({<<"recv", o>>})
        /\ tokenStopped' = tokenStopped \cup {<<"recv", o>>}
    BY <1>4 DEF CancelQueuedRecv
  <2>2. Pending(rStatus') = Pending(rStatus) \ {o}  BY <2>1, RecvStatuses
  <2>3. {<<"recv", o>>} = {"recv"} \X {o}  OBVIOUS
  <2> QED BY <1>0, <2>1, <2>2, <2>3, FlushRecvsDone
<1>5. CASE RecvNext \/ RecvIdle
  <2>1. /\ recvOp # None /\ ReleaseFlushes({<<"recv", recvOp>>}) /\ rStatus' = [rStatus EXCEPT ![recvOp] = "completed"]
        /\ UNCHANGED <<numRecvsIssued, rFork, tokenStopped>>
    BY <1>5 DEF RecvNext, RecvIdle, CompleteRecv, histVars, IInv, RecvSide, RecvControl, RecvLocals
  <2>2. recvOp \in RecvId /\ recvOp \in Pending(rStatus) /\ rFork[recvOp] \in Fork
    BY <2>1, RecvFront DEF IInv
  <2>3. Pending(rStatus') = Pending(rStatus) \ {recvOp}  BY <2>1, <2>2, RecvStatuses
  <2>4. {<<"recv", recvOp>>} = {"recv"} \X {recvOp}  OBVIOUS
  <2>5. ASSUME NEW p \in Pending(rStatus), rFork[p] = rFork[recvOp], p <= recvOp PROVE p = recvOp
    <3>1. PICK q : q = mRecvOps[rFork[recvOp]]  OBVIOUS
    <3>2. q \in Seq(RecvId) /\ Increasing(q) /\ q # <<>> /\ q[1] = recvOp
      BY <2>1, <2>2, <3>1 DEF IInv, RecvSide, RecvTypes, RecvData, RecvQueuesAgree, RecvControl, RecvFilling
    <3>3. p \in ToSet(q)  BY <2>2, <2>5, <3>1 DEF IInv, RecvSide, RecvData, RecvQueuesAgree
    <3>4. recvOp <= p /\ p \in Nat /\ recvOp \in Nat
      BY <2>2, <3>2, <3>3, SendIdNat, FirstOfIncreasing, RecvStatuses
    <3> QED BY <2>5, <3>4
  <2>6. \A q \in {recvOp} : \A p \in Pending(rStatus) : rFork[p] = rFork[q] /\ p <= q => p \in {recvOp}
    BY <2>5
  <2>7. ReleaseFlushes({"recv"} \X {recvOp})  BY <2>1, <2>4
  <2>8. UNCHANGED <<numRecvsIssued, rFork, numSends, sFork, sStatus>> /\ tokenStopped \subseteq tokenStopped'
    BY <1>0, <2>1
  <2> QED BY <2>3, <2>6, <2>7, <2>8, FlushRecvsDone
<1>6. ASSUME NEW f \in Fork, GetForkFound(f) PROVE FlushInv'
  <2>1. PICK o : o = Head(mRecvOps[f])  OBVIOUS
  <2>2. /\ rStatus' = [rStatus EXCEPT ![o] = "InProgress"] /\ mRecvOps[f] # <<>>
        /\ UNCHANGED <<numRecvsIssued, rFork, flushVars, tokenStopped>>
    BY <1>6, <2>1 DEF GetForkFound, histVars
  <2>3. o \in Pending(rStatus) /\ o \in RecvId
    <3>1. mRecvOps[f] \in Seq(RecvId) /\ ToSet(mRecvOps[f]) \subseteq Pending(rStatus)
      BY RecvQueued DEF IInv, RecvSide, RecvTypes
    <3>2. o = mRecvOps[f][1] /\ 1 \in 1..Len(mRecvOps[f])  BY <2>1, <2>2, <3>1
    <3> QED BY <3>1, <3>2, InToSet, RecvStatuses
  <2>4. Pending(rStatus') = Pending(rStatus)  BY <2>2, <2>3, RecvStatuses
  <2>5. RecvsGrow
    <3>1. numRecvsIssued \in Nat /\ \A o1 \in 1..numRecvsIssued : rFork'[o1] = rFork[o1]  BY <2>2, Issued
    <3>2. numRecvsIssued' \in Nat /\ numRecvsIssued <= numRecvsIssued'  BY <2>2, <3>1
    <3>3. /\ Pending(rStatus) \subseteq Pending(rStatus')
          /\ \A o1 \in Pending(rStatus') : o1 \in 1..numRecvsIssued => o1 \in Pending(rStatus)
      BY <2>4
    <3> QED BY <3>1, <3>2, <3>3 DEF RecvsGrow
  <2> QED BY <1>1, <2>2, <2>5, FlushQuiet
<1>7. CASE \/ \E f \in Fork : \/ GetForkClosed(f) \/ GetForkWait(f) \/ RecvNewFork(f) \/ RecvBadFork(f) \/ ForkSocket(f)
           \/ \E ec \in Code : RecvIoFail(ec)
           \/ \E slot \in Slot : RecvHeader(slot, "getFork") \/ RecvHeader(slot, "meta")
           \/ RunRecvStop \/ RecvSizeOk \/ RecvSizeBad \/ RecvBody
  <2>1. UNCHANGED <<numRecvsIssued, rFork, rStatus, flushVars, tokenStopped>>
    BY <1>7 DEF GetForkClosed, GetForkWait, RecvNewFork, RecvBadFork, ForkSocket, RecvIoFail, RecvHeader,
       RunRecvStop, RecvSizeOk, RecvSizeBad, RecvBody, recvVars, recvOps, histVars
  <2> QED BY <1>1, <2>1, UnchangedGrow, FlushQuiet
<1> QED BY <1>2, <1>3, <1>4, <1>5, <1>6, <1>7 DEF RecvOnly

\* cancel completes every operation of its direction.
LEMMA FlushCloseStep ==
    ASSUME IInv, IInv', FlushInv, SendClose \/ RecvClose \/ GetForkUnknown
    PROVE  FlushInv'
<1>1. CASE SendClose
  <2>1. /\ sStatus' = [o \in SendId |-> IF o \in ToSet(mSendBuffer) THEN "completed" ELSE sStatus[o]]
        /\ ReleaseFlushes({"send"} \X ToSet(mSendBuffer))
        /\ UNCHANGED <<numSends, sFork, numRecvsIssued, rFork, rStatus, tokenStopped>>
    BY <1>1 DEF SendClose, recvOps, histVars
  <2>2. PICK D : D = ToSet(mSendBuffer)  OBVIOUS
  <2>3. D = Pending(sStatus)  BY <2>2, PendingSends
  <2>4. Pending(sStatus') = Pending(sStatus) \ D  BY <2>1, <2>2, <2>3, PendingStep
  <2>5. \A q \in D : \A p \in Pending(sStatus) : sFork[p] = sFork[q] /\ p <= q => p \in D  BY <2>3
  <2>6. ReleaseFlushes({"send"} \X D) /\ tokenStopped \subseteq tokenStopped'  BY <2>1, <2>2
  <2>7. UNCHANGED <<numSends, sFork, numRecvsIssued, rFork, rStatus>>  BY <2>1
  <2> QED BY <2>4, <2>5, <2>6, <2>7, FlushSendsDone
<1>2. CASE RecvClose \/ GetForkUnknown
  <2>1. PICK pe, ec : FailRecvs(recvOp, pe, ec)
    BY <1>2 DEF RecvClose, GetForkUnknown, IInv, RecvSide, RecvControl, RecvLocals
  <2>2. UNCHANGED <<numRecvsIssued, rFork, numSends, sFork, sStatus>> /\ tokenStopped \subseteq tokenStopped'
    BY <1>2 DEF RecvClose, GetForkUnknown, sendOps, histVars
  <2>3. PICK D : D = Pending(rStatus)  OBVIOUS
  <2>4. /\ rStatus' = [o \in RecvId |-> IF o \in D THEN "completed" ELSE rStatus[o]]
        /\ ReleaseFlushes({"recv"} \X D)
    BY <2>1, <2>3, RestRecvs DEF FailRecvs
  <2>5. Pending(rStatus') = Pending(rStatus) \ D  BY <2>3, <2>4, RecvStatuses
  <2>6. \A q \in D : \A p \in Pending(rStatus) : rFork[p] = rFork[q] /\ p <= q => p \in D  BY <2>3
  <2> QED BY <2>2, <2>4, <2>5, <2>6, FlushRecvsDone
<1> QED BY <1>1, <1>2

\* Every step keeps FlushInv.
LEMMA FlushStep ==
    ASSUME IInv, IInv', FlushInv, [Next]_vars
    PROVE  FlushInv'
<1>1. ASSUME UNCHANGED <<sendOps, recvOps, flushVars, tokenStopped>> PROVE FlushInv'
  BY <1>1, UnchangedGrow, FlushQuiet DEF sendOps, recvOps
<1>2. CASE UNCHANGED vars \/ CloseSocket \/ DestroyBusy \/ Destroy
  BY <1>1, <1>2 DEF vars, CloseSocket, DestroyBusy, Destroy, sendVars, recvVars, histVars
<1>3. CASE LifeOnly  BY <1>2, <1>3, FlushStart DEF LifeOnly
<1> QED BY <1>2, <1>3, FlushSendStep, FlushRecvStep, FlushCloseStep, NextCases

-----------------------------------------------------------------------------
(* The destructor *)

\* While no token is stopped a recv task in use has a recv to work for, so a
\* user who sees no operation pending does not find a task in use.
LEMMA DestroyStep ==
    ASSUME IInv, IInv', DestroyInv, [Next]_vars
    PROVE  DestroyInv'
<1>1. CASE DestroyBusy
  <2>1. UNCHANGED <<recvVars, tokenStopped>> /\ Busy /\ PendingOps = {}
    BY <1>1 DEF DestroyBusy, histVars
  <2>2. mSendStatus # "InUse"
    <3>1. ASSUME mSendStatus = "InUse" PROVE sendPc \in {"meta", "header", "body", "next"}
      BY <3>1 DEF IInv, SendSide, SendControl, SendTaskTypes, SendPc
    <3>2. ASSUME mSendStatus = "InUse" PROVE sendOp \in Pending(sStatus)
      BY <3>1, <3>2, PendingSends
    <3> QED BY <2>1, <3>2, PendingPairs
  <2>3. Pending(rStatus) = {}  BY <2>1, PendingPairs
  <2>4. tokenStopped # {}  BY <2>1, <2>2, <2>3 DEF Busy, DestroyInv
  <2> QED BY <2>1, <2>4 DEF DestroyInv, SafeToDestroy
<1>2. ASSUME UNCHANGED terminated, tokenStopped \subseteq tokenStopped',
             mRecvStatus' = "InUse" /\ tokenStopped' = {} => Pending(rStatus') # {}
      PROVE  DestroyInv'
  BY <1>2 DEF DestroyInv, SafeToDestroy
<1>3. ASSUME UNCHANGED <<terminated, mRecvStatus, rStatus>>, tokenStopped \subseteq tokenStopped'
      PROVE  DestroyInv'
  <2>1. Pending(rStatus') = Pending(rStatus)  BY <1>3 DEF Pending
  <2> QED BY <1>2, <1>3, <2>1 DEF DestroyInv
<1>4. CASE UNCHANGED vars  BY <1>3, <1>4 DEF vars, lifeVars, recvVars, recvOps, recvTask, histVars
<1>5. CASE LifeOnly /\ ~DestroyBusy
  BY <1>3, <1>5, LifeOnlyFrame DEF LifeOnly, FlushNow, FlushWait, FlushThrow, CloseSocket, lifeVars,
     recvVars, recvOps, recvTask, histVars
<1>6. CASE Destroy  BY <1>3, <1>6 DEF Destroy, recvOps, histVars
<1>7. CASE SendClose  BY <1>3, <1>7 DEF SendClose, lifeVars, recvOps, histVars
<1>8. CASE SendOnly
  <2>1. terminated' = terminated /\ tokenStopped \subseteq tokenStopped'
    BY <1>8 DEF SendOnly, SendEmpty, SendRefused, SendWake, SendQueue, CancelQueuedSend, CancelRunningSend,
       SendIoFail, RunSendStop, SendIoDone, SendNext, SendIdle, lifeVars, histVars
  <2> QED BY <1>3, <1>8, <2>1, SendOnlyFrame DEF recvVars, recvOps, recvTask
<1>9. CASE RecvClose \/ GetForkUnknown
  <2>1. mRecvStatus' = "Closed" /\ UNCHANGED <<terminated, tokenStopped>>
    BY <1>9 DEF RecvClose, GetForkUnknown, FailRecvs, lifeVars, histVars
  <2> QED BY <1>2, <2>1
<1>10. CASE RecvOnly
  <2>1. ASSUME NEW f \in Fork, RecvRefused(f) \/ RecvWake(f) \/ RecvMatch(f) \/ RecvQueue(f) PROVE DestroyInv'
    <3>1. PICK st, res :
            st \in {"refused", "InProgress", "NotStarted"} /\ IssueRecv(f, st, res) /\ (st = "refused" => mRecvStatus' = mRecvStatus)
      BY <2>1 DEF RecvRefused, RecvWake, RecvMatch, RecvQueue, recvTask
    <3>2. UNCHANGED <<terminated, tokenStopped>>
      BY <2>1 DEF RecvRefused, RecvWake, RecvMatch, RecvQueue, lifeVars, histVars
    <3>3. PICK n : n = numRecvsIssued + 1  OBVIOUS
    <3>4. n \in RecvId /\ rStatus[n] = "unused"
      BY <3>1, <3>3, RecvStatuses, Issued, SchedulerAssumption DEF IssueRecv, SchedulerAssumption, RecvId
    <3>5. rStatus' = [rStatus EXCEPT ![n] = st]  BY <3>1, <3>3 DEF IssueRecv
    <3>0. st \in {"refused", "InProgress", "NotStarted"}  BY <3>1
    <3>6. Pending(rStatus) \subseteq Pending(rStatus') /\ (st # "refused" => n \in Pending(rStatus'))
      BY <3>0, <3>4, <3>5, RecvStatuses
    <3> QED BY <1>2, <3>1, <3>2, <3>6 DEF DestroyInv
  <2>2. ASSUME NEW o \in RecvId, CancelQueuedRecv(o) \/ CancelRunningRecv(o) PROVE DestroyInv'
    <3>1. terminated' = terminated /\ tokenStopped' = tokenStopped \cup {<<"recv", o>>}
      BY <2>2 DEF CancelQueuedRecv, CancelRunningRecv, lifeVars
    <3> QED BY <1>2, <3>1
  <2>3. CASE RecvIdle  BY <1>2, <2>3 DEF RecvIdle, lifeVars, histVars
  <2>4. CASE RecvNext
    <3>1. UNCHANGED <<terminated, tokenStopped>> /\ mNumRecvs > 1 /\ mNumRecvs' = mNumRecvs - 1
      BY <2>4 DEF RecvNext, CompleteRecv, lifeVars, histVars
    <3>2. mNumRecvs \in Nat /\ mNumRecvs' = Cardinality(Pending(rStatus'))
      BY DEF IInv, RecvSide, RecvTypes, RecvData
    <3>3. Pending(rStatus') # {}  BY <3>1, <3>2, FS_EmptySet
    <3> QED BY <1>2, <3>1, <3>3
  <2>5. ASSUME NEW f \in Fork, GetForkFound(f) PROVE DestroyInv'
    <3>1. PICK o : o = Head(mRecvOps[f])  OBVIOUS
    <3>2. rStatus' = [rStatus EXCEPT ![o] = "InProgress"] /\ UNCHANGED <<terminated, tokenStopped, mRecvStatus>>
      BY <2>5, <3>1 DEF GetForkFound, lifeVars, histVars
    <3>3. Pending(rStatus) \subseteq Pending(rStatus')  BY <3>2, RecvStatuses
    <3> QED BY <1>2, <3>2, <3>3 DEF DestroyInv
  <2>6. ASSUME NEW f \in Fork, GetForkWait(f) PROVE DestroyInv'
    BY <1>2, <2>6 DEF GetForkWait, lifeVars, histVars
  <2>7. CASE \/ \E f \in Fork : \/ GetForkClosed(f) \/ RecvNewFork(f) \/ RecvBadFork(f) \/ ForkSocket(f)
             \/ \E ec \in Code : RecvIoFail(ec)
             \/ \E slot \in Slot : RecvHeader(slot, "getFork") \/ RecvHeader(slot, "meta")
             \/ RunRecvStop \/ RecvSizeOk \/ RecvSizeBad \/ RecvBody
    <3>1. UNCHANGED <<terminated, mRecvStatus, rStatus, tokenStopped>>
      BY <2>7 DEF GetForkClosed, RecvNewFork, RecvBadFork, ForkSocket, RecvIoFail, RecvHeader,
         RunRecvStop, RecvSizeOk, RecvSizeBad, RecvBody, recvVars, recvOps, recvTask, lifeVars, histVars
    <3> QED BY <1>3, <3>1
  <2> QED BY <1>10, <2>1, <2>2, <2>3, <2>4, <2>5, <2>6, <2>7 DEF RecvOnly
<1> QED BY <1>1, <1>4, <1>5, <1>6, <1>7, <1>8, <1>9, <1>10, NextCases

-----------------------------------------------------------------------------
(* The theorems *)

LEMMA InitOutcome == Init => SentInv /\ CauseInv /\ FlushInv /\ DestroyInv
<1> SUFFICES ASSUME Init PROVE SentInv /\ CauseInv /\ FlushInv /\ DestroyInv  OBVIOUS
<1>1. Pending(sStatus) = {} /\ Pending(rStatus) = {}  BY DEF Init, Pending
<1>2. ToSet(<<>>) = {} /\ Increasing(<<>>)
  <2>1. <<>> \in Seq({})  OBVIOUS
  <2>2. Increasing(<<>>)  BY DEF Increasing
  <2>3. ToSet(<<>>) = {}  BY <2>1, EmptyQueue
  <2> QED BY <2>2, <2>3
<1>3. sent = <<>> /\ \A o \in SendId : sStatus[o] = "unused"  BY DEF Init
<1>4. SentInv  BY <1>1, <1>2, <1>3 DEF Init, SentInv, SentInOrder
<1>5. Causes(sStatus, sResult) = {} /\ Causes(rStatus, rResult) = {}  BY DEF Init, Causes
<1>6. CauseInv  BY <1>1, <1>5 DEF CauseInv, OneCause
<1>7. FlushInv  BY DEF Init, FlushInv, FlushHeld, FlushSound
<1>8. DestroyInv  BY DEF Init, DestroyInv, SafeToDestroy
<1> QED BY <1>4, <1>6, <1>7, <1>8

\* The inductive invariant of the outcomes, on top of IInv: what was written,
\* who reports the failure, what each flush waits for, and when the recv task
\* is in use.
THEOREM OutcomeInvariance ==
    ASSUME ~TailCancel, ~WrapCancel
    PROVE  Spec => [](SentInv /\ CauseInv /\ FlushInv /\ DestroyInv)
<1> DEFINE J == IInv /\ SentInv /\ CauseInv /\ FlushInv /\ DestroyInv
<1>1. Init => J  BY InitIInv, InitOutcome
<1>2. J /\ [Next]_vars => J'
  <2> SUFFICES ASSUME J, [Next]_vars PROVE J'  OBVIOUS
  <2>1. IInv'  BY IInvStep
  <2>2. SentInv'  BY <2>1, SentStep
  <2>3. CauseInv'  BY <2>1, <2>2, CauseStep
  <2>4. FlushInv'  BY <2>1, FlushStep
  <2>5. DestroyInv'  BY <2>1, DestroyStep
  <2> QED BY <2>1, <2>2, <2>3, <2>4, <2>5
<1>3. J => SentInv /\ CauseInv /\ FlushInv /\ DestroyInv  OBVIOUS
<1> HIDE DEF J
<1> QED BY <1>1, <1>2, <1>3, PTL DEF Spec

\* A send completes without an error exactly if its body was written, and the
\* bodies of all forks are written in the order of the calls (makeSendTask).
THEOREM SendsReported ==
    ASSUME ~TailCancel, ~WrapCancel
    PROVE  Spec => []SentInOrder
<1>1. SentInv => SentInOrder  BY DEF SentInv
<1> QED BY <1>1, OutcomeInvariance, PTL

\* At most one send and at most one recv ever report the failure that closed
\* the socket: cancel exchanges the error for code::cancel once it is handed out.
THEOREM OneCauseReported ==
    ASSUME ~TailCancel, ~WrapCancel
    PROVE  Spec => []OneCause
<1>1. CauseInv => OneCause  BY DEF CauseInv
<1> QED BY <1>1, OutcomeInvariance, PTL

\* A flush that waits is held by a pending operation: the last token is dropped
\* by an operation that completes, never by flush itself.
THEOREM FlushIsHeld ==
    ASSUME ~TailCancel, ~WrapCancel
    PROVE  Spec => []FlushHeld
<1>1. FlushInv => FlushHeld  BY DEF FlushInv
<1> QED BY <1>1, OutcomeInvariance, PTL

\* A flush that returns has waited for every operation that was pending when it
\* was called, although it only gave tokens to the newest ones of each fork;
\* the exception is a flush with an operation that its own stop token cancelled.
THEOREM FlushWaitsForAll ==
    ASSUME ~TailCancel, ~WrapCancel
    PROVE  Spec => []FlushSound
<1>1. FlushInv => FlushSound  BY DEF FlushInv
<1> QED BY <1>1, OutcomeInvariance, PTL

\* A socket whose operations have all completed, none of them by its stop token,
\* is destroyed without terminating the program.
THEOREM DestructorSafe ==
    ASSUME ~TailCancel, ~WrapCancel
    PROVE  Spec => []SafeToDestroy
<1>1. DestroyInv => SafeToDestroy  BY DEF DestroyInv
<1> QED BY <1>1, OutcomeInvariance, PTL
=============================================================================
