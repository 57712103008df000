-------------------------- MODULE SchedPairProofs --------------------------
(***************************************************************************)
(* Two schedulers and the byte stream between them: both endpoints run as  *)
(* SockScheduler says, so the invariants that SockSchedulerProofs proves   *)
(* hold of each; from these, the framing of the stream, the agreement on   *)
(* the ids of the forks, the order of the messages of a fork, and that the *)
(* pair implements ForkChannel.                                            *)
(***************************************************************************)
EXTENDS SchedPair, OpSeqProofs
-----------------------------------------------------------------------------
(* Endpoint A *)

\* What the invariants of a scheduler say of A.
SenderOK ==
    /\ aLocalId \in [Fork -> Nat] /\ aInitiated \in [Fork -> BOOLEAN]
    /\ aSendPc \in {"idle", "meta", "header", "body", "next", "exit"}
    /\ aSendOp \in Id \cup {0} /\ aList \in Seq(Id) /\ aSent \in Seq(Id)
    /\ aNumSends \in 0..NumMessages /\ aFork \in [Id -> Fork] /\ aStatus \in [Id -> A!OpStatus]
    /\ \A o \in Id : aStatus[o] = "unused" <=> o > aNumSends
    /\ ToSet(aList) = A!Pending(aStatus) /\ Increasing(aList)
    /\ aSendPc \in {"idle", "exit"} => aList = <<>>
    /\ aSendPc \in {"meta", "header", "body", "next"} => aList # <<>> /\ aList[1] = aSendOp
    /\ aSendPc # "next" => aSendEc = "success"
    /\ aSendPc = "next" /\ aSendEc = "success" => aSendOp \in ToSet(aSent)
    /\ \A m \in ToSet(aSent) : \A p \in A!Pending(aStatus) : m <= p
    /\ \A m \in ToSet(aSent) :
        aStatus[m] = "completed" \/ (m = aSendOp /\ aSendPc = "next" /\ aSendEc = "success")

\* What the actions of A do to the stream and to what the invariants speak of.
Issues(f, st) ==
    /\ aLocalId[f] # 0 /\ aNumSends < NumMessages /\ aNumSends' = aNumSends + 1
    /\ aFork' = [aFork EXCEPT ![aNumSends + 1] = f]
    /\ aStatus' = [aStatus EXCEPT ![aNumSends + 1] = st]
    /\ UNCHANGED <<aLocalId, aSent, aSendEc, aClosed, wire>>
PicksUp(o, f) ==
    /\ aSendOp' = o /\ aSendPc' = IF aInitiated[f] THEN "header" ELSE "meta"
    /\ aInitiated' = [aInitiated EXCEPT ![f] = TRUE]
Writing ==
    /\ aSendPc \in {"meta", "header", "body"} /\ ~aClosed /\ wire' = wire \o Written
    /\ aSendPc' = CASE aSendPc = "meta" -> "header"
                    [] aSendPc = "header" -> "body"
                    [] aSendPc = "body" -> "next"
    /\ aSent' = IF aSendPc = "body" THEN Append(aSent, aSendOp) ELSE aSent
    /\ UNCHANGED <<aLocalId, aNumSends, aFork, aStatus, aSendOp, aSendEc, aInitiated, aClosed>>
Waking(f) == aSendPc = "idle" /\ Issues(f, "InProgress") /\ PicksUp(aNumSends + 1, f)
Queueing(f) ==
    /\ aSendPc # "idle" /\ aEC = "success" /\ Issues(f, "NotStarted")
    /\ UNCHANGED <<aSendPc, aSendOp, aInitiated>>
Forking(f) ==
    /\ aLocalId[f] = 0
    /\ aLocalId' = [aLocalId EXCEPT ![f] = 1 + Cardinality({g \in Fork : aLocalId[g] # 0})]
    /\ UNCHANGED <<aNumSends, aFork, aStatus, aSent, aSendPc, aSendOp, aSendEc, aInitiated, aClosed, wire>>
Closing ==
    /\ aClosed' = TRUE
    /\ UNCHANGED <<aLocalId, aNumSends, aFork, aStatus, aSent, aSendPc, aSendOp, aSendEc, aInitiated, wire>>
GoingOn ==
    /\ aSendPc = "next" /\ aSendEc = "success" /\ Len(aList) > 1
    /\ aStatus' = [aStatus EXCEPT ![aSendOp] = "completed", ![aList[2]] = "InProgress"]
    /\ PicksUp(aList[2], aFork[aList[2]])
    /\ UNCHANGED <<aLocalId, aNumSends, aFork, aSent, aSendEc, aClosed, wire>>
GoingIdle ==
    /\ aSendPc = "next" /\ aSendEc = "success" /\ Len(aList) <= 1
    /\ aStatus' = [aStatus EXCEPT ![aSendOp] = "completed"]
    /\ aSendPc' = "idle" /\ aSendOp' = 0
    /\ UNCHANGED <<aLocalId, aNumSends, aFork, aSent, aSendEc, aInitiated, aClosed, wire>>
Exiting ==
    /\ aSendPc = "next" /\ aSendPc' = "exit" /\ aSendEc' = "success"
    /\ UNCHANGED <<aLocalId, aNumSends, aFork, aSent, aInitiated, aClosed, wire>>
Failing ==
    /\ aSendPc \in {"meta", "header", "body"} /\ aSendPc' = "next" /\ aSendEc' = "closed"
    /\ UNCHANGED <<aLocalId, aNumSends, aFork, aStatus, aSent, aSendOp, aInitiated, aClosed, wire>>

LEMMA SenderMoves ==
    ASSUME SenderStep
    PROVE  /\ UNCHANGED <<bVars, got, idle>>
           /\ \/ Writing \/ Closing \/ GoingOn \/ GoingIdle \/ Exiting \/ Failing
              \/ \E f \in Fork : Waking(f) \/ Queueing(f) \/ Forking(f)
<1> USE DEF A!forkVars, A!lifeVars, A!sendVars, A!recvVars, A!flushVars, A!histVars, A!sendOps, A!sendTask,
        A!sendList, A!sendStopVars, A!None
<1>0. UNCHANGED <<bVars, got, idle>>  BY DEF SenderStep
<1>1. A!SendIoDone /\ wire' = wire \o Written => Writing  BY DEF A!SendIoDone, Writing
<1> SUFFICES ASSUME UNCHANGED wire
             PROVE  \/ Closing \/ GoingOn \/ GoingIdle \/ Exiting \/ Failing
                    \/ (A!SendIoDone /\ wire' = wire \o Written)
                    \/ \E f \in Fork : Waking(f) \/ Queueing(f) \/ Forking(f)
  BY <1>0, <1>1 DEF SenderStep
<1>2. \A f : A!SendWake(f) => Waking(f)
  BY DEF A!SendWake, A!IssueSend, A!Usable, A!StartSend, Issues, PicksUp, Waking
<1>3. \A f : A!SendQueue(f) => Queueing(f)
  BY DEF A!SendQueue, A!IssueSend, A!Usable, Issues, Queueing
<1>4. \A f : A!ForkSocket(f) => Forking(f)  BY DEF A!ForkSocket, A!Cardinality, Cardinality, Forking
<1>5. A!CloseSocket => Closing  BY DEF A!CloseSocket, Closing
<1>6. A!SendNext => GoingOn  BY DEF A!SendNext, A!StartSend, PicksUp, GoingOn
<1>7. A!SendIdle => GoingIdle  BY DEF A!SendIdle, GoingIdle
<1>8. A!SendClose => Exiting  BY DEF A!SendClose, Exiting
<1>9. A!SendIoFail("closed") => Failing  BY DEF A!SendIoFail, Failing
<1>10. Unforked # {} => (CHOOSE f \in Unforked : TRUE) \in Fork  BY DEF Unforked
<1> QED BY <1>2, <1>3, <1>4, <1>5, <1>6, <1>7, <1>8, <1>9, <1>10 DEF SenderStep, A!SendTaskStep

\* The operations that were issued.
LEMMA SenderIds ==
    ASSUME SenderOK
    PROVE  /\ NumMessages \in Nat /\ aNumSends \in Nat /\ aNumSends <= NumMessages
           /\ 1..aNumSends \subseteq Id /\ Id \subseteq Nat
           /\ \A o \in 1..aNumSends : aFork[o] \in Fork
<1>1. /\ NumMessages \in Nat /\ aNumSends \in Nat /\ aNumSends <= NumMessages
      /\ 1..aNumSends \subseteq Id /\ Id \subseteq Nat
  BY PairAssumption DEF PairAssumption, SenderOK, Id
<1> QED BY <1>1 DEF SenderOK

\* The ids of A stay in order, unique and given out before they are used.
LEMMA LocalIdsStep ==
    ASSUME SenderOK, LocalIds, [Next]_vars
    PROVE  LocalIds'
<1>1. CASE UNCHANGED <<aLocalId, aNumSends, aFork>>  BY <1>1 DEF LocalIds
<1>2. ASSUME NEW f \in Fork, NEW st, Issues(f, st) PROVE LocalIds'
  <2>1. \A o \in 1..aNumSends' : aLocalId'[aFork'[o]] # 0
    <3>1. aNumSends + 1 \in Id  BY <1>2, SenderIds DEF Issues, Id
    <3>2. \A o \in 1..aNumSends' : aFork'[o] = IF o = aNumSends + 1 THEN f ELSE aFork[o]
      BY <1>2, <3>1, SenderIds DEF Issues, SenderOK
    <3>3. \A o \in 1..aNumSends' : o = aNumSends + 1 \/ o \in 1..aNumSends  BY <1>2, SenderIds DEF Issues
    <3> QED BY <1>2, <3>2, <3>3 DEF LocalIds, Issues
  <2> QED BY <1>2, <2>1 DEF LocalIds, Issues
<1>3. ASSUME NEW f \in Fork, Forking(f) PROVE LocalIds'
  <2> DEFINE D == {g \in Fork : aLocalId[g] # 0}
             n == 1 + Cardinality(D)
  <2>1. IsFiniteSet(D) /\ Cardinality(D) \in Nat
    BY PairAssumption, FS_Subset, FS_CardinalityType DEF PairAssumption
  <2>2. {g \in Fork : aLocalId'[g] # 0} = D \cup {f}
    <3>1. \A g \in Fork : aLocalId'[g] = IF g = f THEN n ELSE aLocalId[g]  BY <1>3 DEF Forking, SenderOK
    <3>2. n # 0  BY <2>1
    <3> HIDE DEF n
    <3> QED BY <3>1, <3>2
  <2>3. Cardinality(D \cup {f}) = Cardinality(D) + 1
    BY <1>3, <2>1, FS_AddElement DEF Forking
  <2>4. \A g \in Fork : aLocalId'[g] = IF g = f THEN n ELSE aLocalId[g]  BY <1>3 DEF Forking, SenderOK
  <2>5. \A g \in Fork : aLocalId[g] \in 0..Cardinality(D)  BY DEF LocalIds
  <2> HIDE DEF D
  <2>6. n # 0 /\ n \in 0..Cardinality(D \cup {f}) /\ \A g \in Fork : aLocalId[g] # n  BY <2>1, <2>3, <2>5
  <2>7. \A g \in Fork : aLocalId'[g] \in 0..Cardinality({h \in Fork : aLocalId'[h] # 0})
    BY <2>1, <2>2, <2>3, <2>4, <2>5, <2>6
  <2>8. \A g, h \in Fork : aLocalId'[g] = aLocalId'[h] /\ aLocalId'[g] # 0 => g = h
    BY <2>4, <2>6 DEF LocalIds
  <2>9. \A o \in 1..aNumSends' : aLocalId'[aFork'[o]] # 0
    BY <1>3, <2>4, <2>6, SenderIds DEF LocalIds, Forking
  <2> QED BY <2>7, <2>8, <2>9 DEF LocalIds
<1>4. CASE SenderStep
  BY <1>1, <1>2, <1>3, <1>4, SenderMoves DEF Writing, Closing, GoingOn, GoingIdle, Exiting, Failing, Waking, Queueing
<1>5. CASE ReceiverStep  BY <1>1, <1>5 DEF ReceiverStep, aVars
<1>6. CASE UNCHANGED vars  BY <1>1, <1>6 DEF vars, aVars
<1> QED BY <1>4, <1>5, <1>6 DEF Next

\* An operation that the task of A works on, and the id of its fork.
LEMMA SenderOp ==
    ASSUME SenderOK, LocalIds, aSendPc \in {"meta", "header", "body", "next"}
    PROVE  /\ aSendOp \in Id /\ aSendOp \in 1..aNumSends /\ aFork[aSendOp] \in Fork
           /\ aLocalId[aFork[aSendOp]] \in 1..Cardinality(Fork) /\ aLocalId[aFork[aSendOp]] \in Slot
           /\ aSendOp \in A!Pending(aStatus)
<1>1. aSendOp \in ToSet(aList) /\ aSendOp \in Id
  <2>1. 1 \in 1..Len(aList)  BY DEF SenderOK
  <2> QED BY <2>1, InToSet DEF SenderOK
<1>2. aSendOp \in 1..aNumSends /\ aSendOp \in A!Pending(aStatus)
  BY <1>1 DEF SenderOK, A!Pending, Id
<1>3. aFork[aSendOp] \in Fork  BY <1>1 DEF SenderOK
<1>4. LET D == {g \in Fork : aLocalId[g] # 0} IN Cardinality(D) \in Nat /\ Cardinality(D) <= Cardinality(Fork)
  BY PairAssumption, FS_Subset, FS_CardinalityType DEF PairAssumption
<1>5. Cardinality(Fork) \in Nat  BY PairAssumption, FS_CardinalityType DEF PairAssumption
<1>6. aLocalId[aFork[aSendOp]] \in 1..Cardinality(Fork)
  BY <1>2, <1>3, <1>4, <1>5 DEF LocalIds
<1>7. aLocalId[aFork[aSendOp]] \in Slot  BY <1>5, <1>6 DEF Slot, BadSlot
<1> QED BY <1>1, <1>2, <1>3, <1>6, <1>7

\* What A writes, piece by piece.
LEMMA ShortSeq ==
    ASSUME NEW S, NEW x \in S, NEW y \in S
    PROVE  <<x>> \in Seq(S) /\ <<x, y>> \in Seq(S)
OBVIOUS

LEMMA WritesPieces ==
    ASSUME SenderOK, LocalIds, aSendPc \in {"meta", "header", "body"}
    PROVE  Written \in Seq(Piece)
<1>1. Header(aFork[aSendOp], TRUE) \in Piece /\ Header(aFork[aSendOp], FALSE) \in Piece
  BY SenderOp DEF Header, Piece
<1>2. Session(aFork[aSendOp]) \in Piece  BY SenderOp DEF Session, Piece
<1>3. Body(aSendOp) \in Piece  BY SenderOp DEF Body, Piece
<1>4. CASE aSendPc = "meta"
  <2>1. Written = <<Header(aFork[aSendOp], TRUE), Session(aFork[aSendOp])>>  BY <1>4 DEF Written
  <2> QED BY <1>1, <1>2, <2>1, ShortSeq, Zenon
<1>5. CASE aSendPc = "header"
  <2>1. Written = <<Header(aFork[aSendOp], FALSE)>>  BY <1>5 DEF Written
  <2> QED BY <1>1, <2>1, ShortSeq, Zenon
<1>6. CASE aSendPc = "body"
  <2>1. Written = <<Body(aSendOp)>>  BY <1>6 DEF Written
  <2> QED BY <1>3, <2>1
<1> QED BY <1>4, <1>5, <1>6

LEMMA WireTypeStep ==
    ASSUME SenderOK, LocalIds, wire \in Seq(Piece), [Next]_vars
    PROVE  wire' \in Seq(Piece)
<1>1. CASE UNCHANGED wire  BY <1>1
<1>2. CASE SenderStep
  <2>1. CASE Writing  BY <2>1, WritesPieces DEF Writing
  <2> QED BY <1>1, <1>2, <2>1, SenderMoves DEF Closing, GoingOn, GoingIdle, Exiting, Failing, Waking, Queueing,
             Forking, Issues
<1>3. CASE ReceiverStep
  <2>1. CASE wire # <<>> /\ wire' = Tail(wire)  BY <2>1
  <2> QED BY <1>1, <1>3, <2>1 DEF ReceiverStep, ReceiverRead, ReadNext
<1>4. CASE UNCHANGED vars  BY <1>1, <1>4 DEF vars
<1> QED BY <1>2, <1>3, <1>4 DEF Next
-----------------------------------------------------------------------------
(* Endpoint B *)

\* What the invariants of a scheduler say of B.
ReceiverOK ==
    /\ bRemoteId \in [Fork -> Slot \cup {0}] /\ bSlot \in Slot \cup {0} /\ bRecvOp \in Id \cup {0}
    /\ bRecvOps \in [Fork -> Seq(Id)] /\ bNumIssued \in 0..NumMessages
    /\ bFork \in [Id -> Fork] /\ bStatus \in [Id -> B!OpStatus]
    /\ \A o \in Id : bStatus[o] = "unused" <=> o > bNumIssued
    /\ \A f \in Fork :
        ToSet(bRecvOps[f]) = {o \in B!Pending(bStatus) : bFork[o] = f} /\ Increasing(bRecvOps[f])
    /\ bRecvOp # 0 =>
        /\ bRecvPc \in {"gotOp", "body", "any"}
        /\ bRecvOps[bFork[bRecvOp]] # <<>> /\ bRecvOps[bFork[bRecvOp]][1] = bRecvOp
        /\ bStatus[bRecvOp] \in {"InProgress", "Canceling"}
    /\ bRecvPc \in {"gotOp", "body"} => bRecvOp # 0
    /\ bRecvPc = "any" /\ bRecvEc = "success" => bRecvOp # 0
    /\ bRecvPc # "any" => bRecvEc = "success"
    /\ bRecvPc = "exit" => bEC # "success"
    /\ bRecvPc \in {"getFork", "requested"} => bSlot # 0
    /\ \A f, g \in Fork : bRemoteId[f] = bRemoteId[g] /\ bRemoteId[f] # 0 => f = g

\* What the actions of B do.
Takes(what) == wire # <<>> /\ wire[1].what = what /\ wire' = Tail(wire)
ReadsHeader ==
    /\ Takes("header") /\ bRecvPc = "header" /\ bSlot' = wire[1].slot
    /\ bRecvPc' = IF wire[1].control THEN "meta" ELSE "getFork"
    /\ UNCHANGED <<bEC, bRemoteId, bRecvOp, bRecvEc, bNumIssued, bFork, bStatus, got>>
LearnsFork ==
    /\ Takes("session") /\ bRecvPc = "meta" /\ bRecvPc' = "header"
    /\ bRemoteId' = [bRemoteId EXCEPT ![wire[1].fork] = bSlot]
    /\ UNCHANGED <<bEC, bSlot, bRecvOp, bRecvEc, bNumIssued, bFork, bStatus, got>>
RefusesFork ==
    /\ Takes("session") /\ bRecvPc = "meta"
    /\ bSlot = BadSlot \/ bRemoteId[wire[1].fork] # 0
ReadsBody ==
    /\ Takes("body") /\ bRecvPc = "body" /\ bRecvPc' = "any"
    /\ got' = [got EXCEPT ![bRecvOp] = wire[1].message]
    /\ UNCHANGED <<bEC, bRemoteId, bSlot, bRecvOp, bRecvEc, bNumIssued, bFork, bStatus>>
Asks(f, st) ==
    /\ bNumIssued < NumMessages /\ bNumIssued' = bNumIssued + 1
    /\ bFork' = [bFork EXCEPT ![bNumIssued + 1] = f]
    /\ st \in {"NotStarted", "InProgress"} /\ bStatus' = [bStatus EXCEPT ![bNumIssued + 1] = st]
    /\ \/ bRecvPc = "idle" /\ bRecvPc' = "header" /\ UNCHANGED bRecvOp
       \/ /\ bRecvPc = "requested" /\ bRemoteId[f] = bSlot
          /\ bRecvPc' = "gotOp" /\ bRecvOp' = bNumIssued + 1
       \/ UNCHANGED <<bRecvPc, bRecvOp>>
    /\ UNCHANGED <<bEC, bRemoteId, bSlot, bRecvEc, wire, got>>
FindsNoFork == bRecvPc = "getFork" /\ \A f \in Fork : bRemoteId[f] # bSlot
FindsClosed == bRecvPc = "getFork" /\ bEC # "success"
Looks ==
    /\ \/ bRecvPc = "getFork" /\ bRecvPc' = "requested"
       \/ bRecvPc = "gotOp" /\ bRecvPc' = "body"
    /\ UNCHANGED <<bEC, bRemoteId, bSlot, bRecvOp, bRecvEc, bNumIssued, bFork, bStatus, wire, got>>
Finds(f) ==
    /\ bRecvPc = "getFork" /\ bRecvPc' = "gotOp" /\ bRemoteId[f] = bSlot
    /\ bRecvOps[f] # <<>> /\ bRecvOp' = Head(bRecvOps[f])
    /\ bStatus' = [bStatus EXCEPT ![Head(bRecvOps[f])] = "InProgress"]
    /\ UNCHANGED <<bEC, bRemoteId, bSlot, bRecvEc, bNumIssued, bFork, wire, got>>
Finishes ==
    /\ bRecvPc = "any" /\ bRecvEc = "success" /\ bEC = "success"
    /\ bRecvPc' \in {"header", "idle"} /\ bRecvOp' = 0
    /\ bStatus' = [bStatus EXCEPT ![bRecvOp] = "completed"]
    /\ UNCHANGED <<bEC, bRemoteId, bSlot, bRecvEc, bNumIssued, bFork, wire, got>>
GivesUp ==
    /\ bRecvPc = "any" /\ (bRecvEc # "success" \/ bEC # "success")
    /\ bRecvPc' = "exit" /\ bRecvEc' = "success" /\ bRecvOp' = 0
    /\ bEC' \in {bEC, bRecvEc, "cancel"}
    /\ \A o \in Id : bStatus'[o] \in {bStatus[o], "completed"}
    /\ UNCHANGED <<bRemoteId, bSlot, bNumIssued, bFork, wire, got>>
LosesPeer ==
    /\ PeerGone /\ bRecvPc \in {"header", "meta", "body"} /\ bRecvPc' = "any" /\ bRecvEc' = "remoteClosed"
    /\ UNCHANGED <<bEC, bRemoteId, bSlot, bRecvOp, bNumIssued, bFork, bStatus, wire, got>>
BForks == UNCHANGED <<bEC, bRemoteId, bSlot, bRecvPc, bRecvOp, bRecvEc, bNumIssued, bFork, bStatus, wire, got>>

LEMMA ReceiverMoves ==
    ASSUME ReceiverStep
    PROVE  /\ UNCHANGED <<aVars, idle>>
           /\ \/ ReadsHeader \/ LearnsFork \/ RefusesFork \/ ReadsBody
              \/ \E f \in Fork : Finds(f) \/ \E st \in {"NotStarted", "InProgress"} : Asks(f, st)
              \/ FindsNoFork \/ FindsClosed \/ Looks \/ Finishes \/ GivesUp \/ LosesPeer \/ BForks
<1> USE DEF B!forkVars, B!lifeVars, B!sendVars, B!recvVars, B!flushVars, B!histVars, B!recvOps, B!recvTask,
        B!recvStopVars, B!None
<1>0. UNCHANGED <<aVars, idle>>  BY DEF ReceiverStep
<1>1. /\ ReadNext("header")
      /\ B!RecvHeader(wire[1].slot, IF wire[1].control THEN "meta" ELSE "getFork") /\ UNCHANGED got
      => ReadsHeader
  BY DEF B!RecvHeader, ReadNext, ReadsHeader, Takes
<1>2. ReadNext("session") /\ B!RecvNewFork(wire[1].fork) /\ UNCHANGED got => LearnsFork
  BY DEF B!RecvNewFork, ReadNext, LearnsFork, Takes
<1>3. ReadNext("session") /\ B!RecvBadFork(wire[1].fork) => RefusesFork
  BY DEF B!RecvBadFork, ReadNext, RefusesFork, Takes
<1>4. ReadNext("body") /\ B!RecvBody /\ got' = [got EXCEPT ![bRecvOp] = wire[1].message] => ReadsBody
  BY DEF B!RecvBody, ReadNext, ReadsBody, Takes
<1>5. ReceiverRead => ReadsHeader \/ LearnsFork \/ RefusesFork \/ ReadsBody
  BY <1>1, <1>2, <1>3, <1>4 DEF ReceiverRead
<1> SUFFICES ASSUME UNCHANGED <<wire, got>>, ~ReceiverRead
             PROVE  \/ \E f \in Fork : Finds(f) \/ \E st \in {"NotStarted", "InProgress"} : Asks(f, st)
                    \/ FindsNoFork \/ FindsClosed \/ Looks \/ Finishes \/ GivesUp \/ LosesPeer \/ BForks
  BY <1>0, <1>5 DEF ReceiverStep
<1>6. \A f : B!RecvWake(f) => Asks(f, "InProgress")
  BY DEF B!RecvWake, B!IssueRecv, Asks
<1>7. \A f : B!RecvMatch(f) => Asks(f, "InProgress")
  BY DEF B!RecvMatch, B!Requested, B!IssueRecv, Asks
<1>8. \A f : B!RecvQueue(f) => Asks(f, "NotStarted")
  BY DEF B!RecvQueue, B!IssueRecv, Asks
<1>9. \A f : B!ForkSocket(f) => BForks  BY DEF B!ForkSocket, BForks
<1>10. B!GetForkUnknown => FindsNoFork  BY DEF B!GetForkUnknown, FindsNoFork
<1>11. \A f : B!GetForkClosed(f) => FindsClosed  BY DEF B!GetForkClosed, FindsClosed
<1>12. \A f : B!GetForkWait(f) => Looks  BY DEF B!GetForkWait, Looks
<1>13. B!RecvSizeOk => Looks  BY DEF B!RecvSizeOk, Looks
<1>14. \A f : B!GetForkFound(f) => Finds(f)  BY DEF B!GetForkFound, Finds
<1>15. B!RecvNext \/ B!RecvIdle => Finishes  BY DEF B!RecvNext, B!RecvIdle, B!CompleteRecv, Finishes
<1>16. B!RecvClose => GivesUp
  BY DEF B!RecvClose, B!FailRecvs, B!RecvId, Id, B!AfterFirst, GivesUp
<1>17. PeerGone /\ B!RecvIoFail("remoteClosed") => LosesPeer  BY DEF B!RecvIoFail, LosesPeer
<1>18. B!RecvTaskStep /\ ~B!RecvSizeBad =>
         \/ \E f \in Fork : Finds(f)
         \/ FindsNoFork \/ FindsClosed \/ Looks \/ Finishes \/ GivesUp
  BY <1>10, <1>11, <1>12, <1>13, <1>14, <1>15, <1>16 DEF B!RecvTaskStep
<1> QED BY <1>6, <1>7, <1>8, <1>9, <1>17, <1>18 DEF ReceiverStep
-----------------------------------------------------------------------------
(* The stream *)

\* What a write adds to the wire, and what a read takes off it.
LEMMA WireWritten ==
    ASSUME SenderOK, LocalIds, wire \in Seq(Piece), Writing
    PROVE  LET n == Len(wire)  f == aFork[aSendOp] IN
           /\ wire' \in Seq(Piece) /\ \A i \in 1..n : wire'[i] = wire[i]
           /\ aSendPc = "meta" =>
               Len(wire') = n + 2 /\ wire'[n + 1] = Header(f, TRUE) /\ wire'[n + 2] = Session(f)
           /\ aSendPc = "header" => Len(wire') = n + 1 /\ wire'[n + 1] = Header(f, FALSE)
           /\ aSendPc = "body" => Len(wire') = n + 1 /\ wire'[n + 1] = Body(aSendOp)
<1> DEFINE n == Len(wire)
           f == aFork[aSendOp]
           w == Written
<1>1. w \in Seq(Piece)  BY WritesPieces DEF Writing
<1>2. PICK h, d, e, b : h = Header(f, TRUE) /\ e = Session(f) /\ d = Header(f, FALSE) /\ b = Body(aSendOp)
  OBVIOUS
<1>3. /\ aSendPc = "meta" => w = <<Header(f, TRUE), Session(f)>>
      /\ aSendPc = "header" => w = <<Header(f, FALSE)>>
      /\ aSendPc = "body" => w = <<Body(aSendOp)>>
  BY DEF Written
<1>4. wire' = wire \o w  BY DEF Writing
<1> HIDE DEF w, f
<1>5. /\ aSendPc = "meta" => w = <<h, e>>
      /\ aSendPc = "header" => w = <<d>>
      /\ aSendPc = "body" => w = <<b>>
  BY <1>2, <1>3, Zenon
<1>6. /\ aSendPc = "meta" => Len(w) = 2 /\ w[1] = h /\ w[2] = e
      /\ aSendPc = "header" => Len(w) = 1 /\ w[1] = d
      /\ aSendPc = "body" => Len(w) = 1 /\ w[1] = b
  BY <1>5
<1>7. /\ wire' \in Seq(Piece) /\ Len(wire') = n + Len(w) /\ n \in Nat
      /\ \A i \in 1..n : wire'[i] = wire[i]
      /\ \A i \in 1..Len(w) : wire'[n + i] = w[i]
  BY <1>1, <1>4
<1> HIDE DEF n
<1>8. /\ aSendPc = "meta" => Len(wire') = n + 2 /\ wire'[n + 1] = h /\ wire'[n + 2] = e
      /\ aSendPc = "header" => Len(wire') = n + 1 /\ wire'[n + 1] = d
      /\ aSendPc = "body" => Len(wire') = n + 1 /\ wire'[n + 1] = b
  <2>1. Len(w) = 2 => 1 \in 1..Len(w) /\ 2 \in 1..Len(w)  OBVIOUS
  <2>2. Len(w) = 1 => 1 \in 1..Len(w)  OBVIOUS
  <2> QED BY <1>6, <1>7, <2>1, <2>2
<1> QED BY <1>2, <1>7, <1>8, Zenon DEF f, n

LEMMA WireRead ==
    ASSUME wire \in Seq(Piece), wire # <<>>, wire' = Tail(wire)
    PROVE  /\ wire' \in Seq(Piece) /\ Len(wire) \in Nat \ {0} /\ Len(wire') = Len(wire) - 1
           /\ \A i \in 1..Len(wire') : i + 1 \in 1..Len(wire) /\ wire'[i] = wire[i + 1]
           /\ wire[1] \in Piece
OBVIOUS

\* The parts of a piece.
LEMMA PieceParts ==
    ASSUME NEW x \in Piece
    PROVE  /\ x.what \in {"header", "session", "body"}
           /\ x.what = "header" => x.slot \in Slot
           /\ x.what = "session" => x.fork \in Fork
           /\ x.what = "body" => x.message \in Id
BY DEF Piece

\* B understands what A writes: it does not refuse a fork, and finds the fork of
\* each header.
LEMMA Understood ==
    ASSUME SenderOK, ReceiverOK, LocalIds, FrameInv, IdInv, FailInv
    PROVE  ~RefusesFork /\ ~FindsNoFork /\ ~FindsClosed
<1>1. ASSUME RefusesFork PROVE FALSE
  <2>1. wire[1].what = "session" /\ 1 \in 1..Len(wire) /\ wire[1].fork \in Fork
    BY <1>1, PieceParts DEF RefusesFork, Takes, FrameInv
  <2>2. aLocalId[wire[1].fork] = bSlot /\ bRemoteId[wire[1].fork] = 0
    BY <2>1 DEF IdInv, SlotAt, Known
  <2>3. LET D == {g \in Fork : aLocalId[g] # 0} IN Cardinality(D) \in Nat /\ Cardinality(D) <= Cardinality(Fork)
    BY PairAssumption, FS_Subset, FS_CardinalityType DEF PairAssumption
  <2>4. Cardinality(Fork) \in Nat  BY PairAssumption, FS_CardinalityType DEF PairAssumption
  <2>5. bSlot <= Cardinality(Fork) /\ bSlot \in Nat  BY <2>1, <2>2, <2>3, <2>4 DEF LocalIds
  <2> QED BY <1>1, <2>2, <2>4, <2>5 DEF RefusesFork, BadSlot
<1>2. ~FindsNoFork  BY DEF FindsNoFork, IdInv, Reads
<1>3. ~FindsClosed  BY DEF FindsClosed, FailInv
<1> QED BY <1>1, <1>2, <1>3

\* B fails only when the stream has ended.
LEMMA FailStep ==
    ASSUME SenderOK, ReceiverOK, LocalIds, FrameInv, IdInv, FailInv, [Next]_vars
    PROVE  FailInv'
<1>1. CASE SenderStep
  <2>1. UNCHANGED <<bEC, bRecvPc, bRecvEc>>  BY <1>1, SenderMoves DEF bVars
  <2>2. aClosed => aClosed' /\ UNCHANGED wire
    BY <1>1, SenderMoves DEF Writing, Closing, GoingOn, GoingIdle, Exiting, Failing, Waking, Queueing,
       Forking, Issues
  <2>3. aClosed \in BOOLEAN \/ aClosed \notin BOOLEAN  OBVIOUS
  <2> QED BY <2>1, <2>2 DEF FailInv, ReceiverLives
<1>2. CASE ReceiverStep
  <2>1. UNCHANGED aClosed  BY <1>2, ReceiverMoves DEF aVars
  <2>2. CASE ReadsHeader \/ LearnsFork \/ ReadsBody
    BY <2>1, <2>2 DEF ReadsHeader, LearnsFork, ReadsBody, Takes, FailInv, ReceiverLives
  <2>3. CASE Looks \/ Finishes \/ BForks \/ \E f \in Fork : Finds(f)
    BY <2>1, <2>3 DEF Looks, Finishes, BForks, Finds, FailInv, ReceiverLives
  <2>4. CASE \E f \in Fork, st \in {"NotStarted", "InProgress"} : Asks(f, st)
    BY <2>1, <2>4 DEF Asks, FailInv, ReceiverLives
  <2>5. CASE GivesUp  BY <2>1, <2>5 DEF GivesUp, FailInv, ReceiverLives
  <2>6. CASE LosesPeer  BY <2>1, <2>6 DEF LosesPeer, PeerGone, FailInv, ReceiverLives
  <2> QED BY <1>2, <2>2, <2>3, <2>4, <2>5, <2>6, ReceiverMoves, Understood
<1>3. CASE UNCHANGED vars
  BY <1>3 DEF vars, aVars, bVars, FailInv, ReceiverLives
<1> QED BY <1>1, <1>2, <1>3 DEF Next

\* The framing survives a write ...
LEMMA FrameWrite ==
    ASSUME SenderOK, ReceiverOK, LocalIds, FrameInv, Writing, UNCHANGED bVars
    PROVE  FrameInv'
<1> DEFINE n == Len(wire)
           f == aFork[aSendOp]
<1>0. wire \in Seq(Piece) /\ n \in Nat  BY DEF FrameInv
<1>1. SenderLives /\ (ReceiverLives' <=> ReceiverLives) /\ Reads' = Reads
  BY DEF Writing, SenderOK, SenderLives, ReceiverLives, Reads, bVars
<1>2. /\ \A i \in 1..n : wire'[i] = wire[i]
      /\ wire' \in Seq(Piece)
  BY <1>0, WireWritten
<1>3. n > 0 => Writes = After(wire[n])  BY <1>0, <1>1 DEF FrameInv
<1>4. ReceiverLives => (IF n > 0 THEN wire[1].what ELSE Writes) = Reads
  BY <1>0, <1>1 DEF FrameInv
<1>5. \A i \in 1..(n - 1) : wire[i + 1].what = After(wire[i])  BY DEF FrameInv
<1>6. ASSUME NEW k \in Nat, k > n, Len(wire') = k, wire'[n + 1].what = Writes,
             \A i \in (n + 1)..(k - 1) : wire'[i + 1].what = After(wire'[i]), Writes' = After(wire'[k])
      PROVE  FrameInv'
  <2>1. ASSUME NEW i \in 1..(k - 1) PROVE wire'[i + 1].what = After(wire'[i])
    <3>1. CASE i < n  BY <1>0, <1>2, <1>5, <3>1
    <3>2. CASE i = n  BY <1>0, <1>2, <1>3, <1>6, <3>2
    <3>3. CASE i > n  BY <1>0, <1>6, <3>3
    <3> QED BY <1>0, <3>1, <3>2, <3>3
  <2>2. ReceiverLives => wire'[1].what = Reads
    <3>1. CASE n > 0  BY <1>0, <1>2, <1>4, <3>1
    <3>2. CASE n = 0  BY <1>4, <1>6, <3>2
    <3> QED BY <1>0, <3>1, <3>2
  <2>3. wire' # <<>>  BY <1>0, <1>6
  <2> QED BY <1>1, <1>2, <1>6, <2>1, <2>2, <2>3 DEF FrameInv
<1>7. CASE aSendPc = "meta"
  <2>1. Len(wire') = n + 2 /\ wire'[n + 1] = Header(f, TRUE) /\ wire'[n + 2] = Session(f)
    BY <1>0, <1>7, WireWritten
  <2>2. wire'[n + 1].what = "header" /\ wire'[n + 1].control = TRUE /\ wire'[n + 2].what = "session"
    BY <2>1 DEF Header, Session
  <2>3. Writes = "header" /\ Writes' = "header"  BY <1>7 DEF Writes, Writing
  <2>4. After(wire'[n + 1]) = "session" /\ After(wire'[n + 2]) = "header"  BY <2>2 DEF After
  <2>5. \A i \in (n + 1)..((n + 2) - 1) : i = n + 1  BY <1>0
  <2>6. n + 2 \in Nat /\ n + 2 > n /\ (n + 1) + 1 = n + 2  BY <1>0
  <2>7. \A i \in (n + 1)..((n + 2) - 1) : wire'[i + 1].what = After(wire'[i])
    BY <2>2, <2>4, <2>5, <2>6
  <2> QED BY <1>6, <2>1, <2>2, <2>3, <2>4, <2>6, <2>7
<1>8. ASSUME Len(wire') = n + 1, wire'[n + 1].what = Writes, Writes' = After(wire'[n + 1])
      PROVE  FrameInv'
  <2>1. \A i \in (n + 1)..((n + 1) - 1) : wire'[i + 1].what = After(wire'[i])  BY <1>0
  <2> QED BY <1>0, <1>6, <1>8, <2>1
<1>9. CASE aSendPc = "header"
  <2>1. Len(wire') = n + 1 /\ wire'[n + 1] = Header(f, FALSE)  BY <1>0, <1>9, WireWritten
  <2>2. wire'[n + 1].what = "header" /\ wire'[n + 1].control = FALSE  BY <2>1 DEF Header
  <2> QED BY <1>8, <1>9, <2>1, <2>2 DEF Writes, Writing, After
<1>10. CASE aSendPc = "body"
  <2>1. Len(wire') = n + 1 /\ wire'[n + 1] = Body(aSendOp)  BY <1>0, <1>10, WireWritten
  <2>2. wire'[n + 1].what = "body"  BY <2>1 DEF Body
  <2> QED BY <1>8, <1>10, <2>1, <2>2 DEF Writes, Writing, After
<1> QED BY <1>7, <1>9, <1>10 DEF Writing

\* ... and a read ...
LEMMA FrameRead ==
    ASSUME ReceiverOK, FrameInv, FailInv, wire # <<>>, wire' = Tail(wire), UNCHANGED aVars,
           Reads' = After(wire[1])
    PROVE  FrameInv'
<1>1. /\ wire' \in Seq(Piece) /\ Len(wire) \in Nat \ {0} /\ Len(wire') = Len(wire) - 1
      /\ \A i \in 1..Len(wire') : i + 1 \in 1..Len(wire) /\ wire'[i] = wire[i + 1]
  BY WireRead DEF FrameInv
<1>2. (SenderLives' <=> SenderLives) /\ Writes' = Writes  BY DEF aVars, SenderLives, Writes
<1>3. \A i \in 1..(Len(wire') - 1) : wire'[i + 1].what = After(wire'[i])
  <2> TAKE i \in 1..(Len(wire') - 1)
  <2>1. i \in 1..Len(wire') /\ i + 1 \in 1..Len(wire') /\ i + 1 \in 1..(Len(wire) - 1)  BY <1>1
  <2>2. wire[(i + 1) + 1].what = After(wire[i + 1])  BY <2>1 DEF FrameInv
  <2> QED BY <1>1, <2>1, <2>2
<1>4. CASE wire' = <<>>
  <2>1. Len(wire) = 1  BY <1>1, <1>4
  <2>2. SenderLives => Writes = After(wire[1])  BY <2>1 DEF FrameInv
  <2> QED BY <1>1, <1>2, <1>3, <1>4, <2>2 DEF FrameInv
<1>5. CASE wire' # <<>>
  <2>1. 1 \in 1..(Len(wire) - 1) /\ 1 \in 1..Len(wire') /\ Len(wire') \in 1..Len(wire')  BY <1>1, <1>5
  <2>2. wire'[1].what = After(wire[1])
    <3>1. wire[1 + 1].what = After(wire[1])  BY <2>1 DEF FrameInv
    <3> QED BY <1>1, <2>1, <3>1
  <2>3. wire'[Len(wire')] = wire[Len(wire)]  BY <1>1, <2>1
  <2> QED BY <1>1, <1>2, <1>3, <1>5, <2>2, <2>3 DEF FrameInv
<1> QED BY <1>4, <1>5

\* ... and everything else.
LEMMA FrameStep ==
    ASSUME SenderOK, ReceiverOK, LocalIds, FrameInv, IdInv, FailInv, [Next]_vars
    PROVE  FrameInv'
<1>0. ASSUME UNCHANGED wire, SenderLives' => SenderLives, ReceiverLives' => ReceiverLives,
             SenderLives' => Writes' = Writes, ReceiverLives' => Reads' = Reads
      PROVE  FrameInv'
  BY <1>0 DEF FrameInv
<1>1. CASE SenderStep
  <2>1. (ReceiverLives' <=> ReceiverLives) /\ Reads' = Reads /\ UNCHANGED bVars
    BY <1>1, SenderMoves DEF bVars, ReceiverLives, Reads
  <2>2. CASE Writing  BY <2>1, <2>2, FrameWrite
  <2>3. CASE Closing \/ GoingOn \/ GoingIdle \/ Exiting \/ Failing
    BY <1>0, <2>1, <2>3 DEF Closing, GoingOn, GoingIdle, Exiting, Failing, PicksUp, SenderLives, Writes
  <2>4. CASE \E f \in Fork : Waking(f) \/ Queueing(f) \/ Forking(f)
    BY <1>0, <2>1, <2>4 DEF Waking, Queueing, Forking, Issues, PicksUp, SenderLives, Writes
  <2> QED BY <1>1, <2>2, <2>3, <2>4, SenderMoves
<1>2. CASE ReceiverStep
  <2>0. UNCHANGED aVars  BY <1>2, ReceiverMoves
  <2>1. (SenderLives' <=> SenderLives) /\ Writes' = Writes  BY <2>0 DEF aVars, SenderLives, Writes
  <2>2. CASE ReadsHeader
    <3>1. Reads' = After(wire[1])  BY <2>2 DEF ReadsHeader, Takes, Reads, After
    <3> QED BY <2>0, <2>2, <3>1, FrameRead DEF ReadsHeader, Takes
  <2>3. CASE LearnsFork \/ ReadsBody
    <3>1. Reads' = After(wire[1])  BY <2>3 DEF LearnsFork, ReadsBody, Takes, Reads, After
    <3> QED BY <2>0, <2>3, <3>1, FrameRead DEF LearnsFork, ReadsBody, Takes
  <2>4. CASE Looks \/ Finishes \/ BForks \/ GivesUp \/ LosesPeer \/ \E f \in Fork : Finds(f)
    BY <1>0, <2>1, <2>4 DEF Looks, Finishes, BForks, GivesUp, LosesPeer, Finds, ReceiverLives, Reads
  <2>5. CASE \E f \in Fork, st \in {"NotStarted", "InProgress"} : Asks(f, st)
    BY <1>0, <2>1, <2>5 DEF Asks, ReceiverLives, Reads
  <2> QED BY <1>2, <2>2, <2>3, <2>4, <2>5, ReceiverMoves, Understood
<1>3. CASE UNCHANGED vars
  BY <1>0, <1>3 DEF vars, aVars, bVars, SenderLives, ReceiverLives, Writes, Reads
<1> QED BY <1>1, <1>2, <1>3 DEF Next

\* The parts of IdInv: about the stream, about A, about B.
WireIds(i) ==
    /\ wire[i].what = "header" =>
           \E f \in Fork : wire[i].slot = aLocalId[f] /\ (wire[i].control \/ Known(f, i))
    /\ wire[i].what = "session" => aLocalId[wire[i].fork] = SlotAt(i) /\ ~Known(wire[i].fork, i)
    /\ wire[i].what = "body" =>
           wire[i].message <= aNumSends /\ aLocalId[aFork[wire[i].message]] = SlotAt(i)
SenderIdInv ==
    /\ aSendPc = "body" => aLocalId[aFork[aSendOp]] = SlotAt(Len(wire) + 1)
    /\ aSendPc \in {"meta", "header", "body"} => aInitiated[aFork[aSendOp]]
    /\ \A f \in Fork :
        /\ aInitiated[f] => aLocalId[f] # 0
        /\ Known(f, Len(wire) + 1) => aInitiated[f] /\ ~Announcing(f)
        /\ SenderLives /\ aInitiated[f] /\ ~Announcing(f) => Known(f, Len(wire) + 1)
ReceiverIdInv ==
    /\ \A f \in Fork : bRemoteId[f] \in {0, aLocalId[f]}
    /\ Reads = "body" => \E f \in Fork : bRemoteId[f] = bSlot
    /\ bRecvPc \in {"gotOp", "body"} => bRemoteId[bFork[bRecvOp]] = bSlot

LEMMA IdInvParts ==
    /\ IdInv <=> (\A i \in 1..Len(wire) : WireIds(i)) /\ SenderIdInv /\ ReceiverIdInv
    /\ IdInv' <=> (\A i \in 1..Len(wire') : WireIds(i)') /\ SenderIdInv' /\ ReceiverIdInv'
BY DEF IdInv, WireIds, SenderIdInv, ReceiverIdInv

\* While stream and ids of B stay, a step of A that keeps what the pieces on
\* the wire are about keeps WireIds.
LEMMA WireIdsKept ==
    ASSUME SenderOK, LocalIds, FrameInv, IdInv, UNCHANGED <<wire, bSlot, bRemoteId>>,
           aNumSends <= aNumSends', aNumSends' \in Nat,
           \A o \in 1..aNumSends : aFork'[o] = aFork[o],
           \A f \in Fork : aLocalId[f] # 0 => aLocalId'[f] = aLocalId[f]
    PROVE  /\ \A i \in 1..Len(wire') : WireIds(i)'
           /\ \A i : SlotAt(i)' = SlotAt(i)
           /\ \A f, i : Known(f, i)' <=> Known(f, i)
<1>1. \A i : SlotAt(i)' = SlotAt(i)  BY DEF SlotAt
<1>2. \A f, i : Known(f, i)' <=> Known(f, i)  BY DEF Known, Session
<1>3. ASSUME NEW i \in 1..Len(wire) PROVE WireIds(i)'
  <2>0. WireIds(i) /\ wire[i] \in Piece  BY IdInvParts DEF FrameInv
  <2>1. CASE wire[i].what = "header"
    <3>1. wire[i].slot # 0
      <4>1. wire[i].slot \in Slot  BY <2>0, <2>1, PieceParts
      <4>2. 0 \notin Slot  BY DEF Slot
      <4> QED BY <4>1, <4>2
    <3>2. PICK f \in Fork : wire[i].slot = aLocalId[f] /\ (wire[i].control \/ Known(f, i))
      BY <2>0, <2>1 DEF WireIds
    <3>3. wire[i].slot = aLocalId'[f] /\ (wire[i].control \/ Known(f, i)')  BY <1>2, <3>1, <3>2
    <3> QED BY <2>1, <3>3 DEF WireIds
  <2>2. CASE wire[i].what = "session"
    <3>1. wire[i].fork \in Fork /\ wire[i] = Session(wire[i].fork)  BY <2>0, <2>2 DEF Piece, Session
    <3>2. Known(wire[i].fork, Len(wire) + 1)  BY <3>1 DEF Known, FrameInv
    <3>3. aLocalId[wire[i].fork] # 0  BY <3>1, <3>2 DEF IdInv
    <3> QED BY <1>1, <1>2, <2>0, <2>2, <3>1, <3>3 DEF WireIds
  <2>3. CASE wire[i].what = "body"
    <3>1. wire[i].message \in 1..aNumSends
      <4>1. wire[i].message \in Id /\ wire[i].message <= aNumSends  BY <2>0, <2>3, PieceParts DEF WireIds
      <4> QED BY <4>1, SenderIds DEF Id
    <3>2. aFork[wire[i].message] \in Fork /\ aLocalId[aFork[wire[i].message]] # 0
      BY <3>1, SenderIds DEF LocalIds
    <3>3. wire[i].message <= aNumSends'  BY <3>1, SenderIds
    <3> QED BY <1>1, <2>0, <2>3, <3>1, <3>2, <3>3 DEF WireIds
  <2> QED BY <2>0, <2>1, <2>2, <2>3, PieceParts
<1> QED BY <1>1, <1>2, <1>3

\* A starts to send the next message.
LEMMA IdPicksUp ==
    ASSUME SenderOK, LocalIds, FrameInv, IdInv, UNCHANGED <<wire, bVars, aLocalId, aSendEc>>,
           NEW o, NEW f \in Fork, aSendPc \in {"idle", "next"}, aSendEc = "success",
           PicksUp(o, f), aFork'[o] = f, aLocalId[f] # 0,
           aNumSends <= aNumSends', aNumSends' \in Nat,
           \A p \in 1..aNumSends : aFork'[p] = aFork[p]
    PROVE  IdInv'
<1>1. UNCHANGED <<bSlot, bRemoteId, bRecvPc, bFork, bRecvOp>>  BY DEF bVars
<1>2. /\ \A i \in 1..Len(wire') : WireIds(i)'
      /\ \A g, i : Known(g, i)' <=> Known(g, i)
  BY <1>1, WireIdsKept
<1>3. ReceiverIdInv'  BY <1>1, IdInvParts DEF ReceiverIdInv, Reads
<1>4. /\ aSendPc' \in {"meta", "header"} /\ aSendOp' = o
      /\ aSendPc' = "meta" <=> ~aInitiated[f]
      /\ \A g \in Fork : aInitiated'[g] <=> (g = f \/ aInitiated[g])
  <2>1. aInitiated' = [aInitiated EXCEPT ![f] = TRUE] /\ aInitiated \in [Fork -> BOOLEAN]  BY DEF PicksUp, SenderOK
  <2>2. \A g \in Fork : aInitiated'[g] <=> (g = f \/ aInitiated[g])  BY <2>1
  <2> QED BY <2>2 DEF PicksUp
<1>5. \A g \in Fork : ~Announcing(g)  BY DEF Announcing
<1>6. \A g \in Fork : Announcing(g)' <=> (g = f /\ ~aInitiated[f])  BY <1>4 DEF Announcing
<1>7. SenderLives  BY DEF SenderLives
<1>8. \A g \in Fork : (Known(g, Len(wire) + 1) <=> aInitiated[g]) /\ (aInitiated[g] => aLocalId[g] # 0)
  BY <1>5, <1>7 DEF IdInv
<1>9. ASSUME NEW g \in Fork
      PROVE  /\ aInitiated'[g] => aLocalId'[g] # 0
             /\ Known(g, Len(wire) + 1)' => aInitiated'[g] /\ ~Announcing(g)'
             /\ SenderLives' /\ aInitiated'[g] /\ ~Announcing(g)' => Known(g, Len(wire) + 1)'
  BY <1>2, <1>4, <1>6, <1>8, <1>9
<1>10. SenderIdInv'  BY <1>4, <1>9 DEF SenderIdInv
<1> QED BY <1>2, <1>3, <1>10, IdInvParts

\* The other steps of A that do not write.
LEMMA IdQuietA ==
    ASSUME SenderOK, LocalIds, FrameInv, IdInv, UNCHANGED <<wire, bVars, aInitiated>>,
           aNumSends <= aNumSends', aNumSends' \in Nat,
           \A p \in 1..aNumSends : aFork'[p] = aFork[p],
           \A f \in Fork : aLocalId[f] # 0 => aLocalId'[f] = aLocalId[f],
           \/ UNCHANGED <<aSendPc, aSendOp, aSendEc>>
           \/ aSendPc' \in {"idle", "next", "exit"} /\ (SenderLives' => SenderLives /\ aSendPc = "next")
    PROVE  IdInv'
<1>1. UNCHANGED <<bSlot, bRemoteId, bRecvPc, bFork, bRecvOp>>  BY DEF bVars
<1>2. /\ \A i \in 1..Len(wire') : WireIds(i)'
      /\ \A i : SlotAt(i)' = SlotAt(i)
      /\ \A g, i : Known(g, i)' <=> Known(g, i)
  BY <1>1, WireIdsKept
<1>3. ReceiverIdInv'
  <2>1. \A f \in Fork : bRemoteId[f] \in {0, aLocalId'[f]}  BY IdInvParts DEF ReceiverIdInv
  <2> QED BY <1>1, <2>1, IdInvParts DEF ReceiverIdInv, Reads
<1>4. \A f \in Fork : aInitiated'[f] => aLocalId'[f] # 0  BY DEF IdInv
<1>5. CASE UNCHANGED <<aSendPc, aSendOp, aSendEc>>
  <2>1. aSendPc \in {"meta", "header", "body"} =>
          /\ aSendOp \in 1..aNumSends /\ aFork[aSendOp] \in Fork /\ aLocalId[aFork[aSendOp]] # 0
    BY SenderOp DEF LocalIds
  <2>2. \A f \in Fork : Announcing(f)' <=> Announcing(f)  BY <1>5, <2>1 DEF Announcing
  <2>3. SenderLives' <=> SenderLives  BY <1>5 DEF SenderLives
  <2>4. SenderIdInv'
    BY <1>2, <1>4, <1>5, <2>1, <2>2, <2>3, IdInvParts DEF SenderIdInv
  <2> QED BY <1>2, <1>3, <2>4, IdInvParts
<1>6. CASE aSendPc' \in {"idle", "next", "exit"} /\ (SenderLives' => SenderLives /\ aSendPc = "next")
  <2>1. \A f \in Fork : ~Announcing(f)'  BY <1>6 DEF Announcing
  <2>2. SenderLives' => \A f \in Fork : ~Announcing(f)  BY <1>6 DEF Announcing
  <2>3. SenderIdInv'
    BY <1>2, <1>4, <1>6, <2>1, <2>2, IdInvParts DEF SenderIdInv
  <2> QED BY <1>2, <1>3, <2>3, IdInvParts
<1> QED BY <1>5, <1>6

\* A write keeps what is known of the pieces before it ...
LEMMA IdWritePrefix ==
    ASSUME SenderOK, LocalIds, FrameInv, IdInv, Writing, UNCHANGED bVars
    PROVE  /\ \A i \in 1..(Len(wire) + 1) : SlotAt(i)' = SlotAt(i)
           /\ \A f : \A i \in 1..(Len(wire) + 1) : Known(f, i)' <=> Known(f, i)
           /\ \A i \in 1..Len(wire) : WireIds(i)'
           /\ ReceiverIdInv'
<1>0. wire \in Seq(Piece) /\ Len(wire) \in Nat /\ \A i \in 1..Len(wire) : wire'[i] = wire[i]
  BY WireWritten DEF FrameInv
<1>1. UNCHANGED <<bSlot, bRemoteId, bRecvPc, bFork, bRecvOp>>  BY DEF bVars
<1>2. UNCHANGED <<aLocalId, aNumSends, aFork>>  BY DEF Writing
<1>3. \A i \in 1..(Len(wire) + 1) : i # 1 => i - 1 \in 1..Len(wire)  BY <1>0
<1>4. \A i \in 1..(Len(wire) + 1) : SlotAt(i)' = SlotAt(i)  BY <1>0, <1>1, <1>3 DEF SlotAt
<1>5. \A f : \A i \in 1..(Len(wire) + 1) : Known(f, i)' <=> Known(f, i)
  <2> TAKE f
  <2> TAKE i \in 1..(Len(wire) + 1)
  <2>1. \A j \in 1..(i - 1) : wire'[j] = wire[j]  BY <1>0
  <2> QED BY <1>1, <2>1 DEF Known, Session
<1>6. \A i \in 1..Len(wire) : WireIds(i)'
  <2> TAKE i \in 1..Len(wire)
  <2>1. i \in 1..(Len(wire) + 1)  BY <1>0
  <2>2. WireIds(i)  BY IdInvParts
  <2>3. \A f : Known(f, i)' <=> Known(f, i)  BY <1>5, <2>1
  <2> QED BY <1>0, <1>2, <1>4, <2>1, <2>2, <2>3 DEF WireIds
<1>7. ReceiverIdInv'  BY <1>1, <1>2, IdInvParts DEF ReceiverIdInv, Reads
<1> QED BY <1>4, <1>5, <1>6, <1>7

\* ... and what it adds is about the fork of the message.
LEMMA IdWrite ==
    ASSUME SenderOK, LocalIds, FrameInv, IdInv, Writing, UNCHANGED bVars
    PROVE  IdInv'
<1>0. wire \in Seq(Piece) /\ Len(wire) \in Nat  BY DEF FrameInv
<1>n. PICK n \in Nat : n = Len(wire)  BY <1>0
<1>2. UNCHANGED <<aLocalId, aNumSends, aFork, aSendOp, aSendEc, aInitiated, bRemoteId>>  BY DEF Writing, bVars
<1>3a. SenderLives /\ aFork[aSendOp] \in Fork /\ aSendOp \in 1..aNumSends /\ aLocalId[aFork[aSendOp]] # 0
       /\ aInitiated[aFork[aSendOp]]
  BY SenderOp DEF Writing, SenderOK, SenderLives, LocalIds, IdInv
<1>f. PICK f \in Fork : f = aFork[aSendOp]  BY <1>3a
<1>1. /\ \A i \in 1..(n + 1) : SlotAt(i)' = SlotAt(i)
      /\ \A g : \A i \in 1..(n + 1) : Known(g, i)' <=> Known(g, i)
      /\ \A i \in 1..n : WireIds(i)'
      /\ ReceiverIdInv'
  BY IdWritePrefix, <1>n
<1>3. SenderLives /\ f \in Fork /\ aSendOp \in 1..aNumSends /\ aLocalId[f] # 0 /\ aInitiated[f]
      /\ aFork[aSendOp] = f /\ Len(wire) = n /\ n \in Nat
  BY <1>3a, <1>f, <1>n
<1>4. \A g \in Fork : aInitiated[g] => aLocalId[g] # 0  BY DEF IdInv
<1>5. \A g \in Fork : Known(g, n + 1) <=> aInitiated[g] /\ ~Announcing(g)  BY <1>3 DEF IdInv
<1>6. n + 1 \in 1..(n + 1)  BY <1>0, <1>3
<1>7. CASE aSendPc = "meta"
  <2>1. Len(wire') = n + 2 /\ wire'[n + 1] = Header(f, TRUE) /\ wire'[n + 2] = Session(f)
    BY <1>0, <1>3, <1>7, WireWritten
  <2>2. /\ wire'[n + 1].what = "header" /\ wire'[n + 1].slot = aLocalId[f] /\ wire'[n + 1].control
        /\ wire'[n + 2].what = "session" /\ wire'[n + 2].fork = f
    BY <2>1 DEF Header, Session
  <2>3. WireIds(n + 1)'  BY <1>2, <1>3, <2>2 DEF WireIds
  <2>4. \A g : Known(g, n + 2)' <=> Known(g, n + 1)'
    <3> TAKE g
    <3>1. wire'[n + 1] # Session(g)'  BY <2>2 DEF Session
    <3>2. \A j \in 1..((n + 2) - 1) : j = n + 1 \/ j \in 1..((n + 1) - 1)  BY <1>0, <1>3
    <3>3. \A j \in 1..((n + 1) - 1) : j \in 1..((n + 2) - 1)  BY <1>0, <1>3
    <3> QED BY <3>1, <3>2, <3>3 DEF Known
  <2>5. ~Known(f, n + 2)'
    BY <1>1, <1>3, <1>5, <1>6, <1>7, <2>4 DEF Announcing
  <2>6. SlotAt(n + 2)' = aLocalId[f]
    <3>1. (n + 2) # 1 /\ (n + 2) - 1 = n + 1  BY <1>0, <1>3
    <3> QED BY <2>2, <3>1 DEF SlotAt
  <2>7. WireIds(n + 2)'  BY <1>2, <2>2, <2>5, <2>6 DEF WireIds
  <2>8. \A i \in 1..Len(wire') : i \in 1..n \/ i = n + 1 \/ i = n + 2  BY <1>0, <1>3, <2>1
  <2>9. \A i \in 1..Len(wire') : WireIds(i)'  BY <1>1, <2>3, <2>7, <2>8
  <2>10. \A g \in Fork : Known(g, Len(wire) + 1)' <=> Known(g, n + 1) \/ g = f
    <3> TAKE g \in Fork
    <3>1. Session(f) = Session(g) <=> f = g  BY DEF Session
    <3>2. wire'[n + 2] = Session(g)' <=> f = g  BY <2>1, <3>1 DEF Session
    <3>3. Len(wire') + 1 = n + 3 /\ n + 2 \in 1..((n + 3) - 1)  BY <1>0, <1>3, <2>1
    <3>4. \A j \in 1..((n + 3) - 1) : j = n + 2 \/ j \in 1..((n + 2) - 1)  BY <1>0, <1>3
    <3>5. \A j \in 1..((n + 2) - 1) : j \in 1..((n + 3) - 1)  BY <1>0, <1>3
    <3>6. Known(g, n + 3)' <=> Known(g, n + 2)' \/ g = f  BY <3>2, <3>3, <3>4, <3>5 DEF Known
    <3>7. Known(g, Len(wire) + 1)' <=> Known(g, n + 3)'  BY <3>3 DEF Known
    <3> QED BY <1>1, <1>6, <2>4, <3>6, <3>7
  <2>11. aSendPc' = "header"  BY <1>7 DEF Writing
  <2>12. \A g \in Fork : ~Announcing(g)' /\ (Announcing(g) <=> g = f)  BY <1>3, <1>7, <2>11 DEF Announcing
  <2>13. \A g \in Fork : Known(g, Len(wire) + 1)' <=> aInitiated[g]
    BY <1>3, <1>5, <2>10, <2>12
  <2>14. SenderIdInv'  BY <1>2, <1>3, <1>4, <2>11, <2>12, <2>13 DEF SenderIdInv
  <2> QED BY <1>1, <2>9, <2>14, IdInvParts
<1>8. ASSUME aSendPc \in {"header", "body"}, Len(wire') = n + 1, wire'[n + 1].what # "session",
             WireIds(n + 1)', aSendPc' = "body" => aLocalId[f] = wire'[n + 1].slot
      PROVE  IdInv'
  <2>1. \A i \in 1..Len(wire') : i \in 1..n \/ i = n + 1  BY <1>0, <1>3, <1>8
  <2>2. \A i \in 1..Len(wire') : WireIds(i)'  BY <1>1, <1>8, <2>1
  <2>3. \A g \in Fork : Known(g, Len(wire) + 1)' <=> Known(g, n + 1)
    <3> TAKE g \in Fork
    <3>1. wire'[n + 1] # Session(g)'  BY <1>8 DEF Session
    <3>2. Len(wire') + 1 = n + 2  BY <1>0, <1>3, <1>8
    <3>3. \A j \in 1..((n + 2) - 1) : j = n + 1 \/ j \in 1..((n + 1) - 1)  BY <1>0, <1>3
    <3>4. \A j \in 1..((n + 1) - 1) : j \in 1..((n + 2) - 1)  BY <1>0, <1>3
    <3>5. Known(g, n + 2)' <=> Known(g, n + 1)'  BY <3>1, <3>3, <3>4 DEF Known
    <3>6. Known(g, Len(wire) + 1)' <=> Known(g, n + 2)'  BY <3>2 DEF Known
    <3> QED BY <1>1, <1>6, <3>5, <3>6
  <2>4. SlotAt(Len(wire) + 1)' = wire'[n + 1].slot
    <3>1. Len(wire') + 1 # 1 /\ (Len(wire') + 1) - 1 = n + 1  BY <1>0, <1>3, <1>8
    <3> QED BY <3>1 DEF SlotAt
  <2>5. aSendPc' \in {"body", "next"}  BY <1>8 DEF Writing
  <2>6. \A g \in Fork : ~Announcing(g)' /\ ~Announcing(g)  BY <1>8, <2>5 DEF Announcing
  <2>7. SenderIdInv'
    BY <1>2, <1>3, <1>4, <1>5, <1>8, <2>3, <2>4, <2>5, <2>6 DEF SenderIdInv
  <2> QED BY <1>1, <2>2, <2>7, IdInvParts
<1>9. CASE aSendPc = "header"
  <2>1. Len(wire') = n + 1 /\ wire'[n + 1] = Header(f, FALSE)  BY <1>0, <1>3, <1>9, WireWritten
  <2>2. wire'[n + 1].what = "header" /\ wire'[n + 1].slot = aLocalId[f]  BY <2>1 DEF Header
  <2>3. Known(f, n + 1)'  BY <1>1, <1>3, <1>5, <1>6, <1>9 DEF Announcing
  <2>4. WireIds(n + 1)'  BY <1>2, <1>3, <2>2, <2>3 DEF WireIds
  <2> QED BY <1>8, <1>9, <2>1, <2>2, <2>4
<1>10. CASE aSendPc = "body"
  <2>1. Len(wire') = n + 1 /\ wire'[n + 1] = Body(aSendOp)  BY <1>0, <1>3, <1>10, WireWritten
  <2>2. wire'[n + 1].what = "body" /\ wire'[n + 1].message = aSendOp  BY <2>1 DEF Body
  <2>3. aLocalId[f] = SlotAt(n + 1)'  BY <1>1, <1>3, <1>6, <1>10 DEF IdInv
  <2>4. aSendOp <= aNumSends  BY <1>3, SenderIds
  <2>5. WireIds(n + 1)'  BY <1>2, <1>3, <2>2, <2>3, <2>4 DEF WireIds
  <2>6. aSendPc' # "body"  BY <1>10 DEF Writing
  <2> QED BY <1>8, <1>10, <2>1, <2>2, <2>5, <2>6
<1> QED BY <1>7, <1>9, <1>10 DEF Writing

\* A read: every piece is one place nearer, and the slot of a header is now bSlot.
LEMMA IdRead ==
    ASSUME SenderOK, LocalIds, FrameInv, IdInv, wire # <<>>, wire' = Tail(wire), UNCHANGED aVars,
           \A f \in Fork : \A i \in 1..Len(wire) : Known(f, i)' <=> Known(f, i + 1),
           wire[1].what = "header" => bSlot' = wire[1].slot,
           ReceiverIdInv'
    PROVE  IdInv'
<1>1. /\ wire' \in Seq(Piece) /\ Len(wire) \in Nat \ {0} /\ Len(wire') = Len(wire) - 1
      /\ \A i \in 1..Len(wire') : i + 1 \in 1..Len(wire) /\ wire'[i] = wire[i + 1]
      /\ wire \in Seq(Piece)
  BY WireRead DEF FrameInv
<1>2. UNCHANGED <<aLocalId, aNumSends, aFork, aSendPc, aSendOp, aSendEc, aInitiated>>  BY DEF aVars
<1>3. ASSUME NEW i \in 1..Len(wire), i # 1 \/ wire[1].what = "header" PROVE SlotAt(i)' = SlotAt(i + 1)
  <2>1. i + 1 # 1 /\ (i + 1) - 1 = i  BY <1>1
  <2>2. CASE i = 1  BY <1>3, <2>1, <2>2 DEF SlotAt
  <2>3. CASE i # 1
    <3>1. i - 1 \in 1..Len(wire') /\ (i - 1) + 1 = i  BY <1>1, <2>3
    <3> QED BY <1>1, <2>1, <2>3, <3>1 DEF SlotAt
  <2> QED BY <2>2, <2>3
<1>4. ASSUME NEW i \in 1..Len(wire') PROVE WireIds(i)'
  <2>1. i \in 1..Len(wire) /\ i + 1 \in 1..Len(wire) /\ wire'[i] = wire[i + 1]  BY <1>1
  <2>2. WireIds(i + 1)  BY <2>1, IdInvParts
  <2>3. \A f \in Fork : Known(f, i)' <=> Known(f, i + 1)  BY <2>1
  <2>4. wire[i + 1] \in Piece  BY <1>1, <2>1
  <2>5. CASE wire[i + 1].what = "header"  BY <1>2, <2>1, <2>2, <2>3, <2>5 DEF WireIds
  <2>6. CASE wire[i + 1].what # "header"
    <3>1. i # 1 \/ wire[1].what = "header"
      <4>1. CASE i = 1
        <5>1. wire[1 + 1].what = After(wire[1])  BY <1>1, <2>1, <4>1 DEF FrameInv
        <5> QED BY <2>6, <4>1, <5>1 DEF After
      <4> QED BY <4>1
    <3>2. SlotAt(i)' = SlotAt(i + 1)  BY <1>3, <2>1, <3>1
    <3>3. wire[i + 1].what = "session" => wire[i + 1].fork \in Fork  BY <2>4, PieceParts
    <3> QED BY <1>2, <2>1, <2>2, <2>3, <2>6, <3>2, <3>3 DEF WireIds
  <2> QED BY <2>5, <2>6
<1>5. Len(wire') + 1 = Len(wire) /\ Len(wire) \in 1..Len(wire)  BY <1>1
<1>6. \A f \in Fork : Known(f, Len(wire) + 1)' <=> Known(f, Len(wire) + 1)
  <2> TAKE f \in Fork
  <2>1. Known(f, Len(wire) + 1)' <=> (bRemoteId'[f] # 0 \/ \E j \in 1..(Len(wire) - 1) : wire'[j] = Session(f)')
    BY <1>1, <1>5 DEF Known
  <2>2. \A k : Known(f, k)' <=> (bRemoteId'[f] # 0 \/ \E j \in 1..(k - 1) : wire'[j] = Session(f)')
    BY DEF Known
  <2>3. Known(f, Len(wire))' => Known(f, Len(wire) + 1)  BY <1>5, <2>1, <2>2
  <2> QED BY <1>5, <2>1, <2>2
<1>7. aSendPc = "body" => aLocalId[aFork[aSendOp]] = SlotAt(Len(wire) + 1)'
  <2> SUFFICES ASSUME aSendPc = "body" PROVE aLocalId[aFork[aSendOp]] = SlotAt(Len(wire) + 1)'
    OBVIOUS
  <2>1. After(wire[Len(wire)]) = "body"  BY <1>1 DEF FrameInv, Writes, SenderLives, SenderOK
  <2>2. wire[Len(wire)].what = "header"  BY <2>1 DEF After
  <2>3. SlotAt(Len(wire) + 1) = wire[Len(wire)].slot
    <3>1. Len(wire) + 1 # 1 /\ (Len(wire) + 1) - 1 = Len(wire)  BY <1>1
    <3> QED BY <3>1 DEF SlotAt
  <2>4. SlotAt(Len(wire) + 1)' = wire[Len(wire)].slot
    <3>1. CASE Len(wire) = 1  BY <1>1, <1>5, <2>2, <3>1 DEF SlotAt
    <3>2. CASE Len(wire) # 1
      <4>1. Len(wire') \in 1..Len(wire') /\ Len(wire') + 1 # 1 /\ (Len(wire') + 1) - 1 = Len(wire')
        BY <1>1, <3>2
      <4>2. wire'[Len(wire')] = wire[Len(wire)]  BY <1>1, <1>5, <4>1
      <4> QED BY <4>1, <4>2 DEF SlotAt
    <3> QED BY <3>1, <3>2
  <2> QED BY <2>3, <2>4 DEF IdInv
<1>8. \A f \in Fork : (Announcing(f)' <=> Announcing(f))  BY <1>2 DEF Announcing
<1>9. SenderLives' <=> SenderLives  BY <1>2 DEF SenderLives
<1>10. SenderIdInv'
  BY <1>2, <1>6, <1>7, <1>8, <1>9, IdInvParts DEF SenderIdInv
<1> QED BY <1>4, <1>10, IdInvParts

\* B knows a fork from the moment it reads the session, so what it knows at
\* each piece does not change with a read.
LEMMA KnownShift ==
    ASSUME wire \in Seq(Piece), wire # <<>>, wire' = Tail(wire), NEW f \in Fork,
           bRemoteId'[f] # 0 <=> (bRemoteId[f] # 0 \/ wire[1] = Session(f))
    PROVE  \A i \in 1..Len(wire) : Known(f, i)' <=> Known(f, i + 1)
<1> TAKE i \in 1..Len(wire)
<1>1. /\ Len(wire) \in Nat \ {0} /\ Len(wire') = Len(wire) - 1
      /\ \A j \in 1..Len(wire') : wire'[j] = wire[j + 1]
  BY WireRead
<1>2. Session(f)' = Session(f)  BY DEF Session
<1>3. /\ \A j \in 1..(i - 1) : wire'[j] = wire[j + 1] /\ j + 1 \in 1..((i + 1) - 1)
      /\ 1 \in 1..((i + 1) - 1)
      /\ \A j \in 1..((i + 1) - 1) : j = 1 \/ (j - 1 \in 1..(i - 1) /\ wire'[j - 1] = wire[j])
  <2>1. \A j \in 1..(i - 1) : j \in 1..Len(wire') /\ j + 1 \in 1..((i + 1) - 1)  BY <1>1
  <2>2. \A j \in 1..((i + 1) - 1) : j = 1 \/ (j - 1 \in 1..(i - 1) /\ (j - 1) + 1 = j)  BY <1>1
  <2>3. 1 \in 1..((i + 1) - 1)  BY <1>1
  <2> QED BY <1>1, <2>1, <2>2, <2>3
<1>4. Known(f, i)' <=> (bRemoteId'[f] # 0 \/ \E j \in 1..(i - 1) : wire'[j] = Session(f))
  BY <1>2 DEF Known
<1>5. Known(f, i + 1) <=> (bRemoteId[f] # 0 \/ \E j \in 1..((i + 1) - 1) : wire[j] = Session(f))
  BY DEF Known
<1>6. ASSUME Known(f, i)' PROVE Known(f, i + 1)
  <2>1. CASE bRemoteId'[f] # 0  BY <1>3, <1>5, <2>1
  <2>2. ASSUME NEW j \in 1..(i - 1), wire'[j] = Session(f) PROVE Known(f, i + 1)
    <3>1. wire[j + 1] = Session(f) /\ j + 1 \in 1..((i + 1) - 1)  BY <1>3, <2>2
    <3> QED BY <1>5, <3>1
  <2> QED BY <1>4, <1>6, <2>1, <2>2
<1>7. ASSUME Known(f, i + 1) PROVE Known(f, i)'
  <2>1. CASE bRemoteId[f] # 0  BY <1>4, <2>1
  <2>2. ASSUME NEW j \in 1..((i + 1) - 1), wire[j] = Session(f) PROVE Known(f, i)'
    BY <1>3, <1>4, <2>2
  <2> QED BY <1>5, <1>7, <2>1, <2>2
<1> QED BY <1>6, <1>7

\* The steps of A.
LEMMA IdStepA ==
    ASSUME SenderOK, LocalIds, FrameInv, IdInv, SenderStep
    PROVE  IdInv'
<1>0. UNCHANGED bVars  BY SenderMoves
<1>1. CASE Writing  BY <1>0, <1>1, IdWrite
<1>2. CASE Closing
  BY <1>0, <1>2, IdQuietA, SenderIds DEF Closing
<1>3. CASE GoingIdle \/ Exiting \/ Failing
  BY <1>0, <1>3, IdQuietA, SenderIds DEF GoingIdle, Exiting, Failing, SenderLives
<1>4. CASE GoingOn
  <2>1. aList[2] \in ToSet(aList)
    <3>1. 2 \in 1..Len(aList)  BY <1>4 DEF GoingOn, SenderOK
    <3> QED BY <3>1, InToSet DEF SenderOK
  <2>2. aList[2] \in 1..aNumSends  BY <2>1 DEF SenderOK, A!Pending, Id
  <2>3. aFork[aList[2]] \in Fork /\ aLocalId[aFork[aList[2]]] # 0  BY <2>2, SenderIds DEF LocalIds
  <2>4. PICK o, f : o = aList[2] /\ f = aFork[aList[2]]  OBVIOUS
  <2>5. PicksUp(o, f)  BY <1>4, <2>4 DEF GoingOn, PicksUp
  <2>6. /\ UNCHANGED <<wire, aLocalId, aSendEc, aNumSends, aFork>> /\ aSendPc = "next" /\ aSendEc = "success"
        /\ aNumSends' \in Nat /\ aNumSends <= aNumSends'
    BY <1>4, SenderIds DEF GoingOn
  <2> QED BY <1>0, <2>3, <2>4, <2>5, <2>6, IdPicksUp
<1>5. ASSUME NEW f \in Fork, NEW st, Issues(f, st)
      PROVE  /\ aNumSends' \in Nat /\ aNumSends <= aNumSends'
             /\ \A p \in 1..aNumSends : aFork'[p] = aFork[p]
             /\ aFork'[aNumSends + 1] = f
             /\ UNCHANGED <<aLocalId, wire, aSendEc>> /\ aLocalId[f] # 0
  <2>1. aNumSends + 1 \in Id /\ 1..aNumSends \subseteq Id /\ aNumSends + 1 \notin 1..aNumSends
    BY <1>5, SenderIds DEF Issues, Id
  <2> QED BY <1>5, <2>1, SenderIds DEF Issues, SenderOK
<1>6. ASSUME NEW f \in Fork, Waking(f) PROVE IdInv'
  <2>1. /\ aNumSends' \in Nat /\ aNumSends <= aNumSends'
        /\ \A p \in 1..aNumSends : aFork'[p] = aFork[p]
        /\ aFork'[aNumSends + 1] = f
        /\ UNCHANGED <<aLocalId, wire, aSendEc>> /\ aLocalId[f] # 0
    BY <1>5, <1>6 DEF Waking
  <2>2. aSendPc = "idle" /\ aSendEc = "success" /\ PicksUp(aNumSends + 1, f)  BY <1>6 DEF Waking, SenderOK
  <2>3. PICK o : o = aNumSends + 1  OBVIOUS
  <2>4. PicksUp(o, f) /\ aFork'[o] = f  BY <2>1, <2>2, <2>3 DEF PicksUp
  <2> QED BY <1>0, <2>1, <2>2, <2>4, IdPicksUp
<1>7. ASSUME NEW f \in Fork, Queueing(f) PROVE IdInv'
  <2>1. /\ aNumSends' \in Nat /\ aNumSends <= aNumSends'
        /\ \A p \in 1..aNumSends : aFork'[p] = aFork[p]
        /\ UNCHANGED <<aLocalId, wire, aSendEc>>
    BY <1>5, <1>7 DEF Queueing
  <2> QED BY <1>0, <1>7, <2>1, IdQuietA DEF Queueing
<1>8. ASSUME NEW f \in Fork, Forking(f) PROVE IdInv'
  <2>1. \A g \in Fork : aLocalId[g] # 0 => aLocalId'[g] = aLocalId[g]  BY <1>8 DEF Forking, SenderOK
  <2> QED BY <1>0, <1>8, <2>1, IdQuietA, SenderIds DEF Forking
<1> QED BY <1>1, <1>2, <1>3, <1>4, <1>6, <1>7, <1>8, SenderMoves

\* The reads of B.
LEMMA IdReads ==
    ASSUME SenderOK, ReceiverOK, LocalIds, FrameInv, IdInv, UNCHANGED aVars,
           ReadsHeader \/ LearnsFork \/ ReadsBody
    PROVE  IdInv'
<1>0. /\ wire \in Seq(Piece) /\ wire # <<>> /\ wire' = Tail(wire)
      /\ 1 \in 1..Len(wire) /\ wire[1] \in Piece
  BY DEF ReadsHeader, LearnsFork, ReadsBody, Takes, FrameInv
<1>1. WireIds(1) /\ UNCHANGED <<aLocalId, aFork>>  BY <1>0, IdInvParts DEF aVars
<1>2. CASE ReadsHeader
  <2>1. \A f : wire[1] # Session(f)  BY <1>2 DEF ReadsHeader, Takes, Session
  <2>2. \A f \in Fork : \A i \in 1..Len(wire) : Known(f, i)' <=> Known(f, i + 1)
    <3> TAKE f \in Fork
    <3>1. bRemoteId'[f] # 0 <=> (bRemoteId[f] # 0 \/ wire[1] = Session(f))  BY <1>2, <2>1 DEF ReadsHeader
    <3> QED BY <1>0, <3>1, KnownShift
  <2>3. ReceiverIdInv'
    <3>1. CASE wire[1].control
      BY <1>1, <1>2, <3>1, IdInvParts DEF ReadsHeader, ReceiverIdInv, Reads
    <3>2. CASE ~wire[1].control
      <4>1. PICK f \in Fork : wire[1].slot = aLocalId[f] /\ Known(f, 1)
        BY <1>1, <1>2, <3>2 DEF ReadsHeader, Takes, WireIds
      <4>2. bRemoteId[f] # 0  BY <4>1 DEF Known
      <4>3. bRemoteId[f] = aLocalId[f]  BY <4>2, IdInvParts DEF ReceiverIdInv
      <4>4. bRemoteId'[f] = bSlot'  BY <1>2, <4>1, <4>3 DEF ReadsHeader
      <4> QED BY <1>1, <1>2, <3>2, <4>4, IdInvParts DEF ReadsHeader, ReceiverIdInv
    <3> QED BY <3>1, <3>2
  <2>4. bSlot' = wire[1].slot  BY <1>2 DEF ReadsHeader
  <2> QED BY <1>0, <2>2, <2>3, <2>4, IdRead
<1>3. CASE LearnsFork
  <2>1. wire[1].what = "session" /\ wire[1].fork \in Fork /\ wire[1] = Session(wire[1].fork)
    BY <1>0, <1>3 DEF LearnsFork, Takes, Piece, Session
  <2>2. PICK h \in Fork : h = wire[1].fork  BY <2>1
  <2>3. \A f : wire[1] = Session(f) <=> f = h  BY <2>1, <2>2 DEF Session
  <2>4. bSlot = aLocalId[h]  BY <1>1, <2>1, <2>2 DEF WireIds, SlotAt
  <2>5. bSlot # 0
    <3>1. Known(h, Len(wire) + 1)
      <4>1. 1 \in 1..((Len(wire) + 1) - 1)  BY <1>0
      <4> QED BY <2>3, <4>1 DEF Known
    <3> QED BY <2>4, <3>1 DEF IdInv
  <2>6. \A f \in Fork : bRemoteId'[f] = IF f = h THEN bSlot ELSE bRemoteId[f]
    BY <1>3, <2>2 DEF LearnsFork, ReceiverOK
  <2>7. \A f \in Fork : \A i \in 1..Len(wire) : Known(f, i)' <=> Known(f, i + 1)
    <3> TAKE f \in Fork
    <3>1. bRemoteId'[f] # 0 <=> (bRemoteId[f] # 0 \/ wire[1] = Session(f))  BY <2>3, <2>5, <2>6
    <3> QED BY <1>0, <3>1, KnownShift
  <2>8. ReceiverIdInv'
    BY <1>1, <1>3, <2>4, <2>6, IdInvParts DEF LearnsFork, ReceiverIdInv, Reads
  <2> QED BY <1>0, <2>1, <2>7, <2>8, IdRead
<1>4. CASE ReadsBody
  <2>1. wire[1].what = "body" /\ \A f : wire[1] # Session(f)  BY <1>4 DEF ReadsBody, Takes, Session
  <2>2. \A f \in Fork : \A i \in 1..Len(wire) : Known(f, i)' <=> Known(f, i + 1)
    <3> TAKE f \in Fork
    <3>1. bRemoteId'[f] # 0 <=> (bRemoteId[f] # 0 \/ wire[1] = Session(f))  BY <1>4, <2>1 DEF ReadsBody
    <3> QED BY <1>0, <3>1, KnownShift
  <2>3. ReceiverIdInv'
    BY <1>1, <1>4, IdInvParts DEF ReadsBody, ReceiverIdInv, Reads
  <2> QED BY <1>0, <2>1, <2>2, <2>3, IdRead
<1> QED BY <1>2, <1>3, <1>4

\* The steps of B that do not read: what is known of the stream stays.
LEMMA IdQuietB ==
    ASSUME IdInv, UNCHANGED <<aVars, wire, bSlot, bRemoteId>>, ReceiverIdInv'
    PROVE  IdInv'
<1>1. UNCHANGED <<aLocalId, aNumSends, aFork, aSendPc, aSendOp, aSendEc, aInitiated>>  BY DEF aVars
<1>2. \A i : SlotAt(i)' = SlotAt(i)  BY DEF SlotAt
<1>3. \A f, i : Known(f, i)' <=> Known(f, i)  BY DEF Known, Session
<1>4. \A i \in 1..Len(wire') : WireIds(i)'  BY <1>1, <1>2, <1>3, IdInvParts DEF WireIds
<1>5. \A f : Announcing(f)' <=> Announcing(f)  BY <1>1 DEF Announcing
<1>6. SenderIdInv'  BY <1>1, <1>2, <1>3, <1>5, IdInvParts DEF SenderIdInv, SenderLives
<1> QED BY <1>4, <1>6, IdInvParts

\* The recv that B issues next, and the front of a fork's queue.
LEMMA ReceiverIds ==
    ASSUME ReceiverOK
    PROVE  /\ NumMessages \in Nat /\ bNumIssued \in Nat /\ bNumIssued <= NumMessages
           /\ 1..bNumIssued \subseteq Id /\ Id \subseteq Nat
           /\ bRecvOp # 0 => bRecvOp \in 1..bNumIssued /\ bRecvOp \in Id
           /\ \A f \in Fork : bRecvOps[f] # <<>> =>
                /\ Head(bRecvOps[f]) \in Id /\ Head(bRecvOps[f]) = bRecvOps[f][1]
                /\ bFork[Head(bRecvOps[f])] = f
                /\ Head(bRecvOps[f]) \in B!Pending(bStatus)
                /\ \A o \in B!Pending(bStatus) : bFork[o] = f => Head(bRecvOps[f]) <= o
<1>1. /\ NumMessages \in Nat /\ bNumIssued \in Nat /\ bNumIssued <= NumMessages
      /\ 1..bNumIssued \subseteq Id /\ Id \in SUBSET Nat
  BY PairAssumption DEF PairAssumption, ReceiverOK, Id
<1>2. bRecvOp # 0 => bRecvOp \in 1..bNumIssued /\ bRecvOp \in Id
  <2>1. bRecvOp # 0 => bRecvOp \in Id /\ bStatus[bRecvOp] # "unused"  BY DEF ReceiverOK
  <2> QED BY <1>1, <2>1 DEF ReceiverOK, Id
<1>3. ASSUME NEW f \in Fork, bRecvOps[f] # <<>>
      PROVE  /\ Head(bRecvOps[f]) \in Id /\ Head(bRecvOps[f]) = bRecvOps[f][1]
             /\ bFork[Head(bRecvOps[f])] = f
             /\ Head(bRecvOps[f]) \in B!Pending(bStatus)
             /\ \A o \in B!Pending(bStatus) : bFork[o] = f => Head(bRecvOps[f]) <= o
  <2>1. bRecvOps[f] \in Seq(Id) /\ Increasing(bRecvOps[f])
        /\ ToSet(bRecvOps[f]) = {o \in B!Pending(bStatus) : bFork[o] = f}
    BY DEF ReceiverOK
  <2>2. Head(bRecvOps[f]) = bRecvOps[f][1] /\ Head(bRecvOps[f]) \in Id  BY <1>3, <2>1
  <2>3. /\ bRecvOps[f][1] \in ToSet(bRecvOps[f])
        /\ \A x \in ToSet(bRecvOps[f]) : bRecvOps[f][1] <= x
    BY <1>1, <1>3, <2>1, FirstOfIncreasing
  <2> QED BY <2>1, <2>2, <2>3
<1> QED BY <1>1, <1>2, <1>3

\* Every step keeps the agreement on the ids.
LEMMA IdStep ==
    ASSUME SenderOK, ReceiverOK, LocalIds, FrameInv, IdInv, FailInv, [Next]_vars
    PROVE  IdInv'
<1>1. CASE SenderStep  BY <1>1, IdStepA
<1>2. CASE ReceiverStep
  <2>0. UNCHANGED aVars /\ UNCHANGED aLocalId  BY <1>2, ReceiverMoves DEF aVars
  <2>1. CASE ReadsHeader \/ LearnsFork \/ ReadsBody  BY <2>0, <2>1, IdReads
  <2>2. CASE Looks \/ Finishes \/ GivesUp \/ LosesPeer \/ BForks
    <3>1. UNCHANGED <<wire, bSlot, bRemoteId>>
      BY <2>2 DEF Looks, Finishes, GivesUp, LosesPeer, BForks
    <3>2. ReceiverIdInv'
      BY <2>0, <2>2, IdInvParts DEF Looks, Finishes, GivesUp, LosesPeer, BForks, ReceiverIdInv, Reads
    <3> QED BY <2>0, <3>1, <3>2, IdQuietB
  <2>3. ASSUME NEW f \in Fork, Finds(f) PROVE IdInv'
    <3>1. bFork[bRecvOp'] = f  BY <2>3, ReceiverIds DEF Finds
    <3>2. ReceiverIdInv'
      BY <2>0, <2>3, <3>1, IdInvParts DEF Finds, ReceiverIdInv, Reads
    <3> QED BY <2>0, <2>3, <3>2, IdQuietB DEF Finds
  <2>4. ASSUME NEW f \in Fork, NEW st \in {"NotStarted", "InProgress"}, Asks(f, st) PROVE IdInv'
    <3>1. bNumIssued + 1 \in Id /\ bRecvOp # bNumIssued + 1
      BY <2>4, ReceiverIds DEF Asks, Id
    <3>2. bFork'[bNumIssued + 1] = f  BY <2>4, <3>1 DEF Asks, ReceiverOK
    <3>3. bRecvOp # 0 => bFork'[bRecvOp] = bFork[bRecvOp]
      BY <2>4, <3>1, ReceiverIds DEF Asks, ReceiverOK
    <3>4. Reads' = "body" => Reads = "body"  BY <2>4 DEF Asks, Reads
    <3>5. bRecvPc' \in {"gotOp", "body"} => bRemoteId'[bFork'[bRecvOp']] = bSlot'
      BY <2>4, <3>2, <3>3, IdInvParts DEF Asks, ReceiverIdInv, ReceiverOK
    <3>6. ReceiverIdInv'
      BY <2>0, <2>4, <3>4, <3>5, IdInvParts DEF Asks, ReceiverIdInv
    <3> QED BY <2>0, <2>4, <3>6, IdQuietB DEF Asks
  <2> QED BY <1>2, <2>1, <2>2, <2>3, <2>4, ReceiverMoves, Understood
<1>3. CASE UNCHANGED vars
  <2>1. ReceiverIdInv'  BY <1>3, IdInvParts DEF vars, aVars, bVars, ReceiverIdInv, Reads
  <2> QED BY <1>3, <2>1, IdQuietB DEF vars, bVars
<1> QED BY <1>1, <1>2, <1>3 DEF Next
-----------------------------------------------------------------------------
(* The order of the messages of a fork *)

\* What was sent was issued, and B's recvs that are done were too.
LEMMA SentIssued ==
    ASSUME SenderOK
    PROVE  ToSet(aSent) \subseteq 1..aNumSends /\ ToSet(aSent) \subseteq Id
<1>1. ToSet(aSent) \subseteq Id
  <2>1. \A i \in 1..Len(aSent) : aSent[i] \in Id  BY DEF SenderOK
  <2> QED BY <2>1, InToSet DEF SenderOK
<1>2. ASSUME NEW m \in ToSet(aSent) PROVE m \in 1..aNumSends
  <2>1. CASE aStatus[m] = "completed"  BY <1>1, <2>1, SenderIds DEF SenderOK, Id
  <2>2. CASE m = aSendOp /\ aSendPc = "next"
    <3>1. aSendOp \in ToSet(aList)
      <4>1. 1 \in 1..Len(aList) /\ aList[1] = aSendOp  BY <2>2 DEF SenderOK
      <4> QED BY <4>1, InToSet DEF SenderOK
    <3>2. aStatus[m] # "unused"  BY <2>2, <3>1 DEF SenderOK, A!Pending
    <3> QED BY <1>1, <3>2, SenderIds DEF SenderOK, Id
  <2> QED BY <2>1, <2>2 DEF SenderOK
<1> QED BY <1>1, <1>2

\* A step that touches neither the stream nor what was sent or received.
LEMMA FifoQuiet ==
    ASSUME SenderOK, ReceiverOK, FifoInv, UNCHANGED <<wire, got, aSent>>,
           bNumIssued' \in Nat, bNumIssued <= bNumIssued',
           \A m \in 1..aNumSends : aFork'[m] = aFork[m],
           \A o \in 1..bNumIssued : bFork'[o] = bFork[o],
           \A o \in Id : got[o] # 0 =>
               bStatus'[o] = "completed" \/ (o = bRecvOp' /\ bRecvPc' = "any" /\ bRecvEc' = "success"),
           SendsInOrder', RecvsInOrder'
    PROVE  FifoInv'
<1>1. \A i : IsBody(i)' <=> IsBody(i)  BY DEF IsBody
<1>2. WireOrder'  BY <1>1 DEF FifoInv, WireOrder
<1>3. ASSUME NEW o \in Id, got[o] # 0 PROVE GotInv(o)'
  <2>1. GotInv(o)  BY <1>3 DEF FifoInv
  <2>2. o \in 1..bNumIssued /\ o <= bNumIssued'  BY <2>1, ReceiverIds DEF GotInv, Id
  <2>3. got[o] \in 1..aNumSends  BY <2>1, SentIssued DEF GotInv
  <2>4. \A p \in 1..(o - 1) : p \in 1..bNumIssued  BY <2>2, ReceiverIds
  <2>5. \A i \in 1..Len(wire') : IsBody(i)' => got'[o] < wire'[i].message  BY <1>1, <2>1 DEF GotInv
  <2>6. \A p \in 1..(o - 1) : bFork'[p] = bFork'[o] => got'[p] # 0 /\ got'[p] < got'[o]
    BY <2>1, <2>2, <2>4 DEF GotInv
  <2> QED BY <1>3, <2>1, <2>2, <2>3, <2>5, <2>6 DEF GotInv
<1> QED BY <1>2, <1>3 DEF FifoInv

\* The steps of A that do not write.
LEMMA FifoQuietA ==
    ASSUME SenderOK, ReceiverOK, FifoInv, SenderStep, ~Writing
    PROVE  FifoInv'
<1>0. UNCHANGED <<bVars, got>>  BY SenderMoves
<1>1. UNCHANGED <<bNumIssued, bFork, bStatus, bRecvOp, bRecvPc, bRecvEc, bEC>>  BY <1>0 DEF bVars
<1>2. RecvsInOrder'  BY <1>0, <1>1 DEF FifoInv, RecvsInOrder, ReceiverLives, B!Pending
<1>3. \A o \in Id : got[o] # 0 =>
        bStatus'[o] = "completed" \/ (o = bRecvOp' /\ bRecvPc' = "any" /\ bRecvEc' = "success")
  BY <1>1 DEF FifoInv, GotInv
<1>4. ASSUME UNCHANGED <<wire, aSent>>, \A m \in 1..aNumSends : aFork'[m] = aFork[m],
             SenderLives' => SenderLives /\ \A m \in 1..aNumSends' :
                 m \in A!Pending(aStatus)' \/ m \in ToSet(aSent) 
      PROVE  FifoInv'
  <2>1. SendsInOrder'  BY <1>4 DEF FifoInv, SendsInOrder
  <2> QED BY <1>0, <1>1, <1>2, <1>3, <1>4, <2>1, FifoQuiet, ReceiverIds
<1>5. SenderLives => \A m \in 1..aNumSends : m \in A!Pending(aStatus) \/ m \in ToSet(aSent)
  BY DEF FifoInv, SendsInOrder
<1>6. CASE Closing \/ \E f \in Fork : Forking(f)
  BY <1>4, <1>5, <1>6 DEF Closing, Forking, SenderLives, A!Pending
<1>7. CASE Exiting \/ Failing
  <2>1. ~SenderLives'  BY <1>7 DEF Exiting, Failing, SenderLives
  <2> QED BY <1>4, <1>7, <2>1 DEF Exiting, Failing
<1>8. CASE GoingOn \/ GoingIdle
  <2>1. SenderLives /\ aSendOp \in ToSet(aSent)  BY <1>8 DEF GoingOn, GoingIdle, SenderLives, SenderOK
  <2>2. \A m \in Id : m # aSendOp /\ aStatus[m] \notin {"unused", "refused", "completed"}
                        => aStatus'[m] \notin {"unused", "refused", "completed"}
    BY <1>8 DEF GoingOn, GoingIdle, SenderOK
  <2>3. DOMAIN aStatus = Id /\ DOMAIN aStatus' = Id  BY <1>8 DEF GoingOn, GoingIdle, SenderOK
  <2>4. \A m \in A!Pending(aStatus) : m = aSendOp \/ m \in A!Pending(aStatus)'  BY <2>2, <2>3 DEF A!Pending
  <2>5. UNCHANGED <<wire, aSent, aFork, aNumSends>>  BY <1>8 DEF GoingOn, GoingIdle
  <2> QED BY <1>4, <1>5, <2>1, <2>4, <2>5
<1>9. ASSUME NEW f \in Fork, NEW st \in {"NotStarted", "InProgress"}, Issues(f, st), SenderLives' => SenderLives
      PROVE  FifoInv'
  <2>1. aNumSends + 1 \in Id /\ 1..aNumSends \subseteq Id /\ aNumSends + 1 \notin 1..aNumSends
        /\ \A m \in 1..aNumSends' : m \in 1..aNumSends \/ m = aNumSends + 1
    BY <1>9, SenderIds DEF Issues, Id
  <2>2. \A m \in 1..aNumSends : aFork'[m] = aFork[m]  BY <1>9, <2>1 DEF Issues, SenderOK
  <2>3. /\ DOMAIN aStatus' = Id /\ DOMAIN aStatus = Id
        /\ aStatus'[aNumSends + 1] = st
        /\ \A m \in 1..aNumSends : aStatus'[m] = aStatus[m]
    BY <1>9, <2>1 DEF Issues, SenderOK
  <2>4. aNumSends + 1 \in A!Pending(aStatus)'  BY <2>1, <2>3 DEF A!Pending
  <2>5. \A m \in 1..aNumSends : m \in A!Pending(aStatus) => m \in A!Pending(aStatus)'
    BY <2>1, <2>3 DEF A!Pending
  <2>6. UNCHANGED <<wire, aSent>>  BY <1>9 DEF Issues
  <2> QED BY <1>4, <1>5, <1>9, <2>1, <2>2, <2>4, <2>5, <2>6
<1>10. CASE \E f \in Fork : Waking(f) \/ Queueing(f)
  <2>1. ASSUME NEW f \in Fork, Waking(f) PROVE FifoInv'
    <3>1. SenderLives  BY <2>1 DEF Waking, SenderOK, SenderLives
    <3> QED BY <1>9, <2>1, <3>1 DEF Waking
  <2>2. ASSUME NEW f \in Fork, Queueing(f) PROVE FifoInv'
    <3>1. SenderLives' => SenderLives  BY <2>2 DEF Queueing, Issues, SenderLives
    <3> QED BY <1>9, <2>2, <3>1 DEF Queueing
  <2> QED BY <1>10, <2>1, <2>2
<1> QED BY <1>6, <1>7, <1>8, <1>10, SenderMoves

\* The steps of B that do not read.
LEMMA FifoQuietB ==
    ASSUME SenderOK, ReceiverOK, LocalIds, FrameInv, IdInv, FailInv, FifoInv, ReceiverStep,
           ~ReadsHeader, ~LearnsFork, ~ReadsBody
    PROVE  FifoInv'
<1>0. UNCHANGED <<aSent, aFork, aNumSends, aStatus, aSendPc, aSendEc>>  BY ReceiverMoves DEF aVars
<1>1. SendsInOrder'  BY <1>0 DEF FifoInv, SendsInOrder, SenderLives, A!Pending
<1>2. ASSUME UNCHANGED <<wire, got, bFork, bNumIssued>>,
             \A o \in Id : got[o] # 0 =>
               bStatus'[o] = "completed" \/ (o = bRecvOp' /\ bRecvPc' = "any" /\ bRecvEc' = "success"),
             RecvsInOrder'
      PROVE  FifoInv'
  BY <1>0, <1>1, <1>2, FifoQuiet, ReceiverIds
<1>3. \A o \in Id : got[o] # 0 =>
        bStatus[o] = "completed" \/ (o = bRecvOp /\ bRecvPc = "any" /\ bRecvEc = "success")
  BY DEF FifoInv, GotInv
<1>4. /\ ReceiverLives => \A o \in 1..bNumIssued : o \in B!Pending(bStatus) \/ got[o] # 0
      /\ bRecvPc = "any" /\ bRecvEc = "success" => got[bRecvOp] # 0
  BY DEF FifoInv, RecvsInOrder
<1>5. CASE Looks \/ BForks
  <2>1. ReceiverLives' => ReceiverLives  BY <1>5 DEF Looks, BForks, ReceiverLives
  <2>2. RecvsInOrder'  BY <1>4, <1>5, <2>1 DEF Looks, BForks, RecvsInOrder, B!Pending
  <2> QED BY <1>2, <1>3, <1>5, <2>2 DEF Looks, BForks
<1>6. ASSUME NEW f \in Fork, Finds(f) PROVE FifoInv'
  <2>1. PICK h \in Id : h = Head(bRecvOps[f]) /\ h \in B!Pending(bStatus)  BY <1>6, ReceiverIds DEF Finds
  <2>2. bStatus[h] # "completed" /\ bRecvPc # "any"  BY <1>6, <2>1 DEF B!Pending, Finds
  <2>3. bStatus' = [bStatus EXCEPT ![h] = "InProgress"]  BY <1>6, <2>1 DEF Finds
  <2>4. \A o \in Id : got[o] # 0 => bStatus'[o] = "completed"  BY <1>3, <2>2, <2>3 DEF ReceiverOK
  <2>5. \A o \in B!Pending(bStatus) : o \in B!Pending(bStatus)'  BY <2>3 DEF B!Pending, ReceiverOK
  <2>6. ReceiverLives' => ReceiverLives  BY <1>6 DEF Finds, ReceiverLives
  <2>7. RecvsInOrder'  BY <1>4, <1>6, <2>5, <2>6 DEF Finds, RecvsInOrder
  <2> QED BY <1>2, <1>6, <2>4, <2>7 DEF Finds
<1>7. CASE Finishes
  <2>1. bRecvOp \in Id /\ got[bRecvOp] # 0  BY <1>4, <1>7, ReceiverIds DEF Finishes, ReceiverOK
  <2>2. bStatus' = [bStatus EXCEPT ![bRecvOp] = "completed"]  BY <1>7 DEF Finishes
  <2>3. \A o \in Id : got[o] # 0 => bStatus'[o] = "completed"  BY <1>3, <2>2 DEF ReceiverOK
  <2>4. \A o \in B!Pending(bStatus) : o = bRecvOp \/ o \in B!Pending(bStatus)'  BY <2>2 DEF B!Pending, ReceiverOK
  <2>5. ReceiverLives  BY <1>7 DEF Finishes, ReceiverLives
  <2>6. RecvsInOrder'  BY <1>4, <1>7, <2>1, <2>4, <2>5 DEF Finishes, RecvsInOrder
  <2> QED BY <1>2, <1>7, <2>3, <2>6 DEF Finishes
<1>8. CASE GivesUp
  <2>1. bRecvEc # "success"  BY <1>8 DEF GivesUp, FailInv
  <2>2. \A o \in Id : got[o] # 0 => bStatus'[o] = "completed"  BY <1>3, <1>8, <2>1 DEF GivesUp
  <2>3. RecvsInOrder'  BY <1>8 DEF GivesUp, RecvsInOrder, ReceiverLives
  <2> QED BY <1>2, <1>8, <2>2, <2>3 DEF GivesUp
<1>9. CASE LosesPeer
  <2>1. \A o \in Id : got[o] # 0 => bStatus'[o] = "completed"  BY <1>3, <1>9 DEF LosesPeer
  <2>2. RecvsInOrder'  BY <1>9 DEF LosesPeer, RecvsInOrder, ReceiverLives
  <2> QED BY <1>2, <1>9, <2>1, <2>2 DEF LosesPeer
<1>10. ASSUME NEW f \in Fork, NEW st \in {"NotStarted", "InProgress"}, Asks(f, st) PROVE FifoInv'
  <2>1. /\ bNumIssued + 1 \in Id /\ bNumIssued + 1 \notin 1..bNumIssued /\ 1..bNumIssued \subseteq Id
        /\ \A o \in 1..bNumIssued' : o \in 1..bNumIssued \/ o = bNumIssued + 1
        /\ bNumIssued' \in Nat /\ bNumIssued <= bNumIssued'
    BY <1>10, ReceiverIds DEF Asks, Id
  <2>2. got[bNumIssued + 1] = 0
    <3>1. ~(bNumIssued + 1 <= bNumIssued)  BY ReceiverIds
    <3> QED BY <2>1, <3>1 DEF FifoInv, GotInv
  <2>3. \A o \in 1..bNumIssued : bFork'[o] = bFork[o]  BY <1>10, <2>1 DEF Asks, ReceiverOK
  <2>4. /\ bStatus' = [bStatus EXCEPT ![bNumIssued + 1] = st]
        /\ \A o \in Id : o # bNumIssued + 1 => bStatus'[o] = bStatus[o]
        /\ bStatus'[bNumIssued + 1] = st /\ DOMAIN bStatus' = Id /\ DOMAIN bStatus = Id
    BY <1>10, <2>1 DEF Asks, ReceiverOK
  <2>5. bNumIssued + 1 \in B!Pending(bStatus)'  BY <2>1, <2>4 DEF B!Pending
  <2>6. \A o \in 1..bNumIssued : o \in B!Pending(bStatus) => o \in B!Pending(bStatus)'
    BY <2>1, <2>4 DEF B!Pending
  <2>7. /\ ReceiverLives' => ReceiverLives
        /\ bRecvPc' = "any" <=> bRecvPc = "any"
        /\ bRecvPc = "any" => bRecvOp' = bRecvOp
        /\ UNCHANGED <<wire, got, bRecvEc>>
    BY <1>10 DEF Asks, ReceiverLives
  <2>8. \A o \in Id : got[o] # 0 =>
          bStatus'[o] = "completed" \/ (o = bRecvOp' /\ bRecvPc' = "any" /\ bRecvEc' = "success")
    BY <1>3, <2>2, <2>4, <2>7
  <2>9. RecvsInOrder'
    <3>1. ReceiverLives' => \A o \in 1..bNumIssued' : o \in B!Pending(bStatus)' \/ got'[o] # 0
      BY <1>4, <2>1, <2>5, <2>6, <2>7
    <3> QED BY <1>4, <2>7, <3>1 DEF RecvsInOrder
  <2> QED BY <1>0, <1>1, <2>1, <2>3, <2>7, <2>8, <2>9, FifoQuiet
<1> QED BY <1>5, <1>6, <1>7, <1>8, <1>9, <1>10, ReceiverMoves, Understood

\* A write of something other than a body.
LEMMA FifoWriteHeader ==
    ASSUME SenderOK, ReceiverOK, LocalIds, FrameInv, FifoInv, Writing, UNCHANGED <<bVars, got>>, aSendPc # "body"
    PROVE  FifoInv'
<1>0. wire \in Seq(Piece) /\ Len(wire) \in Nat  BY DEF FrameInv
<1>1. PICK n \in Nat : n = Len(wire)  BY <1>0
<1>2. /\ Len(wire') \in Nat /\ n <= Len(wire')
      /\ \A i \in 1..n : wire'[i] = wire[i]
      /\ \A i \in 1..Len(wire') : i \in 1..n \/ wire'[i].what # "body"
  <2>1. \A i \in 1..n : wire'[i] = wire[i]  BY <1>0, <1>1, WireWritten
  <2>2. CASE aSendPc = "meta"
    <3>1. Len(wire') = n + 2 /\ wire'[n + 1].what # "body" /\ wire'[n + 2].what # "body"
      BY <1>0, <1>1, <2>2, WireWritten DEF Header, Session
    <3>2. \A i \in 1..(n + 2) : i \in 1..n \/ i = n + 1 \/ i = n + 2  OBVIOUS
    <3> QED BY <2>1, <3>1, <3>2
  <2>3. CASE aSendPc = "header"
    <3>1. Len(wire') = n + 1 /\ wire'[n + 1].what # "body"
      BY <1>0, <1>1, <2>3, WireWritten DEF Header
    <3>2. \A i \in 1..(n + 1) : i \in 1..n \/ i = n + 1  OBVIOUS
    <3> QED BY <2>1, <3>1, <3>2
  <2> QED BY <2>2, <2>3 DEF Writing
<1>3. \A i \in 1..n : i \in 1..Len(wire')  BY <1>2
<1>4. \A i : IsBody(i)' <=> IsBody(i)  BY <1>1, <1>2, <1>3 DEF IsBody
<1>5. \A i : IsBody(i) => i \in 1..n /\ wire'[i] = wire[i]  BY <1>1, <1>2 DEF IsBody
<1>6. UNCHANGED <<aSent, aFork, aNumSends, aStatus, aSendEc>> /\ SenderLives  BY DEF Writing, SenderOK, SenderLives
<1>7. UNCHANGED <<bNumIssued, bFork, bStatus, bRecvOp, bRecvPc, bRecvEc, bEC, got>>  BY DEF bVars
<1>8. WireOrder'
  <2>1. \A i, j \in 1..Len(wire') : IsBody(i)' /\ IsBody(j)' /\ i < j => wire'[i].message < wire'[j].message
    BY <1>1, <1>4, <1>5 DEF FifoInv, WireOrder
  <2>2. \A i \in 1..Len(wire') : IsBody(i)' => wire'[i].message \in ToSet(aSent')
    BY <1>1, <1>4, <1>5, <1>6 DEF FifoInv, WireOrder
  <2>3. \A m \in ToSet(aSent') :
          (\E o \in Id : got'[o] = m) \/ (\E i \in 1..Len(wire') : IsBody(i)' /\ wire'[i].message = m)
    BY <1>1, <1>3, <1>4, <1>5, <1>6, <1>7 DEF FifoInv, WireOrder
  <2> QED BY <2>1, <2>2, <2>3 DEF WireOrder
<1>9. SendsInOrder'  BY <1>6 DEF FifoInv, SendsInOrder, A!Pending
<1>10. RecvsInOrder'  BY <1>7 DEF FifoInv, RecvsInOrder, ReceiverLives, B!Pending
<1>11. ASSUME NEW o \in Id, got[o] # 0 PROVE GotInv(o)'
  <2>1. GotInv(o)  BY <1>11 DEF FifoInv
  <2>2. \A i \in 1..Len(wire') : IsBody(i)' => got'[o] < wire'[i].message  BY <1>1, <1>4, <1>5, <1>7, <2>1 DEF GotInv
  <2> QED BY <1>6, <1>7, <2>1, <2>2 DEF GotInv
<1> QED BY <1>7, <1>8, <1>9, <1>10, <1>11 DEF FifoInv

\* The body that A writes is of the oldest message that was not sent.
LEMMA NextBody ==
    ASSUME SenderOK, LocalIds, FifoInv, aSendPc = "body"
    PROVE  /\ aSendOp \in Id /\ aSendOp \in 1..aNumSends
           /\ \A m \in ToSet(aSent) : m < aSendOp
           /\ \A m \in 1..(aSendOp - 1) : m \in ToSet(aSent)
<1>1. aSendOp \in Id /\ aSendOp \in 1..aNumSends /\ aSendOp \in A!Pending(aStatus)  BY SenderOp
<1>2. aSendOp \notin ToSet(aSent)  BY <1>1 DEF SenderOK, A!Pending
<1>3. \A m \in ToSet(aSent) : m < aSendOp
  <2> TAKE m \in ToSet(aSent)
  <2>1. m <= aSendOp /\ m # aSendOp  BY <1>1, <1>2 DEF SenderOK
  <2>2. m \in Nat /\ aSendOp \in Nat  BY <1>1, SentIssued, SenderIds
  <2> QED BY <2>1, <2>2
<1>4. ASSUME NEW m \in 1..(aSendOp - 1) PROVE m \in ToSet(aSent)
  <2>1. m \in 1..aNumSends /\ m < aSendOp  BY <1>1, SenderIds
  <2>2. SenderLives  BY DEF SenderLives, SenderOK
  <2>3. m \notin A!Pending(aStatus)
    <3>1. \A x \in ToSet(aList) : aList[1] <= x
      <4>1. Id \in SUBSET Nat  BY SenderIds
      <4> QED BY <4>1, FirstOfIncreasing DEF SenderOK
    <3>2. ASSUME m \in A!Pending(aStatus) PROVE FALSE
      <4>1. aSendOp <= m  BY <3>1, <3>2 DEF SenderOK
      <4> QED BY <1>1, <2>1, <4>1, SenderIds
    <3> QED BY <3>2
  <2> QED BY <2>1, <2>2, <2>3 DEF FifoInv, SendsInOrder
<1> QED BY <1>1, <1>3, <1>4

\* A write of a body.
LEMMA FifoWriteBody ==
    ASSUME SenderOK, ReceiverOK, LocalIds, FrameInv, FifoInv, Writing, UNCHANGED <<bVars, got>>, aSendPc = "body"
    PROVE  FifoInv'
<1>0. wire \in Seq(Piece) /\ Len(wire) \in Nat  BY DEF FrameInv
<1>1. PICK n \in Nat : n = Len(wire)  BY <1>0
<1>2. PICK b \in Id : b = aSendOp  BY NextBody
<1>3. /\ b \in Nat /\ b <= aNumSends
      /\ \A m \in ToSet(aSent) : m < b
      /\ \A m \in 1..(b - 1) : m \in ToSet(aSent)
  BY <1>2, NextBody, SenderIds
<1>4. ToSet(aSent') = ToSet(aSent) \cup {b}
  <2>1. aSent' = Append(aSent, b)  BY <1>2 DEF Writing
  <2> QED BY <2>1, AppendFacts DEF SenderOK
<1>5. /\ Len(wire') = n + 1 /\ wire'[n + 1].what = "body" /\ wire'[n + 1].message = b
      /\ \A i \in 1..n : wire'[i] = wire[i]
  <2>1. Len(wire') = n + 1 /\ wire'[n + 1] = Body(aSendOp) /\ \A i \in 1..n : wire'[i] = wire[i]
    BY <1>0, <1>1, WireWritten
  <2> QED BY <1>2, <2>1 DEF Body
<1>6. \A i \in 1..(n + 1) : i \in 1..n \/ i = n + 1  OBVIOUS
<1>7. n + 1 \in 1..(n + 1) /\ \A i \in 1..n : i \in 1..(n + 1) /\ i < n + 1 /\ ~(n + 1 < i)  OBVIOUS
<1>8. \A i \in 1..n : (IsBody(i)' <=> IsBody(i)) /\ wire'[i] = wire[i]  BY <1>1, <1>5, <1>7 DEF IsBody
<1>9. IsBody(n + 1)'  BY <1>5, <1>7 DEF IsBody
<1>10. \A i \in 1..n : IsBody(i) => wire[i].message \in ToSet(aSent)  BY <1>1 DEF FifoInv, WireOrder
<1>11. UNCHANGED <<aFork, aNumSends, aStatus, aSendEc>> /\ SenderLives  BY DEF Writing, SenderOK, SenderLives
<1>12. UNCHANGED <<bNumIssued, bFork, bStatus, bRecvOp, bRecvPc, bRecvEc, bEC, got>>  BY DEF bVars
<1>13. WireOrder'
  <2>1. ASSUME NEW i \in 1..Len(wire'), NEW j \in 1..Len(wire'), IsBody(i)', IsBody(j)', i < j
        PROVE  wire'[i].message < wire'[j].message
    <3>1. CASE j \in 1..n
      <4>1. i \in 1..n  BY <1>5, <2>1, <3>1
      <4> QED BY <1>1, <1>8, <2>1, <3>1, <4>1 DEF FifoInv, WireOrder
    <3>2. CASE j = n + 1
      <4>1. i \in 1..n  BY <1>5, <2>1, <3>2
      <4> QED BY <1>3, <1>5, <1>8, <1>10, <2>1, <3>2, <4>1
    <3> QED BY <1>5, <1>6, <3>1, <3>2
  <2>2. \A i \in 1..Len(wire') : IsBody(i)' => wire'[i].message \in ToSet(aSent')
    BY <1>4, <1>5, <1>6, <1>8, <1>10
  <2>3. ASSUME NEW m \in ToSet(aSent')
        PROVE  (\E o \in Id : got'[o] = m) \/ (\E i \in 1..Len(wire') : IsBody(i)' /\ wire'[i].message = m)
    <3>1. CASE m = b  BY <1>5, <1>7, <1>9, <3>1
    <3>2. CASE m \in ToSet(aSent)
      <4>1. (\E o \in Id : got[o] = m) \/ (\E i \in 1..n : IsBody(i) /\ wire[i].message = m)
        BY <1>1, <3>2 DEF FifoInv, WireOrder
      <4> QED BY <1>5, <1>7, <1>8, <1>12, <4>1
    <3> QED BY <1>4, <3>1, <3>2
  <2> QED BY <2>1, <2>2, <2>3 DEF WireOrder
<1>14. SendsInOrder'
  <2>1. ASSUME NEW m \in ToSet(aSent') PROVE 1..m \subseteq ToSet(aSent')
    <3>1. CASE m = b
      <4>1. \A k \in 1..b : k = b \/ k \in 1..(b - 1)  BY <1>3
      <4> QED BY <1>3, <1>4, <3>1, <4>1
    <3>2. CASE m \in ToSet(aSent)  BY <1>4, <3>2 DEF FifoInv, SendsInOrder
    <3> QED BY <1>4, <3>1, <3>2
  <2>2. \A m \in 1..aNumSends' : m \in A!Pending(aStatus)' \/ m \in ToSet(aSent')
    BY <1>4, <1>11 DEF FifoInv, SendsInOrder, A!Pending
  <2> QED BY <2>1, <2>2 DEF SendsInOrder
<1>15. RecvsInOrder'  BY <1>12 DEF FifoInv, RecvsInOrder, ReceiverLives, B!Pending
<1>16. ASSUME NEW o \in Id, got[o] # 0 PROVE GotInv(o)'
  <2>1. GotInv(o)  BY <1>16 DEF FifoInv
  <2>2. got[o] \in ToSet(aSent) /\ got[o] < b  BY <1>3, <2>1 DEF GotInv
  <2>3. \A i \in 1..Len(wire') : IsBody(i)' => got'[o] < wire'[i].message
    BY <1>1, <1>5, <1>6, <1>8, <1>12, <2>1, <2>2 DEF GotInv
  <2> QED BY <1>4, <1>11, <1>12, <2>1, <2>2, <2>3 DEF GotInv
<1> QED BY <1>12, <1>13, <1>14, <1>15, <1>16 DEF FifoInv

\* What a read leaves on the wire.
LEMMA BodiesLeft ==
    ASSUME wire \in Seq(Piece), wire # <<>>, wire' = Tail(wire)
    PROVE  /\ Len(wire) \in Nat \ {0} /\ Len(wire') \in Nat
           /\ \A i \in 1..Len(wire') : i + 1 \in 1..Len(wire) /\ (IsBody(i)' <=> IsBody(i + 1)) /\ wire'[i] = wire[i + 1]
           /\ \A i \in 1..Len(wire) : i = 1 \/ (i - 1 \in 1..Len(wire') /\ (i - 1) + 1 = i)
<1>1. /\ Len(wire) \in Nat \ {0} /\ Len(wire') = Len(wire) - 1
      /\ \A i \in 1..Len(wire') : i + 1 \in 1..Len(wire) /\ wire'[i] = wire[i + 1]
  BY WireRead
<1>2. \A i \in 1..Len(wire') : IsBody(i)' <=> IsBody(i + 1)  BY <1>1 DEF IsBody
<1>3. \A i \in 1..Len(wire) : i = 1 \/ (i - 1 \in 1..Len(wire') /\ (i - 1) + 1 = i)  BY <1>1
<1>4. Len(wire') \in Nat  BY <1>1
<1> QED BY <1>1, <1>2, <1>3, <1>4

\* A read of something other than a body.
LEMMA FifoReadHeader ==
    ASSUME SenderOK, ReceiverOK, FrameInv, FifoInv, UNCHANGED aVars, ReadsHeader \/ LearnsFork
    PROVE  FifoInv'
<1>0. wire \in Seq(Piece) /\ wire # <<>> /\ wire' = Tail(wire) /\ ~IsBody(1)
  BY DEF FrameInv, ReadsHeader, LearnsFork, Takes, IsBody
<1>1. /\ \A i \in 1..Len(wire') : i + 1 \in 1..Len(wire) /\ (IsBody(i)' <=> IsBody(i + 1)) /\ wire'[i] = wire[i + 1]
      /\ \A i \in 1..Len(wire) : i = 1 \/ (i - 1 \in 1..Len(wire') /\ (i - 1) + 1 = i)
      /\ Len(wire') \in Nat
  BY <1>0, BodiesLeft
<1>2. UNCHANGED <<aSent, aFork, aNumSends, aStatus, aSendPc, aSendEc>>  BY DEF aVars
<1>3. UNCHANGED <<bNumIssued, bFork, bStatus, bRecvOp, bRecvEc, bEC, got>>  BY DEF ReadsHeader, LearnsFork
<1>4. bRecvPc \in {"header", "meta"} /\ bRecvPc' \in {"header", "meta", "getFork"}  BY DEF ReadsHeader, LearnsFork
<1>5. WireOrder'
  <2>1. \A i, j \in 1..Len(wire') : IsBody(i)' /\ IsBody(j)' /\ i < j => wire'[i].message < wire'[j].message
    <3>1. \A i, j \in 1..Len(wire') : i < j => i + 1 < j + 1  BY <1>1
    <3> QED BY <1>1, <3>1 DEF FifoInv, WireOrder
  <2>2. \A i \in 1..Len(wire') : IsBody(i)' => wire'[i].message \in ToSet(aSent')
    BY <1>1, <1>2 DEF FifoInv, WireOrder
  <2>3. ASSUME NEW m \in ToSet(aSent')
        PROVE  (\E o \in Id : got'[o] = m) \/ (\E i \in 1..Len(wire') : IsBody(i)' /\ wire'[i].message = m)
    <3>1. ASSUME NEW i \in 1..Len(wire), IsBody(i), wire[i].message = m
          PROVE  i - 1 \in 1..Len(wire') /\ IsBody(i - 1)' /\ wire'[i - 1].message = m
      BY <1>0, <1>1, <3>1
    <3> QED BY <1>2, <1>3, <3>1 DEF FifoInv, WireOrder
  <2> QED BY <2>1, <2>2, <2>3 DEF WireOrder
<1>6. SendsInOrder'  BY <1>2 DEF FifoInv, SendsInOrder, SenderLives, A!Pending
<1>7. RecvsInOrder'  BY <1>3, <1>4 DEF FifoInv, RecvsInOrder, ReceiverLives, B!Pending
<1>8. ASSUME NEW o \in Id, got[o] # 0 PROVE GotInv(o)'
  <2>1. GotInv(o)  BY <1>8 DEF FifoInv
  <2>2. \A i \in 1..Len(wire') : IsBody(i)' => got'[o] < wire'[i].message  BY <1>1, <1>3, <2>1 DEF GotInv
  <2> QED BY <1>2, <1>3, <1>4, <2>1, <2>2 DEF GotInv
<1> QED BY <1>3, <1>5, <1>6, <1>7, <1>8 DEF FifoInv

\* The body that B reads belongs to the oldest recv of its fork.
LEMMA ReadsOwnBody ==
    ASSUME SenderOK, ReceiverOK, LocalIds, FrameInv, IdInv, FailInv, FifoInv, ReadsBody
    PROVE  /\ bRecvOp \in Id /\ bRecvOp \in 1..bNumIssued /\ got[bRecvOp] = 0
           /\ wire[1].message \in Id /\ wire[1].message \in ToSet(aSent)
           /\ aFork[wire[1].message] = bFork[bRecvOp]
           /\ \A p \in 1..(bRecvOp - 1) : bFork[p] = bFork[bRecvOp] => got[p] # 0
<1>0. /\ wire # <<>> /\ wire[1].what = "body" /\ 1 \in 1..Len(wire) /\ wire[1] \in Piece /\ bRecvPc = "body"
  BY DEF ReadsBody, Takes, FrameInv
<1>1. bRecvOp # 0 /\ bRecvOp \in Id /\ bRecvOp \in 1..bNumIssued  BY <1>0, ReceiverIds DEF ReceiverOK
<1>2. got[bRecvOp] = 0
  <2>1. bStatus[bRecvOp] # "completed"  BY <1>1 DEF ReceiverOK
  <2> QED BY <1>0, <1>1, <2>1 DEF FifoInv, GotInv
<1>3. wire[1].message \in Id /\ wire[1].message \in ToSet(aSent)
  BY <1>0, PieceParts DEF FifoInv, WireOrder, IsBody
<1>4. wire[1].message \in 1..aNumSends  BY <1>3, SentIssued
<1>5. aFork[wire[1].message] = bFork[bRecvOp]
  <2>1. aLocalId[aFork[wire[1].message]] = bSlot  BY <1>0 DEF IdInv, SlotAt
  <2>2. bSlot # 0 /\ aFork[wire[1].message] \in Fork  BY <1>4, <2>1, SenderIds DEF LocalIds
  <2>3. bFork[bRecvOp] \in Fork  BY <1>1 DEF ReceiverOK
  <2>4. bRemoteId[bFork[bRecvOp]] = bSlot  BY <1>0 DEF IdInv
  <2>5. aLocalId[bFork[bRecvOp]] = bSlot  BY <2>2, <2>3, <2>4 DEF IdInv
  <2> QED BY <2>1, <2>2, <2>3, <2>5 DEF LocalIds
<1>6. ASSUME NEW p \in 1..(bRecvOp - 1), bFork[p] = bFork[bRecvOp] PROVE got[p] # 0
  <2>1. p \in 1..bNumIssued /\ p \in Nat /\ bRecvOp \in Nat /\ p < bRecvOp  BY <1>1, ReceiverIds
  <2>2. bRecvOps[bFork[bRecvOp]] # <<>> /\ bRecvOps[bFork[bRecvOp]][1] = bRecvOp /\ bFork[bRecvOp] \in Fork
    BY <1>1 DEF ReceiverOK
  <2>3. p \notin B!Pending(bStatus)
    <3>1. ASSUME p \in B!Pending(bStatus) PROVE FALSE
      <4>1. bRecvOp <= p  BY <1>6, <2>2, <3>1, ReceiverIds
      <4> QED BY <2>1, <4>1
    <3> QED BY <3>1
  <2>4. ReceiverLives  BY <1>0 DEF FailInv
  <2> QED BY <2>1, <2>3, <2>4 DEF FifoInv, RecvsInOrder
<1> QED BY <1>1, <1>2, <1>3, <1>5, <1>6

\* A read of a body.
LEMMA FifoReadBody ==
    ASSUME SenderOK, ReceiverOK, LocalIds, FrameInv, IdInv, FailInv, FifoInv, UNCHANGED aVars, ReadsBody
    PROVE  FifoInv'
<1>0. wire \in Seq(Piece) /\ wire # <<>> /\ wire' = Tail(wire) /\ IsBody(1) /\ 1 \in 1..Len(wire)
  BY DEF FrameInv, ReadsBody, Takes, IsBody
<1>1. /\ \A i \in 1..Len(wire') : i + 1 \in 1..Len(wire) /\ (IsBody(i)' <=> IsBody(i + 1)) /\ wire'[i] = wire[i + 1]
      /\ \A i \in 1..Len(wire) : i = 1 \/ (i - 1 \in 1..Len(wire') /\ (i - 1) + 1 = i)
      /\ Len(wire') \in Nat
  BY <1>0, BodiesLeft
<1>2. UNCHANGED <<aSent, aFork, aNumSends, aStatus, aSendPc, aSendEc>>  BY DEF aVars
<1>3. /\ UNCHANGED <<bNumIssued, bFork, bStatus, bRecvOp, bRecvEc, bEC>>
      /\ bRecvPc = "body" /\ bRecvPc' = "any" /\ bRecvEc = "success"
  BY DEF ReadsBody, ReceiverOK
<1>4. PICK r \in Id, m \in Id : r = bRecvOp /\ m = wire[1].message  BY ReadsOwnBody
<1>5. /\ r \in 1..bNumIssued /\ got[r] = 0 /\ m \in ToSet(aSent) /\ aFork[m] = bFork[r]
      /\ \A p \in 1..(r - 1) : bFork[p] = bFork[r] => got[p] # 0
  BY <1>4, ReadsOwnBody
<1>6. got \in [Id -> Id \cup {0}] /\ m # 0 /\ Id \subseteq Nat  BY SenderIds DEF FifoInv, Id
<1>7. \A o \in Id : got'[o] = IF o = r THEN m ELSE got[o]  BY <1>4, <1>6 DEF ReadsBody
<1>8. got' \in [Id -> Id \cup {0}]
  <2>1. got' = [got EXCEPT ![r] = m]  BY <1>4 DEF ReadsBody
  <2> QED BY <1>6, <2>1
<1>9. \A o \in Id : got[o] # 0 => got[o] < m  BY <1>0, <1>4 DEF FifoInv, GotInv
<1>10. \A i \in 1..Len(wire') : IsBody(i)' => m < wire'[i].message
  <2> TAKE i \in 1..Len(wire')
  <2>1. i + 1 \in 1..Len(wire) /\ 1 < i + 1  BY <1>1
  <2> QED BY <1>0, <1>1, <1>4, <2>1 DEF FifoInv, WireOrder
<1>11. WireOrder'
  <2>1. \A i, j \in 1..Len(wire') : IsBody(i)' /\ IsBody(j)' /\ i < j => wire'[i].message < wire'[j].message
    <3>1. \A i, j \in 1..Len(wire') : i < j => i + 1 < j + 1  BY <1>1
    <3> QED BY <1>1, <3>1 DEF FifoInv, WireOrder
  <2>2. \A i \in 1..Len(wire') : IsBody(i)' => wire'[i].message \in ToSet(aSent')
    BY <1>1, <1>2 DEF FifoInv, WireOrder
  <2>3. ASSUME NEW k \in ToSet(aSent')
        PROVE  (\E o \in Id : got'[o] = k) \/ (\E i \in 1..Len(wire') : IsBody(i)' /\ wire'[i].message = k)
    <3>0. k \in ToSet(aSent) /\ k # 0  BY <1>2, SentIssued DEF Id
    <3>1. ASSUME NEW o \in Id, got[o] = k PROVE got'[o] = k  BY <1>5, <1>7, <3>0, <3>1
    <3>2. ASSUME NEW i \in 1..Len(wire), IsBody(i), wire[i].message = k
          PROVE  \/ got'[r] = k
                 \/ i - 1 \in 1..Len(wire') /\ IsBody(i - 1)' /\ wire'[i - 1].message = k
      BY <1>1, <1>4, <1>7, <3>2
    <3> QED BY <1>4, <3>0, <3>1, <3>2 DEF FifoInv, WireOrder
  <2> QED BY <2>1, <2>2, <2>3 DEF WireOrder
<1>12. SendsInOrder'  BY <1>2 DEF FifoInv, SendsInOrder, SenderLives, A!Pending
<1>13. RecvsInOrder'
  <2>1. ReceiverLives  BY <1>0 DEF FailInv
  <2>2. \A o \in 1..bNumIssued : o \in B!Pending(bStatus) \/ got[o] # 0  BY <2>1 DEF FifoInv, RecvsInOrder
  <2>3. \A o \in 1..bNumIssued : o \in Id  BY ReceiverIds
  <2>4. \A o \in 1..bNumIssued' : o \in B!Pending(bStatus)' \/ got'[o] # 0
    BY <1>3, <1>6, <1>7, <2>2, <2>3 DEF B!Pending
  <2>5. got'[bRecvOp'] # 0  BY <1>3, <1>4, <1>6, <1>7
  <2> QED BY <2>4, <2>5 DEF RecvsInOrder
<1>14. ASSUME NEW o \in Id, got'[o] # 0 PROVE GotInv(o)'
  <2>0. \A p \in 1..(o - 1) : p \in Id /\ p # o  BY SenderIds DEF Id
  <2>1. CASE o = r
    <3>1. got'[o] = m /\ o <= bNumIssued  BY <1>5, <1>7, <2>1, ReceiverIds
    <3>2. \A p \in 1..(o - 1) : bFork'[p] = bFork'[o] => got'[p] # 0 /\ got'[p] < got'[o]
      BY <1>3, <1>5, <1>7, <1>9, <2>0, <2>1, <3>1
    <3> QED BY <1>2, <1>3, <1>4, <1>5, <1>10, <2>1, <3>1, <3>2 DEF GotInv
  <2>2. CASE o # r
    <3>1. got'[o] = got[o] /\ GotInv(o)  BY <1>7, <1>14, <2>2 DEF FifoInv
    <3>2. \A p \in 1..(o - 1) : bFork'[p] = bFork'[o] => got'[p] # 0 /\ got'[p] < got'[o]
      BY <1>3, <1>5, <1>7, <2>0, <3>1 DEF GotInv
    <3>3. \A i \in 1..Len(wire') : IsBody(i)' => got'[o] < wire'[i].message  BY <1>1, <3>1 DEF GotInv
    <3> QED BY <1>2, <1>3, <3>1, <3>2, <3>3 DEF GotInv
  <2> QED BY <2>1, <2>2
<1> QED BY <1>8, <1>11, <1>12, <1>13, <1>14 DEF FifoInv

LEMMA FifoStep ==
    ASSUME SenderOK, ReceiverOK, LocalIds, FrameInv, IdInv, FailInv, FifoInv, [Next]_vars
    PROVE  FifoInv'
<1>1. CASE SenderStep
  <2>1. CASE Writing
    <3>1. UNCHANGED <<bVars, got>>  BY <1>1, SenderMoves
    <3> QED BY <2>1, <3>1, FifoWriteHeader, FifoWriteBody
  <2> QED BY <1>1, <2>1, FifoQuietA
<1>2. CASE ReceiverStep
  <2>0. UNCHANGED aVars  BY <1>2, ReceiverMoves
  <2> QED BY <1>2, <2>0, FifoReadHeader, FifoReadBody, FifoQuietB
<1>3. CASE UNCHANGED vars
  <2>1. UNCHANGED <<wire, got, aSent, aFork, aNumSends, aStatus, aSendPc, aSendEc>>  BY <1>3 DEF vars, aVars
  <2>2. UNCHANGED <<bNumIssued, bFork, bStatus, bRecvOp, bRecvPc, bRecvEc, bEC>>  BY <1>3 DEF vars, bVars
  <2>3. SendsInOrder' /\ RecvsInOrder'
    BY <2>1, <2>2 DEF FifoInv, SendsInOrder, RecvsInOrder, SenderLives, ReceiverLives, A!Pending, B!Pending
  <2>4. \A o \in Id : got[o] # 0 =>
          bStatus'[o] = "completed" \/ (o = bRecvOp' /\ bRecvPc' = "any" /\ bRecvEc' = "success")
    BY <2>2 DEF FifoInv, GotInv
  <2> QED BY <2>1, <2>2, <2>3, <2>4, FifoQuiet, ReceiverIds
<1> QED BY <1>1, <1>2, <1>3 DEF Next

\* The invariant holds at the start.
LEMMA PairInit == Init => PairInv
<1> SUFFICES ASSUME Init PROVE PairInv  OBVIOUS
<1>1. /\ wire = <<>> /\ got = [o \in Id |-> 0]
      /\ aLocalId = [f \in Fork |-> IF f = RootFork THEN 1 ELSE 0] /\ aInitiated = [f \in Fork |-> FALSE]
      /\ aNumSends = 0 /\ aSendPc = "idle" /\ aSendEc = "success" /\ aSent = <<>> /\ aClosed = FALSE
  BY DEF Init, A!Init, A!None
<1>2. /\ bEC = "success" /\ bRecvPc = "idle" /\ bRecvEc = "success" /\ bNumIssued = 0
      /\ bRemoteId = [f \in Fork |-> 0]
  BY DEF Init, B!Init, B!None
<1>3. LocalIds
  <2>1. {g \in Fork : aLocalId[g] # 0} = {RootFork}  BY <1>1, PairAssumption DEF PairAssumption
  <2>2. Cardinality({RootFork}) = 1  BY FS_Singleton
  <2>3. \A f \in Fork : aLocalId[f] \in 0..1  BY <1>1
  <2>4. \A f \in Fork : aLocalId[f] \in 0..Cardinality({g \in Fork : aLocalId[g] # 0})
    BY <2>1, <2>2, <2>3, Zenon
  <2>5. \A f, g \in Fork : aLocalId[f] = aLocalId[g] /\ aLocalId[f] # 0 => f = g  BY <1>1
  <2>6. \A o \in 1..aNumSends : aLocalId[aFork[o]] # 0  BY <1>1
  <2> QED BY <2>4, <2>5, <2>6 DEF LocalIds
<1>4. FrameInv
  <2>1. wire \in Seq(Piece) /\ Len(wire) = 0  BY <1>1
  <2> QED BY <1>1, <1>2, <2>1 DEF FrameInv, Writes, Reads
<1>5. IdInv
  <2>1. Len(wire) = 0  BY <1>1
  <2>2. \A f \in Fork : ~Known(f, Len(wire) + 1)  BY <1>2, <2>1 DEF Known
  <2> QED BY <1>1, <1>2, <2>1, <2>2 DEF IdInv, Reads
<1>6. FailInv  BY <1>2 DEF FailInv, ReceiverLives
<1>7. FifoInv
  <2>1. Len(wire) = 0 /\ got \in [Id -> Id \cup {0}] /\ \A o \in Id : got[o] = 0  BY <1>1
  <2>2. ToSet(aSent) = {}
    <3>1. aSent \in Seq(Id)  BY <1>1
    <3> QED BY <1>1, <3>1, EmptyQueue
  <2>3. WireOrder  BY <2>1, <2>2 DEF WireOrder
  <2>4. SendsInOrder  BY <1>1, <2>2 DEF SendsInOrder
  <2>5. RecvsInOrder  BY <1>2 DEF RecvsInOrder
  <2> QED BY <2>1, <2>3, <2>4, <2>5 DEF FifoInv
<1> QED BY <1>3, <1>4, <1>5, <1>6, <1>7 DEF PairInv
-----------------------------------------------------------------------------
(* The pair implements one FIFO channel per fork *)

\* InOrder lists a set.
LEMMA InOrderEnumerates ==
    ASSUME NEW n \in Nat, NEW S \in SUBSET (1..n)
    PROVE  Enumerates(InOrder(S), S)
<1>0. S \in SUBSET Nat /\ IsFiniteSet(S) /\ Cardinality(S) \in Nat
  <2>1. IsFiniteSet(1..n)  BY FS_Interval
  <2>2. IsFiniteSet(S)  BY <2>1, FS_Subset, Zenon
  <2> QED BY <2>2, FS_CardinalityType
<1>1. PICK t : Enumerates(t, S)  BY EnumExists
<1>2. t \in [1..Cardinality(S) -> S] /\ Increasing(t)
  <2>1. t \in Seq(Nat) /\ Increasing(t) /\ ToSet(t) = S  BY <1>1 DEF Enumerates
  <2>2. Len(t) = Cardinality(S)  BY <2>1, CardOfIncreasing
  <2>3. \A i \in 1..Len(t) : t[i] \in S  BY <2>1, InToSet
  <2> QED BY <2>1, <2>2, <2>3
<1>3. PICK s : s = InOrder(S)  OBVIOUS
<1>4. s \in [1..Cardinality(S) -> S] /\ Increasing(s)  BY <1>2, <1>3 DEF InOrder
<1>5. s \in Seq(S) /\ Len(s) = Cardinality(S) /\ s \in Seq(Nat)
  <2>1. PICK c \in Nat : c = Cardinality(S)  BY <1>0
  <2>2. s \in [1..c -> S] /\ s \in [1..c -> Nat]  BY <1>0, <1>4, <2>1, Zenon
  <2> QED BY <2>1, <2>2
<1>6. Cardinality(ToSet(s)) = Cardinality(S)  BY <1>4, <1>5, CardOfIncreasing
<1>7. ToSet(s) \in SUBSET S
  <2>1. \A i \in 1..Len(s) : s[i] \in S  BY <1>4, <1>5
  <2> QED BY <1>5, <2>1, InToSet
<1>8. ToSet(s) = S  BY <1>0, <1>6, <1>7, FS_Subset
<1> QED BY <1>3, <1>4, <1>5, <1>8 DEF Enumerates

\* What SenderOK leaves out: the outcome of the sends, and that A accepts
\* messages until its task exits.
SenderResults ==
    /\ \A o \in A!Pending(aStatus) : aResult[o] = "none"
    /\ \A o \in Id : aStatus[o] = "completed" => (aResult[o] = "none" <=> o \in ToSet(aSent))

TaskOpen == aEC = "success" \/ aSendPc = "exit"

\* The messages of f that A has sent or still has to send, and those that B got.
Alive(f) == {m \in Id : aFork[m] = f /\ m \in ToSet(aSent) \cup A!Pending(aStatus)}
GotOn(f) == {m \in Id : \E o \in 1..bNumIssued : bFork[o] = f /\ got[o] = m}

\* The abstract channel in terms of these sets.
ChannelShape ==
    \A f \in Fork :
        /\ Enumerates(Received(f), GotOn(f)) /\ GotOn(f) \subseteq Alive(f)
        /\ \A x \in Alive(f), y \in GotOn(f) : x <= y => x \in GotOn(f)
        /\ Enumerates(Undelivered(f), Alive(f) \ GotOn(f))

ChannelOK == SenderOK /\ ReceiverOK /\ PairInv /\ ForkFifo /\ SenderResults

\* A message that was sent has completed, or its completion is under way.
LEMMA SentDone ==
    ASSUME SenderOK, NEW m \in ToSet(aSent), m \notin A!Pending(aStatus)
    PROVE  aStatus[m] = "completed"
<1> SUFFICES ASSUME m = aSendOp, aSendPc = "next" PROVE FALSE  BY DEF SenderOK
<1>1. 1 \in 1..Len(aList) /\ aList[1] = aSendOp  BY DEF SenderOK
<1>2. aSendOp \in ToSet(aList)  BY <1>1, InToSet DEF SenderOK
<1> QED BY <1>2 DEF SenderOK

\* A message that has been accepted and did not fail is alive.
LEMMA AcceptedInOrder ==
    ASSUME SenderOK, SenderResults, NEW f \in Fork
    PROVE  Enumerates(Accepted(f), Alive(f))
<1> DEFINE S == {o \in 1..aNumSends : aFork[o] = f /\ aStatus[o] # "refused" /\ aResult[o] = "none"}
<1>1. ASSUME NEW o \in S PROVE o \in Alive(f)
  <2>1. o \in 1..aNumSends /\ o \in Id /\ aFork[o] = f /\ aStatus[o] # "refused" /\ aResult[o] = "none"
    BY SenderIds
  <2>2. aStatus[o] # "unused"  BY <2>1, SenderIds DEF SenderOK, Id
  <2>3. CASE aStatus[o] = "completed"  BY <2>1, <2>3 DEF SenderResults, Alive
  <2>4. CASE aStatus[o] # "completed"
    <3>1. o \in A!Pending(aStatus)  BY <2>1, <2>2, <2>4 DEF SenderOK, A!Pending
    <3> QED BY <2>1, <3>1 DEF Alive
  <2> QED BY <2>3, <2>4
<1>2. ASSUME NEW o \in Alive(f) PROVE o \in S
  <2>1. o \in Id /\ aFork[o] = f /\ (o \in ToSet(aSent) \/ o \in A!Pending(aStatus))  BY DEF Alive
  <2>2. CASE o \in A!Pending(aStatus)
    <3>1. aStatus[o] \notin {"unused", "refused"} /\ aResult[o] = "none"  BY <2>2 DEF A!Pending, SenderResults
    <3>2. o \in 1..aNumSends  BY <2>1, <3>1, SenderIds DEF SenderOK, Id
    <3> QED BY <2>1, <3>1, <3>2
  <2>3. CASE o \in ToSet(aSent) /\ o \notin A!Pending(aStatus)
    <3>1. o \in 1..aNumSends  BY <2>3, SentIssued
    <3>2. aStatus[o] = "completed"  BY <2>3, SentDone
    <3> QED BY <2>1, <2>3, <3>1, <3>2 DEF SenderResults
  <2> QED BY <2>1, <2>2, <2>3
<1>3. S = Alive(f)  BY <1>1, <1>2
<1>4. S \in SUBSET (1..aNumSends) /\ aNumSends \in Nat  BY SenderIds
<1>5. Accepted(f) = InOrder(S)  BY DEF Accepted
<1> HIDE DEF S
<1> QED BY <1>3, <1>4, <1>5, InOrderEnumerates, Zenon

\* What B got on f is an initial segment of what is alive on f.
LEMMA ReceivedFirst ==
    ASSUME ChannelOK, NEW f \in Fork
    PROVE  /\ Enumerates(Received(f), GotOn(f)) /\ GotOn(f) \subseteq Alive(f)
           /\ \A x \in Alive(f), y \in GotOn(f) : x <= y => x \in GotOn(f)
<1> DEFINE R == {o \in 1..bNumIssued : bFork[o] = f /\ got[o] # 0}
<1>0. bNumIssued \in Nat /\ 1..bNumIssued \subseteq Id /\ Id \in SUBSET Nat
  BY ReceiverIds DEF ChannelOK
<1>1. ASSUME NEW o \in R
      PROVE  /\ o \in 1..bNumIssued /\ bFork[o] = f /\ got[o] # 0 /\ got[o] \in Id /\ got[o] \in Nat
             /\ got[o] \in ToSet(aSent) /\ aFork[got[o]] = f
             /\ \A p \in R : p < o => got[p] < got[o]
  <2>1. o \in 1..bNumIssued /\ o \in Id /\ o \in Nat /\ bFork[o] = f /\ got[o] # 0  BY <1>0
  <2>2. GotInv(o)  BY <2>1 DEF ChannelOK, PairInv, FifoInv
  <2>3. got[o] \in Id  BY <2>2, SentIssued DEF GotInv, ChannelOK
  <2>4. ASSUME NEW p \in R, p < o PROVE got[p] < got[o]
    <3>1. p \in 1..(o - 1) /\ bFork[p] = bFork[o]  BY <1>0, <2>1, <2>4
    <3> QED BY <2>2, <3>1 DEF GotInv
  <2> QED BY <1>0, <2>1, <2>2, <2>3, <2>4, Zenon DEF GotInv
<1>2. PICK done : done = InOrder(R)  OBVIOUS
<1>3. Enumerates(done, R)
  <2>1. R \in SUBSET (1..bNumIssued)  OBVIOUS
  <2> HIDE DEF R
  <2> QED BY <1>0, <1>2, <2>1, InOrderEnumerates, Zenon
<1>4. PICK r : r = [i \in DOMAIN done |-> got[done[i]]]  BY Zenon
<1>5. Received(f) = r  BY <1>2, <1>4 DEF Received
<1>6. GotOn(f) = {got[o] : o \in R}
  <2>1. ASSUME NEW o \in R PROVE got[o] \in GotOn(f)  BY <1>1 DEF GotOn
  <2>2. ASSUME NEW m \in GotOn(f) PROVE \E o \in R : got[o] = m
    <3>1. PICK o \in 1..bNumIssued : bFork[o] = f /\ got[o] = m  BY DEF GotOn
    <3>2. m # 0  BY DEF GotOn, Id
    <3> QED BY <3>1, <3>2
  <2> HIDE DEF R
  <2> QED BY <2>1, <2>2
<1>7. R \subseteq Nat  BY <1>0
<1>8. ASSUME NEW x \in Alive(f), NEW o \in R, x <= got[o] PROVE x \in GotOn(f)
  <2>1. x \in Id /\ x \in Nat /\ aFork[x] = f /\ x # 0  BY <1>0 DEF Alive, Id
  <2>2. o \in 1..bNumIssued /\ got[o] # 0 /\ got[o] \in Nat /\ bFork[o] = f  BY <1>1
  <2>3. CASE x = got[o]
    <3> HIDE DEF R
    <3> QED BY <1>6, <2>3
  <2>4. CASE x # got[o]
    <3>1. x \in 1..(got[o] - 1)  BY <1>8, <2>1, <2>2, <2>4
    <3>2. PICK p \in 1..(o - 1) : got[p] = x  BY <2>1, <2>2, <3>1 DEF ChannelOK, ForkFifo
    <3>3. p \in 1..bNumIssued /\ p \in Id  BY <1>0, <2>2
    <3>4. GotInv(p)  BY <2>1, <3>2, <3>3 DEF ChannelOK, PairInv, FifoInv
    <3>5. bFork[p] = f  BY <2>1, <3>2, <3>4 DEF GotInv
    <3> QED BY <2>1, <3>2, <3>3, <3>5 DEF GotOn
  <2> QED BY <2>3, <2>4
<1> HIDE DEF R
<1>9. done \in Seq(Nat) /\ Increasing(done) /\ ToSet(done) = R  BY <1>3 DEF Enumerates
<1>10. PICK n \in Nat : n = Len(done) /\ DOMAIN done = 1..n /\ \A i \in 1..n : done[i] \in R
  <2>1. Len(done) \in Nat /\ DOMAIN done = 1..Len(done)  BY <1>9
  <2>2. \A i \in 1..Len(done) : done[i] \in R  BY <1>9, InToSet
  <2> QED BY <2>1, <2>2, Zenon
<1>11. /\ r \in Seq(Nat) /\ Len(r) = n /\ DOMAIN r = 1..n /\ \A i \in 1..n : r[i] = got[done[i]]
  <2>1. \A i \in 1..n : got[done[i]] \in Nat  BY <1>1, <1>10
  <2>2. r \in [1..n -> Nat]  BY <1>4, <1>10, <2>1
  <2> QED BY <1>4, <1>10, <2>2
<1>12. Increasing(r)
  <2> SUFFICES ASSUME NEW i \in 1..n, NEW j \in 1..n, i < j PROVE r[i] < r[j]
    BY <1>11 DEF Increasing
  <2>1. done[i] < done[j]  BY <1>9, <1>10 DEF Increasing
  <2> QED BY <1>1, <1>10, <1>11, <2>1, Zenon
<1>13. ToSet(r) = GotOn(f)
  <2>1. ASSUME NEW x \in ToSet(r) PROVE x \in GotOn(f)
    <3>1. PICK i \in 1..Len(r) : r[i] = x  BY <1>11, InToSet
    <3> QED BY <1>6, <1>10, <1>11, <3>1
  <2>2. ASSUME NEW o \in R PROVE got[o] \in ToSet(r)
    <3>1. PICK i \in 1..Len(done) : done[i] = o  BY <1>9, InToSet
    <3>2. i \in 1..Len(r) /\ r[i] = got[o]  BY <1>10, <1>11, <3>1
    <3> QED BY <1>11, <3>2, InToSet, Zenon
  <2> QED BY <1>6, <2>1, <2>2
<1>14. Enumerates(Received(f), GotOn(f))  BY <1>5, <1>11, <1>12, <1>13 DEF Enumerates
<1>15. GotOn(f) \subseteq Alive(f)  BY <1>1, <1>6 DEF Alive
<1>16. \A x \in Alive(f), y \in GotOn(f) : x <= y => x \in GotOn(f)  BY <1>6, <1>8
<1> QED BY <1>14, <1>15, <1>16

\* In every reachable state the channels are what these sets say.
LEMMA ChannelIs == ChannelOK => ChannelShape
<1> SUFFICES ASSUME ChannelOK, NEW f \in Fork
             PROVE  /\ Enumerates(Received(f), GotOn(f)) /\ GotOn(f) \subseteq Alive(f)
                    /\ \A x \in Alive(f), y \in GotOn(f) : x <= y => x \in GotOn(f)
                    /\ Enumerates(Undelivered(f), Alive(f) \ GotOn(f))
  BY DEF ChannelShape
<1>1. /\ Enumerates(Received(f), GotOn(f)) /\ GotOn(f) \subseteq Alive(f)
      /\ \A x \in Alive(f), y \in GotOn(f) : x <= y => x \in GotOn(f)
  BY ReceivedFirst
<1>2. Enumerates(Accepted(f), Alive(f))  BY AcceptedInOrder DEF ChannelOK
<1>3. Enumerates(Undelivered(f), Alive(f) \ GotOn(f))  BY <1>1, <1>2, EnumCut DEF Undelivered
<1> QED BY <1>1, <1>3

\* Only cancel, called by the send task, makes A refuse messages.
LEMMA SenderCloses ==
    ASSUME SenderStep
    PROVE  A!SendClose \/ UNCHANGED aEC
BY DEF SenderStep, A!SendWake, A!SendQueue, A!ForkSocket, A!CloseSocket, A!SendTaskStep, A!SendNext, A!SendIdle,
       A!SendIoFail, A!SendIoDone

\* A task that exits has closed the endpoint, and nothing else closes it.
LEMMA TaskOpenStep == TaskOpen /\ [Next]_vars => TaskOpen'
<1> SUFFICES ASSUME TaskOpen, [Next]_vars PROVE TaskOpen'  OBVIOUS
<1>1. CASE SenderStep
  <2>1. CASE A!SendClose  BY <2>1 DEF A!SendClose, TaskOpen
  <2>2. CASE UNCHANGED aEC
    <3>1. aSendPc = "exit" => aSendPc' = "exit" \/ aEC = "success"
      BY <1>1, SenderMoves, Zenon DEF Writing, Closing, GoingOn, GoingIdle, Exiting, Failing, Waking, Queueing, Forking
    <3> QED BY <2>2, <3>1 DEF TaskOpen
  <2> QED BY <1>1, <2>1, <2>2, SenderCloses
<1>2. CASE ReceiverStep  BY <1>2 DEF ReceiverStep, aVars, TaskOpen
<1>3. CASE UNCHANGED vars  BY <1>3 DEF vars, aVars, TaskOpen
<1> QED BY <1>1, <1>2, <1>3 DEF Next

\* So the endpoint accepts messages as long as its send task runs.
LEMMA TaskOpenFacts == Spec => []TaskOpen
<1>1. Init => TaskOpen  BY DEF Init, A!Init, TaskOpen
<1> QED BY <1>1, TaskOpenStep, PTL DEF Spec

\* What a step does to the messages that are alive: nothing, ...
Keeps == UNCHANGED aEC /\ \A f \in Fork : Alive(f)' = Alive(f)

\* ... one more on a fork ...
Accepts(f, n) ==
    /\ n \in Id /\ aEC = "success" /\ aEC' = "success"
    /\ Alive(f)' = Alive(f) \cup {n} /\ \A x \in Alive(f) : x < n
    /\ \A g \in Fork \ {f} : Alive(g)' = Alive(g)

\* ... or those that were not sent are lost.
Loses ==
    /\ aEC = "success" /\ aEC' # "success"
    /\ \A f \in Fork : Alive(f)' \subseteq Alive(f) /\ \A x \in Alive(f), y \in Alive(f)' : x <= y => x \in Alive(f)'

\* A message that is alive was issued.
LEMMA AliveIssued ==
    ASSUME SenderOK, NEW f, NEW x \in Alive(f)
    PROVE  x \in 1..aNumSends
<1>1. CASE x \in ToSet(aSent)  BY <1>1, SentIssued
<1>2. CASE x \in A!Pending(aStatus)
  <2>1. x \in Id /\ aStatus[x] # "unused"  BY <1>2 DEF Alive, A!Pending
  <2> QED BY <2>1, SenderIds DEF SenderOK, Id
<1> QED BY <1>1, <1>2 DEF Alive

\* A message that is issued comes alive, behind the others of its fork.
LEMMA IssueAccepts ==
    ASSUME SenderOK, NEW f \in Fork, NEW st \in {"NotStarted", "InProgress"}, Issues(f, st),
           aEC = "success", UNCHANGED aEC
    PROVE  Accepts(f, aNumSends + 1)
<1> DEFINE n == aNumSends + 1
<1>1. n \in Id /\ aNumSends \in Nat  BY SenderIds DEF Issues, Id
<1>2. \A g : \A x \in Alive(g) : x < n /\ x # n
  <2> TAKE g
  <2> TAKE x \in Alive(g)
  <2>1. x \in 1..aNumSends  BY AliveIssued
  <2> QED BY <1>1, <2>1
<1> HIDE DEF n
<1>3. /\ aFork' = [aFork EXCEPT ![n] = f] /\ aStatus' = [aStatus EXCEPT ![n] = st] /\ aSent' = aSent
      /\ DOMAIN aStatus = Id /\ DOMAIN aFork = Id
  BY DEF Issues, SenderOK, n
<1>4. \A m \in Id : /\ aFork'[m] = (IF m = n THEN f ELSE aFork[m])
                    /\ m \in A!Pending(aStatus)' <=> m = n \/ m \in A!Pending(aStatus)
  BY <1>1, <1>3 DEF A!Pending
<1>5. ASSUME NEW g \in Fork, NEW m \in Id PROVE m \in Alive(g)' <=> m \in Alive(g) \/ (m = n /\ g = f)
  <2>1. CASE m = n
    <3>1. m \notin Alive(g)  BY <1>2, <2>1
    <3> QED BY <1>4, <2>1, <3>1 DEF Alive
  <2>2. CASE m # n  BY <1>3, <1>4, <2>2, Zenon DEF Alive
  <2> QED BY <2>1, <2>2
<1>6. \A g \in Fork : Alive(g)' \subseteq Id /\ Alive(g) \subseteq Id  BY DEF Alive
<1>7. Accepts(f, n)  BY <1>1, <1>2, <1>5, <1>6 DEF Accepts
<1> QED BY <1>7 DEF n

\* The send task exits by way of cancel.
LEMMA ExitCloses ==
    ASSUME SenderStep, aSendPc = "next", aSendPc' = "exit"
    PROVE  A!SendClose
BY DEF SenderStep, A!SendWake, A!SendQueue, A!ForkSocket, A!CloseSocket, A!SendTaskStep, A!SendNext, A!SendIdle,
       A!SendIoFail, A!SendIoDone, A!StartSend, A!sendVars, A!sendTask

\* A step of A, in terms of what is alive.
LEMMA AliveMoves ==
    ASSUME SenderOK, FifoInv, TaskOpen, SenderStep
    PROVE  Keeps \/ Loses \/ \E f \in Fork, n \in Id : Accepts(f, n)
<1>0. DOMAIN aStatus = Id  BY DEF SenderOK
<1>1. CASE A!SendClose
  <2>1. aSendPc = "next" /\ aEC = "success" /\ aSendEc # "success" /\ aEC' = "cancel" /\ UNCHANGED <<aFork, aSent>>
    BY <1>1 DEF A!SendClose, TaskOpen, A!AfterFirst, A!histVars
  <2>2. A!Pending(aStatus)' = {}
    <3>1. aStatus' = [o \in Id |-> IF o \in ToSet(aList) THEN "completed" ELSE aStatus[o]]
      BY <1>1 DEF A!SendClose, A!ToSet, ToSet, A!SendId, Id
    <3>2. \A o \in Id : aStatus[o] \notin {"unused", "refused", "completed"} => o \in ToSet(aList)
      BY <1>0 DEF SenderOK, A!Pending
    <3> QED BY <3>1, <3>2 DEF A!Pending
  <2>3. ASSUME NEW f \in Fork
        PROVE  Alive(f)' \subseteq Alive(f) /\ \A x \in Alive(f), y \in Alive(f)' : x <= y => x \in Alive(f)'
    <3>1. Alive(f)' = {m \in Id : aFork[m] = f /\ m \in ToSet(aSent)}  BY <2>1, <2>2 DEF Alive
    <3>2. ASSUME NEW x \in Alive(f), NEW y \in Alive(f)', x <= y PROVE x \in Alive(f)'
      <4>1. y \in ToSet(aSent) /\ y \in Id /\ x \in Id /\ aFork[x] = f  BY <3>1 DEF Alive
      <4>2. x \in 1..y  BY <3>2, <4>1, SenderIds DEF Id
      <4> QED BY <3>1, <4>1, <4>2 DEF FifoInv, SendsInOrder
    <3> QED BY <3>1, <3>2 DEF Alive
  <2> QED BY <2>1, <2>3 DEF Loses
<1>2. CASE UNCHANGED aEC
  <2>1. ASSUME UNCHANGED <<aFork, aSent, aStatus>> PROVE Keeps
    BY <1>2, <2>1 DEF Keeps, Alive, A!Pending
  <2>2. CASE Closing \/ Failing \/ \E f \in Fork : Forking(f)  BY <2>1, <2>2, Zenon DEF Closing, Failing, Forking
  <2>3. ASSUME NEW f \in Fork, Waking(f) \/ Queueing(f) PROVE \E n \in Id : Accepts(f, n)
    <3>1. aEC = "success"  BY <2>3 DEF TaskOpen, Waking, Queueing
    <3>2. Accepts(f, aNumSends + 1)  BY <1>2, <2>3, <3>1, IssueAccepts DEF Waking, Queueing
    <3> QED BY <3>2 DEF Accepts
  <2>4. CASE Writing
    <3>1. aSendOp \in A!Pending(aStatus) /\ aSendOp \in Id
      <4>1. 1 \in 1..Len(aList) /\ aList[1] = aSendOp  BY <2>4 DEF SenderOK, Writing
      <4>2. aSendOp \in ToSet(aList)  BY <4>1, InToSet DEF SenderOK
      <4> QED BY <1>0, <4>2 DEF SenderOK, A!Pending
    <3>2. ToSet(aSent') \subseteq ToSet(aSent) \cup {aSendOp} /\ ToSet(aSent) \subseteq ToSet(aSent')
      <4>1. aSent' = aSent \/ aSent' = Append(aSent, aSendOp)  BY <2>4 DEF Writing
      <4>2. ToSet(Append(aSent, aSendOp)) = ToSet(aSent) \cup {aSendOp}  BY <3>1, AppendFacts DEF SenderOK
      <4> QED BY <4>1, <4>2, Zenon
    <3>3. UNCHANGED <<aFork, aStatus>>  BY <2>4 DEF Writing
    <3> QED BY <1>2, <3>1, <3>2, <3>3 DEF Keeps, Alive, A!Pending
  <2>5. CASE GoingOn \/ GoingIdle
    <3>1. aSendPc = "next" /\ aSendEc = "success" /\ UNCHANGED <<aFork, aSent>>  BY <2>5 DEF GoingOn, GoingIdle
    <3>2. aSendOp \in ToSet(aSent)  BY <3>1 DEF SenderOK
    <3>3. \A m \in Id : m # aSendOp => (m \in A!Pending(aStatus)' <=> m \in A!Pending(aStatus))
      <4>1. CASE GoingOn
        <5>1. 2 \in 1..Len(aList)  BY <4>1 DEF GoingOn, SenderOK
        <5>2. aList[2] \in A!Pending(aStatus)  BY <5>1, InToSet DEF SenderOK
        <5>3. aStatus' = [aStatus EXCEPT ![aSendOp] = "completed", ![aList[2]] = "InProgress"]  BY <4>1 DEF GoingOn
        <5> QED BY <1>0, <5>2, <5>3 DEF A!Pending
      <4>2. CASE GoingIdle
        <5>1. aStatus' = [aStatus EXCEPT ![aSendOp] = "completed"]  BY <4>2 DEF GoingIdle
        <5> QED BY <1>0, <5>1 DEF A!Pending
      <4> QED BY <2>5, <4>1, <4>2
    <3>4. \A m \in Id : m \in ToSet(aSent) \cup A!Pending(aStatus)' <=> m \in ToSet(aSent) \cup A!Pending(aStatus)
      BY <3>2, <3>3
    <3> QED BY <1>2, <3>1, <3>4 DEF Keeps, Alive
  <2>6. Exiting => A!SendClose  BY ExitCloses DEF Exiting
  <2> QED BY <1>1, <2>2, <2>3, <2>4, <2>5, <2>6, SenderMoves
<1> QED BY <1>1, <1>2, SenderCloses

\* What a step does to the messages that recvs got: nothing ...
GotSame == \A f \in Fork : GotOn(f)' = GotOn(f)

\* ... or one more on a fork.
Gets(f, m) ==
    /\ m \in Id /\ GotOn(f)' = GotOn(f) \cup {m} /\ \A x \in GotOn(f) : x < m
    /\ \A g \in Fork \ {f} : GotOn(g)' = GotOn(g)

\* A step of B, in terms of what its recvs got.
LEMMA GotMoves ==
    ASSUME SenderOK, ReceiverOK, PairInv, ReceiverStep
    PROVE  GotSame \/ \E f \in Fork, m \in Id : Gets(f, m)
<1>0. FrameInv /\ LocalIds /\ IdInv /\ FailInv /\ FifoInv  BY DEF PairInv
<1>1. ASSUME UNCHANGED <<got, bFork, bNumIssued>> PROVE GotSame  BY <1>1 DEF GotSame, GotOn
<1>2. ASSUME NEW f \in Fork, NEW st \in {"NotStarted", "InProgress"}, Asks(f, st) PROVE GotSame
  <2> DEFINE n == bNumIssued + 1
  <2>1. n \in Id /\ bNumIssued \in Nat  BY <1>2, ReceiverIds DEF Asks, Id
  <2>2. got[n] = 0
    <3>1. ~(n <= bNumIssued)  BY <2>1
    <3> QED BY <1>0, <2>1, <3>1 DEF FifoInv, GotInv
  <2>3. bNumIssued' = n /\ UNCHANGED got /\ bFork' = [bFork EXCEPT ![n] = f]  BY <1>2 DEF Asks
  <2>4. \A o \in 1..n : o = n \/ o \in 1..bNumIssued  BY <2>1
  <2>5. \A o \in 1..bNumIssued : o \in 1..n /\ o # n /\ o \in Id  BY <2>1, ReceiverIds
  <2> HIDE DEF n
  <2>6. \A o \in 1..bNumIssued : bFork'[o] = bFork[o]  BY <2>3, <2>5 DEF ReceiverOK
  <2>7. ASSUME NEW g \in Fork, NEW m \in Id PROVE m \in GotOn(g)' <=> m \in GotOn(g)
    <3>1. m # 0  BY DEF Id
    <3>2. (\E o \in 1..n : bFork'[o] = g /\ got[o] = m) <=> \E o \in 1..bNumIssued : bFork[o] = g /\ got[o] = m
      BY <2>2, <2>4, <2>5, <2>6, <3>1
    <3> QED BY <2>3, <3>2 DEF GotOn
  <2>8. \A g \in Fork : GotOn(g)' \subseteq Id /\ GotOn(g) \subseteq Id  BY DEF GotOn
  <2> QED BY <2>7, <2>8 DEF GotSame
<1>3. CASE ReadsBody
  <2>1. PICK r \in 1..bNumIssued, m \in Id :
            /\ r = bRecvOp /\ m = wire[1].message /\ r \in Id /\ got[r] = 0
            /\ aFork[m] = bFork[r]
    BY <1>0, <1>3, ReadsOwnBody
  <2>2. PICK f \in Fork : f = bFork[r]  BY <2>1 DEF ReceiverOK
  <2>3. UNCHANGED <<bFork, bNumIssued>> /\ got' = [got EXCEPT ![r] = m]  BY <1>3, <2>1 DEF ReadsBody
  <2>4. \A o \in Id : got'[o] = IF o = r THEN m ELSE got[o]  BY <1>0, <2>3 DEF FifoInv
  <2>5. 1..bNumIssued \subseteq Id  BY ReceiverIds
  <2>6. IsBody(1) /\ 1 \in 1..Len(wire)
    <3>1. wire # <<>> /\ wire[1].what = "body" /\ wire \in Seq(Piece)  BY <1>0, <1>3 DEF ReadsBody, Takes, FrameInv
    <3>2. 1 \in 1..Len(wire)  BY <3>1
    <3> QED BY <3>1, <3>2 DEF IsBody
  <2>7. \A x \in GotOn(f) : x < m
    <3> TAKE x \in GotOn(f)
    <3>1. PICK o \in 1..bNumIssued : got[o] = x  BY DEF GotOn
    <3>2. o \in Id /\ got[o] # 0  BY <2>5, <3>1 DEF GotOn, Id
    <3>3. GotInv(o)  BY <1>0, <3>2 DEF FifoInv
    <3> QED BY <2>1, <2>6, <3>1, <3>3 DEF GotInv
  <2>8. ASSUME NEW g \in Fork, NEW y \in Id PROVE y \in GotOn(g)' <=> y \in GotOn(g) \/ (y = m /\ g = f)
    <3>1. y # 0  BY DEF Id
    <3>2. (\E o \in 1..bNumIssued : bFork[o] = g /\ got'[o] = y)
          <=> (\E o \in 1..bNumIssued : bFork[o] = g /\ got[o] = y) \/ (y = m /\ g = f)
      BY <2>1, <2>2, <2>4, <2>5, <3>1
    <3> QED BY <2>3, <3>2 DEF GotOn
  <2>9. \A g \in Fork : GotOn(g)' \subseteq Id /\ GotOn(g) \subseteq Id  BY DEF GotOn
  <2>10. Gets(f, m)  BY <2>7, <2>8, <2>9 DEF Gets
  <2> QED BY <2>10
<1>4. ~RefusesFork /\ ~FindsNoFork /\ ~FindsClosed  BY <1>0, Understood
<1> QED BY <1>1, <1>2, <1>3, <1>4, ReceiverMoves
       DEF ReadsHeader, LearnsFork, Finds, Looks, Finishes, GivesUp, LosesPeer, BForks

\* Nothing that the channel shows is changed.
LEMMA ChannelSame ==
    ASSUME ChannelShape, ChannelShape', NEW f \in Fork, Alive(f)' = Alive(f), GotOn(f)' = GotOn(f)
    PROVE  Undelivered(f)' = Undelivered(f) /\ Received(f)' = Received(f)
<1>1. Enumerates(Received(f), GotOn(f)) /\ Enumerates(Undelivered(f), Alive(f) \ GotOn(f))  BY DEF ChannelShape
<1>2. Enumerates(Received(f)', GotOn(f)) /\ Enumerates(Undelivered(f)', Alive(f) \ GotOn(f))
  BY DEF ChannelShape, Enumerates
<1> QED BY <1>1, <1>2, EnumUnique

\* Recvs that got nothing new show the same messages.
LEMMA ReceivedSame ==
    ASSUME ChannelShape, ChannelShape', NEW f \in Fork, GotOn(f)' = GotOn(f)
    PROVE  Received(f)' = Received(f)
<1>1. Enumerates(Received(f), GotOn(f))  BY Zenon DEF ChannelShape
<1>2. Enumerates(Received(f)', GotOn(f))  BY DEF ChannelShape, Enumerates
<1> QED BY <1>1, <1>2, EnumUnique

\* The channels, as the variables of ForkChannel see them.
Chans == [f \in Fork |-> Undelivered(f)]
Rcvds == [f \in Fork |-> Received(f)]

\* An accepted message is put at the end of its channel.
LEMMA AcceptSends ==
    ASSUME ChannelShape, ChannelShape', NEW f \in Fork, NEW n \in Id, Accepts(f, n), GotSame
    PROVE  Channel!Send(f, n)
<1>0. n \in Nat  BY PairAssumption DEF PairAssumption, Id
<1>1. Enumerates(Append(Undelivered(f), n), (Alive(f) \ GotOn(f)) \cup {n})
  <2>1. Enumerates(Undelivered(f), Alive(f) \ GotOn(f))  BY DEF ChannelShape
  <2>2. \A x \in Alive(f) \ GotOn(f) : x < n  BY DEF Accepts
  <2> QED BY <1>0, <2>1, <2>2, EnumAppend
<1>2. Enumerates(Undelivered(f)', (Alive(f) \ GotOn(f)) \cup {n})
  <2>1. Enumerates(Undelivered(f)', Alive(f)' \ GotOn(f)')  BY DEF ChannelShape, Enumerates
  <2>2. n \notin GotOn(f)
    <3>1. \A x \in GotOn(f) : x < n  BY Zenon DEF ChannelShape, Accepts
    <3>2. ~(n < n)  BY <1>0
    <3> QED BY <3>1, <3>2
  <2>3. Alive(f)' \ GotOn(f)' = (Alive(f) \ GotOn(f)) \cup {n}  BY <2>2 DEF Accepts, GotSame
  <2> QED BY <2>1, <2>3
<1>3. Undelivered(f)' = Append(Undelivered(f), n)  BY <1>1, <1>2, EnumUnique, Zenon
<1>4. \A g \in Fork \ {f} : Undelivered(g)' = Undelivered(g)
  BY ChannelSame DEF Accepts, GotSame
<1>5. \A g \in Fork : Received(g)' = Received(g)  BY ReceivedSame DEF GotSame
<1>6. Chans' = [Chans EXCEPT ![f] = Append(@, n)]  BY <1>3, <1>4, Zenon DEF Chans
<1>7. Rcvds' = Rcvds  BY <1>5 DEF Rcvds
<1>8. aEC = "success" /\ aEC' = "success"  BY DEF Accepts
<1> QED BY <1>6, <1>7, <1>8 DEF Channel!Send, Chans, Rcvds

\* The recv that gets a message gets the oldest one of its fork.
LEMMA GetReceives ==
    ASSUME ChannelShape, ChannelShape', NEW f \in Fork, NEW m \in Id, Keeps, Gets(f, m)
    PROVE  Channel!Recv(f)
<1>0. Id \subseteq Nat  BY PairAssumption DEF PairAssumption, Id
<1>1. m \in Alive(f) \ GotOn(f)
  <2>1. m \in Alive(f)
    <3>1. GotOn(f)' \subseteq Alive(f)'  BY Zenon DEF ChannelShape
    <3>2. m \in GotOn(f)' /\ Alive(f)' = Alive(f)  BY DEF Gets, Keeps
    <3> QED BY <3>1, <3>2
  <2>2. m \notin GotOn(f)
    <3>1. ~(m < m)  BY <1>0
    <3> QED BY <3>1 DEF Gets
  <2> QED BY <2>1, <2>2
<1>2. \A x \in Alive(f) \ GotOn(f) : m <= x
  <2> TAKE x \in Alive(f) \ GotOn(f)
  <2>1. x \in Nat /\ m \in Nat  BY <1>0 DEF Alive
  <2>2. ASSUME x <= m PROVE x = m
    <3>1. x \in Alive(f)' /\ m \in GotOn(f)'  BY DEF Gets, Keeps
    <3>2. \A v \in Alive(f)', y \in GotOn(f)' : v <= y => v \in GotOn(f)'  BY Zenon DEF ChannelShape
    <3>3. x \in GotOn(f) \cup {m}  BY <2>2, <3>1, <3>2 DEF Gets
    <3> QED BY <3>3
  <2> QED BY <2>1, <2>2
<1>3. /\ Undelivered(f) # <<>> /\ Head(Undelivered(f)) = m
      /\ Enumerates(Tail(Undelivered(f)), (Alive(f) \ GotOn(f)) \ {m})
  <2>1. Enumerates(Undelivered(f), Alive(f) \ GotOn(f))  BY DEF ChannelShape
  <2> QED BY <1>1, <1>2, <2>1, EnumTail
<1>4. Enumerates(Undelivered(f)', (Alive(f) \ GotOn(f)) \ {m})
  <2>1. Enumerates(Undelivered(f)', Alive(f)' \ GotOn(f)')  BY DEF ChannelShape, Enumerates
  <2>2. Alive(f)' \ GotOn(f)' = (Alive(f) \ GotOn(f)) \ {m}  BY DEF Gets, Keeps
  <2> QED BY <2>1, <2>2
<1>5. Undelivered(f)' = Tail(Undelivered(f))  BY <1>3, <1>4, EnumUnique, Zenon
<1>6. Received(f)' = Append(Received(f), m)
  <2>1. Enumerates(Received(f), GotOn(f))  BY Zenon DEF ChannelShape
  <2>2. Enumerates(Append(Received(f), m), GotOn(f) \cup {m})  BY <1>0, <2>1, EnumAppend DEF Gets
  <2>3. Enumerates(Received(f)', GotOn(f) \cup {m})  BY DEF ChannelShape, Enumerates, Gets
  <2> QED BY <2>2, <2>3, EnumUnique, Zenon
<1>7. \A g \in Fork \ {f} : Undelivered(g)' = Undelivered(g) /\ Received(g)' = Received(g)
  BY ChannelSame DEF Gets, Keeps
<1>8. Chans' = [Chans EXCEPT ![f] = Tail(@)]  BY <1>5, <1>7, Zenon DEF Chans
<1>9. Rcvds' = [Rcvds EXCEPT ![f] = Append(@, Head(Chans[f]))]  BY <1>3, <1>6, <1>7, Zenon DEF Rcvds, Chans
<1>10. Chans[f] # <<>>  BY <1>3 DEF Chans
<1>11. UNCHANGED (aEC = "success")  BY DEF Keeps
<1> QED BY <1>8, <1>9, <1>10, <1>11 DEF Channel!Recv, Chans, Rcvds

\* A failure of A loses the newest messages of each channel.
LEMMA LoseFails ==
    ASSUME ChannelShape, ChannelShape', Loses, GotSame
    PROVE  Channel!Fail
<1>1. ASSUME NEW f \in Fork PROVE \E n \in 0..Len(Chans[f]) : Chans'[f] = SubSeq(Chans[f], 1, n)
  <2>1. Enumerates(Undelivered(f), Alive(f) \ GotOn(f))  BY DEF ChannelShape
  <2>2. Enumerates(Undelivered(f)', Alive(f)' \ GotOn(f))  BY DEF ChannelShape, Enumerates, GotSame
  <2>3. Alive(f)' \ GotOn(f) \subseteq Alive(f) \ GotOn(f)  BY DEF Loses
  <2>4. \A x \in Alive(f) \ GotOn(f), y \in Alive(f)' \ GotOn(f) : x <= y => x \in Alive(f)' \ GotOn(f)
    BY DEF Loses
  <2>5. /\ Len(Undelivered(f)') \in 0..Len(Undelivered(f))
        /\ Undelivered(f)' = SubSeq(Undelivered(f), 1, Len(Undelivered(f)'))
    BY <2>1, <2>2, <2>3, <2>4, EnumCut, Zenon
  <2>6. Chans[f] = Undelivered(f) /\ Chans'[f] = Undelivered(f)'  BY DEF Chans
  <2> QED BY <2>5, <2>6, Zenon
<1>2. DOMAIN Chans' = Fork  BY DEF Chans
<1>3. Rcvds' = Rcvds  BY ReceivedSame DEF GotSame, Rcvds
<1>4. aEC = "success" /\ (aEC' = "success") = FALSE  BY DEF Loses
<1> QED BY <1>1, <1>2, <1>3, <1>4 DEF Channel!Fail, Chans, Rcvds

\* Every step is one of the channel's, or none.
LEMMA ChannelStep ==
    ChannelShape /\ ChannelShape' /\ ChannelOK /\ TaskOpen /\ [Next]_vars
    => [Channel!Next]_(<<aEC = "success", Chans, Rcvds>>)
<1> SUFFICES ASSUME ChannelShape, ChannelShape', ChannelOK, TaskOpen, [Next]_vars
             PROVE  [Channel!Next]_(<<aEC = "success", Chans, Rcvds>>)
  OBVIOUS
<1>0. SenderOK /\ ReceiverOK /\ PairInv /\ FifoInv  BY DEF ChannelOK, PairInv
<1>1. ASSUME Keeps, GotSame PROVE UNCHANGED <<aEC = "success", Chans, Rcvds>>
  <2>1. \A f \in Fork : Undelivered(f)' = Undelivered(f) /\ Received(f)' = Received(f)
    BY <1>1, ChannelSame DEF Keeps, GotSame
  <2>2. Chans' = Chans /\ Rcvds' = Rcvds  BY <2>1 DEF Chans, Rcvds
  <2>3. UNCHANGED (aEC = "success")  BY <1>1 DEF Keeps
  <2> QED BY <2>2, <2>3
<1>2. CASE SenderStep
  <2>1. GotSame
    <3>1. UNCHANGED <<bVars, got>>  BY <1>2, SenderMoves
    <3> QED BY <3>1 DEF GotSame, GotOn, bVars
  <2>2. ASSUME NEW f \in Fork, NEW n \in Id, Accepts(f, n) PROVE Channel!Next
    <3>1. Channel!Send(f, n)  BY <2>1, <2>2, AcceptSends
    <3> QED BY <3>1 DEF Channel!Next
  <2>3. ASSUME Loses PROVE Channel!Next
    <3>1. Channel!Fail  BY <2>1, <2>3, LoseFails
    <3> QED BY <3>1 DEF Channel!Next
  <2>4. Keeps \/ Loses \/ \E f \in Fork, n \in Id : Accepts(f, n)  BY <1>0, <1>2, AliveMoves
  <2> QED BY <1>1, <2>1, <2>2, <2>3, <2>4
<1>3. CASE ReceiverStep
  <2>1. Keeps
    <3>1. UNCHANGED aVars  BY <1>3, ReceiverMoves
    <3> QED BY <3>1 DEF Keeps, Alive, A!Pending, aVars
  <2>2. ASSUME NEW f \in Fork, NEW m \in Id, Gets(f, m) PROVE Channel!Next
    <3>1. Channel!Recv(f)  BY <2>1, <2>2, GetReceives
    <3> QED BY <3>1 DEF Channel!Next
  <2>3. GotSame \/ \E f \in Fork, m \in Id : Gets(f, m)  BY <1>0, <1>3, GotMoves
  <2> QED BY <1>1, <2>1, <2>2, <2>3
<1>4. CASE UNCHANGED vars
  <2>1. Keeps  BY <1>4 DEF vars, aVars, Keeps, Alive, A!Pending
  <2>2. GotSame  BY <1>4 DEF vars, bVars, GotSame, GotOn
  <2> QED BY <1>1, <2>1, <2>2
<1> QED BY <1>2, <1>3, <1>4 DEF Next

\* At the start every channel is empty.
LEMMA ChannelInit == Init => Channel!Init
<1> SUFFICES ASSUME Init PROVE Channel!Init  OBVIOUS
<1>1. aNumSends = 0 /\ bNumIssued = 0 /\ aEC = "success"  BY DEF Init, A!Init, B!Init
<1>2. Enumerates(InOrder({}), {})
  <2>1. 0 \in Nat /\ {} \in SUBSET (1..0)  OBVIOUS
  <2> QED BY <2>1, InOrderEnumerates
<1>3. InOrder({}) = <<>>  BY <1>2, EmptyQueue DEF Enumerates
<1>4. ASSUME NEW f \in Fork PROVE Received(f) = <<>> /\ Undelivered(f) = <<>>
  <2>1. /\ {o \in 1..aNumSends : aFork[o] = f /\ aStatus[o] # "refused" /\ aResult[o] = "none"} = {}
        /\ {o \in 1..bNumIssued : bFork[o] = f /\ got[o] # 0} = {}
    BY <1>1
  <2>2. Accepted(f) = <<>>  BY <1>3, <2>1 DEF Accepted
  <2>3. Received(f) = <<>>
    <3>1. PICK done : done = <<>>  OBVIOUS
    <3>2. PICK r : r = [i \in DOMAIN done |-> got[done[i]]]  BY Zenon
    <3>3. Received(f) = r  BY <1>3, <2>1, <3>1, <3>2, Zenon DEF Received
    <3>4. DOMAIN done = 1..0  BY <3>1
    <3>5. r \in [1..0 -> Nat]  BY <3>2, <3>4
    <3>6. r \in Seq(Nat) /\ Len(r) = 0  BY <3>5
    <3> QED BY <3>3, <3>6
  <2>4. SubSeq(Accepted(f), 1, 0) = <<>> /\ Len(<<>>) = 0  BY SubSeqEmpty
  <2> QED BY <2>2, <2>3, <2>4 DEF Undelivered
<1> QED BY <1>1, <1>4 DEF Channel!Init
-----------------------------------------------------------------------------
(* The endpoints are schedulers *)

\* The theorems about the two endpoints.
AP == INSTANCE SockSchedulerProofs WITH
        MaxSends <- NumMessages, MaxRecvs <- 0, MaxFlushes <- 0, TokenSends <- {}, TokenRecvs <- {},
        TailCancel <- FALSE, WrapCancel <- FALSE, BlockCapacity <- 8, PeerMayFail <- FALSE,
        mEC <- aEC, mSocketForks <- aForks, mLocalId <- aLocalId, mRemoteId <- [f \in Fork |-> 0],
        mInitiated <- aInitiated, sockClosed <- aClosed, destroyed <- idle.flag, terminated <- idle.flag,
        mSendStatus <- aSendStatus, sendPc <- aSendPc, sendOp <- aSendOp, sendEc <- aSendEc,
        mSendBuffer <- aList, mSendBufferLast <- aLast, mSendOps <- aSendOps, sendHole <- idle.hole,
        numSends <- aNumSends, sFork <- aFork, sStatus <- aStatus, sResult <- aResult,
        mSendCancelSrc <- "held", sendStop <- aSendStop,
        mRecvStatus <- "Idle", recvPc <- aRecvPc, recvOp <- 0, recvEc <- "success", mRecvOps <- idle.queue,
        recvHole <- idle.hole, numRecvsIssued <- 0, rFork <- idle.ops, rStatus <- idle.ops, rResult <- idle.ops,
        mRecvCancelSrc <- "held", recvStop <- idle.flag, headerSlot <- 0, mNumRecvs <- 0,
        mFlush <- idle.ops, flushOps <- idle.ops, flushWait <- idle.ops, sent <- aSent, tokenStopped <- idle.stops

BP == INSTANCE SockSchedulerProofs WITH
        MaxSends <- 0, MaxRecvs <- NumMessages, MaxFlushes <- 0, TokenSends <- {}, TokenRecvs <- {},
        TailCancel <- FALSE, WrapCancel <- FALSE, BlockCapacity <- 8, PeerMayFail <- TRUE,
        mEC <- bEC, mSocketForks <- bForks, mLocalId <- bLocalId, mRemoteId <- bRemoteId,
        mInitiated <- idle.hole, sockClosed <- idle.flag, destroyed <- idle.flag, terminated <- idle.flag,
        mSendStatus <- "Idle", sendPc <- bSendPc, sendOp <- 0, sendEc <- "success",
        mSendBuffer <- idle.list, mSendBufferLast <- 0, mSendOps <- idle.queue, sendHole <- idle.hole,
        numSends <- 0, sFork <- idle.ops, sStatus <- idle.ops, sResult <- idle.ops,
        mSendCancelSrc <- "held", sendStop <- idle.flag,
        mRecvStatus <- bRecvStatus, recvPc <- bRecvPc, recvOp <- bRecvOp, recvEc <- bRecvEc, mRecvOps <- bRecvOps,
        recvHole <- idle.hole, numRecvsIssued <- bNumIssued, rFork <- bFork, rStatus <- bStatus, rResult <- bResult,
        mRecvCancelSrc <- "held", recvStop <- bRecvStop, headerSlot <- bSlot, mNumRecvs <- bNumRecvs,
        mFlush <- idle.ops, flushOps <- idle.ops, flushWait <- idle.ops, sent <- idle.list, tokenStopped <- idle.stops

\* An action of endpoint A is one of SockScheduler.
LEMMA SenderActions ==
    /\ \A f : A!SendWake(f) => AP!SendWake(f)
    /\ \A f : A!SendQueue(f) => AP!SendQueue(f)
    /\ \A f : A!ForkSocket(f) => AP!ForkSocket(f)
    /\ A!CloseSocket => AP!CloseSocket
    /\ A!SendNext => AP!SendNext
    /\ A!SendIdle => AP!SendIdle
    /\ A!SendClose => AP!SendClose
    /\ A!SendIoDone => AP!SendIoDone
    /\ A!SendIoFail("closed") => AP!SendIoFail("closed")
<1> USE DEF A!forkVars, AP!forkVars, A!lifeVars, AP!lifeVars, A!sendVars, AP!sendVars, A!recvVars,
      AP!recvVars, A!flushVars, AP!flushVars, A!histVars, AP!histVars, A!sendOps, AP!sendOps, A!sendTask,
      AP!sendTask, A!sendList, AP!sendList, A!sendStopVars, AP!sendStopVars, A!recvOps, AP!recvOps,
      A!recvTask, AP!recvTask, A!recvStopVars, AP!recvStopVars, A!None, AP!None
<1>1. \A f : A!SendWake(f) => AP!SendWake(f)
  BY DEF A!SendWake, AP!SendWake, A!StartSend, AP!StartSend, A!IssueSend, AP!IssueSend, A!Usable, AP!Usable,
      A!EmplaceSend, AP!EmplaceSend
<1>2. \A f : A!SendQueue(f) => AP!SendQueue(f)
  BY DEF A!SendQueue, AP!SendQueue, A!LinkSend, AP!LinkSend, A!ToSet, AP!ToSet, A!IssueSend, AP!IssueSend,
      A!Usable, AP!Usable, A!EmplaceSend, AP!EmplaceSend
<1>3. \A f : A!ForkSocket(f) => AP!ForkSocket(f)
  BY DEF A!ForkSocket, AP!ForkSocket, A!ToSet, AP!ToSet, A!Cardinality, AP!Cardinality
<1>4. A!CloseSocket => AP!CloseSocket
  BY DEF A!CloseSocket, AP!CloseSocket
<1>5. A!SendNext => AP!SendNext
  BY DEF A!SendNext, AP!SendNext, A!StartSend, AP!StartSend, A!ReleaseFlushes, AP!ReleaseFlushes, A!FlushId,
      AP!FlushId, A!CompleteSend, AP!CompleteSend, A!HoleAfter, AP!HoleAfter, A!ToSet, AP!ToSet
<1>6. A!SendIdle => AP!SendIdle
  BY DEF A!SendIdle, AP!SendIdle, A!ReleaseFlushes, AP!ReleaseFlushes, A!FlushId, AP!FlushId, A!CompleteSend,
      AP!CompleteSend, A!HoleAfter, AP!HoleAfter, A!ToSet, AP!ToSet
<1>7. A!SendClose => AP!SendClose
  BY DEF A!SendClose, AP!SendClose, A!AfterFirst, AP!AfterFirst, A!Outcome, AP!Outcome, A!SendId, AP!SendId,
      A!ReleaseFlushes, AP!ReleaseFlushes, A!FlushId, AP!FlushId, A!ToSet, AP!ToSet, A!Cardinality,
      AP!Cardinality, A!CloseRecvTask, AP!CloseRecvTask
<1>8. A!SendIoDone => AP!SendIoDone
  BY DEF A!SendIoDone, AP!SendIoDone
<1>9. A!SendIoFail("closed") => AP!SendIoFail("closed")
  BY DEF A!SendIoFail, AP!SendIoFail, A!IoError, AP!IoError
<1> QED BY <1>1, <1>2, <1>3, <1>4, <1>5, <1>6, <1>7, <1>8, <1>9

\* An action of endpoint B is one of SockScheduler.
LEMMA ReceiverActions ==
    /\ \A f : B!RecvWake(f) => BP!RecvWake(f)
    /\ \A f : B!RecvMatch(f) => BP!RecvMatch(f)
    /\ \A f : B!RecvQueue(f) => BP!RecvQueue(f)
    /\ \A f : B!ForkSocket(f) => BP!ForkSocket(f)
    /\ \A s, n : B!RecvHeader(s, n) => BP!RecvHeader(s, n)
    /\ \A f : B!RecvNewFork(f) => BP!RecvNewFork(f)
    /\ \A f : B!RecvBadFork(f) => BP!RecvBadFork(f)
    /\ B!RecvBody => BP!RecvBody
    /\ B!RecvIoFail("remoteClosed") => BP!RecvIoFail("remoteClosed")
    /\ B!GetForkUnknown => BP!GetForkUnknown
    /\ \A f : B!GetForkClosed(f) => BP!GetForkClosed(f)
    /\ \A f : B!GetForkWait(f) => BP!GetForkWait(f)
    /\ \A f : B!GetForkFound(f) => BP!GetForkFound(f)
    /\ B!RecvSizeOk => BP!RecvSizeOk
    /\ B!RecvSizeBad => BP!RecvSizeBad
    /\ B!RecvNext => BP!RecvNext
    /\ B!RecvIdle => BP!RecvIdle
    /\ B!RecvClose => BP!RecvClose
<1> USE DEF B!forkVars, BP!forkVars, B!lifeVars, BP!lifeVars, B!sendVars, BP!sendVars, B!recvVars,
      BP!recvVars, B!flushVars, BP!flushVars, B!histVars, BP!histVars, B!sendOps, BP!sendOps, B!sendTask,
      BP!sendTask, B!sendList, BP!sendList, B!sendStopVars, BP!sendStopVars, B!recvOps, BP!recvOps,
      B!recvTask, BP!recvTask, B!recvStopVars, BP!recvStopVars, B!None, BP!None
<1>1. \A f : B!RecvWake(f) => BP!RecvWake(f)
  BY DEF B!RecvWake, BP!RecvWake, B!IssueRecv, BP!IssueRecv, B!Usable, BP!Usable, B!EmplaceRecv,
      BP!EmplaceRecv
<1>2. \A f : B!RecvMatch(f) => BP!RecvMatch(f)
  BY DEF B!RecvMatch, BP!RecvMatch, B!Requested, BP!Requested, B!IssueRecv, BP!IssueRecv, B!Usable, BP!Usable,
      B!EmplaceRecv, BP!EmplaceRecv
<1>3. \A f : B!RecvQueue(f) => BP!RecvQueue(f)
  BY DEF B!RecvQueue, BP!RecvQueue, B!Requested, BP!Requested, B!IssueRecv, BP!IssueRecv, B!Usable, BP!Usable,
      B!EmplaceRecv, BP!EmplaceRecv
<1>4. \A f : B!ForkSocket(f) => BP!ForkSocket(f)
  BY DEF B!ForkSocket, BP!ForkSocket, B!ToSet, BP!ToSet, B!Cardinality, BP!Cardinality
<1>5. \A s, n : B!RecvHeader(s, n) => BP!RecvHeader(s, n)
  BY DEF B!RecvHeader, BP!RecvHeader
<1>6. \A f : B!RecvNewFork(f) => BP!RecvNewFork(f)
  BY DEF B!RecvNewFork, BP!RecvNewFork, B!ToSet, BP!ToSet
<1>7. \A f : B!RecvBadFork(f) => BP!RecvBadFork(f)
  BY DEF B!RecvBadFork, BP!RecvBadFork
<1>8. B!RecvBody => BP!RecvBody
  BY DEF B!RecvBody, BP!RecvBody
<1>9. B!RecvIoFail("remoteClosed") => BP!RecvIoFail("remoteClosed")
  BY DEF B!RecvIoFail, BP!RecvIoFail, B!IoError, BP!IoError
<1>10. B!GetForkUnknown => BP!GetForkUnknown
  BY DEF B!GetForkUnknown, BP!GetForkUnknown, B!CloseSendTask, BP!CloseSendTask, B!FailRecvs, BP!FailRecvs,
      B!RecvRest, BP!RecvRest, B!ToSet, BP!ToSet, B!RecvId, BP!RecvId, B!Outcome, BP!Outcome,
      B!ReleaseFlushes, BP!ReleaseFlushes, B!FlushId, BP!FlushId
<1>11. \A f : B!GetForkClosed(f) => BP!GetForkClosed(f)
  BY DEF B!GetForkClosed, BP!GetForkClosed
<1>12. \A f : B!GetForkWait(f) => BP!GetForkWait(f)
  BY DEF B!GetForkWait, BP!GetForkWait
<1>13. \A f : B!GetForkFound(f) => BP!GetForkFound(f)
  BY DEF B!GetForkFound, BP!GetForkFound
<1>14. B!RecvSizeOk => BP!RecvSizeOk
  BY DEF B!RecvSizeOk, BP!RecvSizeOk
<1>15. B!RecvSizeBad => BP!RecvSizeBad
  BY DEF B!RecvSizeBad, BP!RecvSizeBad
<1>16. B!RecvNext => BP!RecvNext
  BY DEF B!RecvNext, BP!RecvNext, B!CompleteRecv, BP!CompleteRecv, B!RecvRest, BP!RecvRest, B!HoleAfter,
      BP!HoleAfter, B!ResetRecvToken, BP!ResetRecvToken, B!ReleaseFlushes, BP!ReleaseFlushes, B!FlushId,
      BP!FlushId
<1>17. B!RecvIdle => BP!RecvIdle
  BY DEF B!RecvIdle, BP!RecvIdle, B!CompleteRecv, BP!CompleteRecv, B!RecvRest, BP!RecvRest, B!HoleAfter,
      BP!HoleAfter, B!ResetRecvToken, BP!ResetRecvToken, B!ReleaseFlushes, BP!ReleaseFlushes, B!FlushId,
      BP!FlushId
<1>18. B!RecvClose => BP!RecvClose
  BY DEF B!RecvClose, BP!RecvClose, B!AfterFirst, BP!AfterFirst, B!ResetRecvToken, BP!ResetRecvToken,
      B!CloseSendTask, BP!CloseSendTask, B!FailRecvs, BP!FailRecvs, B!RecvRest, BP!RecvRest, B!ToSet,
      BP!ToSet, B!RecvId, BP!RecvId, B!Outcome, BP!Outcome, B!ReleaseFlushes, BP!ReleaseFlushes, B!FlushId,
      BP!FlushId
<1> QED BY <1>1, <1>2, <1>3, <1>4, <1>5, <1>6, <1>7, <1>8, <1>9, <1>10, <1>11, <1>12, <1>13, <1>14, <1>15, <1>16, <1>17, <1>18

\* What SockScheduler assumes of its constants holds of the two instances.
LEMMA AssumptionsA ==
    /\ RootFork \in Fork /\ AP!IsFiniteSet(Fork)
    /\ BadSlot \in Slot
    /\ NumMessages \in Nat /\ 0 \in Nat /\ 0 \in Nat
    /\ {} \subseteq AP!SendId /\ {} \subseteq AP!RecvId
    /\ FALSE \in BOOLEAN /\ FALSE \in BOOLEAN
    /\ AP!None \notin Slot
<1>1. AP!IsFiniteSet(Fork)  BY PairAssumption DEF PairAssumption, IsFiniteSet, AP!IsFiniteSet
<1>2. Cardinality(Fork) \in Nat  BY PairAssumption, FS_CardinalityType DEF PairAssumption
<1> QED BY <1>1, <1>2, PairAssumption DEF PairAssumption, Slot, BadSlot, AP!None

LEMMA AssumptionsB ==
    /\ RootFork \in Fork /\ BP!IsFiniteSet(Fork)
    /\ BadSlot \in Slot
    /\ 0 \in Nat /\ NumMessages \in Nat /\ 0 \in Nat
    /\ {} \subseteq BP!SendId /\ {} \subseteq BP!RecvId
    /\ FALSE \in BOOLEAN /\ TRUE \in BOOLEAN
    /\ BP!None \notin Slot
<1>1. BP!IsFiniteSet(Fork)  BY PairAssumption DEF PairAssumption, IsFiniteSet, BP!IsFiniteSet
<1>2. Cardinality(Fork) \in Nat  BY PairAssumption, FS_CardinalityType DEF PairAssumption
<1> QED BY <1>1, <1>2, PairAssumption DEF PairAssumption, Slot, BadSlot, BP!None

\* Both endpoints start as their constructors leave them.
LEMMA InitEndpoints == Init => AP!Init /\ BP!Init
<1> SUFFICES ASSUME Init PROVE AP!Init /\ BP!Init  OBVIOUS
<1>1. A!Init /\ B!Init  BY DEF Init
<1>2. AP!Init  BY <1>1 DEF A!Init, AP!Init, A!None, AP!None, A!SendId, AP!SendId, A!RecvId, AP!RecvId, A!FlushId, AP!FlushId
<1>3. BP!Init  BY <1>1 DEF B!Init, BP!Init, B!None, BP!None, B!SendId, BP!SendId, B!RecvId, BP!RecvId, B!FlushId, BP!FlushId
<1> QED BY <1>2, <1>3

\* A step of the pair is a step of endpoint A or leaves it alone.
LEMMA StepA == [Next]_vars => [AP!Next]_(AP!vars)
<1> SUFFICES ASSUME [Next]_vars PROVE [AP!Next]_(AP!vars)  OBVIOUS
<1>1. ASSUME UNCHANGED <<aVars, idle>> PROVE UNCHANGED AP!vars
  BY <1>1 DEF aVars, AP!vars, AP!forkVars, AP!lifeVars, AP!sendVars, AP!recvVars, AP!flushVars, AP!histVars,
      AP!sendOps, AP!sendTask, AP!sendList, AP!sendStopVars, AP!recvOps, AP!recvTask, AP!recvStopVars
<1>2. CASE SenderStep
  <2>1. CASE A!SendIoDone  BY <2>1, SenderActions DEF AP!Next, AP!SocketStep
  <2>2. CASE \E f \in Fork : A!SendWake(f) \/ A!SendQueue(f)
    BY <2>2, SenderActions DEF AP!Next, AP!UserStep
  <2>3. CASE Unforked # {} /\ A!ForkSocket(CHOOSE f \in Unforked : TRUE)
    <3> DEFINE f == CHOOSE f \in Unforked : TRUE
    <3>1. f \in Fork  BY <2>3 DEF Unforked
    <3>2. AP!ForkSocket(f)  BY <2>3, SenderActions
    <3> QED BY <3>1, <3>2 DEF AP!Next, AP!UserStep
  <2>4. CASE A!CloseSocket  BY <2>4, SenderActions DEF AP!Next, AP!UserStep
  <2>5. CASE A!SendTaskStep
    BY <2>5, SenderActions DEF A!SendTaskStep, AP!Next, AP!SendTaskStep
  <2>6. CASE A!SendIoFail("closed")
    BY <2>6, SenderActions DEF AP!Next, AP!SocketStep, AP!Code
  <2> QED BY <1>2, <2>1, <2>2, <2>3, <2>4, <2>5, <2>6 DEF SenderStep
<1>3. CASE ReceiverStep  BY <1>1, <1>3 DEF ReceiverStep
<1>4. CASE UNCHANGED vars  BY <1>1, <1>4 DEF vars
<1> QED BY <1>2, <1>3, <1>4 DEF Next

\* Endpoint A behaves as a scheduler of its own.
THEOREM SenderIsScheduler == Spec => AP!Spec
<1>1. Init => AP!Init  BY InitEndpoints
<1>2. [Next]_vars => [AP!Next]_(AP!vars)  BY StepA
<1> QED BY <1>1, <1>2, PTL DEF Spec, AP!Spec

\* So what is proved of schedulers holds of A.
LEMMA SenderInvariants ==
    Spec => [](AP!TypeOK /\ AP!SendInv /\ AP!SentInv)
<1>1. AP!Spec => [](AP!TypeOK /\ AP!SendInv /\ AP!RecvInv)  BY AP!Invariance, AssumptionsA
<1>2. AP!Spec => [](AP!SentInv /\ AP!CauseInv /\ AP!FlushInv /\ AP!DestroyInv)
  BY AP!OutcomeInvariance, AssumptionsA
<1> QED BY <1>1, <1>2, SenderIsScheduler, PTL

LEMMA SenderFacts == Spec => []SenderOK
<1>1. AP!TypeOK /\ AP!SendInv /\ AP!SentInv => SenderOK
  <2> SUFFICES ASSUME AP!TypeOK, AP!SendInv, AP!SentInv PROVE SenderOK  OBVIOUS
  <2>1. \A s : AP!ToSet(s) = ToSet(s)  BY DEF AP!ToSet, ToSet
  <2>2. AP!Pending(aStatus) = A!Pending(aStatus)  BY DEF AP!Pending, A!Pending
  <2>3. AP!Increasing(aList) => Increasing(aList)  BY DEF AP!Increasing, Increasing
  <2>4. /\ aLocalId \in [Fork -> Nat] /\ aInitiated \in [Fork -> BOOLEAN]
        /\ aSendPc \in {"idle", "meta", "header", "body", "next", "exit"}
        /\ aSendOp \in Id \cup {0} /\ aList \in Seq(Id) /\ aSent \in Seq(Id)
        /\ aNumSends \in 0..NumMessages /\ aFork \in [Id -> Fork] /\ aStatus \in [Id -> A!OpStatus]
    BY DEF AP!TypeOK, AP!ForkTypeOK, AP!SendTypeOK, AP!SendPc, AP!SendId, AP!None, AP!OpStatus, A!OpStatus, Id
  <2>5. /\ \A o \in Id : aStatus[o] = "unused" <=> o > aNumSends
        /\ ToSet(aList) = A!Pending(aStatus) /\ Increasing(aList)
        /\ aSendPc \in {"idle", "exit"} => aList = <<>>
        /\ aSendPc \in {"meta", "header", "body", "next"} => aList # <<>> /\ aList[1] = aSendOp
    BY <2>1, <2>2, <2>3 DEF AP!SendInv, AP!SendsReachable, AP!HeadInProgress, AP!SendId, Id
  <2>6. /\ aSendPc # "next" => aSendEc = "success"
        /\ aSendPc = "next" /\ aSendEc = "success" => aSendOp \in ToSet(aSent)
        /\ \A m \in ToSet(aSent) : \A p \in A!Pending(aStatus) : m <= p
        /\ \A m \in ToSet(aSent) :
            aStatus[m] = "completed" \/ (m = aSendOp /\ aSendPc = "next" /\ aSendEc = "success")
    BY <2>1, <2>2 DEF AP!SentInv
  <2> QED BY <2>4, <2>5, <2>6 DEF SenderOK
<1> QED BY <1>1, SenderInvariants, PTL

\* The stream holds pieces that B can read.
LEMMA WireTyped == Spec => [](LocalIds /\ wire \in Seq(Piece))
<1>1. Init => LocalIds /\ wire \in Seq(Piece)  BY PairInit DEF PairInv, FrameInv
<1>2. SenderOK /\ (LocalIds /\ wire \in Seq(Piece)) /\ [Next]_vars => (LocalIds /\ wire \in Seq(Piece))'
  BY LocalIdsStep, WireTypeStep
<1> QED BY <1>1, <1>2, SenderFacts, PTL DEF Spec

\* A step of the pair is a step of endpoint B or leaves it alone.
LEMMA StepB ==
    ASSUME wire \in Seq(Piece), [Next]_vars
    PROVE  [BP!Next]_(BP!vars)
<1>1. ASSUME UNCHANGED <<bVars, idle>> PROVE UNCHANGED BP!vars
  BY <1>1 DEF bVars, BP!vars, BP!forkVars, BP!lifeVars, BP!sendVars, BP!recvVars, BP!flushVars, BP!histVars,
      BP!sendOps, BP!sendTask, BP!sendList, BP!sendStopVars, BP!recvOps, BP!recvTask, BP!recvStopVars
<1>2. CASE ReceiverStep
  <2>0. wire # <<>> => wire[1] \in Piece  OBVIOUS
  <2>1. CASE ReadNext("header") /\ B!RecvHeader(wire[1].slot, IF wire[1].control THEN "meta" ELSE "getFork")
    <3>1. wire[1].slot \in Slot  BY <2>0, <2>1 DEF ReadNext, Piece
    <3>2. BP!RecvHeader(wire[1].slot, "meta") \/ BP!RecvHeader(wire[1].slot, "getFork")
      BY <2>1, ReceiverActions
    <3> QED BY <3>1, <3>2 DEF BP!Next, BP!SocketStep
  <2>2. CASE ReadNext("session") /\ (B!RecvNewFork(wire[1].fork) \/ B!RecvBadFork(wire[1].fork))
    <3>1. wire[1].fork \in Fork  BY <2>0, <2>2 DEF ReadNext, Piece
    <3> QED BY <2>2, <3>1, ReceiverActions DEF BP!Next, BP!SocketStep
  <2>3. CASE B!RecvBody  BY <2>3, ReceiverActions DEF BP!Next, BP!SocketStep
  <2>4. CASE \E f \in Fork : B!RecvWake(f) \/ B!RecvMatch(f) \/ B!RecvQueue(f) \/ B!ForkSocket(f)
    BY <2>4, ReceiverActions DEF BP!Next, BP!UserStep
  <2>5. CASE B!RecvTaskStep
    BY <2>5, ReceiverActions DEF B!RecvTaskStep, BP!Next, BP!RecvTaskStep
  <2>6. CASE B!RecvIoFail("remoteClosed")
    BY <2>6, ReceiverActions DEF BP!Next, BP!SocketStep, BP!Code
  <2> QED BY <1>2, <2>1, <2>2, <2>3, <2>4, <2>5, <2>6 DEF ReceiverStep, ReceiverRead
<1>3. CASE SenderStep  BY <1>1, <1>3 DEF SenderStep
<1>4. CASE UNCHANGED vars  BY <1>1, <1>4 DEF vars
<1> QED BY <1>2, <1>3, <1>4 DEF Next

\* Endpoint B behaves as a scheduler of its own, whose peer sends headers with
\* legal ids and sessions that exist.
THEOREM ReceiverIsScheduler == Spec => BP!Spec
<1>1. Init => BP!Init  BY InitEndpoints
<1>2. wire \in Seq(Piece) /\ [Next]_vars => [BP!Next]_(BP!vars)  BY StepB
<1> QED BY <1>1, <1>2, WireTyped, PTL DEF Spec, BP!Spec

LEMMA ReceiverFacts == Spec => []ReceiverOK
<1>1. BP!TypeOK /\ BP!RecvInv => ReceiverOK
  <2> SUFFICES ASSUME BP!TypeOK, BP!RecvInv PROVE ReceiverOK  OBVIOUS
  <2>1. \A s : BP!ToSet(s) = ToSet(s)  BY DEF BP!ToSet, ToSet
  <2>2. BP!Pending(bStatus) = B!Pending(bStatus)  BY DEF BP!Pending, B!Pending
  <2>3. \A s : BP!Increasing(s) => Increasing(s)  BY DEF BP!Increasing, Increasing
  <2>4. /\ bRemoteId \in [Fork -> Slot \cup {0}] /\ bSlot \in Slot \cup {0} /\ bRecvOp \in Id \cup {0}
        /\ bRecvOps \in [Fork -> Seq(Id)] /\ bNumIssued \in 0..NumMessages
        /\ bFork \in [Id -> Fork] /\ bStatus \in [Id -> B!OpStatus]
    BY DEF BP!TypeOK, BP!ForkTypeOK, BP!RecvTypeOK, BP!RecvId, BP!None, BP!OpStatus, B!OpStatus, Id
  <2>5. \A o \in Id : bStatus[o] = "unused" <=> o > bNumIssued  BY DEF BP!RecvInv, BP!RecvId, Id
  <2>6. \A f \in Fork :
          ToSet(bRecvOps[f]) = {o \in B!Pending(bStatus) : bFork[o] = f} /\ Increasing(bRecvOps[f])
    BY <2>1, <2>2, <2>3 DEF BP!RecvInv, BP!RecvsQueued
  <2>7. bRecvOp # 0 =>
          /\ bRecvPc \in {"gotOp", "body", "any"}
          /\ bRecvOps[bFork[bRecvOp]] # <<>> /\ bRecvOps[bFork[bRecvOp]][1] = bRecvOp
          /\ bStatus[bRecvOp] \in {"InProgress", "Canceling"}
    BY DEF BP!RecvInv, BP!RecvsQueued, BP!RecvLocals, BP!None
  <2>8. /\ bRecvPc \in {"gotOp", "body"} => bRecvOp # 0
        /\ bRecvPc = "any" /\ bRecvEc = "success" => bRecvOp # 0
        /\ bRecvPc # "any" => bRecvEc = "success"
        /\ bRecvPc = "exit" => bEC # "success"
        /\ bRecvPc \in {"getFork", "requested"} => bSlot # 0
        /\ \A f, g \in Fork : bRemoteId[f] = bRemoteId[g] /\ bRemoteId[f] # 0 => f = g
    BY DEF BP!RecvInv, BP!RecvLocals, BP!None
  <2> QED BY <2>4, <2>5, <2>6, <2>7, <2>8 DEF ReceiverOK
<1>2. BP!Spec => [](BP!TypeOK /\ BP!SendInv /\ BP!RecvInv)  BY BP!Invariance, AssumptionsB
<1> QED BY <1>1, <1>2, ReceiverIsScheduler, PTL
-----------------------------------------------------------------------------
(* The theorems *)

\* The inductive invariant of the pair: the stream is framed, both sides agree on
\* the ids of the forks, only the end of the stream fails B, and messages keep
\* their order.
THEOREM PairInvariance == Spec => []PairInv
<1>1. Init => PairInv  BY PairInit
<1>2. SenderOK /\ ReceiverOK /\ PairInv /\ [Next]_vars => PairInv'
  BY LocalIdsStep, FrameStep, IdStep, FailStep, FifoStep DEF PairInv
<1> QED BY <1>1, <1>2, SenderFacts, ReceiverFacts, PTL DEF Spec

\* Framed: receiveDataTask never takes a piece of the stream for one of another
\* kind, whatever the forks, the messages and the order of the calls.
THEOREM StreamFramed == Spec => []Framed
<1>1. ReceiverOK /\ PairInv => Framed
  <2> SUFFICES ASSUME ReceiverOK, PairInv, wire # <<>>, bRecvPc \in {"meta", "body", "header"}
               PROVE  wire[1].what = Reads
    BY DEF Framed, Reads
  <2>1. ReceiverLives  BY DEF PairInv, FailInv
  <2> QED BY <2>1 DEF PairInv, FrameInv
<1> QED BY <1>1, PairInvariance, ReceiverFacts, PTL

\* PeerUnderstood: getFork finds the fork of every header that a scheduler wrote,
\* and no fork is announced twice, so neither task fails with
\* badCoprotoMessageHeader.
THEOREM PeerIsUnderstood == Spec => []PeerUnderstood
<1>1. PairInv => PeerUnderstood  BY DEF PairInv, FailInv, PeerUnderstood
<1> QED BY <1>1, PairInvariance, PTL

\* ForkFifo: each fork is a FIFO channel, although all share one stream: its k-th
\* recv gets its k-th message.
THEOREM ForksAreFifo == Spec => []ForkFifo
<1>1. SenderOK /\ ReceiverOK /\ PairInv => ForkFifo
  <2> SUFFICES ASSUME SenderOK, ReceiverOK, PairInv, NEW o \in 1..bNumIssued, got[o] # 0
               PROVE  /\ aFork[got[o]] = bFork[o]
                      /\ \A p \in 1..(o - 1) : bFork[p] = bFork[o] => got[p] # 0 /\ got[p] < got[o]
                      /\ \A m \in 1..(got[o] - 1) : aFork[m] = bFork[o] => \E p \in 1..(o - 1) : got[p] = m
    BY DEF ForkFifo
  <2>1. o \in Id /\ o \in Nat  BY ReceiverIds
  <2>2. GotInv(o)  BY <2>1 DEF PairInv, FifoInv
  <2>3. got[o] \in Nat  BY <2>2, SentIssued, SenderIds DEF GotInv
  <2>4. ASSUME NEW m \in 1..(got[o] - 1), aFork[m] = bFork[o] PROVE \E p \in 1..(o - 1) : got[p] = m
    <3>1. m \in 1..got[o] /\ m < got[o] /\ m \in Nat /\ m # 0  BY <2>3
    <3>2. m \in ToSet(aSent)  BY <2>2, <3>1 DEF PairInv, FifoInv, SendsInOrder, GotInv
    <3>3. ~\E i \in 1..Len(wire) : IsBody(i) /\ wire[i].message = m
      BY <2>2, <2>3, <3>1 DEF GotInv
    <3>4. PICK p \in Id : got[p] = m  BY <3>2, <3>3 DEF PairInv, FifoInv, WireOrder
    <3>5. GotInv(p) /\ p \in Nat  BY <3>1, <3>4, SenderIds DEF PairInv, FifoInv
    <3>6. bFork[p] = bFork[o] /\ p # o  BY <2>4, <3>1, <3>4, <3>5 DEF GotInv
    <3>7. ~(o < p)
      <4>1. ASSUME o < p PROVE FALSE
        <5>1. o \in 1..(p - 1)  BY <2>1, <3>5, <4>1 DEF Id
        <5>2. got[o] < m  BY <3>4, <3>5, <3>6, <5>1 DEF GotInv
        <5> QED BY <2>3, <3>1, <5>2
      <4> QED BY <4>1
    <3>8. p \in 1..(o - 1)  BY <2>1, <3>4, <3>5, <3>6, <3>7 DEF Id
    <3> QED BY <3>4, <3>8
  <2> QED BY <2>2, <2>4 DEF GotInv
<1> QED BY <1>1, PairInvariance, SenderFacts, ReceiverFacts, PTL

\* The sends of A end as those of any scheduler.
LEMMA SenderResultFacts == Spec => []SenderResults
<1>1. AP!SentInv /\ SenderOK => SenderResults
  <2> SUFFICES ASSUME AP!SentInv, SenderOK PROVE SenderResults  OBVIOUS
  <2>1. \A s : AP!ToSet(s) = ToSet(s)  BY DEF AP!ToSet, ToSet
  <2>2. AP!Pending(aStatus) = A!Pending(aStatus)  BY DEF AP!Pending, A!Pending
  <2>3. AP!SendId = Id  BY DEF AP!SendId, Id
  <2> QED BY <2>1, <2>2, <2>3 DEF AP!SentInv, AP!SentInOrder, SenderResults
<1> QED BY <1>1, SenderInvariants, SenderFacts, PTL

\* ImplementsChannel: the pair implements one FIFO channel per fork.
THEOREM ChannelsAreImplemented == Spec => ImplementsChannel
<1>1. Init => Channel!Init  BY ChannelInit
<1>2. ChannelShape /\ ChannelShape' /\ ChannelOK /\ TaskOpen /\ [Next]_vars
      => [Channel!Next]_(<<aEC = "success", [f \in Fork |-> Undelivered(f)], [f \in Fork |-> Received(f)]>>)
  BY ChannelStep DEF Chans, Rcvds
<1>3. ChannelOK => ChannelShape  BY ChannelIs
<1>4. Spec => []ChannelOK
  BY SenderFacts, ReceiverFacts, PairInvariance, ForksAreFifo, SenderResultFacts, PTL DEF ChannelOK
<1> QED BY <1>1, <1>2, <1>3, <1>4, TaskOpenFacts, PTL DEF Spec, ImplementsChannel, Channel!Spec
=============================================================================
