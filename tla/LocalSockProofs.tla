--------------------------- MODULE LocalSockProofs ---------------------------
(***************************************************************************)
(* Proofs about LocalAsyncSock, for any number and size of operations, in  *)
(* both directions, with stops, closes and injected errors.                *)
(***************************************************************************)
EXTENDS LocalAsyncSock, OpSeqProofs, FiniteSetTheorems, TLAPS

\* The types of the variables that decide who resumes an awaiter.
ControlTypes ==
    /\ mEc \in [Side -> Code] /\ mInbound \in [Side -> SUBSET {"send", "recv"}]
    /\ pc \in [Op -> {"out", "start", "suspended"}] /\ opEc \in [Op -> Code \cup {"unset"}]
    /\ left \in [Op -> Int]
    /\ wakers \in [Op -> SUBSET {"self", "copier", "stop", "close"}]
    /\ \A c \in copies : c.wake \subseteq Op

\* The operation is in its OpPair exactly while it waits.
Listed(o)    == o[2] \in mInbound[Dir(o)]
ListedInv(o) == Listed(o) <=> pc[o] = "suspended" /\ opEc[o] = "unset"

\* A completed awaiter that is suspended has one thread that resumes it, now
\* or after its copy; any other has none.
Copiers(o) == {c \in copies : o \in c.wake}
Ended(o)   == pc[o] = "suspended" /\ opEc[o] # "unset"
WakeInv(o) ==
    /\ Ended(o) => \/ \E who : wakers[o] = {who} /\ Copiers(o) = {}
                   \/ \E c : wakers[o] = {} /\ Copiers(o) = {c}
    /\ ~Ended(o) => wakers[o] = {} /\ Copiers(o) = {}

IInv == ControlTypes /\ NoMissedMatch /\ \A o \in Op : ListedInv(o) /\ WakeInv(o)
-----------------------------------------------------------------------------
\* An operation is known by its direction and type, and has one peer.
LEMMA OpFacts ==
    ASSUME NEW p \in Op
    PROVE  /\ p = <<p[1], p[2]>> /\ p[1] \in Side /\ p[2] \in {"send", "recv"}
           /\ Dir(p) \in Side /\ Peer(p) \in Op /\ Peer(p) # p
           /\ Dir(Peer(p)) = Dir(p) /\ {p[2], Peer(p)[2]} = {"send", "recv"}
           /\ \A q \in Op : Dir(q) = Dir(p) => q = p \/ q = Peer(p)
           /\ \A q \in Op : Dir(q) = Dir(p) /\ q[2] = p[2] => q = p
BY DEF Op, Side, Dir, Peer, Sender, Receiver

\* At first no operation is there.
LEMMA InitIInv == Init => IInv
BY OpFacts DEF Init, IInv, ControlTypes, NoMissedMatch, ListedInv, Listed, WakeInv, Copiers, Ended, Code, Op, Side

\* Completing operations that have not completed, with an error.
LEMMA FailKeeps ==
    ASSUME IInv, NEW ops \in SUBSET Op, NEW ec \in [Op -> Code], NEW who \in {"stop", "close"},
           \A o \in ops : opEc[o] = "unset",
           Fail(ops, ec, who), UNCHANGED <<pc, left, copies>>, mEc' \in [Side -> Code]
    PROVE  IInv'
<1> USE DEF IInv
<1>1. ControlTypes'  BY DEF ControlTypes, Fail, Code
<1>2. NoMissedMatch'  BY DEF NoMissedMatch, ControlTypes, Fail
<1>3. ASSUME NEW o \in Op PROVE ListedInv(o)' /\ WakeInv(o)'
  <2>1. Listed(o)' <=> Listed(o) /\ o \notin ops  BY OpFacts DEF Listed, Fail, ControlTypes
  <2>2. opEc'[o] # "unset" <=> opEc[o] # "unset" \/ o \in ops  BY DEF Fail, ControlTypes, Code
  <2>3. ListedInv(o)'  BY <2>1, <2>2 DEF ListedInv
  <2>4. WakeInv(o)'  BY <2>2 DEF WakeInv, Fail, ControlTypes, Copiers, Ended
  <2> QED BY <2>3, <2>4
<1> QED BY <1>1, <1>2, <1>3

\* Awaiting, and the call of a stop callback, keep the invariant.
LEMMA AwaitStep ==
    ASSUME IInv, NEW o \in Op, StopCall(o) \/ \E n \in 1..MaxLen : Await(o, n)
    PROVE  IInv'
<1> USE LocalSockAssumption DEF IInv
<1>1. CASE StopCall(o)
  BY <1>1 DEF StopCall, awaiter, hist, ControlTypes, NoMissedMatch, ListedInv, Listed, WakeInv, Copiers, Ended
<1>2. ASSUME NEW n \in 1..MaxLen, Await(o, n) PROVE IInv'
  <2>1. ControlTypes'  BY <1>2 DEF ControlTypes, Await
  <2>2. NoMissedMatch'  BY <1>2 DEF NoMissedMatch, Await
  <2>3. ASSUME NEW p \in Op PROVE ListedInv(p)' /\ WakeInv(p)'
    BY <1>2 DEF ControlTypes, Await, ListedInv, Listed, WakeInv, Copiers, Ended
  <2> QED BY <2>1, <2>2, <2>3
<1> QED BY <1>1, <1>2

\* A stop callback that takes the lock keeps it.
LEMMA StopStep ==
    ASSUME IInv, NEW o \in Op, StopLocked(o)
    PROVE  IInv'
<1>1. CASE opEc[o] = "unset"
  <2>1. [p \in Op |-> "operation_aborted"] \in [Op -> Code]  BY DEF Code
  <2>2. mEc' \in [Side -> Code]  BY DEF StopLocked, IInv, ControlTypes
  <2>3. Fail({o}, [p \in Op |-> "operation_aborted"], "stop") /\ UNCHANGED <<pc, left, copies>>
    BY <1>1 DEF StopLocked
  <2> QED BY <1>1, <2>1, <2>2, <2>3, FailKeeps
<1>2. CASE opEc[o] # "unset"
  BY <1>2 DEF StopLocked, IInv, ControlTypes, NoMissedMatch, ListedInv, Listed, WakeInv, Copiers, Ended
<1> QED BY <1>1, <1>2

\* So does close, which completes what is listed.
LEMMA CloseStep ==
    ASSUME IInv, NEW i \in Side, Close(i)
    PROVE  IInv'
<1> DEFINE waiting == {o \in Op : o[2] \in mInbound[Dir(o)]}
           ec == [o \in Op |-> IF o[1] = i THEN "closed" ELSE "remoteClosed"]
<1>1. ec \in [Op -> Code]  BY DEF Code
<1>2. \A o \in waiting : opEc[o] = "unset"  BY DEF IInv, ListedInv, Listed
<1>3. mEc' \in [Side -> Code]  BY DEF Close, IInv, ControlTypes, Code
<1>4. Fail(waiting, ec, "close") /\ UNCHANGED <<pc, left, copies>>  BY DEF Close
<1> HIDE DEF ec
<1> QED BY <1>1, <1>2, <1>3, <1>4, FailKeeps

\* So does starting an operation that fails at once or waits.
LEMMA StartStep ==
    ASSUME IInv, NEW o \in Op, StartAborted(o) \/ StartError(o) \/ StartWait(o)
    PROVE  IInv'
<1> USE DEF IInv
<1>1. CASE StartAborted(o)
  <2>1. ControlTypes' /\ NoMissedMatch'  BY <1>1 DEF ControlTypes, NoMissedMatch, StartAborted
  <2>2. ASSUME NEW p \in Op PROVE ListedInv(p)' /\ WakeInv(p)'
    BY <1>1 DEF ControlTypes, StartAborted, ListedInv, Listed, WakeInv, Copiers, Ended
  <2> QED BY <2>1, <2>2
<1>2. CASE StartError(o)
  <2>1. ControlTypes' /\ NoMissedMatch'  BY <1>2, OpFacts DEF ControlTypes, NoMissedMatch, StartError, Code
  <2>2. opEc'[o] # "unset"  BY <1>2, OpFacts DEF ControlTypes, StartError, Code
  <2>3. ASSUME NEW p \in Op PROVE ListedInv(p)' /\ WakeInv(p)'
    BY <1>2, <2>2 DEF ControlTypes, StartError, ListedInv, Listed, WakeInv, Copiers, Ended, hist
  <2> QED BY <2>1, <2>3
<1>3. CASE StartWait(o)
  <2>1. ControlTypes'  BY <1>3, OpFacts DEF ControlTypes, StartWait
  <2>2. NoMissedMatch'  BY <1>3, OpFacts DEF ControlTypes, NoMissedMatch, StartWait
  <2>3. ASSUME NEW p \in Op PROVE ListedInv(p)' /\ WakeInv(p)'
    <3>1. Listed(p)' <=> Listed(p) \/ p = o  BY <1>3, OpFacts DEF Listed, StartWait, ControlTypes
    <3> QED BY <1>3, <3>1 DEF ControlTypes, StartWait, ListedInv, WakeInv, Copiers, Ended
  <2> QED BY <2>1, <2>2, <2>3
<1> QED BY <1>1, <1>2, <1>3

\* So does a match: the shorter operation completes, or both do, and the thread
\* that copies is the one that resumes them.
LEMMA MatchStep ==
    ASSUME IInv, NEW o \in Op, StartMatch(o)
    PROVE  IInv'
<1> DEFINE full == Completes(o)
           copy == [dir |-> Dir(o), from |-> FirstByte(Dir(o)), n |-> Matched(o), wake |-> full,
                    src |-> awaits[Sender(Dir(o))], dst |-> awaits[Receiver(Dir(o))]]
<1> USE DEF IInv
<1>1. /\ pc[o] = "start" /\ opEc[o] = "unset" /\ Listed(Peer(o)) /\ Peer(o) \in Op /\ Peer(o) # o
  BY OpFacts DEF StartMatch, Listed
<1>2. pc[Peer(o)] = "suspended" /\ opEc[Peer(o)] = "unset"  BY <1>1 DEF ListedInv
<1>3. full \subseteq {o, Peer(o)} /\ full # {}
  BY <1>1 DEF Completes, Matched, ControlTypes
<1>4. /\ copies' = copies \cup {copy} /\ copy.wake = full
      /\ pc' = [pc EXCEPT ![o] = "suspended"] /\ wakers' = wakers /\ mEc' = mEc
      /\ opEc' = [q \in Op |-> IF q \in full THEN "success" ELSE opEc[q]]
      /\ mInbound' = [mInbound EXCEPT ![Dir(o)] = (@ \cup {o[2]}) \ {q[2] : q \in full}]
  BY DEF StartMatch
<1>5. left' \in [Op -> Int]  BY <1>1 DEF StartMatch, ControlTypes, Matched
<1> HIDE DEF full, copy
<1>6. ControlTypes'
  <2>1. mInbound' \in [Side -> SUBSET {"send", "recv"}]  BY <1>4, OpFacts DEF ControlTypes
  <2>2. opEc' \in [Op -> Code \cup {"unset"}]  BY <1>4 DEF ControlTypes, Code
  <2>3. pc' \in [Op -> {"out", "start", "suspended"}]  BY <1>4 DEF ControlTypes
  <2>4. \A c \in copies' : c.wake \subseteq Op  BY <1>1, <1>3, <1>4 DEF ControlTypes
  <2> QED BY <1>4, <1>5, <2>1, <2>2, <2>3, <2>4 DEF ControlTypes
<1>7. ASSUME NEW p \in Op PROVE Listed(p)' <=> (Listed(p) \/ p = o) /\ p \notin full
  BY <1>1, <1>3, <1>4, OpFacts DEF Listed, ControlTypes
<1>8. NoMissedMatch'
  <2>1. PICK q \in full : TRUE  BY <1>3
  <2>2. q \in Op /\ Dir(q) = Dir(o) /\ q[2] \in {"send", "recv"}  BY <1>1, <1>3, <2>1, OpFacts
  <2>3. q[2] \notin mInbound'[Dir(o)]  BY <1>7, <2>1, <2>2 DEF Listed
  <2>4. \A d \in Side : d # Dir(o) => mInbound'[d] = mInbound[d]  BY <1>4 DEF ControlTypes
  <2> QED BY <2>2, <2>3, <2>4 DEF NoMissedMatch
<1>9. ASSUME NEW p \in Op PROVE ListedInv(p)' /\ WakeInv(p)'
  <2>1. ListedInv(p)'  BY <1>1, <1>2, <1>3, <1>4, <1>7 DEF ListedInv, ControlTypes
  <2>2. Copiers(p)' = IF p \in full THEN Copiers(p) \cup {copy} ELSE Copiers(p)
    BY <1>4 DEF Copiers
  <2>3. p \in {o, Peer(o)} => wakers[p] = {} /\ Copiers(p) = {}
    BY <1>1, <1>2 DEF WakeInv, Ended
  <2>4. CASE p \in full
    <3>1. wakers'[p] = {} /\ Copiers(p)' = {copy}  BY <1>3, <1>4, <2>2, <2>3, <2>4
    <3>2. Ended(p)'  BY <1>1, <1>2, <1>3, <1>4, <2>4 DEF Ended, ControlTypes
    <3> QED BY <2>1, <3>1, <3>2 DEF WakeInv
  <2>5. CASE p \in {o, Peer(o)} \ full
    <3>1. wakers'[p] = {} /\ Copiers(p)' = {}  BY <1>4, <2>2, <2>3, <2>5
    <3>2. ~Ended(p)'  BY <1>1, <1>2, <1>4, <2>5 DEF Ended
    <3> QED BY <2>1, <3>1, <3>2 DEF WakeInv
  <2>6. CASE p \notin {o, Peer(o)}
    <3>1. wakers'[p] = wakers[p] /\ Copiers(p)' = Copiers(p)  BY <1>3, <1>4, <2>2, <2>6
    <3>2. Ended(p)' <=> Ended(p)  BY <1>3, <1>4, <2>6 DEF Ended, ControlTypes
    <3> QED BY <2>1, <3>1, <3>2 DEF WakeInv
  <2> QED BY <2>4, <2>5, <2>6
<1> QED BY <1>6, <1>8, <1>9

\* So does the copy: the thread that copied becomes the one that resumes.
LEMMA CopyStep ==
    ASSUME IInv, NEW c \in copies, Copy(c)
    PROVE  IInv'
<1> USE DEF IInv
<1>1. ControlTypes' /\ NoMissedMatch'  BY DEF ControlTypes, NoMissedMatch, Copy, awaiter
<1>2. ASSUME NEW p \in Op PROVE ListedInv(p)' /\ WakeInv(p)'
  <2>1. ListedInv(p)'  BY DEF ListedInv, Listed, Copy, awaiter
  <2>2. Copiers(p)' = Copiers(p) \ {c}  BY DEF Copiers, Copy
  <2>3. p \in c.wake <=> c \in Copiers(p)  BY DEF Copiers
  <2>4. wakers'[p] = IF p \in c.wake THEN wakers[p] \cup {"copier"} ELSE wakers[p]  BY DEF Copy
  <2>5. Ended(p)' <=> Ended(p)  BY DEF Copy, awaiter, Ended
  <2> QED BY <2>1, <2>2, <2>3, <2>4, <2>5 DEF WakeInv
<1> QED BY <1>1, <1>2

\* The thread that resumes is the only one.
LEMMA ResumeStep ==
    ASSUME IInv, NEW o \in Op, NEW who \in {"self", "copier", "stop", "close"}, Resume(o, who)
    PROVE  IInv'
<1> USE DEF IInv
<1>1. ControlTypes' /\ NoMissedMatch'  BY DEF ControlTypes, NoMissedMatch, Resume
<1>2. Ended(o)  BY DEF WakeInv, Resume
<1>3. ASSUME NEW p \in Op PROVE ListedInv(p)' /\ WakeInv(p)'
  BY <1>2 DEF ControlTypes, Resume, ListedInv, Listed, WakeInv, Copiers, Ended
<1> QED BY <1>1, <1>3

\* A listed operation is one that waits, and a completed one has one thread
\* that resumes it.
THEOREM WakersFit == Spec => []IInv
<1>1. ASSUME IInv, [Next]_vars PROVE IInv'
  <2>1. CASE ThreadStep
    BY <1>1, <2>1, StopStep, StartStep, MatchStep, CopyStep, ResumeStep DEF ThreadStep
  <2>2. CASE UserStep
    BY <1>1, <2>2, AwaitStep, CloseStep DEF UserStep
  <2>3. CASE UNCHANGED vars
    BY <1>1, <2>3 DEF vars, awaiter, IInv, ControlTypes, NoMissedMatch, ListedInv, Listed, WakeInv, Copiers, Ended
  <2> QED BY <1>1, <2>1, <2>2, <2>3 DEF Next
<1> QED BY <1>1, InitIInv, PTL DEF Spec

\* Whichever of a match, a stop, an error and a close comes first, an awaiter
\* is resumed by exactly one thread, and is not forgotten.
THEOREM ResumedOnce == Spec => []OneWaker
<1>1. ASSUME IInv PROVE OneWaker
  <2>1. ASSUME NEW o \in Op
        PROVE  Cardinality(wakers[o]) + Cardinality(Copiers(o)) = IF Ended(o) THEN 1 ELSE 0
    <3>1. Cardinality({}) = 0 /\ \A x : Cardinality({x}) = 1
      BY FS_EmptySet, FS_Singleton
    <3>2. CASE Ended(o)
      <4>1. CASE \E who : wakers[o] = {who} /\ Copiers(o) = {}
        <5>1. Cardinality(wakers[o]) = 1 /\ Cardinality(Copiers(o)) = 0  BY <3>1, <4>1
        <5> QED BY <3>2, <5>1
      <4>2. CASE \E c : wakers[o] = {} /\ Copiers(o) = {c}
        <5>1. Cardinality(wakers[o]) = 0 /\ Cardinality(Copiers(o)) = 1  BY <3>1, <4>2
        <5> QED BY <3>2, <5>1
      <4> QED BY <1>1, <3>2, <4>1, <4>2 DEF IInv, WakeInv
    <3>3. CASE ~Ended(o)  BY <1>1, <3>1, <3>3 DEF IInv, WakeInv
    <3> QED BY <3>2, <3>3
  <2> QED BY <1>1, <2>1 DEF OneWaker, IInv, ListedInv, Listed, Copiers, Ended
<1> QED BY <1>1, WakersFit, PTL

\* A send and a recv of one direction never wait for each other.
THEOREM MatchNotMissed == Spec => []NoMissedMatch
<1>1. IInv => NoMissedMatch  BY DEF IInv
<1> QED BY <1>1, WakersFit, PTL
-----------------------------------------------------------------------------
(* The bytes *)

\* The types of the histories.
StreamTypes ==
    /\ len \in [Op -> Nat] /\ copied \in [Op -> Nat] /\ awaits \in [Op -> Nat] /\ start \in [Op -> Nat]
    /\ nextByte \in [Side -> Nat] /\ delivered \in [Side -> Seq(Nat)] /\ cut \in [Side -> BOOLEAN]

\* The two operations of a direction.
LEMMA DirFacts ==
    ASSUME NEW d \in Side
    PROVE  /\ Sender(d) \in Op /\ Receiver(d) \in Op /\ Sender(d) # Receiver(d)
           /\ Dir(Sender(d)) = d /\ Dir(Receiver(d)) = d
           /\ Sender(d)[2] = "send" /\ Receiver(d)[2] = "recv"
           /\ \A o \in Op : Dir(o) = d => o = Sender(d) \/ o = Receiver(d)
           /\ \A o \in Op : o[2] = "send" /\ Dir(o) = d => o = Sender(d)
           /\ \A o \in Op : o[2] = "recv" /\ Dir(o) = d => o = Receiver(d)
BY DEF Side, Op, Sender, Receiver, Dir

\* At first nothing is sent.
LEMMA InitStream == Init => StreamInv
<1> SUFFICES ASSUME Init PROVE StreamInv  OBVIOUS
<1>1. StreamTypes  BY DEF Init, StreamTypes
<1>2. CopiesInv  BY DEF Init, CopiesInv
<1>3. ASSUME NEW d \in Side PROVE BytesInv(d) /\ GapInv(d)
  <2>1. delivered[d] = <<>> /\ copies = {} /\ nextByte[d] = 1  BY DEF Init
  <2>2. start[Sender(d)] = 1 /\ len[Sender(d)] = 0 /\ left[Sender(d)] = 0  BY DirFacts DEF Init
  <2>3. Len(<<>>) = 0 /\ <<>> = [k \in 1..0 |-> k] /\ ToSet(<<>>) = {} /\ Increasing(<<>>)
    <3>1. <<>> \in Seq(Nat)  OBVIOUS
    <3>2. ToSet(<<>>) = {}  BY <3>1, EmptyQueue
    <3> QED BY <3>2 DEF Increasing
  <2>4. \A o \in Op : opEc[o] = "unset" /\ left[o] = 0  BY DEF Init
  <2> QED BY <2>1, <2>2, <2>3, <2>4 DEF BytesInv, GapInv, FirstByte
<1>4. ASSUME NEW o \in Op PROVE BufferInv(o)  BY DEF Init, BufferInv
<1> QED BY <1>1, <1>2, <1>3, <1>4 DEF StreamInv, StreamTypes

\* The steps that move no byte: an operation fails, waits, stops or is resumed.
LEMMA QuietStep ==
    ASSUME IInv, StreamInv, UNCHANGED <<len, left, awaits, start, copies, nextByte, delivered, copied>>,
           cut' \in [Side -> BOOLEAN], \A d \in Side : cut[d] => cut'[d],
           \A o \in Op : opEc'[o] # opEc[o] => opEc'[o] # "success" /\ cut'[Dir(o)],
           \A o \in Op : pc'[o] = "out" => pc[o] = "out" \/ opEc[o] # "unset"
    PROVE  StreamInv'
<1>1. CopiesInv'  BY DEF StreamInv, CopiesInv, AwaitOf
<1>2. ASSUME NEW d \in Side PROVE BytesInv(d)'  BY DEF StreamInv, BytesInv, FirstByte
<1>3. ASSUME NEW d \in Side PROVE GapInv(d)'
  <2> SUFFICES ASSUME ~cut'[d] PROVE GapInv(d)'  BY DEF GapInv
  <2>1. ~cut[d] /\ GapInv(d)  BY DEF StreamInv
  <2>2. ASSUME NEW o \in Op, Dir(o) = d
        PROVE  opEc'[o] \in {"unset", "success"} /\ (pc'[o] = "out" => left'[o] = 0)
    <3>1. opEc[o] \in {"unset", "success"} /\ (pc[o] = "out" => left[o] = 0)  BY <2>1, <2>2 DEF GapInv
    <3>2. opEc'[o] = opEc[o]  BY <2>2
    <3>3. opEc[o] = "success" => left[o] = 0  BY DEF StreamInv, BufferInv
    <3> QED BY <3>1, <3>2, <3>3
  <2> QED BY <2>1, <2>2 DEF GapInv, FirstByte
<1>4. ASSUME NEW o \in Op PROVE BufferInv(o)'
  <2>1. opEc'[o] = "success" => opEc[o] = "success"  OBVIOUS
  <2> QED BY <2>1 DEF StreamInv, BufferInv, AwaitOf
<1> QED BY <1>1, <1>2, <1>3, <1>4 DEF StreamInv

\* Which steps these are.
LEMMA OtherSteps ==
    ASSUME IInv, StreamInv,
           \/ \E o \in Op : \/ StopCall(o) \/ StopLocked(o) \/ StartAborted(o) \/ StartError(o) \/ StartWait(o)
                            \/ \E who \in {"self", "copier", "stop", "close"} : Resume(o, who)
           \/ \E i \in Side : Close(i)
    PROVE  StreamInv'
<1>0. cut \in [Side -> BOOLEAN]  BY DEF StreamInv
<1>1. ASSUME NEW ops \in SUBSET Op, NEW ec \in [Op -> Code], NEW who,
             \A o \in ops : opEc[o] = "unset" /\ ec[o] # "success", Fail(ops, ec, who), UNCHANGED pc,
             UNCHANGED <<len, left, awaits, start, copies, nextByte, delivered, copied>>
      PROVE  StreamInv'
  <2>1. cut' \in [Side -> BOOLEAN] /\ \A d \in Side : cut[d] => cut'[d]  BY <1>0, <1>1 DEF Fail
  <2>2. ASSUME NEW o \in Op, opEc'[o] # opEc[o] PROVE opEc'[o] # "success" /\ cut'[Dir(o)]
    BY <1>1, <2>2, OpFacts DEF Fail
  <2> QED BY <1>1, <2>1, <2>2, QuietStep
<1>2. ASSUME NEW o \in Op, StopCall(o) PROVE StreamInv'
  BY <1>0, <1>2, QuietStep DEF StopCall, awaiter, hist
<1>3. ASSUME NEW o \in Op, StopLocked(o) PROVE StreamInv'
  <2>1. CASE opEc[o] = "unset"
    <3>1. [p \in Op |-> "operation_aborted"] \in [Op -> Code]  BY DEF Code
    <3>2. /\ Fail({o}, [p \in Op |-> "operation_aborted"], "stop") /\ UNCHANGED pc
          /\ UNCHANGED <<len, left, awaits, start, copies, nextByte, delivered, copied>>
      BY <1>3, <2>1 DEF StopLocked
    <3> QED BY <1>1, <2>1, <3>1, <3>2
  <2>2. CASE opEc[o] # "unset"
    BY <1>0, <1>3, <2>2, QuietStep DEF StopLocked
  <2> QED BY <2>1, <2>2
<1>4. ASSUME NEW o \in Op, StartAborted(o) PROVE StreamInv'
  <2>1. \A p \in Op : pc'[p] = "out" => pc[p] = "out"  BY <1>4 DEF StartAborted, IInv, ControlTypes
  <2> QED BY <1>0, <1>4, <2>1, QuietStep DEF StartAborted, hist
<1>5. ASSUME NEW o \in Op, StartError(o) PROVE StreamInv'
  <2>1. \A p \in Op : pc'[p] = "out" => pc[p] = "out"  BY <1>5 DEF StartError, IInv, ControlTypes
  <2>2. cut' \in [Side -> BOOLEAN] /\ (\A d \in Side : cut[d] => cut'[d]) /\ cut'[Dir(o)]
    BY <1>0, <1>5, OpFacts DEF StartError
  <2>3. \A p \in Op : opEc'[p] # opEc[p] => opEc'[p] # "success" /\ cut'[Dir(p)]
    BY <1>5, <2>2 DEF StartError, IInv, ControlTypes
  <2> QED BY <1>5, <2>1, <2>2, <2>3, QuietStep DEF StartError
<1>6. ASSUME NEW o \in Op, StartWait(o) PROVE StreamInv'
  <2>1. \A p \in Op : pc'[p] = "out" => pc[p] = "out"  BY <1>6 DEF StartWait, IInv, ControlTypes
  <2> QED BY <1>0, <1>6, <2>1, QuietStep DEF StartWait, hist
<1>7. ASSUME NEW o \in Op, NEW who, Resume(o, who) PROVE StreamInv'
  <2>1. opEc[o] # "unset"  BY <1>7 DEF Resume, IInv, WakeInv, Ended
  <2>2. \A p \in Op : pc'[p] = "out" => pc[p] = "out" \/ opEc[p] # "unset"
    BY <1>7, <2>1 DEF Resume, IInv, ControlTypes
  <2> QED BY <1>0, <1>7, <2>2, QuietStep DEF Resume, hist
<1>8. ASSUME NEW i \in Side, Close(i) PROVE StreamInv'
  <2> DEFINE waiting == {o \in Op : o[2] \in mInbound[Dir(o)]}
             ec == [o \in Op |-> IF o[1] = i THEN "closed" ELSE "remoteClosed"]
  <2>1. ec \in [Op -> Code] /\ \A o \in Op : ec[o] # "success"  BY DEF Code
  <2>2. \A o \in waiting : opEc[o] = "unset"  BY DEF IInv, ListedInv, Listed
  <2>3. /\ Fail(waiting, ec, "close") /\ UNCHANGED pc
        /\ UNCHANGED <<len, left, awaits, start, copies, nextByte, delivered, copied>>
    BY <1>8 DEF Close
  <2> HIDE DEF ec
  <2> QED BY <1>1, <2>1, <2>2, <2>3
<1> QED BY <1>2, <1>3, <1>4, <1>5, <1>6, <1>7, <1>8

\* A send appends its buffer to the stream; a recv brings an empty buffer.
LEMMA AwaitBytes ==
    ASSUME IInv, StreamInv, NEW o \in Op, NEW n \in 1..MaxLen, Await(o, n)
    PROVE  StreamInv'
<1>0. n \in Nat /\ StreamTypes /\ left \in [Op -> Int]
  BY LocalSockAssumption DEF StreamInv, StreamTypes, LocalSockAssumption, IInv, ControlTypes
<1>1. /\ len'[o] = n /\ left'[o] = n /\ awaits'[o] = awaits[o] + 1 /\ copied'[o] = 0 /\ opEc'[o] = "unset"
      /\ pc'[o] = "start" /\ pc[o] = "out"
      /\ \A p \in Op \ {o} : /\ len'[p] = len[p] /\ left'[p] = left[p] /\ awaits'[p] = awaits[p]
                             /\ copied'[p] = copied[p] /\ opEc'[p] = opEc[p] /\ pc'[p] = pc[p]
      /\ UNCHANGED <<copies, delivered, cut>>
  BY <1>0 DEF Await, StreamTypes, IInv, ControlTypes
<1>2. /\ o[2] = "send" => start'[o] = nextByte[Dir(o)] /\ nextByte'[Dir(o)] = nextByte[Dir(o)] + n
      /\ \A p \in Op : p # o \/ o[2] = "recv" => start'[p] = start[p]
      /\ \A d \in Side : d # Dir(o) \/ o[2] = "recv" => nextByte'[d] = nextByte[d]
  <2>1. CASE o[2] = "send"
    <3>1. start' = [start EXCEPT ![o] = nextByte[Dir(o)]] /\ nextByte' = [nextByte EXCEPT ![Dir(o)] = @ + n]
      BY <2>1 DEF Await
    <3>2. Dir(o) \in Side /\ start \in [Op -> Nat] /\ nextByte \in [Side -> Nat]  BY <1>0, OpFacts DEF StreamTypes
    <3> QED BY <2>1, <3>1, <3>2
  <2>2. CASE o[2] # "send"  BY <2>2, OpFacts DEF Await
  <2> QED BY <2>1, <2>2
<1>3. StreamTypes'
  <2>1. len' \in [Op -> Nat] /\ copied' \in [Op -> Nat] /\ awaits' \in [Op -> Nat]
    BY <1>0 DEF Await, StreamTypes
  <2>2. start' \in [Op -> Nat] /\ nextByte' \in [Side -> Nat]
    <3>1. CASE o[2] = "send"
      <4>1. start' = [start EXCEPT ![o] = nextByte[Dir(o)]] /\ nextByte' = [nextByte EXCEPT ![Dir(o)] = @ + n]
        BY <3>1 DEF Await
      <4>2. /\ Dir(o) \in Side /\ start \in [Op -> Nat] /\ nextByte \in [Side -> Nat]
            /\ nextByte[Dir(o)] \in Nat /\ nextByte[Dir(o)] + n \in Nat
        BY <1>0, OpFacts DEF StreamTypes
      <4> QED BY <4>1, <4>2
    <3>2. CASE o[2] # "send"  BY <1>0, <3>2 DEF Await, StreamTypes
    <3> QED BY <3>1, <3>2
  <2> QED BY <1>0, <1>1, <2>1, <2>2 DEF StreamTypes
<1>4. CopiesInv'
  <2>1. \A c \in copies, p \in Op : Dir(p) = c.dir => AwaitOf(c, p) \in 0..awaits[p]
    BY DEF StreamInv, CopiesInv
  <2>2. \A p \in Op : awaits[p] \in Nat /\ awaits'[p] \in Nat /\ awaits[p] <= awaits'[p]
    <3> SUFFICES ASSUME NEW p \in Op PROVE awaits[p] \in Nat /\ awaits'[p] \in Nat /\ awaits[p] <= awaits'[p]
      OBVIOUS
    <3>1. CASE p = o  BY <1>0, <1>1, <3>1 DEF StreamTypes
    <3>2. CASE p # o  BY <1>0, <1>1, <3>2 DEF StreamTypes
    <3> QED BY <3>1, <3>2
  <2>3. \A c \in copies, p \in Op : Dir(p) = c.dir => AwaitOf(c, p) \in 0..awaits'[p]  BY <2>1, <2>2
  <2> QED BY <1>1, <2>3 DEF StreamInv, CopiesInv, AwaitOf
\* The rest of the buffer does not move back, and not at all without a gap.
<1>5. ASSUME NEW d \in Side
      PROVE  /\ start'[Sender(d)] + len'[Sender(d)] = nextByte'[d]
             /\ FirstByte(d) \in Int /\ FirstByte(d)' \in Int /\ FirstByte(d) <= FirstByte(d)'
             /\ ~cut[d] => FirstByte(d)' = FirstByte(d)
  <2>0. /\ start[Sender(d)] \in Nat /\ len[Sender(d)] \in Nat /\ left[Sender(d)] \in 0..len[Sender(d)]
        /\ nextByte[d] \in Nat /\ start[Sender(d)] + len[Sender(d)] = nextByte[d]
    BY <1>0, DirFacts DEF StreamTypes, StreamInv, BufferInv, BytesInv
  <2>1. CASE o = Sender(d)
    <3>1. Dir(o) = d /\ o[2] = "send"  BY <2>1, DirFacts
    <3>2. ~cut[d] => left[o] = 0  BY <1>1, <3>1 DEF StreamInv, GapInv
    <3>3. start'[o] = nextByte[d] /\ nextByte'[d] = nextByte[d] + n  BY <1>2, <3>1
    <3> QED BY <1>0, <1>1, <2>0, <2>1, <3>2, <3>3 DEF FirstByte
  <2>2. CASE o # Sender(d)
    <3>1. Sender(d) \in Op \ {o} /\ (d # Dir(o) \/ o[2] = "recv")  BY <2>2, DirFacts, OpFacts
    <3>2. /\ start'[Sender(d)] = start[Sender(d)] /\ len'[Sender(d)] = len[Sender(d)]
          /\ left'[Sender(d)] = left[Sender(d)] /\ nextByte'[d] = nextByte[d]
      BY <1>1, <1>2, <3>1
    <3> QED BY <2>0, <3>2 DEF FirstByte
  <2> QED BY <2>1, <2>2
<1>6. ASSUME NEW d \in Side PROVE BytesInv(d)'
  <2>1. \A x \in ToSet(delivered[d]) : x \in Nat
    <3>1. delivered[d] \in Seq(Nat)  BY <1>0 DEF StreamTypes
    <3> QED BY <3>1, InToSet
  <2>2. \A c \in copies : c.from \in Nat /\ c.n \in Nat  BY DEF StreamInv, CopiesInv
  <2>3. BytesInv(d)  BY DEF StreamInv
  <2>4. \A x \in ToSet(delivered[d]) : x < FirstByte(d)'  BY <1>5, <2>1, <2>3 DEF BytesInv
  <2>5. \A c \in copies : c.dir = d => c.from + c.n <= FirstByte(d)'  BY <1>5, <2>2, <2>3 DEF BytesInv
  <2> QED BY <1>1, <1>5, <2>3, <2>4, <2>5 DEF BytesInv
<1>7. ASSUME NEW d \in Side PROVE GapInv(d)'
  <2> SUFFICES ASSUME ~cut[d] PROVE GapInv(d)'  BY <1>1 DEF GapInv
  <2>1. FirstByte(d)' = FirstByte(d) /\ GapInv(d)  BY <1>5 DEF StreamInv
  <2>2. ASSUME NEW p \in Op, Dir(p) = d
        PROVE  opEc'[p] \in {"unset", "success"} /\ (pc'[p] = "out" => left'[p] = 0)
    <3>1. CASE p = o  BY <1>1, <3>1
    <3>2. CASE p # o  BY <1>1, <2>1, <2>2, <3>2 DEF GapInv
    <3> QED BY <3>1, <3>2
  <2> QED BY <1>1, <2>1, <2>2 DEF GapInv
<1>8. ASSUME NEW p \in Op PROVE BufferInv(p)'
  <2>1. CASE p = o
    <3>1. \A c \in copies : c.dir = Dir(o) => AwaitOf(c, o) # awaits'[o]
      <4>1. \A c \in copies : c.dir = Dir(o) => AwaitOf(c, o) \in 0..awaits[o]  BY DEF StreamInv, CopiesInv
      <4> QED BY <1>0, <1>1, <4>1 DEF StreamTypes
    <3> QED BY <1>0, <1>1, <2>1, <3>1 DEF BufferInv, AwaitOf
  <2>2. CASE p # o
    <3>1. BufferInv(p)  BY DEF StreamInv
    <3> QED BY <1>1, <2>2, <3>1 DEF BufferInv, AwaitOf
  <2> QED BY <2>1, <2>2
<1> QED BY <1>3, <1>4, <1>6, <1>7, <1>8 DEF StreamInv, StreamTypes

\* A match takes the next bytes of the send's buffer out of the lock.
LEMMA MatchBytes ==
    ASSUME IInv, StreamInv, NEW o \in Op, StartMatch(o)
    PROVE  StreamInv'
<1> DEFINE d == Dir(o)
           n == Matched(o)
           full == Completes(o)
           copy == [dir |-> d, from |-> FirstByte(d), n |-> n, wake |-> full,
                    src |-> awaits[Sender(d)], dst |-> awaits[Receiver(d)]]
<1>0. d \in Side /\ Peer(o) \in Op /\ Peer(o) # o /\ Dir(Peer(o)) = d
      /\ (\A p \in Op : Dir(p) = d <=> p \in {o, Peer(o)}) /\ Sender(d) \in {o, Peer(o)} /\ Sender(d) \in Op
  BY OpFacts, DirFacts
<1>1. /\ pc[o] = "start" /\ opEc[o] = "unset" /\ Listed(Peer(o))
  BY <1>0 DEF StartMatch, Listed
<1>2. pc[Peer(o)] = "suspended" /\ opEc[Peer(o)] = "unset"  BY <1>0, <1>1 DEF IInv, ListedInv
<1>3. ASSUME NEW c \in copies PROVE c.dir # d
  <2>1. SUFFICES ASSUME c.dir = d PROVE FALSE  OBVIOUS
  <2>2. PICK q \in c.wake : q \in Op /\ Dir(q) = d
    BY <2>1 DEF StreamInv, CopiesInv, IInv, ControlTypes
  <2>3. q \in {o, Peer(o)}  BY <1>0, <2>2
  <2>4. Copiers(q) = {}  BY <1>1, <1>2, <2>2, <2>3 DEF IInv, WakeInv, Ended
  <2> QED BY <2>2, <2>4 DEF Copiers
<1>4. /\ StreamTypes /\ left \in [Op -> Int]
      /\ \A p \in Op : left[p] \in 0..len[p] /\ len[p] \in Nat /\ left[p] \in Nat /\ copied[p] \in Nat /\ start[p] \in Nat
  BY DEF StreamInv, StreamTypes, BufferInv, IInv, ControlTypes
<1>5. n \in Nat /\ n <= left[o] /\ n <= left[Peer(o)] /\ full \subseteq {o, Peer(o)} /\ full # {}
      /\ \A p \in {o, Peer(o)} : p \in full <=> left[p] = n
  BY <1>0, <1>4 DEF Matched, Completes
<1>6. /\ left'[o] = left[o] - n /\ left'[Peer(o)] = left[Peer(o)] - n
      /\ \A p \in Op \ {o, Peer(o)} : left'[p] = left[p]
      /\ \A p \in Op : opEc'[p] = IF p \in full THEN "success" ELSE opEc[p]
      /\ pc'[o] = "suspended" /\ \A p \in Op \ {o} : pc'[p] = pc[p]
      /\ copies' = copies \cup {copy}
      /\ UNCHANGED <<len, awaits, start, nextByte, delivered, copied, cut>>
  BY <1>0, <1>4 DEF StartMatch, hist, IInv, ControlTypes
<1>7. /\ copy.dir = d /\ copy.from = FirstByte(d) /\ copy.n = n /\ copy.wake = full
      /\ copy.src = awaits[Sender(d)] /\ copy.dst = awaits[Receiver(d)]
  OBVIOUS
<1> HIDE DEF d, n, full, copy
<1>8. \A p \in Op : Dir(p) = d => AwaitOf(copy, p) = awaits[p]
  <2>1. \A p \in Op : Dir(p) = d => (p[2] = "send" /\ p = Sender(d)) \/ (p[2] # "send" /\ p = Receiver(d))
    BY <1>0, OpFacts, DirFacts
  <2> QED BY <1>7, <2>1 DEF AwaitOf
\* The send's mData shrinks by what is copied.
<1>9. /\ FirstByte(d) \in Nat /\ FirstByte(d)' = FirstByte(d) + n
      /\ \A e \in Side : e # d => FirstByte(e)' = FirstByte(e)
  <2>1. left'[Sender(d)] = left[Sender(d)] - n  BY <1>0, <1>6
  <2>2. FirstByte(d)' = FirstByte(d) + n /\ FirstByte(d) \in Nat
    BY <1>0, <1>4, <1>5, <1>6, <2>1 DEF FirstByte
  <2>3. ASSUME NEW e \in Side, e # d PROVE FirstByte(e)' = FirstByte(e)
    <3>1. Sender(e) \in Op \ {o, Peer(o)}  BY <1>0, <2>3, DirFacts
    <3> QED BY <1>6, <3>1 DEF FirstByte
  <2> QED BY <2>2, <2>3
<1>10. CopiesInv'
  <2>1. \A c \in copies : /\ c.dir \in Side /\ c.from \in Nat /\ c.n \in Nat
                          /\ c.wake # {} /\ \A p \in c.wake : Dir(p) = c.dir
                          /\ \A p \in Op : Dir(p) = c.dir => AwaitOf(c, p) \in 0..awaits[p]
    BY DEF StreamInv, CopiesInv
  <2>2. /\ copy.dir \in Side /\ copy.from \in Nat /\ copy.n \in Nat
        /\ copy.wake # {} /\ \A p \in copy.wake : Dir(p) = copy.dir
    BY <1>0, <1>5, <1>7, <1>9
  <2>3. \A p \in Op : Dir(p) = copy.dir => AwaitOf(copy, p) \in 0..awaits[p]
    BY <1>4, <1>7, <1>8 DEF StreamTypes
  <2>4. \A c, e \in copies' : c.dir = e.dir => c = e
    BY <1>3, <1>6, <1>7 DEF StreamInv, CopiesInv
  <2> QED BY <1>6, <2>1, <2>2, <2>3, <2>4 DEF CopiesInv, AwaitOf
<1>11. ASSUME NEW e \in Side PROVE BytesInv(e)'
  <2>1. CASE e = d
    <3>1. BytesInv(d)  BY <1>0 DEF StreamInv
    <3>2. \A x \in ToSet(delivered[d]) : x \in Nat
      <4>1. delivered[d] \in Seq(Nat)  BY <1>0, <1>4 DEF StreamTypes
      <4> QED BY <4>1, InToSet
    <3>3. \A x \in ToSet(delivered[d]) : x < FirstByte(d)'  BY <1>5, <1>9, <3>1, <3>2 DEF BytesInv
    <3>4. \A c \in copies' : c.dir = d => c.from + c.n <= FirstByte(d)' /\ \A x \in ToSet(delivered[d]) : x < c.from
      BY <1>3, <1>5, <1>6, <1>7, <1>9, <3>1 DEF BytesInv
    <3> QED BY <1>6, <2>1, <3>1, <3>3, <3>4 DEF BytesInv
  <2>2. CASE e # d
    <3>1. BytesInv(e)  BY DEF StreamInv
    <3> QED BY <1>6, <1>7, <1>9, <2>2, <3>1 DEF BytesInv
  <2> QED BY <2>1, <2>2
<1>12. ASSUME NEW e \in Side PROVE GapInv(e)'
  <2> SUFFICES ASSUME ~cut[e] PROVE GapInv(e)'  BY <1>6 DEF GapInv
  <2>1. GapInv(e)  BY DEF StreamInv
  <2>2. ASSUME NEW p \in Op, Dir(p) = e
        PROVE  opEc'[p] \in {"unset", "success"} /\ (pc'[p] = "out" => left'[p] = 0)
    <3>1. opEc'[p] \in {"unset", "success"}  BY <1>6, <2>1, <2>2 DEF GapInv
    <3>2. pc'[p] = "out" => p \notin {o, Peer(o)} /\ pc[p] = "out"  BY <1>0, <1>2, <1>6
    <3> QED BY <1>6, <2>1, <2>2, <3>1, <3>2 DEF GapInv
  <2>3. CASE e = d
    <3>1. FirstByte(d) = Len(delivered[d]) + 1  BY <1>3, <2>1, <2>3 DEF GapInv
    <3>2. \A c \in copies' : c.dir = d => c.from = Len(delivered[d]) + 1 /\ c.from + c.n = FirstByte(d)'
      BY <1>3, <1>6, <1>7, <1>9, <3>1
    <3>3. ~(\A c \in copies' : c.dir # d)  BY <1>6, <1>7
    <3> QED BY <1>6, <2>1, <2>2, <2>3, <3>2, <3>3 DEF GapInv
  <2>4. CASE e # d
    <3>1. \A c \in copies' : c.dir = e => c \in copies  BY <1>6, <1>7, <2>4
    <3>2. (\A c \in copies' : c.dir # e) => \A c \in copies : c.dir # e  BY <1>6
    <3> QED BY <1>6, <1>9, <2>1, <2>2, <2>4, <3>1, <3>2 DEF GapInv
  <2> QED BY <2>3, <2>4
<1>13. ASSUME NEW p \in Op PROVE BufferInv(p)'
  <2>1. CASE p \in {o, Peer(o)}
    <3>0. Dir(p) = d /\ opEc[p] = "unset" /\ left'[p] = left[p] - n  BY <1>0, <1>1, <1>2, <1>6, <2>1
    <3>1. copied[p] + left[p] = len[p]  BY <1>3, <3>0 DEF StreamInv, BufferInv
    <3>2. /\ left'[p] \in 0..len[p] /\ (p \in full => left'[p] = 0)
          /\ copied[p] + n + left'[p] = len[p]
      BY <1>4, <1>5, <2>1, <3>0, <3>1
    <3>3. opEc'[p] = "success" => p \in full  BY <1>6, <3>0
    <3>4. \A c \in copies' : c.dir = d => c = copy  BY <1>3, <1>6
    <3>5. copy \in copies' /\ AwaitOf(copy, p) = awaits[p]  BY <1>6, <1>8, <3>0
    <3>6. ~(\A c \in copies' : c.dir = Dir(p) => AwaitOf(c, p) # awaits[p])  BY <1>7, <3>0, <3>5
    <3>7. \A c \in copies' : c.dir = Dir(p) =>
              copied[p] + c.n + left'[p] = len[p] /\ (opEc'[p] = "success" => p \in c.wake)
      BY <1>7, <3>0, <3>2, <3>3, <3>4
    <3> QED BY <1>6, <3>2, <3>3, <3>6, <3>7 DEF BufferInv, AwaitOf
  <2>2. CASE p \notin {o, Peer(o)}
    <3>0. Dir(p) # d /\ p \notin full  BY <1>0, <1>5, <2>2
    <3>1. left'[p] = left[p] /\ opEc'[p] = opEc[p]  BY <1>6, <2>2, <3>0
    <3>2. \A c \in copies' : c.dir = Dir(p) => c \in copies  BY <1>6, <1>7, <3>0
    <3>3. \A c \in copies : c \in copies'  BY <1>6
    <3>4. BufferInv(p)  BY DEF StreamInv
    <3> QED BY <1>6, <3>1, <3>2, <3>3, <3>4 DEF BufferInv, AwaitOf
  <2> QED BY <2>1, <2>2
<1> QED BY <1>4, <1>6, <1>10, <1>11, <1>12, <1>13 DEF StreamInv, StreamTypes

\* The bytes of a copy.
LEMMA CopiedBytes ==
    ASSUME NEW from \in Nat, NEW n \in Nat, NEW s, s = [k \in 1..n |-> from + k - 1]
    PROVE  /\ s \in Seq(Nat) /\ Len(s) = n /\ Increasing(s)
           /\ \A x \in ToSet(s) : x \in Nat /\ from <= x /\ x < from + n
           /\ \A k \in 1..n : s[k] = from + k - 1
<1>1. \A k \in 1..n : from + k - 1 \in Nat  OBVIOUS
<1>2. s \in [1..n -> Nat]  BY <1>1
<1>3. s \in Seq(Nat) /\ DOMAIN s = 1..n /\ Len(s) = n  BY <1>2, FunctionIsSeq
<1>4. \A k \in 1..n : s[k] = from + k - 1  OBVIOUS
<1>5. Increasing(s)  BY <1>3, <1>4 DEF Increasing
<1>6. ASSUME NEW x \in ToSet(s) PROVE x \in Nat /\ from <= x /\ x < from + n
  <2>1. PICK k \in 1..n : s[k] = x  BY <1>3, InToSet
  <2> QED BY <1>4, <2>1
<1> QED BY <1>3, <1>4, <1>5, <1>6

\* The copy adds its bytes to the stream and to the two buffers.
LEMMA CopyBytes ==
    ASSUME IInv, StreamInv, NEW c \in copies, Copy(c)
    PROVE  StreamInv'
<1> DEFINE d == c.dir
           s == [k \in 1..c.n |-> c.from + k - 1]
<1>0. /\ d \in Side /\ c.n \in Nat /\ c.from \in Nat /\ StreamTypes /\ (\A e \in copies : e.dir = d => e = c)
      /\ Sender(d) \in Op /\ Receiver(d) \in Op /\ Sender(d) # Receiver(d)
  BY DirFacts DEF StreamInv, CopiesInv, StreamTypes
<1>1. /\ copies' = copies \ {c}
      /\ delivered'[d] = delivered[d] \o s /\ \A e \in Side \ {d} : delivered'[e] = delivered[e]
      /\ UNCHANGED <<pc, opEc, len, left, awaits, start, nextByte, cut>>
  BY <1>0 DEF Copy, awaiter, StreamTypes
<1>2. ASSUME NEW p \in Op
      PROVE  copied'[p] = IF c.dir = Dir(p) /\ AwaitOf(c, p) = awaits[p] THEN copied[p] + c.n ELSE copied[p]
  <2>0. copied'[p] = IF p = Sender(d) /\ awaits[p] = c.src THEN copied[p] + c.n
                     ELSE IF p = Receiver(d) /\ awaits[p] = c.dst THEN copied[p] + c.n
                     ELSE copied[p]
    BY DEF Copy
  <2>1. /\ d = Dir(p) => (p = Sender(d) /\ p[2] = "send") \/ (p = Receiver(d) /\ p[2] = "recv")
        /\ d # Dir(p) => p # Sender(d) /\ p # Receiver(d)
    BY <1>0, DirFacts
  <2> QED BY <1>0, <2>0, <2>1 DEF AwaitOf
<1> HIDE DEF d
<1>3. \A p \in Op : copied[p] \in Nat /\ len[p] \in Nat /\ left[p] \in 0..len[p] /\ awaits[p] \in Nat /\ start[p] \in Nat
  BY <1>0 DEF StreamTypes, StreamInv, BufferInv
<1>4. /\ s \in Seq(Nat) /\ Len(s) = c.n /\ Increasing(s)
      /\ \A x \in ToSet(s) : x \in Nat /\ c.from <= x /\ x < c.from + c.n
      /\ \A k \in 1..c.n : s[k] = c.from + k - 1
  BY <1>0, CopiedBytes
<1> HIDE DEF s
<1>5. /\ delivered[d] \in Seq(Nat) /\ delivered'[d] \in Seq(Nat)
      /\ ToSet(delivered'[d]) = ToSet(delivered[d]) \cup ToSet(s)
      /\ \A x \in ToSet(delivered[d]) : x \in Nat
  <2>1. delivered[d] \in Seq(Nat)  BY <1>0 DEF StreamTypes
  <2>2. \A x \in ToSet(delivered[d]) : x \in Nat  BY <2>1, InToSet
  <2> QED BY <1>1, <1>4, <2>1, <2>2, ConcatFacts
<1>6. StreamTypes'
  <2>1. delivered' \in [Side -> Seq(Nat)]
    <3>1. DOMAIN delivered' = Side /\ delivered' = [e \in Side |-> delivered'[e]]  BY <1>0 DEF Copy, StreamTypes
    <3>2. \A e \in Side : delivered'[e] \in Seq(Nat)  BY <1>0, <1>1, <1>5 DEF StreamTypes
    <3> QED BY <3>1, <3>2
  <2>2. copied' \in [Op -> Nat]
    <3>1. copied' = [p \in Op |-> copied'[p]]  BY DEF Copy
    <3>2. \A p \in Op : copied'[p] \in Nat  BY <1>0, <1>2, <1>3
    <3> QED BY <3>1, <3>2
  <2> QED BY <1>0, <1>1, <2>1, <2>2 DEF StreamTypes
<1>7. CopiesInv'  BY <1>1 DEF StreamInv, CopiesInv, AwaitOf
<1>8. /\ \A e \in copies' : e.dir # d
      /\ \A e \in Side : e # d => \A b \in copies : b.dir = e => b \in copies'
  BY <1>0, <1>1 DEF d
<1>9. \A e \in Side : FirstByte(e)' = FirstByte(e)  BY <1>1 DEF FirstByte
<1>10. /\ c.from + c.n <= FirstByte(d) /\ FirstByte(d) \in Int
       /\ \A x \in ToSet(delivered[d]) : x < c.from
  <2>1. FirstByte(d) \in Int  BY <1>0, <1>3 DEF FirstByte
  <2> QED BY <1>0, <2>1 DEF StreamInv, BytesInv, d
<1>11. ASSUME NEW e \in Side PROVE BytesInv(e)'
  <2>0. BytesInv(e)  BY DEF StreamInv
  <2>1. CASE e = d
    <3>1. \A x \in ToSet(delivered[d]), y \in ToSet(s) : x < y  BY <1>0, <1>4, <1>5, <1>10
    <3>2. Increasing(delivered'[d])
      <4>1. Increasing(delivered[d])  BY <2>0, <2>1 DEF BytesInv
      <4>2. Increasing(delivered[d] \o s)
        <5>1. delivered[d] \in Seq(Nat) /\ s \in Seq(Nat) /\ Increasing(s) /\ Nat \in SUBSET Nat  BY <1>4, <1>5
        <5> QED BY <3>1, <4>1, <5>1, ConcatFacts
      <4> QED BY <1>1, <4>2
    <3>3. \A x \in ToSet(delivered'[d]) : x < FirstByte(d)
      BY <1>0, <1>4, <1>5, <1>10
    <3> QED BY <1>1, <1>8, <1>9, <2>0, <2>1, <3>2, <3>3 DEF BytesInv
  <2>2. CASE e # d  BY <1>1, <1>9, <2>0, <2>2 DEF BytesInv
  <2> QED BY <2>1, <2>2
<1>12. ASSUME NEW e \in Side PROVE GapInv(e)'
  <2> SUFFICES ASSUME ~cut[e] PROVE GapInv(e)'  BY <1>1 DEF GapInv
  <2>0. GapInv(e)  BY DEF StreamInv
  <2>1. CASE e = d
    <3>1. /\ delivered[d] = [k \in 1..Len(delivered[d]) |-> k] /\ Len(delivered[d]) \in Nat
          /\ c.from = Len(delivered[d]) + 1 /\ c.from + c.n = FirstByte(d)
      BY <1>5, <2>0, <2>1 DEF GapInv, d
    <3>2. /\ Len(delivered'[d]) = Len(delivered[d]) + c.n /\ Len(delivered'[d]) \in Nat
          /\ \A k \in 1..Len(delivered'[d]) :
                delivered'[d][k] = IF k <= Len(delivered[d]) THEN delivered[d][k] ELSE s[k - Len(delivered[d])]
          /\ DOMAIN delivered'[d] = 1..Len(delivered'[d])
      <4>1. PICK r \in Seq(Nat) : r = delivered[d]  BY <1>5
      <4>2. PICK b \in Seq(Nat) : b = s  BY <1>4
      <4>3. /\ Len(r \o b) = Len(r) + Len(b) /\ Len(r \o b) \in Nat /\ DOMAIN (r \o b) = 1..Len(r \o b)
            /\ \A k \in 1..Len(r \o b) : (r \o b)[k] = IF k <= Len(r) THEN r[k] ELSE b[k - Len(r)]
        OBVIOUS
      <4> QED BY <1>1, <1>4, <4>1, <4>2, <4>3
    <3>3. ASSUME NEW k \in 1..Len(delivered'[d]) PROVE delivered'[d][k] = k
      <4>1. CASE k <= Len(delivered[d])
        <5>1. k \in 1..Len(delivered[d])  BY <3>1, <3>2, <4>1
        <5>2. delivered[d][k] = k  BY <3>1, <5>1
        <5> QED BY <3>2, <4>1, <5>2
      <4>2. CASE ~(k <= Len(delivered[d]))
        <5>1. k - Len(delivered[d]) \in 1..c.n  BY <1>0, <3>1, <3>2, <4>2
        <5>2. s[k - Len(delivered[d])] = c.from + (k - Len(delivered[d])) - 1  BY <1>4, <5>1
        <5>3. k \in Nat /\ c.from + (k - Len(delivered[d])) - 1 = k  BY <3>1, <3>2
        <5>4. s[k - Len(delivered[d])] = k  BY <5>2, <5>3
        <5> QED BY <3>2, <4>2, <5>4
      <4> QED BY <4>1, <4>2
    <3>4. delivered'[d] = [k \in 1..Len(delivered'[d]) |-> k]
      BY <1>5, <3>2, <3>3
    <3>5. FirstByte(d) = Len(delivered'[d]) + 1  BY <1>0, <3>1, <3>2
    <3> QED BY <1>1, <1>8, <1>9, <2>0, <2>1, <3>4, <3>5 DEF GapInv
  <2>2. CASE e # d
    <3>1. (\A b \in copies' : b.dir # e) => \A b \in copies : b.dir # e  BY <1>8, <2>2
    <3> QED BY <1>1, <1>9, <2>0, <2>2, <3>1 DEF GapInv
  <2> QED BY <2>1, <2>2
<1>13. ASSUME NEW p \in Op PROVE BufferInv(p)'
  <2>0. BufferInv(p)  BY DEF StreamInv
  <2>1. CASE d = Dir(p)
    <3>1. \A e \in copies' : e.dir # Dir(p)  BY <1>8, <2>1
    <3>2. copied'[p] + left[p] = len[p]
      <4>1. CASE AwaitOf(c, p) = awaits[p]
        <5>1. copied[p] + c.n + left[p] = len[p]  BY <2>0, <2>1, <4>1 DEF BufferInv, d
        <5>2. copied'[p] = copied[p] + c.n  BY <1>2, <2>1, <4>1 DEF d
        <5> QED BY <1>0, <1>3, <5>1, <5>2
      <4>2. CASE AwaitOf(c, p) # awaits[p]
        <5>1. copied[p] + left[p] = len[p]  BY <1>0, <2>0, <2>1, <4>2 DEF BufferInv
        <5> QED BY <1>2, <4>2, <5>1
      <4> QED BY <4>1, <4>2
    <3> QED BY <1>1, <2>0, <3>1, <3>2 DEF BufferInv
  <2>2. CASE d # Dir(p)
    <3>1. copied'[p] = copied[p]  BY <1>2, <2>2 DEF d
    <3>2. /\ \A b \in copies : b.dir = Dir(p) => b \in copies'
          /\ \A b \in copies' : b \in copies
      BY <1>1, <1>8, <2>2, OpFacts
    <3> QED BY <1>1, <2>0, <3>1, <3>2 DEF BufferInv, AwaitOf
  <2> QED BY <2>1, <2>2
<1> QED BY <1>6, <1>7, <1>11, <1>12, <1>13 DEF StreamInv, StreamTypes

\* The bytes are accounted for.
THEOREM BytesAccounted == Spec => []StreamInv
<1>1. ASSUME IInv, StreamInv, [Next]_vars PROVE StreamInv'
  <2>1. CASE ThreadStep
    BY <1>1, <2>1, OtherSteps, MatchBytes, CopyBytes DEF ThreadStep
  <2>2. CASE UserStep
    BY <1>1, <2>2, OtherSteps, AwaitBytes DEF UserStep
  <2>3. CASE UNCHANGED vars
    <3>1. UNCHANGED <<pc, opEc, len, left, awaits, start, copies, nextByte, delivered, copied, cut>>
      BY <2>3 DEF vars, awaiter, hist
    <3>2. cut \in [Side -> BOOLEAN]  BY <1>1 DEF StreamInv
    <3> QED BY <1>1, <3>1, <3>2, QuietStep
  <2> QED BY <1>1, <2>1, <2>2, <2>3 DEF Next
<1> QED BY <1>1, InitStream, WakersFit, PTL DEF Spec

\* The bytes of a direction arrive in the order in which they were sent, each
\* once and without a gap unless an operation failed, for any number and size of
\* sends and recvs, although they are copied outside the lock.
THEOREM StreamKeepsOrder == Spec => []StreamInOrder
<1>1. ASSUME StreamInv PROVE StreamInOrder
  <2> SUFFICES ASSUME NEW d \in Side
               PROVE  /\ Increasing(delivered[d])
                      /\ ~cut[d] => delivered[d] = [k \in 1..Len(delivered[d]) |-> k]
                      /\ Cardinality({c \in copies : c.dir = d}) <= 1
                      /\ \A c \in copies : c.dir = d => c.from \notin ToSet(delivered[d])
    BY DEF StreamInOrder
  <2>1. BytesInv(d) /\ GapInv(d) /\ CopiesInv  BY <1>1 DEF StreamInv
  <2>2. Cardinality({c \in copies : c.dir = d}) <= 1
    <3>1. CASE {c \in copies : c.dir = d} = {}
      <4>1. Cardinality({c \in copies : c.dir = d}) = 0  BY <3>1, FS_EmptySet
      <4> QED BY <4>1
    <3>2. CASE {c \in copies : c.dir = d} # {}
      <4>1. PICK c \in copies : c.dir = d  BY <3>2
      <4>2. {e \in copies : e.dir = d} = {c}  BY <2>1, <4>1 DEF CopiesInv
      <4>3. Cardinality({e \in copies : e.dir = d}) = 1  BY <4>2, FS_Singleton
      <4> QED BY <4>3
    <3> QED BY <3>1, <3>2
  <2>3. \A c \in copies : c.dir = d => c.from \notin ToSet(delivered[d])
    <3>1. \A c \in copies : c.from \in Nat  BY <2>1 DEF CopiesInv
    <3>2. \A c \in copies : c.dir = d => \A x \in ToSet(delivered[d]) : x < c.from  BY <2>1 DEF BytesInv
    <3> QED BY <3>1, <3>2
  <2> QED BY <2>1, <2>2, <2>3 DEF BytesInv, GapInv
<1> QED BY <1>1, BytesAccounted, PTL

\* A send or recv that is resumed with success has had its whole buffer copied.
THEOREM SuccessIsCopied == Spec => []SuccessMeansCopied
<1>1. ASSUME IInv, StreamInv PROVE SuccessMeansCopied
  <2> SUFFICES ASSUME NEW o \in Op, wakers[o] # {}, opEc[o] = "success" PROVE copied[o] = len[o]
    BY DEF SuccessMeansCopied
  <2>1. Copiers(o) = {}  BY <1>1 DEF IInv, WakeInv
  <2>2. BufferInv(o) /\ left[o] = 0 /\ copied[o] \in Nat /\ len[o] \in Nat
    BY <1>1 DEF StreamInv, BufferInv
  <2>3. \A c \in copies : c.dir = Dir(o) => AwaitOf(c, o) # awaits[o]
    BY <2>1, <2>2 DEF BufferInv, Copiers
  <2>4. copied[o] + left[o] = len[o]  BY <2>2, <2>3 DEF BufferInv
  <2> QED BY <2>2, <2>4
<1> QED BY <1>1, BytesAccounted, WakersFit, PTL
=============================================================================
