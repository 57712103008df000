-------------------------- MODULE BufferingProofs --------------------------
(***************************************************************************)
(* Proofs about BufferingSock, for any awaiters, any sizes of their spans  *)
(* and any number of awaits, with and without stops and closes.            *)
(***************************************************************************)
EXTENDS BufferingSock, OpSeqProofs

\* The types of the variables that decide who resumes an awaiter.
ControlTypes ==
    /\ mEc_ \in [Side -> Code] /\ mInbound_ \in [Side -> BOOLEAN]
    /\ pc \in [Op -> {"out", "start", "suspended"}] /\ opEc \in [Op -> Code \cup {"unset"}]
    /\ want \in [Op -> 0..MaxLen] /\ stop \in [Op -> {"none", "possible", "done"}]
    /\ waker \in [Op -> {"none", "self", "stop", "close", "exchange"}]
    /\ awaits \in [Op -> 0..MaxAwaits]

\* A send never waits: so the stop callback of a side that clears mInbound_ is
\* the one of the recv that waits there.
SendNeverWaits == \A o \in Op : o[2] = "send" => ~(pc[o] = "suspended" /\ opEc[o] = "unset")

\* An awaiter that is in use has a span.
SpanNotEmpty == \A o \in Op : pc[o] # "out" => want[o] > 0

ControlInv == ControlTypes /\ OneWaker /\ SendNeverWaits /\ SpanNotEmpty
-----------------------------------------------------------------------------
\* An awaiter is the send or the recv of a side.
LEMMA OpFacts ==
    /\ \A o \in Op : o[1] \in Side /\ o[2] \in {"send", "recv"} /\ (o[2] = "recv" => o = <<o[1], "recv">>)
    /\ \A i \in Side : <<i, "recv">> \in Op /\ <<i, "recv">>[1] = i /\ <<i, "recv">>[2] = "recv"
BY DEF Op

\* At first no awaiter is in use.
LEMMA InitControl == Init => ControlInv
<1> SUFFICES ASSUME Init PROVE ControlInv  OBVIOUS
<1>1. /\ mEc_ \in [Side -> Code] /\ mInbound_ \in [Side -> BOOLEAN]
      /\ pc \in [Op -> {"out", "start", "suspended"}] /\ opEc \in [Op -> Code \cup {"unset"}]
      /\ stop \in [Op -> {"none", "possible", "done"}]
      /\ waker \in [Op -> {"none", "self", "stop", "close", "exchange"}]
  BY DEF Init, Code
<1>2. 0 \in 0..MaxLen /\ 0 \in 0..MaxAwaits  BY BufferingAssumption DEF BufferingAssumption
<1>3. want \in [Op -> 0..MaxLen] /\ awaits \in [Op -> 0..MaxAwaits]  BY <1>2 DEF Init
<1>4. ControlTypes  BY <1>1, <1>3 DEF ControlTypes
<1>5. OneWaker /\ SendNeverWaits /\ SpanNotEmpty
  BY OpFacts DEF Init, OneWaker, SendNeverWaits, SpanNotEmpty
<1> QED BY <1>4, <1>5 DEF ControlInv

LEMMA AwaitControl ==
    ASSUME ControlInv, NEW o \in Op, NEW n \in 1..MaxLen, Await(o, n)
    PROVE  ControlInv'
<1>1. ControlTypes'
  BY BufferingAssumption DEF Await, ControlInv, ControlTypes, BufferingAssumption
<1>2. OneWaker'
  BY DEF Await, ControlInv, ControlTypes, OneWaker
<1>3. SendNeverWaits' /\ SpanNotEmpty'
  BY DEF Await, ControlInv, ControlTypes, SendNeverWaits, SpanNotEmpty
<1> QED BY <1>1, <1>2, <1>3 DEF ControlInv

LEMMA StopControl ==
    ASSUME ControlInv, NEW o \in Op, StopCallback(o)
    PROVE  ControlInv'
<1>1. ControlTypes'
  <2>1. mInbound_' \in [Side -> BOOLEAN]  BY OpFacts DEF StopCallback, ControlInv, ControlTypes
  <2>2. opEc' \in [Op -> Code \cup {"unset"}]  BY DEF StopCallback, ControlInv, ControlTypes, Code
  <2>3. waker' \in [Op -> {"none", "self", "stop", "close", "exchange"}]
    BY DEF StopCallback, ControlInv, ControlTypes
  <2>4. stop' \in [Op -> {"none", "possible", "done"}]  BY DEF StopCallback, ControlInv, ControlTypes
  <2> QED BY <2>1, <2>2, <2>3, <2>4 DEF StopCallback, ControlInv, ControlTypes
<1>2. OneWaker'
  <2> SUFFICES ASSUME NEW p \in Op
               PROVE  /\ (waker'[p] # "none") <=> (pc'[p] = "suspended" /\ opEc'[p] # "unset")
                      /\ p[2] = "recv" => (mInbound_'[p[1]] <=> (pc'[p] = "suspended" /\ opEc'[p] = "unset"))
    BY Zenon DEF OneWaker
  <2>1. CASE opEc[o] # "unset"
    BY <2>1 DEF StopCallback, ControlInv, ControlTypes, OneWaker
  <2>2. CASE opEc[o] = "unset" /\ pc[o] # "suspended"
    BY <2>2 DEF StopCallback, ControlInv, ControlTypes, OneWaker
  <2>3. CASE opEc[o] = "unset" /\ pc[o] = "suspended"
    <3>1. o[2] = "recv" /\ o[1] \in Side  BY <2>3, OpFacts DEF ControlInv, SendNeverWaits
    <3>2. /\ mInbound_' = [mInbound_ EXCEPT ![o[1]] = FALSE] /\ pc' = pc
          /\ opEc' = [opEc EXCEPT ![o] = "operation_aborted"] /\ waker' = [waker EXCEPT ![o] = "stop"]
      BY <2>3 DEF StopCallback, ControlInv, ControlTypes
    <3>3. CASE p = o
      BY <2>3, <3>1, <3>2, <3>3 DEF ControlInv, ControlTypes
    <3>4. CASE p # o
      <4>1. p[2] = "recv" => p[1] # o[1]  BY <3>1, <3>4, OpFacts
      <4> QED BY <3>1, <3>2, <3>4, <4>1, OpFacts DEF ControlInv, ControlTypes, OneWaker
    <3> QED BY <3>3, <3>4
  <2> QED BY <2>1, <2>2, <2>3
<1>3. SendNeverWaits' /\ SpanNotEmpty'
  BY DEF StopCallback, ControlInv, ControlTypes, SendNeverWaits, SpanNotEmpty
<1> QED BY <1>1, <1>2, <1>3 DEF ControlInv

LEMMA StartCanceledControl ==
    ASSUME ControlInv, NEW o \in Op, StartCanceled(o)
    PROVE  ControlInv'
<1>1. ControlTypes'
  BY DEF StartCanceled, ControlInv, ControlTypes
<1>2. OneWaker'
  BY OpFacts DEF StartCanceled, ControlInv, ControlTypes, OneWaker
<1>3. SendNeverWaits' /\ SpanNotEmpty'
  BY DEF StartCanceled, ControlInv, ControlTypes, SendNeverWaits, SpanNotEmpty
<1> QED BY <1>1, <1>2, <1>3 DEF ControlInv

LEMMA StartSendControl ==
    ASSUME ControlInv, NEW o \in Op, StartSend(o)
    PROVE  ControlInv'
<1>1. ControlTypes'
  BY DEF StartSend, ControlInv, ControlTypes, Code
<1>2. OneWaker'
  BY OpFacts DEF StartSend, ControlInv, ControlTypes, OneWaker
<1>3. SendNeverWaits' /\ SpanNotEmpty'
  BY DEF StartSend, ControlInv, ControlTypes, SendNeverWaits, SpanNotEmpty
<1> QED BY <1>1, <1>2, <1>3 DEF ControlInv

\* The waker of a recv that is served is the only one: it was not resumed yet.
LEMMA StartRecvControl ==
    ASSUME ControlInv, NEW o \in Op, StartRecv(o)
    PROVE  ControlInv'
<1>1. /\ o = <<o[1], "recv">> /\ pc[o] = "start" /\ opEc[o] = "unset"
      /\ opEc' = [opEc EXCEPT ![o] = "success"] /\ waker' = [waker EXCEPT ![o] = "self"]
      /\ pc' = [pc EXCEPT ![o] = "suspended"]
      /\ UNCHANGED <<mEc_, mInbound_, want, stop, awaits>>
  BY OpFacts DEF StartRecv, Serve
<1>2. ControlTypes'
  BY <1>1 DEF ControlInv, ControlTypes, Code
<1>3. OneWaker'
  BY <1>1, OpFacts DEF ControlInv, ControlTypes, OneWaker
<1>4. SendNeverWaits' /\ SpanNotEmpty'
  BY <1>1 DEF ControlInv, ControlTypes, SendNeverWaits, SpanNotEmpty
<1> QED BY <1>2, <1>3, <1>4 DEF ControlInv

LEMMA StartWaitControl ==
    ASSUME ControlInv, NEW o \in Op, StartWait(o)
    PROVE  ControlInv'
<1>1. /\ o[2] = "recv" /\ o[1] \in Side /\ pc[o] = "start" /\ opEc[o] = "unset"
      /\ mInbound_' = [mInbound_ EXCEPT ![o[1]] = TRUE] /\ pc' = [pc EXCEPT ![o] = "suspended"]
      /\ UNCHANGED <<mEc_, want, stop, awaits, opEc, waker>>
  BY OpFacts DEF StartWait
<1>2. ControlTypes'
  BY <1>1 DEF ControlInv, ControlTypes
<1>3. OneWaker'
  <2> SUFFICES ASSUME NEW p \in Op
               PROVE  /\ (waker'[p] # "none") <=> (pc'[p] = "suspended" /\ opEc'[p] # "unset")
                      /\ p[2] = "recv" => (mInbound_'[p[1]] <=> (pc'[p] = "suspended" /\ opEc'[p] = "unset"))
    BY Zenon DEF OneWaker
  <2>1. CASE p = o
    BY <1>1, <2>1 DEF ControlInv, ControlTypes, OneWaker
  <2>2. CASE p # o
    <3>1. p[2] = "recv" => p[1] # o[1]  BY <1>1, <2>2, OpFacts
    <3> QED BY <1>1, <2>2, <3>1, OpFacts DEF ControlInv, ControlTypes, OneWaker
  <2> QED BY <2>1, <2>2
<1>4. SendNeverWaits' /\ SpanNotEmpty'
  BY <1>1 DEF ControlInv, ControlTypes, SendNeverWaits, SpanNotEmpty
<1> QED BY <1>2, <1>3, <1>4 DEF ControlInv

LEMMA ResumeControl ==
    ASSUME ControlInv, NEW o \in Op, Resume(o)
    PROVE  ControlInv'
<1>0. 0 \in 0..MaxLen  BY BufferingAssumption DEF BufferingAssumption
<1>1. ControlTypes'
  BY <1>0 DEF Resume, ControlInv, ControlTypes
<1>2. OneWaker'
  BY OpFacts DEF Resume, ControlInv, ControlTypes, OneWaker
<1>3. SendNeverWaits' /\ SpanNotEmpty'
  BY DEF Resume, ControlInv, ControlTypes, SendNeverWaits, SpanNotEmpty
<1> QED BY <1>1, <1>2, <1>3 DEF ControlInv

\* The recv that waits, if any, leaves mInbound_ and gets one thread that
\* resumes it.
LEMMA WaitingRecvLeaves ==
    ASSUME ControlInv, NEW i \in Side, NEW ec \in Code, NEW who \in {"close", "exchange"},
           FailInbound(i, ec, who), UNCHANGED <<pc, want, stop, awaits>>, mEc_' \in [Side -> Code]
    PROVE  ControlInv'
<1> DEFINE r == <<i, "recv">>
<1>1. r \in Op /\ r[1] = i /\ r[2] = "recv" /\ \A p \in Op : p[2] = "recv" => (p = r <=> p[1] = i)
  BY OpFacts
<1>2. mInbound_[i] => pc[r] = "suspended" /\ opEc[r] = "unset"
  BY <1>1 DEF ControlInv, OneWaker
<1>3. ControlTypes'
  <2>1. opEc' \in [Op -> Code \cup {"unset"}]  BY DEF FailInbound, ControlInv, ControlTypes
  <2>2. waker' \in [Op -> {"none", "self", "stop", "close", "exchange"}]
    BY DEF FailInbound, ControlInv, ControlTypes
  <2>3. mInbound_' \in [Side -> BOOLEAN]  BY DEF FailInbound, ControlInv, ControlTypes
  <2> QED BY <2>1, <2>2, <2>3 DEF ControlInv, ControlTypes
<1>4. OneWaker'
  <2> SUFFICES ASSUME NEW p \in Op
               PROVE  /\ (waker'[p] # "none") <=> (pc'[p] = "suspended" /\ opEc'[p] # "unset")
                      /\ p[2] = "recv" => (mInbound_'[p[1]] <=> (pc'[p] = "suspended" /\ opEc'[p] = "unset"))
    BY Zenon DEF OneWaker
  <2>1. ec # "unset"  BY DEF Code
  <2>2. CASE p = r /\ mInbound_[i]
    BY <1>1, <1>2, <2>1, <2>2 DEF FailInbound, ControlInv, ControlTypes
  <2>3. CASE ~(p = r /\ mInbound_[i])
    <3>1. opEc'[p] = opEc[p] /\ waker'[p] = waker[p] /\ pc'[p] = pc[p]  BY <2>3 DEF FailInbound
    <3>2. p[2] = "recv" => (mInbound_'[p[1]] <=> mInbound_[p[1]])
      BY <1>1, <2>3, OpFacts DEF FailInbound, ControlInv, ControlTypes
    <3> QED BY <3>1, <3>2 DEF ControlInv, OneWaker
  <2> QED BY <2>2, <2>3
<1>5. SendNeverWaits'
  BY <1>1 DEF FailInbound, ControlInv, ControlTypes, SendNeverWaits
<1>6. SpanNotEmpty'  BY DEF ControlInv, SpanNotEmpty
<1> QED BY <1>3, <1>4, <1>5, <1>6 DEF ControlInv

LEMMA CloseControl ==
    ASSUME ControlInv, NEW i \in Side, Close(i)
    PROVE  ControlInv'
<1>1. "operation_aborted" \in Code /\ mEc_' \in [Side -> Code]
  BY DEF Close, ControlInv, ControlTypes, Code
<1>2. FailInbound(i, "operation_aborted", "close") /\ UNCHANGED <<pc, want, stop, awaits>>  BY DEF Close
<1> QED BY <1>1, <1>2, WaitingRecvLeaves

\* exchangeMessages is between two sides.
XchTypes == xch \in [at : {"idle", "get", "put", "error"}, i : Side, bb : Seq(Nat), progress : BOOLEAN]

LEMMA ProcessInboundControl ==
    ASSUME ControlInv, XchTypes, ProcessInbound
    PROVE  ControlInv'
<1> DEFINE i == 1 - xch.i
           r == <<i, "recv">>
<1>1. i \in Side  BY DEF XchTypes, Side
<1>2. r \in Op /\ r[1] = i /\ r[2] = "recv" /\ \A p \in Op : p[2] = "recv" => (p = r <=> p[1] = i)
  BY <1>1, OpFacts
<1>3. UNCHANGED <<mEc_, pc, want, stop, awaits>>  BY DEF ProcessInbound
<1>4. CASE Servable(i, Push(inbound[i], xch.bb))
  <2>1. /\ mInbound_[i] /\ mInbound_' = [mInbound_ EXCEPT ![i] = FALSE]
        /\ opEc' = [opEc EXCEPT ![r] = "success"] /\ waker' = [waker EXCEPT ![r] = "exchange"]
    BY <1>4 DEF ProcessInbound, Servable, Serve
  <2>2. /\ opEc' = [o \in Op |-> IF o = r /\ mInbound_[i] THEN "success" ELSE opEc[o]]
        /\ waker' = [o \in Op |-> IF o = r /\ mInbound_[i] THEN "exchange" ELSE waker[o]]
    BY <1>2, <2>1 DEF ControlInv, ControlTypes
  <2>3. FailInbound(i, "success", "exchange")  BY <2>1, <2>2 DEF FailInbound
  <2>4. mEc_' \in [Side -> Code] /\ "success" \in Code  BY <1>3 DEF ControlInv, ControlTypes, Code
  <2> QED BY <1>1, <1>3, <2>3, <2>4, WaitingRecvLeaves
<1>5. CASE ~Servable(i, Push(inbound[i], xch.bb))
  <2>1. UNCHANGED <<opEc, waker, mInbound_>>  BY <1>5 DEF ProcessInbound
  <2> QED BY <1>3, <2>1 DEF ControlInv, ControlTypes, OneWaker, SendNeverWaits, SpanNotEmpty
<1> QED BY <1>4, <1>5

LEMMA SetErrorControl ==
    ASSUME ControlInv, XchTypes, SetError
    PROVE  ControlInv'
<1> DEFINE i == 1 - xch.i
<1>1. i \in Side  BY DEF XchTypes, Side
<1>2. UNCHANGED <<pc, want, stop, awaits>>  BY DEF SetError
<1>3. CASE mEc_[i] = "success"
  <2>1. mEc_' \in [Side -> Code] /\ "remoteClosed" \in Code
    BY <1>1, <1>3 DEF SetError, ControlInv, ControlTypes, Code
  <2>2. FailInbound(i, "remoteClosed", "exchange")  BY <1>3 DEF SetError
  <2> QED BY <1>1, <1>2, <2>1, <2>2, WaitingRecvLeaves
<1>4. CASE mEc_[i] # "success"
  <2>1. UNCHANGED <<mEc_, mInbound_, opEc, waker>>  BY <1>4 DEF SetError
  <2> QED BY <1>2, <2>1 DEF ControlInv, ControlTypes, OneWaker, SendNeverWaits, SpanNotEmpty
<1> QED BY <1>3, <1>4
-----------------------------------------------------------------------------
(* What push and pop do to the bytes of a buffer *)

\* The assertions of the class Buffer: mSize counts the bytes after mFront, and
\* mFront is inside of the front vector.
FrontInside(b) == IF b.mData = <<>> THEN b.mFront = 0 ELSE b.mFront < Len(b.mData[1])

Buffer ==
    {b \in [mData : Seq(Seq(Nat)), mFront : Nat, mSize : Nat] :
        /\ b.mFront + b.mSize = Len(FlattenSeq(b.mData))
        /\ FrontInside(b)}

\* A suffix of s.
From(s, d) == SubSeq(s, d + 1, Len(s))

LEMMA BytesType ==
    ASSUME NEW b \in Buffer
    PROVE  Bytes(b) \in Seq(Nat) /\ Len(Bytes(b)) = b.mSize
<1>1. b.mData \in Seq(Seq(Nat)) /\ b.mFront \in Nat /\ b.mSize \in Nat /\ b.mFront + b.mSize = Len(FlattenSeq(b.mData))
  BY DEF Buffer
<1> DEFINE all == FlattenSeq(b.mData)
<1>2. all \in Seq(Nat)  BY <1>1, FlattenType
<1> HIDE DEF all
<1>3. b.mFront \in 0..Len(all) /\ Len(all) - b.mFront = b.mSize  BY <1>1, <1>2 DEF all
<1>4. SubSeq(all, b.mFront + 1, Len(all)) \in Seq(Nat) /\ Len(SubSeq(all, b.mFront + 1, Len(all))) = b.mSize
  BY <1>2, <1>3, SuffixFacts
<1> QED BY <1>4 DEF Bytes, all

LEMMA EmptyFacts == EmptyBuffer \in Buffer /\ Bytes(EmptyBuffer) = <<>>
<1>1. EmptyBuffer \in Buffer
  <2>1. <<>> \in Seq(Seq(Nat)) /\ Len(<<>>) = 0  OBVIOUS
  <2> QED BY <2>1, FlattenEmpty DEF EmptyBuffer, Buffer, FrontInside
<1>2. Bytes(EmptyBuffer) \in Seq(Nat) /\ Len(Bytes(EmptyBuffer)) = 0  BY <1>1, BytesType DEF EmptyBuffer
<1> QED BY <1>1, <1>2

\* A suffix of a concatenation that begins in its first part.
LEMMA SuffixOfConcat ==
    ASSUME NEW S, NEW s \in Seq(S), NEW t \in Seq(S), NEW d \in 0..Len(s)
    PROVE  From(s \o t, d) = From(s, d) \o t
<1>1. PICK u \in Seq(S) :
          /\ u = s \o t /\ Len(u) = Len(s) + Len(t)
          /\ \A k \in 1..(Len(s) + Len(t)) : u[k] = IF k <= Len(s) THEN s[k] ELSE t[k - Len(s)]
  <2>1. /\ s \o t \in Seq(S) /\ Len(s \o t) = Len(s) + Len(t)
        /\ \A k \in 1..(Len(s) + Len(t)) : (s \o t)[k] = IF k <= Len(s) THEN s[k] ELSE t[k - Len(s)]
    BY ConcatProperties
  <2> QED BY ONLY <2>1, Zenon
<1>2. PICK x \in Seq(S) :
          x = From(u, d) /\ Len(x) = Len(u) - d /\ \A k \in 1..(Len(u) - d) : x[k] = u[d + k]
  <2>1. d \in 0..Len(u)  BY ONLY <1>1, d \in 0..Len(s), s \in Seq(S), t \in Seq(S)
  <2>2. /\ From(u, d) \in Seq(S) /\ Len(From(u, d)) = Len(u) - d
        /\ \A k \in 1..(Len(u) - d) : From(u, d)[k] = u[d + k]
    BY ONLY <2>1, u \in Seq(S), SuffixFacts DEF From
  <2> QED BY ONLY <2>2, Zenon
<1>3. PICK y \in Seq(S) :
          y = From(s, d) /\ Len(y) = Len(s) - d /\ \A k \in 1..(Len(s) - d) : y[k] = s[d + k]
  <2>1. /\ From(s, d) \in Seq(S) /\ Len(From(s, d)) = Len(s) - d
        /\ \A k \in 1..(Len(s) - d) : From(s, d)[k] = s[d + k]
    BY ONLY s \in Seq(S), d \in 0..Len(s), SuffixFacts DEF From
  <2> QED BY ONLY <2>1, Zenon
<1>4. PICK w \in Seq(S) :
          /\ w = y \o t /\ Len(w) = Len(y) + Len(t)
          /\ \A k \in 1..(Len(y) + Len(t)) : w[k] = IF k <= Len(y) THEN y[k] ELSE t[k - Len(y)]
  <2>1. /\ y \o t \in Seq(S) /\ Len(y \o t) = Len(y) + Len(t)
        /\ \A k \in 1..(Len(y) + Len(t)) : (y \o t)[k] = IF k <= Len(y) THEN y[k] ELSE t[k - Len(y)]
    BY ONLY y \in Seq(S), t \in Seq(S), ConcatProperties
  <2> QED BY ONLY <2>1, Zenon
<1>5. PICK m \in Nat, n \in Nat : m = Len(s) /\ n = Len(t)  OBVIOUS
<1>6. d \in 0..m /\ Len(x) = (m - d) + n /\ Len(w) = Len(x)  BY <1>1, <1>2, <1>3, <1>4, <1>5
<1>7. ASSUME NEW k \in 1..Len(x) PROVE x[k] = w[k]
  <2>1. k \in Nat /\ 1 <= k /\ k <= (m - d) + n /\ d \in Nat /\ d <= m  BY <1>6, <1>7
  <2>2. x[k] = u[d + k]  BY <1>2, <1>7
  <2>3. CASE k <= m - d
    <3>1. d + k \in 1..(m + n) /\ d + k <= m /\ k \in 1..(m - d) /\ k \in 1..((m - d) + n)
      BY ONLY <2>1, <2>3, m \in Nat, n \in Nat
    <3>2. u[d + k] = s[d + k]  BY <1>1, <1>5, <3>1
    <3>3. w[k] = y[k] /\ y[k] = s[d + k]  BY <1>3, <1>4, <1>5, <2>3, <3>1
    <3> QED BY <2>2, <3>2, <3>3
  <2>4. CASE ~(k <= m - d)
    <3>1. /\ d + k \in 1..(m + n) /\ ~(d + k <= m) /\ k \in 1..((m - d) + n)
          /\ (d + k) - m = k - (m - d)
      BY ONLY <2>1, <2>4, m \in Nat, n \in Nat
    <3>2. u[d + k] = t[(d + k) - m]  BY <1>1, <1>5, <3>1
    <3>3. w[k] = t[k - (m - d)]  BY <1>3, <1>4, <1>5, <2>4, <3>1
    <3> QED BY <2>2, <3>1, <3>2, <3>3
  <2> QED BY <2>3, <2>4
<1>8. x = w  BY <1>6, <1>7, SeqEqual
<1> QED BY <1>1, <1>2, <1>3, <1>4, <1>8

\* push adds the bytes at the end.
LEMMA PushFacts ==
    ASSUME NEW b \in Buffer, NEW data \in Seq(Nat), Len(data) > 0
    PROVE  /\ Push(b, data) \in Buffer /\ Bytes(Push(b, data)) = Bytes(b) \o data
           /\ Push(b, data).mSize = b.mSize + Len(data) /\ Push(b, data).mFront = b.mFront
<1>1. /\ b \in [mData : Seq(Seq(Nat)), mFront : Nat, mSize : Nat]
      /\ b.mFront + b.mSize = Len(FlattenSeq(b.mData)) /\ FrontInside(b)
  BY DEF Buffer
<1>2. PICK d \in Seq(Seq(Nat)), f \in Nat, z \in Nat :
          b.mData = d /\ b.mFront = f /\ b.mSize = z /\ b = [mData |-> d, mFront |-> f, mSize |-> z]
  BY <1>1
<1>3. FlattenSeq(d) \in Seq(Nat) /\ f + z = Len(FlattenSeq(d))  BY <1>1, <1>2, FlattenType
<1>4. FlattenSeq(Append(d, data)) = FlattenSeq(d) \o data  BY FlattenAppend
<1>5. Append(d, data) \in Seq(Seq(Nat)) /\ Len(Append(d, data)) = Len(d) + 1  OBVIOUS
<1>6. PICK c : c = Push(b, data)  OBVIOUS
<1>7. /\ c \in [mData : Seq(Seq(Nat)), mFront : Nat, mSize : Nat]
      /\ c.mData = Append(d, data) /\ c.mFront = f /\ c.mSize = z + Len(data)
  <2>1. c = [mData |-> Append(d, data), mFront |-> f, mSize |-> z + Len(data)]  BY <1>2, <1>6 DEF Push
  <2>2. z + Len(data) \in Nat  OBVIOUS
  <2> QED BY ONLY <1>5, <2>1, <2>2, f \in Nat
<1>8. c.mFront + c.mSize = Len(FlattenSeq(c.mData))
  <2>1. PICK u \in Seq(Nat) : u = FlattenSeq(d)  BY <1>3
  <2>2. Len(u \o data) = Len(u) + Len(data)  BY ONLY u \in Seq(Nat), data \in Seq(Nat), ConcatProperties
  <2>3. Len(FlattenSeq(c.mData)) = Len(u) + Len(data)  BY <1>4, <1>7, <2>1, <2>2
  <2>4. f + z = Len(u)  BY <1>3, <2>1
  <2>5. Len(u) \in Nat /\ Len(data) \in Nat /\ c.mFront = f /\ c.mSize = z + Len(data)  BY <1>7
  <2>6. f + (z + Len(data)) = Len(u) + Len(data)
    <3>1. PICK n \in Nat, l \in Nat : n = Len(data) /\ l = Len(u)  BY ONLY <2>5
    <3>2. f + z = l  BY ONLY <2>4, <3>1
    <3>3. f + (z + n) = l + n  BY ONLY <3>2, f \in Nat, z \in Nat, n \in Nat, l \in Nat
    <3> QED BY ONLY <3>1, <3>3
  <2> QED BY ONLY <2>3, <2>5, <2>6, Zenon
<1>9. FrontInside(c)
  <2>1. Append(d, data) # <<>>  BY <1>5
  <2>2. CASE d = <<>>
    <3>1. Append(d, data)[1] = data /\ f = 0  BY <1>1, <1>2, <2>2 DEF FrontInside
    <3> QED BY <1>7, <2>1, <3>1 DEF FrontInside
  <2>3. CASE d # <<>>
    <3>1. Append(d, data)[1] = d[1]  BY <2>3
    <3>2. f < Len(d[1])  BY <1>1, <1>2, <2>3 DEF FrontInside
    <3> QED BY <1>7, <2>1, <3>1, <3>2 DEF FrontInside
  <2> QED BY <2>2, <2>3
<1>10. Bytes(c) = Bytes(b) \o data
  <2>1. Bytes(c) = From(FlattenSeq(d) \o data, f)  BY <1>4, <1>7 DEF Bytes, From
  <2>2. Bytes(b) = From(FlattenSeq(d), f)  BY <1>2 DEF Bytes, From
  <2>3. f \in 0..Len(FlattenSeq(d))  BY <1>3
  <2> QED BY <1>3, <2>1, <2>2, <2>3, SuffixOfConcat
<1> QED BY <1>2, <1>6, <1>7, <1>8, <1>9, <1>10 DEF Buffer

\* The number of bytes in the first vectors.
LEMMA UptoFacts ==
    ASSUME NEW d \in Seq(Seq(Nat))
    PROVE  /\ \A k \in 0..Len(d) : Upto(d, k) \in Nat
           /\ Upto(d, 0) = 0 /\ Upto(d, Len(d)) = Len(FlattenSeq(d))
           /\ \A k \in 0..(Len(d) - 1) : Upto(d, k + 1) = Upto(d, k) + Len(d[k + 1])
<1>1. ASSUME NEW k \in 0..Len(d) PROVE Upto(d, k) \in Nat
  <2>1. SubSeq(d, 1, k) \in Seq(Seq(Nat))  BY PrefixFacts
  <2>2. FlattenSeq(SubSeq(d, 1, k)) \in Seq(Nat)  BY ONLY <2>1, FlattenType
  <2> QED BY ONLY <2>2 DEF Upto
<1>2. Upto(d, 0) = 0
  <2>1. SubSeq(d, 1, 0) = <<>>  OBVIOUS
  <2>2. Len(<<>>) = 0  OBVIOUS
  <2> QED BY ONLY <2>1, <2>2, FlattenEmpty DEF Upto
<1>3. Upto(d, Len(d)) = Len(FlattenSeq(d))
  <2>1. SubSeq(d, 1, Len(d)) = d  OBVIOUS
  <2> QED BY ONLY <2>1 DEF Upto
<1>4. ASSUME NEW k \in 0..(Len(d) - 1) PROVE Upto(d, k + 1) = Upto(d, k) + Len(d[k + 1])
  <2>1. k \in 0..Len(d) /\ k + 1 \in 0..Len(d) /\ k + 1 \in 1..Len(d)  OBVIOUS
  <2>2. PICK p \in Seq(Seq(Nat)) : p = SubSeq(d, 1, k) /\ Len(p) = k /\ \A i \in 1..k : p[i] = d[i]
    <3>1. /\ SubSeq(d, 1, k) \in Seq(Seq(Nat)) /\ Len(SubSeq(d, 1, k)) = k
          /\ \A i \in 1..k : SubSeq(d, 1, k)[i] = d[i]
      BY ONLY <2>1, d \in Seq(Seq(Nat)), PrefixFacts
    <3> QED BY ONLY <3>1, Zenon
  <2>3. PICK q \in Seq(Seq(Nat)) : q = SubSeq(d, 1, k + 1) /\ Len(q) = k + 1 /\ \A i \in 1..(k + 1) : q[i] = d[i]
    <3>1. /\ SubSeq(d, 1, k + 1) \in Seq(Seq(Nat)) /\ Len(SubSeq(d, 1, k + 1)) = k + 1
          /\ \A i \in 1..(k + 1) : SubSeq(d, 1, k + 1)[i] = d[i]
      BY ONLY <2>1, d \in Seq(Seq(Nat)), PrefixFacts
    <3> QED BY ONLY <3>1, Zenon
  <2>4. PICK x \in Seq(Nat) : x = d[k + 1]  BY <2>1
  <2>5. q = Append(p, x)
    <3>1. /\ Append(p, x) \in Seq(Seq(Nat)) /\ Len(Append(p, x)) = k + 1 /\ Append(p, x)[k + 1] = x
          /\ \A i \in 1..k : Append(p, x)[i] = p[i]
      BY ONLY <2>2, p \in Seq(Seq(Nat)), x \in Seq(Nat), AppendFacts
    <3>2. ASSUME NEW i \in 1..(k + 1) PROVE q[i] = Append(p, x)[i]
      <4>1. i \in 1..k \/ i = k + 1  BY <2>1
      <4> QED BY ONLY <2>2, <2>3, <2>4, <3>1, <4>1, i \in 1..(k + 1)
    <3> QED BY <2>3, <3>1, <3>2, SeqEqual
  <2>6. FlattenSeq(p) \in Seq(Nat) /\ FlattenSeq(q) = FlattenSeq(p) \o x
    BY ONLY <2>5, p \in Seq(Seq(Nat)), x \in Seq(Nat), FlattenType, FlattenAppend
  <2>7. Len(FlattenSeq(p) \o x) = Len(FlattenSeq(p)) + Len(x)
    BY ONLY <2>6, x \in Seq(Nat), ConcatProperties
  <2> QED BY ONLY <2>2, <2>3, <2>4, <2>6, <2>7 DEF Upto
<1> QED BY <1>1, <1>2, <1>3, <1>4

\* After m bytes, k vectors are used up.
UsedUp(d, m, k) == Upto(d, k) <= m /\ (k = Len(d) \/ Upto(d, k + 1) > m)

LEMMA SomeUsedUp ==
    ASSUME NEW d \in Seq(Seq(Nat)), NEW m \in Nat
    PROVE  \E k \in 0..Len(d) : UsedUp(d, m, k)
<1> DEFINE T == {k \in 0..Len(d) : k = Len(d) \/ Upto(d, k + 1) > m}
<1>1. T \in SUBSET Nat /\ Len(d) \in T  OBVIOUS
<1>2. PICK k \in T : \A n \in T : k <= n
  <2> HIDE DEF T
  <2> QED BY <1>1, LeastNat
<1>3. Upto(d, k) <= m
  <2>1. CASE k = 0  BY <2>1, UptoFacts
  <2>2. CASE k # 0
    <3>1. k - 1 \in 0..Len(d) /\ k - 1 # Len(d) /\ ~(k <= k - 1) /\ (k - 1) + 1 = k /\ k \in 0..Len(d)  BY <2>2
    <3>2. k - 1 \notin T
      <4> HIDE DEF T
      <4>1. k - 1 \in T => k <= k - 1  BY <1>2, Zenon
      <4> QED BY ONLY <3>1, <4>1
    <3>3. ~(Upto(d, k) > m)  BY <3>1, <3>2
    <3> QED BY <3>1, <3>3, UptoFacts
  <2> QED BY <2>1, <2>2
<1> QED BY <1>3 DEF UsedUp

\* s is p and q; its first f + n elements are all of p and some of q.
InSecond(s, p, q, f, n) == s = p \o q /\ f + n <= Len(s) /\ Len(p) <= f + n

\* The elements of s after f are n elements and what is left of q.
RestOfSecond(S, s, p, q, f, n) ==
    /\ SubSeq(From(s, f), 1, n) \in Seq(S) /\ From(q, (f + n) - Len(p)) \in Seq(S)
    /\ From(s, f) = SubSeq(From(s, f), 1, n) \o From(q, (f + n) - Len(p))

LEMMA SuffixOfPart ==
    ASSUME NEW S, NEW s \in Seq(S), NEW p \in Seq(S), NEW q \in Seq(S), NEW f \in Nat, NEW n \in Nat,
           InSecond(s, p, q, f, n)
    PROVE  RestOfSecond(S, s, p, q, f, n)
<1>a. s = p \o q /\ f + n <= Len(s) /\ Len(p) <= f + n  BY DEF InSecond
<1>1. PICK l \in Nat, u \in Nat, v \in Nat : l = Len(s) /\ u = Len(p) /\ v = Len(q)  OBVIOUS
<1>2. /\ l = u + v
      /\ \A k \in 1..(u + v) : s[k] = IF k <= u THEN p[k] ELSE q[k - u]
  BY ONLY <1>1, <1>a, p \in Seq(S), q \in Seq(S), ConcatProperties
<1>3. f + n <= l /\ u <= f + n  BY ONLY <1>1, <1>a
<1>4. /\ f \in 0..l /\ n \in 0..(l - f) /\ (f + n) - u \in 0..v /\ (f + n) - u \in Nat
      /\ v - ((f + n) - u) = (l - f) - n
  BY ONLY <1>2, <1>3, l \in Nat, u \in Nat, v \in Nat, f \in Nat, n \in Nat
<1>5. PICK a \in Seq(S) : a = From(s, f) /\ Len(a) = l - f /\ \A k \in 1..(l - f) : a[k] = s[f + k]
  <2>1. /\ From(s, f) \in Seq(S) /\ Len(From(s, f)) = l - f
        /\ \A k \in 1..(l - f) : From(s, f)[k] = s[f + k]
    BY ONLY <1>1, <1>4, s \in Seq(S), SuffixFacts DEF From
  <2> QED BY ONLY <2>1, Zenon
<1>6. PICK b \in Seq(S) : b = SubSeq(a, 1, n) /\ Len(b) = n /\ \A k \in 1..n : b[k] = a[k]
  <2>1. n \in 0..Len(a)  BY <1>4, <1>5
  <2>2. SubSeq(a, 1, n) \in Seq(S) /\ Len(SubSeq(a, 1, n)) = n /\ \A k \in 1..n : SubSeq(a, 1, n)[k] = a[k]
    BY ONLY <2>1, a \in Seq(S), PrefixFacts
  <2> QED BY ONLY <2>2, Zenon
<1>7. PICK e \in Nat : e = (f + n) - u  BY <1>4
<1>8. PICK c \in Seq(S) : c = From(q, e) /\ Len(c) = v - e /\ \A k \in 1..(v - e) : c[k] = q[e + k]
  <2>1. e \in 0..Len(q) /\ v = Len(q)  BY <1>1, <1>4, <1>7
  <2>2. /\ From(q, e) \in Seq(S) /\ Len(From(q, e)) = v - e
        /\ \A k \in 1..(v - e) : From(q, e)[k] = q[e + k]
    BY ONLY <2>1, q \in Seq(S), SuffixFacts DEF From
  <2> QED BY ONLY <2>2, Zenon
<1>9. PICK w \in Seq(S) :
          /\ w = b \o c /\ Len(w) = n + Len(c)
          /\ \A k \in 1..(n + Len(c)) : w[k] = IF k <= n THEN b[k] ELSE c[k - n]
  <2>1. /\ b \o c \in Seq(S) /\ Len(b \o c) = n + Len(c)
        /\ \A k \in 1..(n + Len(c)) : (b \o c)[k] = IF k <= n THEN b[k] ELSE c[k - n]
    <3>1. /\ b \o c \in Seq(S) /\ Len(b \o c) = Len(b) + Len(c)
          /\ \A k \in 1..(Len(b) + Len(c)) : (b \o c)[k] = IF k <= Len(b) THEN b[k] ELSE c[k - Len(b)]
      BY ONLY b \in Seq(S), c \in Seq(S), ConcatProperties
    <3>2. Len(b) = n  BY ONLY <1>6
    <3> QED BY ONLY <3>1, <3>2, Zenon
  <2> QED BY ONLY <2>1, Zenon
<1>10. Len(c) = (l - f) - n /\ Len(w) = l - f /\ n + Len(c) = l - f
  BY ONLY <1>4, <1>7, <1>8, <1>9, l \in Nat, f \in Nat, n \in Nat
<1>11. ASSUME NEW k \in 1..(l - f) PROVE a[k] = w[k]
  <2>1. a[k] = s[f + k]  BY <1>5, <1>11
  <2>2. CASE k <= n
    <3>1. k \in 1..n  BY ONLY <2>2, k \in 1..(l - f), l \in Nat, f \in Nat, n \in Nat
    <3> QED BY ONLY <1>6, <1>9, <1>10, <2>2, <3>1, k \in 1..(l - f)
  <2>3. CASE ~(k <= n)
    <3>1. /\ k - n \in 1..(v - e) /\ f + k \in 1..(u + v) /\ ~(f + k <= u)
          /\ (f + k) - u = e + (k - n)
      BY ONLY <1>2, <1>3, <1>7, <2>3, k \in 1..(l - f), l \in Nat, u \in Nat, v \in Nat, f \in Nat, n \in Nat
    <3>2. w[k] = c[k - n]  BY ONLY <1>9, <1>10, <2>3, k \in 1..(l - f)
    <3>3. c[k - n] = q[e + (k - n)]  BY ONLY <1>8, <3>1
    <3>4. s[f + k] = q[(f + k) - u]  BY ONLY <1>2, <3>1
    <3> QED BY ONLY <2>1, <3>1, <3>2, <3>3, <3>4
  <2> QED BY <2>2, <2>3
<1>12. a = w
  <2>1. Len(a) = l - f /\ Len(w) = l - f  BY <1>5, <1>10
  <2>2. \A k \in 1..Len(a) : a[k] = w[k]  BY <2>1, <1>11
  <2> QED BY ONLY <2>1, <2>2, a \in Seq(S), w \in Seq(S), SeqEqual
<1> QED BY ONLY <1>1, <1>5, <1>6, <1>7, <1>8, <1>9, <1>12, b \in Seq(S), c \in Seq(S) DEF RestOfSecond

\* The buffer that is left when k vectors are used up.
BufferOf(d, f, z) == [mData |-> d, mFront |-> f, mSize |-> z]

Popped(d, f, z, n, k) == BufferOf(SubSeq(d, k + 1, Len(d)), f + (n - Upto(d, k)), z - n)

\* pop hands out the first bytes and leaves the others.
LEMMA PopFacts ==
    ASSUME NEW b \in Buffer, NEW n \in 0..b.mSize
    PROVE  /\ Pop(b, n) \in Buffer /\ Pop(b, n).mSize = b.mSize - n
           /\ SubSeq(Bytes(b), 1, n) \in Seq(Nat)
           /\ Bytes(b) = SubSeq(Bytes(b), 1, n) \o Bytes(Pop(b, n))
<1>1. PICK d \in Seq(Seq(Nat)), f \in Nat, z \in Nat :
          /\ b.mData = d /\ b.mFront = f /\ b.mSize = z
          /\ f + z = Len(FlattenSeq(d))
  BY DEF Buffer
<1>2. n \in Nat /\ n <= z /\ f + n \in Nat  BY <1>1
<1>3. PICK k \in 0..Len(d) : UsedUp(d, f + n, k) /\ Pop(b, n) = Popped(d, f, z, n, k)
  <2> DEFINE j == CHOOSE j \in 0..Len(b.mData) : UsedUp(b.mData, b.mFront + n, j)
  <2>1. \E m \in 0..Len(d) : UsedUp(d, f + n, m)  BY <1>2, SomeUsedUp
  <2>2. j \in 0..Len(d) /\ UsedUp(d, f + n, j)
    <3>1. \E m \in 0..Len(b.mData) : UsedUp(b.mData, b.mFront + n, m)  BY <1>1, <2>1, Zenon
    <3>2. j \in 0..Len(b.mData) /\ UsedUp(b.mData, b.mFront + n, j)  BY ONLY <3>1, Zenon
    <3> HIDE DEF j
    <3> QED BY <1>1, <3>2, Zenon
  <2>3. Pop(b, n) = Popped(b.mData, b.mFront, b.mSize, n, j)
    BY ONLY Zenon DEF Pop, UsedUp, Popped, BufferOf
  <2> HIDE DEF j
  <2>4. Pop(b, n) = Popped(d, f, z, n, j)  BY ONLY <1>1, <2>3, Zenon
  <2> QED BY ONLY <2>2, <2>4, Zenon
<1>4. PICK q \in Seq(Seq(Nat)) :
          /\ q = SubSeq(d, k + 1, Len(d)) /\ Len(q) = Len(d) - k
          /\ \A i \in 1..(Len(d) - k) : q[i] = d[k + i]
  <2>1. /\ SubSeq(d, k + 1, Len(d)) \in Seq(Seq(Nat)) /\ Len(SubSeq(d, k + 1, Len(d))) = Len(d) - k
        /\ \A i \in 1..(Len(d) - k) : SubSeq(d, k + 1, Len(d))[i] = d[k + i]
    BY ONLY d \in Seq(Seq(Nat)), k \in 0..Len(d), SuffixFacts
  <2> QED BY ONLY <2>1, Zenon
<1>5. PICK s \in Seq(Nat), p \in Seq(Nat), t \in Seq(Nat) :
          /\ s = FlattenSeq(d) /\ p = FlattenSeq(SubSeq(d, 1, k)) /\ t = FlattenSeq(q)
          /\ s = p \o t /\ Len(p) = Upto(d, k)
  <2>1. /\ SubSeq(d, 1, k) \in Seq(Seq(Nat))
        /\ FlattenSeq(d) = FlattenSeq(SubSeq(d, 1, k)) \o FlattenSeq(SubSeq(d, k + 1, Len(d)))
    BY ONLY d \in Seq(Seq(Nat)), k \in 0..Len(d), FlattenSplit
  <2>2. FlattenSeq(d) \in Seq(Nat) /\ FlattenSeq(SubSeq(d, 1, k)) \in Seq(Nat) /\ FlattenSeq(q) \in Seq(Nat)
    BY ONLY <2>1, d \in Seq(Seq(Nat)), q \in Seq(Seq(Nat)), FlattenType
  <2>3. Len(FlattenSeq(SubSeq(d, 1, k))) = Upto(d, k)  BY Zenon DEF Upto
  <2> QED BY ONLY <1>4, <2>1, <2>2, <2>3, Zenon
<1>6. PICK u \in Nat, l \in Nat, v \in Nat : u = Upto(d, k) /\ l = Len(s) /\ v = Len(t) /\ l = u + v
  <2>1. Len(p) \in Nat /\ Len(t) \in Nat /\ Len(s) \in Nat /\ Len(p \o t) = Len(p) + Len(t)
    BY ONLY s \in Seq(Nat), p \in Seq(Nat), t \in Seq(Nat), ConcatProperties
  <2>2. Len(s) = Len(p) + Len(t)  BY ONLY <1>5, <2>1
  <2> QED BY ONLY <1>5, <2>1, <2>2
<1>7. f + z = l /\ u <= f + n /\ f + n <= l
  <2>1. f + z = l  BY ONLY <1>1, <1>5, <1>6
  <2>2. u <= f + n  BY ONLY <1>3, <1>6 DEF UsedUp
  <2> QED BY ONLY <1>2, <2>1, <2>2, f \in Nat, z \in Nat
<1>8. PICK c : c = Pop(b, n)  OBVIOUS
<1>9. PICK g \in Nat, y \in Nat :
          /\ g = (f + n) - u /\ y = z - n /\ g + y = v
          /\ c = BufferOf(q, g, y)
  <2>1. (f + n) - u \in Nat /\ z - n \in Nat /\ ((f + n) - u) + (z - n) = v
    <3>1. n \in Nat /\ n <= z /\ l = u + v  BY ONLY <1>2, <1>6
    <3> QED BY ONLY <3>1, <1>7, f \in Nat, z \in Nat, u \in Nat, v \in Nat
  <2>2. c = BufferOf(q, (f + n) - u, z - n)
    <3>1. c = Popped(d, f, z, n, k)  BY ONLY <1>3, <1>8
    <3>2. SubSeq(d, k + 1, Len(d)) = q /\ Upto(d, k) = u  BY ONLY <1>4, <1>6
    <3>3. c = BufferOf(SubSeq(d, k + 1, Len(d)), f + (n - Upto(d, k)), z - n)
      BY ONLY <3>1, Zenon DEF Popped
    <3>4. n \in Int  BY ONLY <1>2
    <3>5. f + (n - u) = (f + n) - u  BY ONLY <3>4, f \in Nat, u \in Nat
    <3> QED BY ONLY <3>2, <3>3, <3>5, Zenon
  <2> QED BY ONLY <2>1, <2>2, Zenon
<1>10. FrontInside(c)
  <2>1. CASE k = Len(d)
    <3>1. Len(q) = 0  BY ONLY <1>4, <2>1, d \in Seq(Seq(Nat))
    <3>2. q = <<>>  BY ONLY <3>1, q \in Seq(Seq(Nat))
    <3>3. u = l  BY ONLY <1>5, <1>6, <2>1, d \in Seq(Seq(Nat)), UptoFacts
    <3>4. g = 0  BY ONLY <1>7, <1>9, <3>3, g \in Nat, f \in Nat, l \in Nat, n \in 0..b.mSize
    <3> QED BY ONLY <1>9, <3>2, <3>4 DEF FrontInside, BufferOf
  <2>2. CASE k # Len(d)
    <3>1. k \in 0..(Len(d) - 1) /\ 1 \in 1..(Len(d) - k) /\ Len(d) - k > 0
      BY ONLY <2>2, k \in 0..Len(d), d \in Seq(Seq(Nat))
    <3>2. q[1] = d[k + 1] /\ Len(q) > 0  BY ONLY <1>4, <3>1
    <3>3. Upto(d, k + 1) > f + n  BY ONLY <1>3, <2>2 DEF UsedUp
    <3>4. Upto(d, k + 1) = u + Len(q[1])  BY ONLY <1>6, <3>1, <3>2, d \in Seq(Seq(Nat)), UptoFacts
    <3>5. Len(q[1]) \in Nat
      <4>1. q[1] \in Seq(Nat)  BY ONLY <3>2, q \in Seq(Seq(Nat))
      <4> QED BY ONLY <4>1
    <3>6. g < Len(q[1])
      <4>1. PICK x \in Nat : x = Len(q[1])  BY ONLY <3>5
      <4>2. u + x > f + n /\ g = (f + n) - u  BY ONLY <1>9, <3>3, <3>4, <4>1
      <4> QED BY ONLY <1>2, <4>1, <4>2, x \in Nat, u \in Nat, f \in Nat
    <3>7. q # <<>>  BY ONLY <3>2
    <3> QED BY ONLY <1>9, <3>6, <3>7 DEF FrontInside, BufferOf
  <2> QED BY <2>1, <2>2
<1>11. c \in Buffer /\ c.mSize = z - n
  <2>1. /\ c \in [mData : Seq(Seq(Nat)), mFront : Nat, mSize : Nat]
        /\ c.mData = q /\ c.mFront = g /\ c.mSize = y
    BY ONLY <1>9, q \in Seq(Seq(Nat)), g \in Nat, y \in Nat DEF BufferOf
  <2>2. g + y = Len(FlattenSeq(q))  BY ONLY <1>5, <1>6, <1>9
  <2> QED BY ONLY <1>9, <1>10, <2>1, <2>2 DEF Buffer
<1>12. Bytes(b) = From(s, f)  BY <1>1, <1>5 DEF Bytes, From
<1>13. Bytes(c) = From(t, (f + n) - Len(p))  BY <1>5, <1>6, <1>9 DEF Bytes, From, BufferOf
<1>14. /\ SubSeq(From(s, f), 1, n) \in Seq(Nat)
       /\ From(s, f) = SubSeq(From(s, f), 1, n) \o From(t, (f + n) - Len(p))
  <2>1. InSecond(s, p, t, f, n)  BY ONLY <1>5, <1>6, <1>7 DEF InSecond
  <2>2. n \in Nat  BY ONLY <1>2
  <2>3. RestOfSecond(Nat, s, p, t, f, n)
    BY ONLY <2>1, <2>2, s \in Seq(Nat), p \in Seq(Nat), t \in Seq(Nat), f \in Nat, SuffixOfPart
  <2> QED BY ONLY <2>3 DEF RestOfSecond
<1> QED BY ONLY <1>1, <1>8, <1>11, <1>12, <1>13, <1>14
-----------------------------------------------------------------------------
(* Where the bytes of a direction are *)

\* The first n bytes.
Numbers(n) == [k \in 1..n |-> k]

\* What was received, the inbound buffer, what is carried and the outbound
\* buffer are together the first n bytes.
Flow(g, in, c, out) == Joined(Joined(Joined(g, in), c), out)
FlowIs(g, ib, c, ob, n) == Flow(g, Bytes(ib), c, Bytes(ob)) = Numbers(n)

LEMMA JoinedThree ==
    ASSUME NEW s \in Seq(Nat), NEW t \in Seq(Nat), NEW u \in Seq(Nat)
    PROVE  /\ Joined(s, t) \in Seq(Nat) /\ Joined(Joined(s, t), u) = Joined(s, Joined(t, u))
           /\ Joined(s, <<>>) = s /\ Joined(<<>>, s) = s
BY JoinedFacts

\* The next w bytes follow.
LEMMA NextNumbers ==
    ASSUME NEW n \in Nat, NEW w \in Nat
    PROVE  /\ [k \in 1..w |-> n + k] \in Seq(Nat) /\ Len([k \in 1..w |-> n + k]) = w
           /\ Joined(Numbers(n), [k \in 1..w |-> n + k]) = Numbers(n + w)
<1>1. PICK s \in Seq(Nat) : s = Numbers(n) /\ Len(s) = n /\ \A k \in 1..n : s[k] = k
  <2>1. Numbers(n) \in Seq(Nat) /\ Len(Numbers(n)) = n /\ \A k \in 1..n : Numbers(n)[k] = k  BY DEF Numbers
  <2> QED BY ONLY <2>1, Zenon
<1>2. PICK t \in Seq(Nat) : t = [k \in 1..w |-> n + k] /\ Len(t) = w /\ \A k \in 1..w : t[k] = n + k
  <2>1. [k \in 1..w |-> n + k] \in Seq(Nat) /\ Len([k \in 1..w |-> n + k]) = w  OBVIOUS
  <2>2. \A k \in 1..w : [j \in 1..w |-> n + j][k] = n + k  OBVIOUS
  <2> QED BY ONLY <2>1, <2>2, Zenon
<1>3. PICK u \in Seq(Nat) : u = Numbers(n + w) /\ Len(u) = n + w /\ \A k \in 1..(n + w) : u[k] = k
  <2>1. Numbers(n + w) \in Seq(Nat) /\ Len(Numbers(n + w)) = n + w /\ \A k \in 1..(n + w) : Numbers(n + w)[k] = k
    BY DEF Numbers
  <2> QED BY ONLY <2>1, Zenon
<1>4. s \o t = u
  <2>1. /\ s \o t \in Seq(Nat) /\ Len(s \o t) = Len(s) + Len(t)
        /\ \A k \in 1..(Len(s) + Len(t)) : (s \o t)[k] = IF k <= Len(s) THEN s[k] ELSE t[k - Len(s)]
    BY ONLY s \in Seq(Nat), t \in Seq(Nat), ConcatProperties
  <2>2. PICK v \in Seq(Nat) :
            v = s \o t /\ Len(v) = n + w /\ \A k \in 1..(n + w) : v[k] = IF k <= n THEN s[k] ELSE t[k - n]
    <3>1. Len(s) = n /\ Len(t) = w  BY ONLY <1>1, <1>2
    <3> QED BY ONLY <2>1, <3>1, Zenon
  <2>3. ASSUME NEW k \in 1..(n + w) PROVE v[k] = u[k]
    <3>1. CASE k <= n
      <4>1. k \in 1..n  BY ONLY <3>1, k \in 1..(n + w), n \in Nat, w \in Nat
      <4> QED BY ONLY <1>1, <1>3, <2>2, <3>1, <4>1, k \in 1..(n + w)
    <3>2. CASE ~(k <= n)
      <4>1. k - n \in 1..w /\ n + (k - n) = k  BY ONLY <3>2, k \in 1..(n + w), n \in Nat, w \in Nat
      <4>2. v[k] = t[k - n] /\ t[k - n] = n + (k - n) /\ u[k] = k
        BY ONLY <1>2, <1>3, <2>2, <3>2, <4>1, k \in 1..(n + w)
      <4> QED BY ONLY <4>1, <4>2
    <3> QED BY <3>1, <3>2
  <2>4. Len(v) = Len(u) /\ \A k \in 1..Len(v) : v[k] = u[k]  BY <1>3, <2>2, <2>3
  <2>5. v = u  BY ONLY <2>4, v \in Seq(Nat), u \in Seq(Nat), SeqEqual
  <2> QED BY ONLY <2>2, <2>5
<1> QED BY ONLY <1>1, <1>2, <1>3, <1>4, Zenon DEF Joined

\* A send adds the next bytes to the outbound buffer.
LEMMA FlowSend ==
    ASSUME NEW g \in Seq(Nat), NEW ib \in Buffer, NEW c \in Seq(Nat), NEW ob \in Buffer,
           NEW n \in Nat, NEW w \in Nat, w > 0, FlowIs(g, ib, c, ob, n)
    PROVE  FlowIs(g, ib, c, Push(ob, [k \in 1..w |-> n + k]), n + w)
<1>1. PICK d \in Seq(Nat) : d = [k \in 1..w |-> n + k] /\ Len(d) = w /\ Joined(Numbers(n), d) = Numbers(n + w)
  BY ONLY NextNumbers, n \in Nat, w \in Nat, Zenon
<1>2. PICK i \in Seq(Nat), o \in Seq(Nat) : i = Bytes(ib) /\ o = Bytes(ob)  BY BytesType, Zenon
<1>3. Bytes(Push(ob, d)) = Joined(o, d)
  <2>1. Len(d) > 0  BY <1>1
  <2>2. Bytes(Push(ob, d)) = Bytes(ob) \o d  BY ONLY <2>1, ob \in Buffer, d \in Seq(Nat), PushFacts
  <2> QED BY ONLY <1>2, <2>2, Zenon DEF Joined
<1>4. PICK x \in Seq(Nat) : x = Joined(Joined(g, i), c)
  <2>1. Joined(g, i) \in Seq(Nat)  BY ONLY g \in Seq(Nat), i \in Seq(Nat), JoinedThree
  <2>2. Joined(Joined(g, i), c) \in Seq(Nat)  BY ONLY <2>1, c \in Seq(Nat), JoinedThree
  <2> QED BY ONLY <2>2, Zenon
<1>5. Joined(x, o) = Numbers(n)  BY <1>2, <1>4, Zenon DEF FlowIs, Flow
<1>6. Joined(Joined(x, o), d) = Joined(x, Joined(o, d))
  BY ONLY x \in Seq(Nat), o \in Seq(Nat), d \in Seq(Nat), JoinedThree
<1>7. Flow(g, Bytes(ib), c, Bytes(Push(ob, d))) = Numbers(n + w)
  BY ONLY <1>1, <1>2, <1>3, <1>4, <1>5, <1>6, Zenon DEF Flow
<1> QED BY ONLY <1>1, <1>7, Zenon DEF FlowIs

\* A recv takes its bytes from the inbound buffer.
LEMMA FlowTake ==
    ASSUME NEW g \in Seq(Nat), NEW ib \in Buffer, NEW c \in Seq(Nat), NEW ob \in Buffer,
           NEW n \in Nat, NEW w \in 0..ib.mSize, FlowIs(g, ib, c, ob, n)
    PROVE  FlowIs(g \o SubSeq(Bytes(ib), 1, w), Pop(ib, w), c, ob, n)
<1>1. PICK p \in Seq(Nat), q \in Seq(Nat) :
          p = SubSeq(Bytes(ib), 1, w) /\ q = Bytes(Pop(ib, w)) /\ Bytes(ib) = Joined(p, q)
  <2>1. /\ Pop(ib, w) \in Buffer /\ SubSeq(Bytes(ib), 1, w) \in Seq(Nat)
        /\ Bytes(ib) = SubSeq(Bytes(ib), 1, w) \o Bytes(Pop(ib, w))
    BY ONLY ib \in Buffer, w \in 0..ib.mSize, PopFacts
  <2>2. Bytes(Pop(ib, w)) \in Seq(Nat)  BY ONLY <2>1, BytesType
  <2> QED BY ONLY <2>1, <2>2, Zenon DEF Joined
<1>2. Joined(Joined(g, p), q) = Joined(g, Joined(p, q))
  BY ONLY g \in Seq(Nat), p \in Seq(Nat), q \in Seq(Nat), JoinedThree
<1>3. Flow(Joined(g, p), q, c, Bytes(ob)) = Numbers(n)  BY <1>1, <1>2, Zenon DEF FlowIs, Flow
<1> QED BY ONLY <1>1, <1>3, Zenon DEF FlowIs, Joined

\* getOutbound takes all bytes of the outbound buffer.
LEMMA FlowGet ==
    ASSUME NEW g \in Seq(Nat), NEW ib \in Buffer, NEW ob \in Buffer, NEW n \in Nat,
           FlowIs(g, ib, <<>>, ob, n)
    PROVE  FlowIs(g, ib, Bytes(ob), EmptyBuffer, n)
<1>1. PICK i \in Seq(Nat), o \in Seq(Nat) : i = Bytes(ib) /\ o = Bytes(ob)  BY BytesType, Zenon
<1>2. PICK x \in Seq(Nat) : x = Joined(g, i)  BY ONLY g \in Seq(Nat), i \in Seq(Nat), JoinedThree, Zenon
<1>3. Joined(x, <<>>) = x  BY ONLY x \in Seq(Nat), JoinedThree
<1>4. Joined(x, o) \in Seq(Nat)  BY ONLY x \in Seq(Nat), o \in Seq(Nat), JoinedThree
<1>5. Joined(Joined(x, o), <<>>) = Joined(x, o)  BY ONLY <1>4, JoinedThree
<1> QED BY <1>1, <1>2, <1>3, <1>5, EmptyFacts, Zenon DEF FlowIs, Flow

\* processInbound adds what is carried to the inbound buffer.
LEMMA FlowPut ==
    ASSUME NEW g \in Seq(Nat), NEW ib \in Buffer, NEW c \in Seq(Nat), NEW ob \in Buffer, NEW n \in Nat,
           Len(c) > 0, FlowIs(g, ib, c, ob, n)
    PROVE  FlowIs(g, Push(ib, c), <<>>, ob, n)
<1>1. PICK i \in Seq(Nat) : i = Bytes(ib)  BY BytesType, Zenon
<1>2. Bytes(Push(ib, c)) = Joined(i, c)
  <2>1. Bytes(Push(ib, c)) = Bytes(ib) \o c  BY ONLY ib \in Buffer, c \in Seq(Nat), Len(c) > 0, PushFacts
  <2> QED BY ONLY <1>1, <2>1, Zenon DEF Joined
<1>3. Joined(i, c) \in Seq(Nat)  BY ONLY i \in Seq(Nat), c \in Seq(Nat), JoinedThree
<1>4. Joined(g, Joined(i, c)) \in Seq(Nat)  BY ONLY <1>3, g \in Seq(Nat), JoinedThree
<1>5. Joined(Joined(g, Joined(i, c)), <<>>) = Joined(g, Joined(i, c))  BY ONLY <1>4, JoinedThree
<1>6. Joined(Joined(g, i), c) = Joined(g, Joined(i, c))
  BY ONLY g \in Seq(Nat), i \in Seq(Nat), c \in Seq(Nat), JoinedThree
<1> QED BY <1>1, <1>2, <1>5, <1>6, Zenon DEF FlowIs, Flow
-----------------------------------------------------------------------------
(* The buffers, what is carried, and what the recvs were given *)

DataTypes ==
    /\ inbound \in [Side -> Buffer] /\ outbound \in [Side -> Buffer]
    /\ got \in [Side -> Seq(Nat)] /\ sent \in [Side -> Nat] /\ XchTypes
    /\ \A i \in Side : outbound[i].mFront = 0

\* exchangeMessages carries bytes only from getOutbound to processInbound.
NothingCarried == xch.at # "put" => xch.bb = <<>>

\* The bytes that are carried to side i.
Carried(i) == IF xch.i = 1 - i THEN xch.bb ELSE <<>>

Conserved == \A i \in Side : FlowIs(got[i], inbound[i], Carried(i), outbound[1 - i], sent[1 - i])

DataInv == DataTypes /\ NothingCarried /\ Conserved

\* The inductive invariant.
IInv == ControlInv /\ DataInv /\ NoStarvedRecv
-----------------------------------------------------------------------------
LEMMA Sides == \A i \in Side : 1 - i \in Side /\ 1 - (1 - i) = i /\ 1 - i # i /\ \A k \in Side : k = i \/ k = 1 - i
BY DEF Side

LEMMA CarriedType ==
    ASSUME DataTypes, NEW i \in Side
    PROVE  Carried(i) \in Seq(Nat)
BY DEF DataTypes, XchTypes, Carried

\* At first all buffers are empty.
LEMMA InitData == Init => DataInv
<1> SUFFICES ASSUME Init PROVE DataInv  OBVIOUS
<1>1. DataTypes
  <2>1. inbound \in [Side -> Buffer] /\ outbound \in [Side -> Buffer]  BY EmptyFacts DEF Init
  <2>2. got \in [Side -> Seq(Nat)] /\ sent \in [Side -> Nat]  BY DEF Init
  <2>3. XchTypes  BY DEF Init, Idle, XchTypes, Side
  <2>4. \A i \in Side : outbound[i].mFront = 0  BY DEF Init, EmptyBuffer
  <2> QED BY <2>1, <2>2, <2>3, <2>4 DEF DataTypes
<1>2. NothingCarried  BY DEF Init, Idle, NothingCarried
<1>3. Conserved
  <2> SUFFICES ASSUME NEW i \in Side
               PROVE  FlowIs(got[i], inbound[i], Carried(i), outbound[1 - i], sent[1 - i])
    BY Zenon DEF Conserved
  <2>1. got[i] = <<>> /\ inbound[i] = EmptyBuffer /\ outbound[1 - i] = EmptyBuffer /\ sent[1 - i] = 0
    BY Sides DEF Init
  <2>2. Carried(i) = <<>>  BY DEF Init, Idle, Carried
  <2>3. <<>> \in Seq(Nat)  OBVIOUS
  <2>4. Joined(<<>>, <<>>) = <<>>  BY ONLY <2>3, JoinedThree
  <2>5. Numbers(0) = <<>>  BY DEF Numbers
  <2> QED BY <2>1, <2>2, <2>4, <2>5, EmptyFacts, Zenon DEF FlowIs, Flow
<1> QED BY <1>1, <1>2, <1>3 DEF DataInv

\* A step that leaves the buffers alone and carries nothing.
LEMMA DataUnchanged ==
    ASSUME DataInv, UNCHANGED <<inbound, outbound, got, sent>>, XchTypes',
           xch' = xch \/ (xch.bb = <<>> /\ xch'.bb = <<>>)
    PROVE  DataInv'
<1>1. DataTypes'  BY DEF DataInv, DataTypes
<1>2. NothingCarried'  BY DEF DataInv, NothingCarried
<1>3. Conserved'
  <2> SUFFICES ASSUME NEW i \in Side
               PROVE  FlowIs(got[i], inbound[i], Carried(i), outbound[1 - i], sent[1 - i])'
    BY Zenon DEF Conserved
  <2>1. Carried(i)' = Carried(i)  BY DEF Carried
  <2>2. FlowIs(got[i], inbound[i], Carried(i), outbound[1 - i], sent[1 - i])  BY Zenon DEF DataInv, Conserved
  <2> QED BY <2>1, <2>2 DEF FlowIs
<1> QED BY <1>1, <1>2, <1>3 DEF DataInv

LEMMA WantIsNat ==
    ASSUME ControlInv, NEW o \in Op
    PROVE  want[o] \in Nat
<1>1. want[o] \in 0..MaxLen  BY DEF ControlInv, ControlTypes
<1>2. MaxLen \in Nat  BY BufferingAssumption DEF BufferingAssumption
<1> QED BY <1>1, <1>2

\* A send adds its bytes to the outbound buffer of its side.
LEMMA StartSendData ==
    ASSUME IInv, NEW o \in Op, StartSend(o)
    PROVE  DataInv' /\ NoStarvedRecv'
<1> DEFINE s == o[1]
<1>1. s \in Side  BY OpFacts
<1>2. PICK w \in Nat : w = want[o] /\ w > 0  BY WantIsNat DEF StartSend, IInv, ControlInv, SpanNotEmpty
<1>3. PICK n \in Nat : n = sent[s]  BY <1>1 DEF IInv, DataInv, DataTypes
<1>4. PICK b \in Buffer : b = outbound[s] /\ b.mFront = 0  BY <1>1 DEF IInv, DataInv, DataTypes
<1>5. PICK c : c = Push(b, [k \in 1..w |-> n + k])  OBVIOUS
<1>6. c \in Buffer /\ c.mFront = 0
  <2>1. [k \in 1..w |-> n + k] \in Seq(Nat) /\ Len([k \in 1..w |-> n + k]) > 0  BY <1>2, NextNumbers
  <2>2. Push(b, [k \in 1..w |-> n + k]) \in Buffer /\ Push(b, [k \in 1..w |-> n + k]).mFront = b.mFront
    BY ONLY <2>1, b \in Buffer, PushFacts
  <2> QED BY ONLY <1>4, <1>5, <2>2
<1>7. outbound' = [outbound EXCEPT ![s] = c] /\ sent' = [sent EXCEPT ![s] = n + w]
  BY <1>2, <1>3, <1>4, <1>5 DEF StartSend, IInv, DataInv, DataTypes
<1>8. UNCHANGED <<inbound, got, xch, mInbound_, want>>  BY DEF StartSend
<1>9. DataTypes'
  BY <1>1, <1>6, <1>7, <1>8 DEF IInv, DataInv, DataTypes, XchTypes
<1>10. NothingCarried'  BY <1>8 DEF IInv, DataInv, NothingCarried
<1>11. Conserved'
  <2> SUFFICES ASSUME NEW i \in Side
               PROVE  FlowIs(got'[i], inbound'[i], Carried(i)', outbound'[1 - i], sent'[1 - i])
    BY Zenon DEF Conserved
  <2>1. Carried(i)' = Carried(i)  BY <1>8 DEF Carried
  <2>2. FlowIs(got[i], inbound[i], Carried(i), outbound[1 - i], sent[1 - i])  BY Zenon DEF IInv, DataInv, Conserved
  <2>3. CASE i = s
    <3>1. outbound'[1 - i] = outbound[1 - i] /\ sent'[1 - i] = sent[1 - i]
      BY <1>1, <1>7, <2>3, Sides DEF IInv, DataInv, DataTypes
    <3> QED BY <1>8, <2>1, <2>2, <3>1
  <2>4. CASE i = 1 - s
    <3>1. 1 - i = s  BY <1>1, <2>4, Sides
    <3>2. outbound'[1 - i] = c /\ sent'[1 - i] = n + w  BY <1>1, <1>7, <3>1 DEF IInv, DataInv, DataTypes
    <3>3. got[i] \in Seq(Nat) /\ inbound[i] \in Buffer  BY DEF IInv, DataInv, DataTypes
    <3>4. Carried(i) \in Seq(Nat)  BY CarriedType DEF IInv, DataInv
    <3>5. FlowIs(got[i], inbound[i], Carried(i), b, n)  BY <1>3, <1>4, <2>2, <3>1
    <3>6. FlowIs(got[i], inbound[i], Carried(i), c, n + w)
      BY ONLY <1>2, <1>5, <3>3, <3>4, <3>5, b \in Buffer, n \in Nat, w \in Nat, FlowSend
    <3> QED BY <1>8, <2>1, <3>2, <3>6
  <2> QED BY <1>1, <2>3, <2>4, Sides
<1>12. NoStarvedRecv'  BY <1>8 DEF IInv, NoStarvedRecv
<1> QED BY <1>9, <1>10, <1>11, <1>12 DEF DataInv

\* The recv of side s takes its w bytes from buffer b, which holds what the
\* direction needs, and nothing that is carried is lost.
LEMMA ServeFlow ==
    ASSUME DataTypes, ControlInv, NEW s \in Side, NEW b \in Buffer, NEW c \in Seq(Nat), NEW who,
           Serve(s, b, who), want[<<s, "recv">>] <= b.mSize,
           FlowIs(got[s], b, c, outbound[1 - s], sent[1 - s])
    PROVE  /\ inbound' \in [Side -> Buffer] /\ got' \in [Side -> Seq(Nat)]
           /\ \A i \in Side : i # s => inbound'[i] = inbound[i] /\ got'[i] = got[i]
           /\ FlowIs(got'[s], inbound'[s], c, outbound[1 - s], sent[1 - s])
<1>1. PICK w \in 0..b.mSize : w = want[<<s, "recv">>]
  <2>1. want[<<s, "recv">>] \in Nat  BY OpFacts, WantIsNat
  <2>2. b.mSize \in Nat  BY DEF Buffer
  <2> QED BY <2>1, <2>2
<1>2. PICK p \in Seq(Nat), r \in Buffer : p = SubSeq(Bytes(b), 1, w) /\ r = Pop(b, w)
  BY ONLY b \in Buffer, w \in 0..b.mSize, PopFacts, Zenon
<1>3. PICK g \in Seq(Nat) : g = got[s] /\ g \o p \in Seq(Nat)
  <2>1. got[s] \in Seq(Nat)  BY DEF DataTypes
  <2>2. got[s] \o p \in Seq(Nat)  BY ONLY <2>1, p \in Seq(Nat), ConcatProperties
  <2> QED BY ONLY <2>1, <2>2, Zenon
<1>4. inbound' = [inbound EXCEPT ![s] = r]  BY <1>1, <1>2, Zenon DEF Serve
<1>5. got' = [got EXCEPT ![s] = g \o p]
  <2>1. got' = [got EXCEPT ![s] = got[s] \o SubSeq(Bytes(b), 1, want[<<s, "recv">>])]  BY Zenon DEF Serve
  <2> QED BY ONLY <1>1, <1>2, <1>3, <2>1, Zenon
<1>6. inbound' \in [Side -> Buffer] /\ inbound'[s] = r /\ \A i \in Side : i # s => inbound'[i] = inbound[i]
  BY <1>4 DEF DataTypes
<1>7. PICK h \in Seq(Nat) : h = g \o p  BY ONLY <1>3, Zenon
<1>8. got' \in [Side -> Seq(Nat)] /\ got'[s] = h /\ \A i \in Side : i # s => got'[i] = got[i]
  <2>1. got \in [Side -> Seq(Nat)] /\ got' = [got EXCEPT ![s] = h]  BY <1>5, <1>7 DEF DataTypes
  <2> QED BY ONLY <2>1, h \in Seq(Nat), s \in Side
<1>9. outbound[1 - s] \in Buffer /\ sent[1 - s] \in Nat  BY Sides DEF DataTypes
<1>10. FlowIs(g \o SubSeq(Bytes(b), 1, w), Pop(b, w), c, outbound[1 - s], sent[1 - s])
  <2>1. FlowIs(g, b, c, outbound[1 - s], sent[1 - s])  BY <1>3
  <2> QED BY ONLY <1>9, <2>1, g \in Seq(Nat), b \in Buffer, c \in Seq(Nat), w \in 0..b.mSize, FlowTake
<1>11. FlowIs(h, r, c, outbound[1 - s], sent[1 - s])  BY ONLY <1>2, <1>7, <1>10, Zenon
<1> QED BY ONLY <1>6, <1>8, <1>11

LEMMA StartRecvData ==
    ASSUME IInv, NEW o \in Op, StartRecv(o)
    PROVE  DataInv' /\ NoStarvedRecv'
<1> DEFINE s == o[1]
<1>1. s \in Side /\ o = <<s, "recv">> /\ pc[o] = "start"  BY OpFacts DEF StartRecv
<1>2. /\ Serve(s, inbound[s], "self") /\ want[<<s, "recv">>] <= inbound[s].mSize
      /\ inbound[s] \in Buffer /\ inbound[s].mSize \in Nat /\ want[o] \in Nat
  <2>1. inbound[s] \in Buffer /\ want[o] \in Nat  BY <1>1, WantIsNat DEF IInv, DataInv, DataTypes
  <2>2. inbound[s].mSize \in Nat  BY <2>1 DEF Buffer
  <2>3. Serve(s, inbound[s], "self") /\ inbound[s].mSize >= want[o]  BY DEF StartRecv
  <2>4. want[o] <= inbound[s].mSize  BY ONLY <2>1, <2>2, <2>3
  <2>5. o = <<s, "recv">>  BY <1>1
  <2> HIDE DEF s
  <2> QED BY ONLY <2>1, <2>2, <2>3, <2>4, <2>5
<1>3. UNCHANGED <<outbound, xch, sent, mInbound_, want>>  BY DEF StartRecv
<1>4. Carried(s) \in Seq(Nat) /\ FlowIs(got[s], inbound[s], Carried(s), outbound[1 - s], sent[1 - s])
  BY <1>1, CarriedType DEF IInv, DataInv, Conserved
<1>5. /\ inbound' \in [Side -> Buffer] /\ got' \in [Side -> Seq(Nat)]
      /\ \A i \in Side : i # s => inbound'[i] = inbound[i] /\ got'[i] = got[i]
      /\ FlowIs(got'[s], inbound'[s], Carried(s), outbound[1 - s], sent[1 - s])
  <2>1. DataTypes /\ ControlInv  BY DEF IInv, DataInv
  <2>2. s \in Side  BY <1>1
  <2> HIDE DEF s
  <2> QED BY ONLY <1>2, <1>4, <2>1, <2>2, ServeFlow
<1>6. DataTypes'  BY <1>3, <1>5 DEF IInv, DataInv, DataTypes, XchTypes
<1>7. NothingCarried'  BY <1>3 DEF IInv, DataInv, NothingCarried
<1>8. Conserved'
  <2> SUFFICES ASSUME NEW i \in Side
               PROVE  FlowIs(got'[i], inbound'[i], Carried(i)', outbound'[1 - i], sent'[1 - i])
    BY Zenon DEF Conserved
  <2>1. Carried(i)' = Carried(i)  BY <1>3 DEF Carried
  <2>2. FlowIs(got[i], inbound[i], Carried(i), outbound[1 - i], sent[1 - i])  BY Zenon DEF IInv, DataInv, Conserved
  <2>3. CASE i = s  BY <1>3, <1>5, <2>1, <2>3
  <2>4. CASE i # s  BY <1>3, <1>5, <2>1, <2>2, <2>4
  <2> QED BY <2>3, <2>4
<1>9. NoStarvedRecv'
  <2> SUFFICES ASSUME NEW i \in Side, mInbound_'[i]
               PROVE  want'[<<i, "recv">>] > inbound'[i].mSize
    BY Zenon DEF NoStarvedRecv
  <2>1. i # s  BY <1>1, <1>3, OpFacts DEF IInv, ControlInv, OneWaker
  <2>2. inbound'[i] = inbound[i]  BY <1>5, <2>1
  <2> QED BY <1>3, <2>2 DEF IInv, NoStarvedRecv
<1> QED BY <1>6, <1>7, <1>8, <1>9 DEF DataInv

\* getOutbound hands on what the outbound buffer holds.
LEMMA GetOutboundData ==
    ASSUME IInv, GetOutbound
    PROVE  DataInv' /\ NoStarvedRecv'
<1>1. PICK s \in Side : s = xch.i  BY DEF IInv, DataInv, DataTypes, XchTypes
<1>2. xch.at = "get" /\ xch.bb = <<>>  BY DEF GetOutbound, IInv, DataInv, NothingCarried
<1>3. PICK c \in Seq(Nat) : c = Bytes(outbound[s])
  BY BytesType DEF IInv, DataInv, DataTypes
<1>4. /\ outbound' = [outbound EXCEPT ![s] = EmptyBuffer]
      /\ xch' = [xch EXCEPT !.at = IF c = <<>> /\ mEc_[s] # "success" THEN "error" ELSE "put", !.bb = c]
      /\ UNCHANGED <<inbound, got, sent, mInbound_, want>>
  BY <1>1, <1>3 DEF GetOutbound, awaiter
<1>5. xch'.i = s /\ xch'.bb = c /\ XchTypes' /\ (xch'.at # "put" => c = <<>>)
  <2>1. xch \in [at : {"idle", "get", "put", "error"}, i : Side, bb : Seq(Nat), progress : BOOLEAN]
    BY DEF IInv, DataInv, DataTypes, XchTypes
  <2> QED BY <1>1, <1>4, <2>1 DEF XchTypes
<1>6. DataTypes'
  <2>1. outbound' \in [Side -> Buffer]  BY <1>4, EmptyFacts DEF IInv, DataInv, DataTypes
  <2>2. \A i \in Side : outbound'[i].mFront = 0  BY <1>4 DEF IInv, DataInv, DataTypes, EmptyBuffer
  <2> QED BY <1>4, <1>5, <2>1, <2>2 DEF IInv, DataInv, DataTypes
<1>7. NothingCarried'  BY <1>5 DEF NothingCarried
<1>8. Conserved'
  <2> SUFFICES ASSUME NEW i \in Side
               PROVE  FlowIs(got'[i], inbound'[i], Carried(i)', outbound'[1 - i], sent'[1 - i])
    BY Zenon DEF Conserved
  <2>1. Carried(i) = <<>>  BY <1>2 DEF Carried
  <2>2. FlowIs(got[i], inbound[i], <<>>, outbound[1 - i], sent[1 - i])
    BY <2>1 DEF IInv, DataInv, Conserved
  <2>3. CASE i = s
    <3>1. Carried(i)' = <<>>  BY <1>5, <2>3, Sides DEF Carried
    <3>2. outbound'[1 - i] = outbound[1 - i]  BY <1>4, <2>3, Sides DEF IInv, DataInv, DataTypes
    <3> QED BY <1>4, <2>2, <3>1, <3>2
  <2>4. CASE i = 1 - s
    <3>1. 1 - i = s  BY <2>4, Sides
    <3>2. Carried(i)' = c  BY <1>5, <3>1 DEF Carried
    <3>3. outbound'[1 - i] = EmptyBuffer  BY <1>4, <3>1 DEF IInv, DataInv, DataTypes
    <3>4. got[i] \in Seq(Nat) /\ inbound[i] \in Buffer /\ outbound[s] \in Buffer /\ sent[s] \in Nat
      BY DEF IInv, DataInv, DataTypes
    <3>5. FlowIs(got[i], inbound[i], <<>>, outbound[s], sent[s])  BY <2>2, <3>1
    <3>6. FlowIs(got[i], inbound[i], Bytes(outbound[s]), EmptyBuffer, sent[s])  BY ONLY <3>4, <3>5, FlowGet
    <3> QED BY <1>3, <1>4, <3>1, <3>2, <3>3, <3>6
  <2> QED BY <2>3, <2>4, Sides
<1>9. NoStarvedRecv'  BY <1>4 DEF IInv, NoStarvedRecv
<1> QED BY <1>6, <1>7, <1>8, <1>9 DEF DataInv

\* After a side the loop goes on with nothing in its hands.
LEMMA AdvanceFacts ==
    ASSUME XchTypes, NEW p \in BOOLEAN, xch' = Advance(p)
    PROVE  XchTypes' /\ xch'.bb = <<>> /\ xch'.at # "put"
BY DEF XchTypes, Advance, Idle, Side

\* processInbound buffers what is carried, and a recv that waits for it takes
\* its bytes.
LEMMA ProcessInboundData ==
    ASSUME IInv, ProcessInbound
    PROVE  DataInv' /\ NoStarvedRecv'
<1>1. PICK s \in Side : s = 1 - xch.i /\ xch.i = 1 - s
  BY Sides DEF IInv, DataInv, DataTypes, XchTypes
<1>2. PICK c \in Seq(Nat) : c = xch.bb /\ Len(c) > 0
  <2>1. xch.bb \in Seq(Nat) /\ xch.bb # <<>>  BY DEF ProcessInbound, IInv, DataInv, DataTypes, XchTypes
  <2> QED BY <2>1
<1>3. PICK a \in Buffer, b \in Buffer : a = inbound[s] /\ b = Push(a, c) /\ b.mSize \in Nat
  <2>1. inbound[s] \in Buffer  BY DEF IInv, DataInv, DataTypes
  <2>2. Push(inbound[s], c) \in Buffer  BY ONLY <1>2, <2>1, c \in Seq(Nat), PushFacts
  <2>3. Push(inbound[s], c).mSize \in Nat  BY <2>2 DEF Buffer
  <2> QED BY ONLY <2>1, <2>2, <2>3, Zenon
<1>4. /\ xch' = Advance(TRUE) /\ UNCHANGED <<outbound, sent, want, pc>>
      /\ IF Servable(s, b)
         THEN Serve(s, b, "exchange") /\ mInbound_' = [mInbound_ EXCEPT ![s] = FALSE]
         ELSE inbound' = [inbound EXCEPT ![s] = b] /\ UNCHANGED <<got, opEc, waker, mInbound_>>
  BY <1>1, <1>2, <1>3, Zenon DEF ProcessInbound
<1>5. XchTypes' /\ xch'.bb = <<>> /\ xch'.at # "put"
  BY <1>4, AdvanceFacts DEF IInv, DataInv, DataTypes
<1>6. FlowIs(got[s], b, <<>>, outbound[1 - s], sent[1 - s])
  <2>1. Carried(s) = c  BY <1>1, <1>2 DEF Carried
  <2>2. FlowIs(got[s], a, c, outbound[1 - s], sent[1 - s])  BY <1>3, <2>1 DEF IInv, DataInv, Conserved
  <2>3. got[s] \in Seq(Nat) /\ outbound[1 - s] \in Buffer /\ sent[1 - s] \in Nat
    BY Sides DEF IInv, DataInv, DataTypes
  <2>4. FlowIs(got[s], Push(a, c), <<>>, outbound[1 - s], sent[1 - s])
    BY ONLY <1>2, <2>2, <2>3, a \in Buffer, c \in Seq(Nat), FlowPut
  <2> QED BY ONLY <1>3, <2>4, Zenon
<1>7. /\ inbound' \in [Side -> Buffer] /\ got' \in [Side -> Seq(Nat)]
      /\ \A i \in Side : i # s => inbound'[i] = inbound[i] /\ got'[i] = got[i]
      /\ FlowIs(got'[s], inbound'[s], <<>>, outbound[1 - s], sent[1 - s])
  <2>1. CASE Servable(s, b)
    <3>1. Serve(s, b, "exchange") /\ want[<<s, "recv">>] <= b.mSize  BY <1>4, <2>1 DEF Servable
    <3>2. DataTypes /\ ControlInv  BY DEF IInv, DataInv
    <3>3. <<>> \in Seq(Nat)  OBVIOUS
    <3> QED BY ONLY <1>6, <3>1, <3>2, <3>3, s \in Side, b \in Buffer, ServeFlow
  <2>2. CASE ~Servable(s, b)
    <3>1. inbound' = [inbound EXCEPT ![s] = b] /\ got' = got  BY <1>4, <2>2
    <3>2. /\ inbound' \in [Side -> Buffer] /\ inbound'[s] = b
          /\ \A i \in Side : i # s => inbound'[i] = inbound[i]
      BY <3>1 DEF IInv, DataInv, DataTypes
    <3>3. got' \in [Side -> Seq(Nat)]  BY <3>1 DEF IInv, DataInv, DataTypes
    <3> QED BY ONLY <1>6, <3>1, <3>2, <3>3
  <2> QED BY <2>1, <2>2
<1>8. DataTypes'  BY <1>4, <1>5, <1>7 DEF IInv, DataInv, DataTypes
<1>9. NothingCarried'  BY <1>5 DEF NothingCarried
<1>10. Conserved'
  <2> SUFFICES ASSUME NEW i \in Side
               PROVE  FlowIs(got'[i], inbound'[i], Carried(i)', outbound'[1 - i], sent'[1 - i])
    BY Zenon DEF Conserved
  <2>1. Carried(i)' = <<>>  BY <1>5 DEF Carried
  <2>2. CASE i = s  BY <1>4, <1>7, <2>1, <2>2
  <2>3. CASE i # s
    <3>1. Carried(i) = <<>>
      <4>1. xch.i # 1 - i  BY <1>1, <2>3, Sides
      <4> QED BY <4>1 DEF Carried
    <3>2. FlowIs(got[i], inbound[i], Carried(i), outbound[1 - i], sent[1 - i])
      BY Zenon DEF IInv, DataInv, Conserved
    <3> QED BY <1>4, <1>7, <2>1, <2>3, <3>1, <3>2
  <2> QED BY <2>2, <2>3
<1>11. NoStarvedRecv'
  <2> SUFFICES ASSUME NEW i \in Side, mInbound_'[i]
               PROVE  want'[<<i, "recv">>] > inbound'[i].mSize
    BY Zenon DEF NoStarvedRecv
  <2>1. CASE i # s
    <3>1. mInbound_'[i] = mInbound_[i]  BY <1>4, <2>1 DEF IInv, ControlInv, ControlTypes
    <3> QED BY <1>4, <1>7, <2>1, <3>1 DEF IInv, NoStarvedRecv
  <2>2. CASE i = s
    <3>1. ~Servable(s, b)  BY <1>4, <2>2 DEF IInv, ControlInv, ControlTypes
    <3>2. mInbound_[s] /\ inbound'[s] = b  BY <1>4, <2>2, <3>1 DEF IInv, DataInv, DataTypes
    <3>3. ~(want[<<s, "recv">>] <= b.mSize)  BY <3>1, <3>2 DEF Servable
    <3>4. want[<<s, "recv">>] \in Nat  BY OpFacts, WantIsNat DEF IInv
    <3> QED BY <1>3, <1>4, <2>2, <3>2, <3>3, <3>4
  <2> QED BY <2>1, <2>2
<1> QED BY <1>8, <1>9, <1>10, <1>11 DEF DataInv

\* The other steps leave the buffers alone, and no recv begins to wait although
\* its bytes are there.
LEMMA OtherData ==
    ASSUME IInv, UNCHANGED <<inbound, outbound, got, sent>>, XchTypes',
           xch' = xch \/ (xch.bb = <<>> /\ xch'.bb = <<>>),
           \A i \in Side : mInbound_'[i] =>
               /\ want'[<<i, "recv">>] = want[<<i, "recv">>]
               /\ mInbound_[i] \/ want[<<i, "recv">>] > inbound[i].mSize
    PROVE  DataInv' /\ NoStarvedRecv'
<1>1. DataInv'  BY DataUnchanged DEF IInv
<1>2. NoStarvedRecv'  BY DEF IInv, NoStarvedRecv
<1> QED BY <1>1, <1>2

\* A recv that waits is suspended and not completed.
LEMMA WaitingRecv ==
    ASSUME ControlInv, NEW i \in Side, mInbound_[i]
    PROVE  pc[<<i, "recv">>] = "suspended" /\ opEc[<<i, "recv">>] = "unset" /\ waker[<<i, "recv">>] = "none"
BY OpFacts DEF ControlInv, OneWaker, ControlTypes

LEMMA AwaiterData ==
    ASSUME IInv, NEW o \in Op,
           StartCanceled(o) \/ StartWait(o) \/ Resume(o) \/ StopCallback(o) \/ \E n \in 1..MaxLen : Await(o, n)
    PROVE  DataInv' /\ NoStarvedRecv'
<1>1. UNCHANGED <<inbound, outbound, got, sent, xch>>
  BY DEF StartCanceled, StartWait, Resume, StopCallback, Await
<1>2. XchTypes'  BY <1>1 DEF IInv, DataInv, DataTypes, XchTypes
<1>3. ASSUME NEW i \in Side, mInbound_'[i]
      PROVE  /\ want'[<<i, "recv">>] = want[<<i, "recv">>]
             /\ mInbound_[i] \/ want[<<i, "recv">>] > inbound[i].mSize
  <2> DEFINE r == <<i, "recv">>
  <2>0. r \in Op /\ o[1] \in Side /\ (o[2] = "recv" /\ o[1] = i => o = r)  BY OpFacts
  <2>1. CASE StartCanceled(o)  BY <1>3, <2>1 DEF StartCanceled
  <2>2. CASE StartWait(o)
    <3>1. want' = want  BY <2>2 DEF StartWait
    <3>2. CASE o = r
      <4>1. o[1] = i  BY <3>2
      <4>2. inbound[i].mSize < want[r]  BY <2>2, <3>2, <4>1 DEF StartWait
      <4>3. inbound[i].mSize \in Nat /\ want[r] \in Nat
        <5>1. inbound[i] \in Buffer  BY DEF IInv, DataInv, DataTypes
        <5> QED BY <2>0, <5>1, WantIsNat DEF IInv, Buffer
      <4> QED BY <3>1, <4>2, <4>3
    <3>3. CASE o # r
      <4>1. o[1] # i  BY <2>0, <2>2, <3>3 DEF StartWait
      <4> QED BY <1>3, <2>0, <2>2, <3>1, <4>1 DEF StartWait, IInv, ControlInv, ControlTypes
    <3> QED BY <3>2, <3>3
  <2>3. CASE Resume(o)
    <3>1. mInbound_[i]  BY <1>3, <2>3 DEF Resume
    <3>2. o # r  BY <2>3, <3>1, WaitingRecv DEF Resume, IInv
    <3> QED BY <2>0, <2>3, <3>1, <3>2 DEF Resume, IInv, ControlInv, ControlTypes
  <2>4. CASE StopCallback(o)
    <3>1. want' = want  BY <2>4 DEF StopCallback
    <3>2. mInbound_[i]  BY <1>3, <2>0, <2>4 DEF StopCallback, IInv, ControlInv, ControlTypes
    <3> QED BY <3>1, <3>2
  <2>5. CASE \E n \in 1..MaxLen : Await(o, n)
    <3>1. mInbound_[i]  BY <1>3, <2>5 DEF Await
    <3>2. o # r  BY <2>5, <3>1, WaitingRecv DEF Await, IInv
    <3> QED BY <2>0, <2>5, <3>1, <3>2 DEF Await, IInv, ControlInv, ControlTypes
  <2> QED BY <2>1, <2>2, <2>3, <2>4, <2>5
<1> QED BY <1>1, <1>2, <1>3, OtherData

\* The recv that waits, if any, stops to.
LEMMA FailedRecvData ==
    ASSUME IInv, NEW i \in Side, NEW ec, NEW who, FailInbound(i, ec, who),
           UNCHANGED <<inbound, outbound, got, sent, want>>, XchTypes',
           xch' = xch \/ (xch.bb = <<>> /\ xch'.bb = <<>>)
    PROVE  DataInv' /\ NoStarvedRecv'
<1>1. \A k \in Side : mInbound_'[k] => mInbound_[k]
  BY DEF FailInbound, IInv, ControlInv, ControlTypes
<1> QED BY <1>1, OtherData

LEMMA CloseData ==
    ASSUME IInv, NEW i \in Side, Close(i)
    PROVE  DataInv' /\ NoStarvedRecv'
<1>1. FailInbound(i, "operation_aborted", "close") /\ UNCHANGED <<inbound, outbound, got, sent, want, xch>>
  BY DEF Close
<1>2. XchTypes'  BY <1>1 DEF IInv, DataInv, DataTypes, XchTypes
<1> QED BY <1>1, <1>2, FailedRecvData

LEMMA ExchangeData ==
    ASSUME IInv, Exchange \/ NothingToPut \/ SetError
    PROVE  DataInv' /\ NoStarvedRecv'
<1>1. xch.bb = <<>> /\ xch.progress \in BOOLEAN /\ XchTypes
  BY DEF Exchange, NothingToPut, SetError, Idle, IInv, DataInv, DataTypes, XchTypes, NothingCarried
<1>2. XchTypes' /\ xch'.bb = <<>>
  <2>1. CASE Exchange
    <3>1. xch' = [at |-> "get", i |-> 0, bb |-> <<>>, progress |-> FALSE]  BY <2>1 DEF Exchange, Idle
    <3>2. <<>> \in Seq(Nat) /\ 0 \in Side  BY DEF Side
    <3> QED BY <3>1, <3>2 DEF XchTypes
  <2>2. CASE NothingToPut \/ SetError
    <3>1. xch' = Advance(xch.progress)  BY <2>2 DEF NothingToPut, SetError
    <3> QED BY <1>1, <3>1, AdvanceFacts
  <2> QED BY <2>1, <2>2
<1>3. UNCHANGED <<inbound, outbound, got, sent, want>>
  BY DEF Exchange, NothingToPut, SetError, awaiter
<1>4. CASE mInbound_' = mInbound_  BY <1>1, <1>2, <1>3, <1>4, OtherData
<1>5. CASE SetError /\ mInbound_' # mInbound_
  <2>1. FailInbound(1 - xch.i, "remoteClosed", "exchange")  BY <1>5 DEF SetError
  <2>2. 1 - xch.i \in Side  BY <1>1, Sides DEF XchTypes
  <2> QED BY <1>1, <1>2, <1>3, <2>1, <2>2, FailedRecvData
<1>6. mInbound_' = mInbound_ \/ SetError  BY DEF Exchange, NothingToPut
<1> QED BY <1>4, <1>5, <1>6
-----------------------------------------------------------------------------
LEMMA InitIInv == Init => IInv
<1> SUFFICES ASSUME Init PROVE IInv  OBVIOUS
<1>1. NoStarvedRecv  BY DEF Init, NoStarvedRecv
<1> QED BY <1>1, InitControl, InitData DEF IInv

LEMMA StepIInv ==
    ASSUME IInv, Next
    PROVE  IInv'
<1>0. ControlInv /\ XchTypes  BY DEF IInv, DataInv, DataTypes
<1>1. ASSUME NEW o \in Op, StartCanceled(o) \/ StartSend(o) \/ StartRecv(o) \/ StartWait(o) \/ Resume(o)
      PROVE  IInv'
  BY <1>0, <1>1, StartCanceledControl, StartSendControl, StartRecvControl, StartWaitControl, ResumeControl,
     StartSendData, StartRecvData, AwaiterData DEF IInv
<1>2. CASE ExchangeStep
  <2>1. CASE Exchange \/ GetOutbound \/ NothingToPut
    <3>1. UNCHANGED <<mEc_, mInbound_, pc, opEc, want, stop, waker, awaits>>
      BY <2>1 DEF Exchange, GetOutbound, NothingToPut, awaiter
    <3>2. ControlInv'
      BY <1>0, <3>1 DEF ControlInv, ControlTypes, OneWaker, SendNeverWaits, SpanNotEmpty
    <3> QED BY <2>1, <3>2, ExchangeData, GetOutboundData DEF IInv
  <2>2. CASE ProcessInbound  BY <1>0, <2>2, ProcessInboundControl, ProcessInboundData DEF IInv
  <2>3. CASE SetError  BY <1>0, <2>3, SetErrorControl, ExchangeData DEF IInv
  <2> QED BY <1>2, <2>1, <2>2, <2>3 DEF ExchangeStep
<1>3. ASSUME NEW o \in Op, StopCallback(o) \/ \E n \in 1..MaxLen : Await(o, n) PROVE IInv'
  BY <1>0, <1>3, StopControl, AwaitControl, AwaiterData DEF IInv
<1>4. ASSUME NEW i \in Side, Close(i) PROVE IInv'
  BY <1>0, <1>4, CloseControl, CloseData DEF IInv
<1> QED BY <1>1, <1>2, <1>3, <1>4 DEF Next, AwaiterStep, UserStep

LEMMA StutterIInv ==
    ASSUME IInv, UNCHANGED vars
    PROVE  IInv'
<1>1. UNCHANGED <<mEc_, mInbound_, outbound, inbound, pc, opEc, want, stop, waker, awaits, xch, sent, got>>
  BY DEF vars, awaiter
<1>2. ControlInv'  BY <1>1 DEF IInv, ControlInv, ControlTypes, OneWaker, SendNeverWaits, SpanNotEmpty
<1>3. XchTypes'  BY <1>1 DEF IInv, DataInv, DataTypes, XchTypes
<1>4. DataInv' /\ NoStarvedRecv'  BY <1>1, <1>3, OtherData
<1> QED BY <1>2, <1>4 DEF IInv

\* Two BufferingSockets keep the invariant, whatever is sent, received, stopped
\* and closed, and however exchangeMessages interleaves with it.
THEOREM BuffersFit == Spec => []IInv
<1>1. IInv /\ [Next]_vars => IInv'  BY StepIInv, StutterIInv
<1> QED BY <1>1, InitIInv, PTL DEF Spec

\* The types of the variables of two BufferingSockets.
THEOREM TypesCorrect == Spec => []TypeOK
<1>1. IInv => TypeOK
  <2> SUFFICES ASSUME IInv PROVE TypeOK  OBVIOUS
  <2>1. xch.at \in {"idle", "get", "put", "error"} /\ xch.i \in Side /\ xch.progress \in BOOLEAN
    BY DEF IInv, DataInv, DataTypes, XchTypes
  <2>2. \A i \in Side : outbound[i].mFront = 0 /\ inbound[i].mFront \in Nat
    <3>1. \A i \in Side : inbound[i] \in Buffer /\ outbound[i].mFront = 0  BY DEF IInv, DataInv, DataTypes
    <3> QED BY <3>1 DEF Buffer
  <2> QED BY <2>1, <2>2 DEF TypeOK, IInv, ControlInv, ControlTypes
<1> QED BY <1>1, BuffersFit, PTL

\* A suspended awaiter of a BufferingSocket waits in mInbound_ or has one thread
\* that resumes it, whichever of processInbound, setError, close and a stop
\* callback completed it.
THEOREM AwaiterResumedOnce == Spec => []OneWaker
<1>1. IInv => OneWaker  BY DEF IInv, ControlInv
<1> QED BY <1>1, BuffersFit, PTL

\* A recv of a BufferingSocket does not wait for bytes that are there.
THEOREM RecvNotStarved == Spec => []NoStarvedRecv
<1>1. IInv => NoStarvedRecv  BY DEF IInv
<1> QED BY <1>1, BuffersFit, PTL

\* Every byte that was sent is in one place, in order: given to a recv, in a
\* buffer, or in the hands of exchangeMessages.
THEOREM BytesAreConserved == Spec => []BytesConserved
<1>1. IInv => BytesConserved
  <2> SUFFICES ASSUME IInv, NEW i \in Side
               PROVE  got[i] \o Bytes(inbound[i]) \o (IF xch.i = 1 - i THEN xch.bb ELSE <<>>)
                          \o Bytes(outbound[1 - i]) = [k \in 1..sent[1 - i] |-> k]
    BY DEF BytesConserved
  <2>1. FlowIs(got[i], inbound[i], Carried(i), outbound[1 - i], sent[1 - i])  BY Zenon DEF IInv, DataInv, Conserved
  <2> QED BY <2>1, Zenon DEF FlowIs, Flow, Joined, Numbers, Carried
<1> QED BY <1>1, BuffersFit, PTL

\* What the class Buffer asserts in size() and pop(): mSize is what the vectors
\* hold after mFront, which stays inside of the front vector.
THEOREM BuffersCount == Spec => []SizeMatches
<1>1. IInv => SizeMatches
  <2> SUFFICES ASSUME IInv, NEW i \in Side, NEW b \in {inbound[i], outbound[i]}
               PROVE  /\ b.mSize = Upto(b.mData, Len(b.mData)) - b.mFront
                      /\ IF b.mData = <<>> THEN b.mFront = 0 ELSE b.mFront < Len(b.mData[1])
    BY Zenon DEF SizeMatches
  <2>1. b \in Buffer  BY DEF IInv, DataInv, DataTypes
  <2>2. PICK d \in Seq(Seq(Nat)), f \in Nat, z \in Nat :
            b.mData = d /\ b.mFront = f /\ b.mSize = z /\ f + z = Len(FlattenSeq(d)) /\ FrontInside(b)
    BY <2>1 DEF Buffer
  <2>3. Upto(d, Len(d)) = Len(FlattenSeq(d))  BY ONLY d \in Seq(Seq(Nat)), UptoFacts
  <2>4. z = Upto(d, Len(d)) - f
    <3>1. Upto(d, Len(d)) = f + z  BY ONLY <2>2, <2>3
    <3>2. z = (f + z) - f  BY ONLY f \in Nat, z \in Nat
    <3> QED BY ONLY <3>1, <3>2
  <2> QED BY <2>2, <2>4 DEF FrontInside
<1> QED BY <1>1, BuffersFit, PTL

=============================================================================
