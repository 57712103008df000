------------------------------ MODULE CBQueue ------------------------------
(***************************************************************************)
(* CBQueue, the ring buffer of callbacks inside the execution queue.  The  *)
(* head and the tail are never reduced; a position is taken modulo the     *)
(* size of the buffer, which is a power of two.  A slot that was never     *)
(* written holds NullHandle.                                               *)
(***************************************************************************)
EXTENDS Integers, Sequences, FiniteSetsExt

CONSTANTS
    Callback,     \* the handles that are pushed
    NullHandle,   \* an empty handle; resuming it is an error
    ArraySize,    \* size of mArrayBacking (8 in the code)
    MinVecSize,   \* 1 << mLogTwoSize, the least size of mVecBacking (64)
    MaxPushes     \* bound: calls of push_back

ASSUME CBQueueAssumption ==
    /\ ArraySize \in Nat \ {0} /\ MinVecSize \in Nat \ {0} /\ MaxPushes \in Nat
    /\ NullHandle \notin Callback

VARIABLES
    mHead, mTail, \* the next position to write, and to read
    mVec,         \* the buffer, from 0 to its size - 1
    pushes,       \* how often push_back was called
    fifo          \* history: what a queue would hold

ringVars == <<mHead, mTail, mVec, pushes, fifo>>

VecSize(v) == Cardinality(DOMAIN v)
Size == mHead - mTail

RingInit ==
    /\ mHead = 0 /\ mTail = 0 /\ pushes = 0
    /\ mVec = [i \in 0..(ArraySize - 1) |-> NullHandle]
    /\ fifo = <<>>

\* The copy loop of a full buffer runs from the position of the tail to the
\* position of the head, which are the same, so it copies no element.
CopyCount(begin, end, size) == (end - begin) % size

Grown ==
    LET size  == VecSize(mVec)
        begin == mTail % size
        n     == CopyCount(begin, mHead % size, size)
    IN  [i \in 0..(Max({size * 2, MinVecSize}) - 1) |->
            IF i < n THEN mVec[(begin + i) % size] ELSE NullHandle]

\* Mutant: the buffer is written although it is full.
PushAlways(h) ==
    /\ pushes < MaxPushes
    /\ mVec' = [mVec EXCEPT ![mHead % VecSize(mVec)] = h]
    /\ mHead' = mHead + 1
    /\ pushes' = pushes + 1 /\ fifo' = Append(fifo, h)
    /\ UNCHANGED mTail

\* push_back.  The mask is computed before the buffer grows.
PushRoom(h) ==
    /\ pushes < MaxPushes
    /\ mHead # mTail + VecSize(mVec)
    /\ mVec' = [mVec EXCEPT ![mHead % VecSize(mVec)] = h]
    /\ mHead' = mHead + 1
    /\ pushes' = pushes + 1 /\ fifo' = Append(fifo, h)
    /\ UNCHANGED mTail

\* Mutant: the head is not moved when the tail is.
GrowKeepsHead(h) ==
    /\ pushes < MaxPushes
    /\ mHead = mTail + VecSize(mVec)
    /\ mVec' = [Grown EXCEPT ![Size % VecSize(mVec)] = h]
    /\ mHead' = mHead + 1 /\ mTail' = 0
    /\ pushes' = pushes + 1 /\ fifo' = Append(fifo, h)

PushGrow(h) ==
    /\ pushes < MaxPushes
    /\ mHead = mTail + VecSize(mVec)
    /\ mVec' = [Grown EXCEPT ![Size % VecSize(mVec)] = h]
    /\ mHead' = Size + 1 /\ mTail' = 0
    /\ pushes' = pushes + 1 /\ fifo' = Append(fifo, h)

\* pop_front moves the handle out of the buffer.  A moved-from function is
\* empty; a moved-from coroutine handle is still there.
RingPopFront ==
    LET i == mTail % VecSize(mVec) IN
    /\ Size > 0
    /\ \E left \in {NullHandle, mVec[i]} : mVec' = [mVec EXCEPT ![i] = left]
    /\ mTail' = mTail + 1
    /\ fifo' = Tail(fifo)
    /\ UNCHANGED <<mHead, pushes>>

RingNext ==
    \/ \E h \in Callback : PushRoom(h) \/ PushGrow(h)
    \/ RingPopFront

RingSpec == RingInit /\ [][RingNext]_ringVars
-----------------------------------------------------------------------------
\* Types: the tail does not pass the head, and the contents fit the buffer.
RingTypeOK ==
    /\ mHead \in Nat /\ mTail \in 0..mHead /\ Size <= VecSize(mVec)
    /\ \A i \in DOMAIN mVec : mVec[i] \in Callback \cup {NullHandle}
    /\ pushes \in 0..MaxPushes

\* The buffer counts what was pushed and not popped, also across a growth:
\* run() pops as often as push_back was called.
SizeKept == Size = Len(fifo)

\* The buffer holds exactly what was pushed and not popped, oldest at the tail,
\* in whatever way the positions have wrapped around; so pop_front returns a
\* handle that can be resumed, and each handle once.
HoldsFifo ==
    \A k \in 1..Len(fifo) : mVec[(mTail + k - 1) % VecSize(mVec)] = fifo[k]

\* The same while the handles fit into mArrayBacking and nothing was copied.
FifoUntilGrown == VecSize(mVec) = ArraySize => HoldsFifo
=============================================================================
