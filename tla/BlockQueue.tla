----------------------------- MODULE BlockQueue -----------------------------
(***************************************************************************)
(* Queue<T>, which holds a fork's operations so that their addresses stay  *)
(* valid: a list of blocks, each a ring buffer twice as large as the one   *)
(* before.  The positions mBegin and mEnd of a block are never reduced.    *)
(* An entry is an item or Hole, an optional without a value.  Items are    *)
(* numbered in the order they are pushed.                                  *)
(***************************************************************************)
EXTENDS Integers, Sequences, FiniteSets, SequencesExt

CONSTANTS
    DefaultCapacity,  \* entries of the first block (8 in the code)
    MaxItems          \* bound: items pushed

Item == 1..MaxItems
Hole == 0

ASSUME BlockQueueAssumption ==
    DefaultCapacity \in Nat \ {0} /\ MaxItems \in Nat

VARIABLES
    blocks,   \* the blocks from mBegin to mLast
    mSize,    \* the number of items
    pushed,   \* the number of items pushed so far
    threw     \* has erase thrown out_of_range?

queueVars == <<blocks, mSize, pushed, threw>>

NewBlock(cap) == [cap |-> cap, mBegin |-> 0, mEnd |-> 0, data |-> [i \in 0..(cap - 1) |-> Hole]]

QueueInit ==
    /\ blocks = <<NewBlock(DefaultCapacity)>>
    /\ mSize = 0 /\ pushed = 0 /\ threw = FALSE

Occupied(b) == b.mEnd - b.mBegin
At(b, i) == b.data[i % b.cap]
mLast == blocks[Len(blocks)]

\* push_back and emplace_back: a full last block is followed by a new one.
Emplace(b, x) == [b EXCEPT !.data[b.mEnd % b.cap] = x, !.mEnd = @ + 1]

\* Mutant: a full block is written to.
PushToFull ==
    /\ pushed < MaxItems
    /\ blocks' = [blocks EXCEPT ![Len(blocks)] = Emplace(@, pushed + 1)]
    /\ mSize' = mSize + 1 /\ pushed' = pushed + 1
    /\ UNCHANGED threw

PushBack ==
    /\ pushed < MaxItems
    /\ blocks' = IF Occupied(mLast) = mLast.cap
                 THEN Append(blocks, Emplace(NewBlock(2 * mLast.cap), pushed + 1))
                 ELSE [blocks EXCEPT ![Len(blocks)] = Emplace(@, pushed + 1)]
    /\ mSize' = mSize + 1 /\ pushed' = pushed + 1
    /\ UNCHANGED threw

\* The positions of a block that hold an item.
Filled(b) == {i \in b.mBegin..(b.mEnd - 1) : At(b, i) # Hole}

\* Mutant: only the front entry is dropped.
SkipOne(bs) == [bs EXCEPT ![1].mBegin = @ + 1]

\* The loop of pop_front once the front entry is reset: the holes in front are
\* dropped, and with them each block that becomes empty and is not the last.
SkipHoles(bs) ==
    LET full == {k \in DOMAIN bs : Filled(bs[k]) # {}}
        k    == IF full = {} THEN Len(bs) ELSE CHOOSE m \in full : \A n \in full : m <= n
        at   == IF full = {} THEN bs[k].mEnd
                ELSE CHOOSE i \in Filled(bs[k]) : \A j \in Filled(bs[k]) : i <= j
    IN  <<[bs[k] EXCEPT !.mBegin = at]>> \o SubSeq(bs, k + 1, Len(bs))

\* Entry i of block k loses its item.
Reset(k, i) == [blocks EXCEPT ![k].data[i % blocks[k].cap] = Hole]

FrontEntry == At(blocks[1], blocks[1].mBegin)

PopFront ==
    /\ mSize > 0
    /\ blocks' = SkipHoles(Reset(1, blocks[1].mBegin))
    /\ mSize' = mSize - 1
    /\ UNCHANGED <<pushed, threw>>

\* erase(T*) computes the position from the address of the entry, so it is
\* less than the capacity.  A position before mBegin is not valid: the
\* iterator throws out_of_range, although the entry holds an item.
Index(k, i) == i % blocks[k].cap

EraseValid(k, i) ==
    /\ i \in Filled(blocks[k]) /\ Index(k, i) >= blocks[k].mBegin
    /\ blocks' = IF k = 1 /\ i = blocks[1].mBegin
                 THEN SkipHoles(Reset(k, i)) ELSE Reset(k, i)
    /\ mSize' = mSize - 1
    /\ UNCHANGED <<pushed, threw>>

EraseThrows(k, i) ==
    /\ i \in Filled(blocks[k]) /\ Index(k, i) < blocks[k].mBegin
    /\ threw' = TRUE
    /\ UNCHANGED <<blocks, mSize, pushed>>

QueueNext ==
    \/ PushBack \/ PopFront
    \/ \E k \in DOMAIN blocks : \E i \in blocks[k].mBegin..(blocks[k].mEnd - 1) :
            EraseValid(k, i) \/ EraseThrows(k, i)

QueueSpec == QueueInit /\ [][QueueNext]_queueVars
-----------------------------------------------------------------------------
\* The items in the order of a forward iteration, which skips the holes.
Entry(x) == IF x = Hole THEN <<>> ELSE <<x>>
InBlock(b) == FlattenSeq([n \in 1..Occupied(b) |-> Entry(At(b, b.mBegin + n - 1))])
Contents == FlattenSeq([k \in DOMAIN blocks |-> InBlock(blocks[k])])

\* Types: a block's positions span at most its capacity.
QueueTypeOK ==
    /\ \A k \in DOMAIN blocks :
        /\ blocks[k].mBegin \in Nat /\ Occupied(blocks[k]) \in 0..blocks[k].cap
        /\ \A i \in DOMAIN blocks[k].data : blocks[k].data[i] \in Item \cup {Hole}
    /\ mSize \in 0..MaxItems /\ pushed \in 0..MaxItems /\ threw \in BOOLEAN

\* front() is an item whenever the queue is not empty, and size() counts the
\* items: erasing leaves no hole in front, also when it empties whole blocks.
FrontHasValue ==
    /\ mSize = Len(Contents)
    /\ mSize > 0 => Occupied(blocks[1]) > 0 /\ FrontEntry # Hole

\* A position that is not in use holds no item, so that a new item never
\* replaces one that is still queued.
NoItemOutside ==
    \A k \in DOMAIN blocks : \A i \in DOMAIN blocks[k].data :
        blocks[k].data[i] # Hole => \E p \in Filled(blocks[k]) : p % blocks[k].cap = i

\* The blocks behave as one queue.
Abstract == INSTANCE AbstractQueue WITH items <- Contents
ImplementsQueue == Abstract!Spec

\* Items can be "eased from the middle", at any time.
EraseWorks == ~threw
=============================================================================
