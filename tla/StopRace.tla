------------------------------ MODULE StopRace ------------------------------
(***************************************************************************)
(* The mutex of the scheduler and the stop callbacks of its sends.  Module *)
(* SockScheduler takes a critical section as one step; here the two things *)
(* that can wait inside one are separate steps: a stop callback on another *)
(* thread waits for mMutex, and destroying an operation destroys its stop  *)
(* callback, which waits for a callback that another thread is running.    *)
(***************************************************************************)
EXTENDS Naturals, Sequences, SequencesExt

CONSTANT MaxSends    \* bound: send operations issued, each with a stop token

SendId == 1..MaxSends

VARIABLES
    mMutex,       \* "free", or held by the "task" or by a "stop" callback
    mSendBuffer,  \* the operations linked from mSendBufferBegin
    status,       \* an operation's status; "gone" once it is destroyed
    taskPc,       \* what the send task does next
    stopPc        \* how far the thread is that stops the operation's token

vars == <<mMutex, mSendBuffer, status, taskPc, stopPc>>

Init ==
    /\ mMutex = "free" /\ mSendBuffer = <<>>
    /\ status = [o \in SendId |-> "unused"]
    /\ taskPc = "idle"
    /\ stopPc = [o \in SendId |-> "none"]
-----------------------------------------------------------------------------
\* send: the operation is queued and its callback installed under the lock.
Send(o) ==
    /\ mMutex = "free" /\ status[o] = "unused" /\ \A p \in 1..(o - 1) : status[p] # "unused"
    /\ mSendBuffer' = Append(mSendBuffer, o)
    /\ status' = [status EXCEPT ![o] = IF taskPc = "idle" THEN "InProgress" ELSE "NotStarted"]
    /\ taskPc' = IF taskPc = "idle" THEN "io" ELSE taskPc
    /\ UNCHANGED <<mMutex, stopPc>>

\* request_stop on some thread runs the callback, if it is still installed.
RequestStop(o) ==
    /\ status[o] \notin {"unused", "gone"} /\ stopPc[o] = "none"
    /\ stopPc' = [stopPc EXCEPT ![o] = "locking"]
    /\ UNCHANGED <<mMutex, mSendBuffer, status, taskPc>>

\* Lock l(mMutex) in the callback.
StopLocks(o) ==
    /\ stopPc[o] = "locking" /\ mMutex = "free"
    /\ mMutex' = "stop" /\ stopPc' = [stopPc EXCEPT ![o] = "locked"]
    /\ UNCHANGED <<mSendBuffer, status, taskPc>>

\* A send that has not started is erased; destroying the callback on the
\* thread that runs it does not wait.  One in progress is marked.
StopActs(o) ==
    /\ stopPc[o] = "locked"
    /\ IF status[o] = "NotStarted"
       THEN /\ status' = [status EXCEPT ![o] = "gone"]
            /\ mSendBuffer' = Remove(mSendBuffer, o)
       ELSE /\ status' = [status EXCEPT ![o] = "Canceling"]
            /\ UNCHANGED mSendBuffer
    /\ mMutex' = "free" /\ stopPc' = [stopPc EXCEPT ![o] = "leaving"]
    /\ UNCHANGED taskPc

\* exQueue.run() outside the lock; then the callback and request_stop return.
\* That run() may take the lock again is left out: it could only wait longer.
StopReturns(o) ==
    /\ stopPc[o] = "leaving"
    /\ stopPc' = [stopPc EXCEPT ![o] = "returned"]
    /\ UNCHANGED <<mMutex, mSendBuffer, status, taskPc>>

\* The write ended: NextSendOp::await_suspend takes the lock.
TaskLocks ==
    /\ taskPc = "io" /\ mMutex = "free"
    /\ taskPc' = "popping" /\ mMutex' = "task"
    /\ UNCHANGED <<mSendBuffer, status, stopPc>>

\* The destructor of a stop callback waits while another thread runs it.
Running(o) == stopPc[o] \in {"locking", "locked", "leaving"}

\* completePrev: pop_front_send destroys the operation under the lock; then
\* the next one starts, or the task is idle.
TaskPops ==
    LET rest == Tail(mSendBuffer) IN
    /\ taskPc = "popping" /\ ~Running(mSendBuffer[1])
    /\ mSendBuffer' = rest
    /\ status' = [o \in SendId |-> CASE o = mSendBuffer[1] -> "gone"
                                     [] rest # <<>> /\ o = rest[1] -> "InProgress"
                                     [] OTHER -> status[o]]
    /\ taskPc' = IF rest = <<>> THEN "idle" ELSE "io"
    /\ mMutex' = "free"
    /\ UNCHANGED stopPc
-----------------------------------------------------------------------------
StopStep(o) == StopLocks(o) \/ StopActs(o) \/ StopReturns(o)
TaskStep    == TaskLocks \/ TaskPops

Next == TaskStep \/ \E o \in SendId : Send(o) \/ RequestStop(o) \/ StopStep(o)

Spec == Init /\ [][Next]_vars

\* Every thread goes on unless it waits; whoever waits for the mutex again and
\* again gets it.
FairSpec == Spec /\ SF_vars(TaskStep) /\ \A o \in SendId : SF_vars(StopStep(o))
-----------------------------------------------------------------------------
\* "cancel might be called from some other thread at any time": a call of
\* request_stop returns, whatever the send task does meanwhile.
StopCallReturns == \A o \in SendId : stopPc[o] = "locking" ~> stopPc[o] = "returned"
=============================================================================
