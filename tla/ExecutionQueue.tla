--------------------------- MODULE ExecutionQueue ---------------------------
(***************************************************************************)
(* ExecutionQueue, the default executor of a socket.  A thread that enters *)
(* the scheduler acquires a Handle under the mutex, pushes the jobs it has *)
(* made ready and, after it has unlocked, calls runReturnLast.  The first  *)
(* thread to come becomes the runner and runs everybody's jobs until there *)
(* are none.  A job is a function, a coroutine, or a coroutine bound to an *)
(* executor of its own.  Jobs are numbered in the order they are pushed.   *)
(*                                                                         *)
(* A CBQueue is a sequence here, up to its first growth: the push that     *)
(* finds the ring full keeps the size and loses every handle the ring held *)
(* (module CBQueue is about the ring itself).  From then on its pops give  *)
(* empty handles.                                                          *)
(***************************************************************************)
EXTENDS Integers, Sequences, FiniteSets, SequencesExt, OpSeq

CONSTANTS
    Thread,     \* the threads that enter the scheduler
    RingSize,   \* the size of CBQueue::mArrayBacking, 8 in the code
    MaxJobs,    \* bound: jobs pushed
    MaxBatch    \* bound: jobs pushed in one critical section

Job == 1..MaxJobs
NoJob == 0      \* nullptr, an empty handle or function

ASSUME ExecutionQueueAssumption ==
    /\ MaxJobs \in Nat /\ MaxBatch \in Nat /\ RingSize \in Nat \ {0}
    /\ Thread # {}

VARIABLES
    mHasRunner,         \* has a thread acquired the queue?
    exCBs, exFns,       \* the shared queues, State::mCBs and State::mFns
    pc,                 \* what a thread does
    mAquired,           \* did its Handle acquire the queue?
    mXCBs, mCBs, mFns,  \* the queues of its Handle
    nextCB,             \* its local variable next
    numJobs, kind,      \* jobs pushed so far, and what each one is
    ran,                \* history: the jobs that were run, in order
    grown               \* history: has a ring grown?

shared == <<mHasRunner, exCBs, exFns>>
handle == <<mAquired, mXCBs, mCBs, mFns>>
vars == <<shared, pc, handle, nextCB, numJobs, kind, ran, grown>>

Kind == {"fn", "cb", "ex"}
Pc == {"out", "ex", "loop", "running", "return"}

Init ==
    /\ mHasRunner = FALSE /\ exCBs = <<>> /\ exFns = <<>>
    /\ pc = [t \in Thread |-> "out"] /\ mAquired = [t \in Thread |-> FALSE]
    /\ mXCBs = [t \in Thread |-> <<>>] /\ mCBs = [t \in Thread |-> <<>>]
    /\ mFns = [t \in Thread |-> <<>>] /\ nextCB = [t \in Thread |-> NoJob]
    /\ numJobs = 0 /\ kind = [j \in Job |-> "fn"] /\ ran = <<>> /\ grown = FALSE

\* The calls of push_back in one critical section: n of them, numbered in their
\* order; those of one kind go to the same queue, first come first.
PushOrder == {s \in UNION {[1..m -> 1..MaxBatch] : m \in 0..MaxBatch} : Increasing(s)}
Batch ==
    {b \in [n : 0..MaxBatch, ex : PushOrder, cb : PushOrder, fn : PushOrder] :
        /\ ToSet(b.ex) \cup ToSet(b.cb) \cup ToSet(b.fn) = 1..b.n
        /\ ToSet(b.ex) \cap ToSet(b.cb) = {} /\ (ToSet(b.ex) \cup ToSet(b.cb)) \cap ToSet(b.fn) = {}}

\* The jobs that the pushes in order become.
JobsOf(order) == [i \in DOMAIN order |-> numJobs + order[i]]

Issue(batch) ==
    /\ numJobs + batch.n <= MaxJobs
    /\ numJobs' = numJobs + batch.n
    /\ kind' = [j \in Job |-> CASE j - numJobs \in ToSet(batch.ex) -> "ex"
                               [] j - numJobs \in ToSet(batch.cb) -> "cb"
                               [] j - numJobs \in ToSet(batch.fn) -> "fn"
                               [] OTHER -> kind[j]]

\* push_back finds the ring full at the k-th of the jobs s: the new buffer is
\* filled from nothing, the job is put in its first slot, and the size is kept.
Grow(q, s, k) ==
    [i \in 1..(Len(q) + Len(s)) |->
        CASE i = 1 -> s[k] [] i > Len(q) + k -> s[i - Len(q)] [] OTHER -> NoJob]

\* What a ring with jobs q may hold after the pushes of s.  A ring that has grown
\* is larger, and swap moves it around: which one is, and how large, is left open.
Full(q, s) == Len(q) + Len(s) > RingSize
Pushed(q, s) ==
    IF ~Full(q, s) THEN {q \o s}
    ELSE {Grow(q, s, k) : k \in {m \in DOMAIN s : Len(q) + m > RingSize}}
         \cup (IF grown THEN {q \o s} ELSE {})

\* The jobs go to a new Handle.
PushToHandle(t, batch) ==
    /\ \E q \in Pushed(<<>>, JobsOf(batch.ex)) : mXCBs' = [mXCBs EXCEPT ![t] = q]
    /\ \E q \in Pushed(<<>>, JobsOf(batch.cb)) : mCBs' = [mCBs EXCEPT ![t] = q]
    /\ \E q \in Pushed(<<>>, JobsOf(batch.fn)) : mFns' = [mFns EXCEPT ![t] = q]
    /\ grown' = (\/ grown \/ Full(<<>>, JobsOf(batch.ex))
                 \/ Full(<<>>, JobsOf(batch.cb)) \/ Full(<<>>, JobsOf(batch.fn)))

\* Mutant: mHasRunner is not set.
AcquireUnset(t, batch) ==
    /\ pc[t] = "out" /\ ~mHasRunner
    /\ Issue(batch)
    /\ mAquired' = [mAquired EXCEPT ![t] = TRUE]
    /\ PushToHandle(t, batch)
    /\ pc' = [pc EXCEPT ![t] = "ex"]
    /\ UNCHANGED <<shared, nextCB, ran>>

\* acquire and the calls of push_back under one lock, by a thread that becomes
\* the runner: its jobs go to its Handle ...
Acquire(t, batch) ==
    /\ pc[t] = "out" /\ ~mHasRunner
    /\ Issue(batch)
    /\ mHasRunner' = TRUE /\ mAquired' = [mAquired EXCEPT ![t] = TRUE]
    /\ PushToHandle(t, batch)
    /\ pc' = [pc EXCEPT ![t] = "ex"]
    /\ UNCHANGED <<exCBs, exFns, nextCB, ran>>

\* Mutant: coroutines are put in front of those that wait.
DeferFront(batch) ==
    /\ mHasRunner
    /\ Issue(batch)
    /\ exCBs' = JobsOf(batch.cb) \o exCBs /\ exFns' = exFns \o JobsOf(batch.fn)
    /\ UNCHANGED <<mHasRunner, mAquired, mCBs, mFns, nextCB, grown>>

\* ... or by one that does not: they go to the runner.
Defer(batch) ==
    /\ mHasRunner
    /\ Issue(batch)
    /\ exCBs' \in Pushed(exCBs, JobsOf(batch.cb)) /\ exFns' \in Pushed(exFns, JobsOf(batch.fn))
    /\ grown' = (\/ grown \/ Full(<<>>, JobsOf(batch.ex))
                 \/ Full(exCBs, JobsOf(batch.cb)) \/ Full(exFns, JobsOf(batch.fn)))
    /\ UNCHANGED <<mHasRunner, mAquired, mCBs, mFns, nextCB>>

Enter(t, batch) ==
    /\ pc[t] = "out" /\ Defer(batch)
    /\ \E q \in Pushed(<<>>, JobsOf(batch.ex)) : mXCBs' = [mXCBs EXCEPT ![t] = q]
    /\ pc' = [pc EXCEPT ![t] = "ex"]
    /\ UNCHANGED ran

\* A job that the runner has called enters the scheduler.  Its Handle cannot
\* acquire the queue, so it only schedules the jobs that have an executor, up to
\* the first empty one.
Reenter(t, batch) ==
    /\ pc[t] = "running" /\ Defer(batch)
    /\ \E q \in Pushed(<<>>, JobsOf(batch.ex)) :
        ran' = ran \o (IF NoJob \in ToSet(q) THEN <<Head(q)>> ELSE q)
    /\ UNCHANGED <<pc, mXCBs>>

\* runReturnLast: first the jobs with an executor are handed to it.
RunEx(t) ==
    /\ pc[t] = "ex" /\ mXCBs[t] # <<>> /\ Head(mXCBs[t]) # NoJob
    /\ ran' = Append(ran, Head(mXCBs[t]))
    /\ mXCBs' = [mXCBs EXCEPT ![t] = Tail(@)]
    /\ UNCHANGED <<shared, pc, mAquired, mCBs, mFns, nextCB, numJobs, kind, grown>>

ExDone(t) ==
    /\ pc[t] = "ex" /\ mXCBs[t] = <<>>
    /\ pc' = [pc EXCEPT ![t] = IF mAquired[t] THEN "loop" ELSE "return"]
    /\ UNCHANGED <<shared, handle, nextCB, numJobs, kind, ran, grown>>

Drained(t) == mCBs[t] = <<>> /\ mFns[t] = <<>>

\* Mutant: the shared queues are copied and not cleared.
SwapCopies(t) ==
    /\ pc[t] = "loop" /\ Drained(t)
    /\ exCBs # <<>> \/ exFns # <<>>
    /\ mCBs' = [mCBs EXCEPT ![t] = exCBs] /\ mFns' = [mFns EXCEPT ![t] = exFns]
    /\ UNCHANGED <<shared, pc, mAquired, mXCBs, nextCB, numJobs, kind, ran, grown>>

\* The runner has run out of jobs: it takes the shared ones under the lock ...
Swap(t) ==
    /\ pc[t] = "loop" /\ Drained(t)
    /\ exCBs # <<>> \/ exFns # <<>>
    /\ mCBs' = [mCBs EXCEPT ![t] = exCBs] /\ mFns' = [mFns EXCEPT ![t] = exFns]
    /\ exCBs' = <<>> /\ exFns' = <<>>
    /\ UNCHANGED <<mHasRunner, pc, mAquired, mXCBs, nextCB, numJobs, kind, ran, grown>>

\* Mutant: the queue is released without looking at the shared queues again.
ReleaseBlindly(t) ==
    /\ pc[t] = "loop" /\ Drained(t)
    /\ mHasRunner' = FALSE /\ mAquired' = [mAquired EXCEPT ![t] = FALSE]
    /\ pc' = [pc EXCEPT ![t] = "return"]
    /\ UNCHANGED <<exCBs, exFns, mXCBs, mCBs, mFns, nextCB, numJobs, kind, ran, grown>>

\* ... or there are none and it is no longer the runner.
Release(t) ==
    /\ pc[t] = "loop" /\ Drained(t)
    /\ exCBs = <<>> /\ exFns = <<>>
    /\ mHasRunner' = FALSE /\ mAquired' = [mAquired EXCEPT ![t] = FALSE]
    /\ pc' = [pc EXCEPT ![t] = "return"]
    /\ UNCHANGED <<exCBs, exFns, mXCBs, mCBs, mFns, nextCB, numJobs, kind, ran, grown>>

RunFn(t) ==
    /\ pc[t] = "loop" /\ mFns[t] # <<>> /\ Head(mFns[t]) # NoJob
    /\ ran' = Append(ran, Head(mFns[t]))
    /\ mFns' = [mFns EXCEPT ![t] = Tail(@)]
    /\ pc' = [pc EXCEPT ![t] = "running"]
    /\ UNCHANGED <<shared, mAquired, mXCBs, mCBs, nextCB, numJobs, kind, grown>>

\* A coroutine is popped.  The one popped before it is resumed now, so that
\* the last one can be returned to the caller.
PopCB(t) ==
    /\ pc[t] = "loop" /\ mFns[t] = <<>> /\ mCBs[t] # <<>>
    /\ nextCB' = [nextCB EXCEPT ![t] = Head(mCBs[t])]
    /\ mCBs' = [mCBs EXCEPT ![t] = Tail(@)]
    /\ IF nextCB[t] = NoJob
       THEN UNCHANGED <<ran, pc>>
       ELSE ran' = Append(ran, nextCB[t]) /\ pc' = [pc EXCEPT ![t] = "running"]
    /\ UNCHANGED <<shared, mAquired, mXCBs, mFns, numJobs, kind, grown>>

\* The job suspends or returns.
JobEnds(t) ==
    /\ pc[t] = "running"
    /\ pc' = [pc EXCEPT ![t] = "loop"]
    /\ UNCHANGED <<shared, handle, nextCB, numJobs, kind, ran, grown>>

\* runReturnLast returns, and the caller resumes the last coroutine in its place.
Return(t) ==
    /\ pc[t] = "return"
    /\ ran' = IF nextCB[t] = NoJob THEN ran ELSE Append(ran, nextCB[t])
    /\ nextCB' = [nextCB EXCEPT ![t] = NoJob]
    /\ pc' = [pc EXCEPT ![t] = "out"]
    /\ UNCHANGED <<shared, handle, numJobs, kind, grown>>

\* An empty function is called, or an empty ExCoHandle resumed, by runReturnLast
\* or in a job that entered the scheduler: std::bad_function_call.  The Handle is
\* destroyed with what it holds, and mHasRunner stays as it is.
Throw(t) ==
    /\ \/ pc[t] = "ex" /\ mXCBs[t] # <<>> /\ Head(mXCBs[t]) = NoJob
       \/ pc[t] = "loop" /\ mFns[t] # <<>> /\ Head(mFns[t]) = NoJob
       \/ pc[t] = "running" /\ grown
    /\ mAquired' = [mAquired EXCEPT ![t] = FALSE]
    /\ mXCBs' = [mXCBs EXCEPT ![t] = <<>>] /\ mCBs' = [mCBs EXCEPT ![t] = <<>>]
    /\ mFns' = [mFns EXCEPT ![t] = <<>>] /\ nextCB' = [nextCB EXCEPT ![t] = NoJob]
    /\ pc' = [pc EXCEPT ![t] = "out"]
    /\ UNCHANGED <<shared, numJobs, kind, ran, grown>>

RunnerStep(t) ==
    \/ RunEx(t) \/ ExDone(t) \/ Swap(t) \/ Release(t) \/ RunFn(t) \/ PopCB(t)
    \/ JobEnds(t) \/ Return(t) \/ Throw(t)

Next ==
    \E t \in Thread :
        \/ \E batch \in Batch : Acquire(t, batch) \/ Enter(t, batch) \/ Reenter(t, batch)
        \/ RunnerStep(t)

Spec == Init /\ [][Next]_vars

\* A thread that has entered goes on, and a job does not run for ever.
FairSpec == Spec /\ \A t \in Thread : WF_vars(RunnerStep(t))
-----------------------------------------------------------------------------
Issued == 1..numJobs

\* Types of the variables; queue H holds jobs, or empty handles too.
TypesIn(H) ==
    /\ mHasRunner \in BOOLEAN /\ exCBs \in Seq(H) /\ exFns \in Seq(H)
    /\ pc \in [Thread -> Pc] /\ mAquired \in [Thread -> BOOLEAN]
    /\ mXCBs \in [Thread -> Seq(H)] /\ mCBs \in [Thread -> Seq(H)] /\ mFns \in [Thread -> Seq(H)]
    /\ nextCB \in [Thread -> Job \cup {NoJob}]
    /\ numJobs \in 0..MaxJobs /\ kind \in [Job -> Kind] /\ ran \in Seq(Job) /\ grown \in BOOLEAN

\* A queue may hold an empty handle only after a ring has grown.
TypeOK == TypesIn(IF grown THEN Job \cup {NoJob} ELSE Job)

\* At most one thread runs the queue, and mHasRunner says whether there is one,
\* although it is set and cleared by different threads.  (After a ring has grown
\* the runner may be thrown out, and mHasRunner stays set.)
OneRunner ==
    /\ \A t, u \in Thread : mAquired[t] /\ mAquired[u] => t = u
    /\ (\E t \in Thread : mAquired[t]) => mHasRunner
    /\ mHasRunner /\ ~grown => \E t \in Thread : mAquired[t]
    /\ \A t \in Thread : pc[t] \in {"loop", "running"} => mAquired[t]

\* No job is stranded: the shared queues are empty when nobody is the runner.
NoneStranded == ~mHasRunner => exCBs = <<>> /\ exFns = <<>>

\* The places a job can be in, and the jobs that are there.
Place == {<<"exCBs">>, <<"exFns">>, <<"ran">>} \cup ({"mXCBs", "mCBs", "mFns", "nextCB"} \X Thread)
JobsAt(p) ==
    CASE p[1] = "exCBs" -> exCBs
      [] p[1] = "exFns" -> exFns
      [] p[1] = "ran" -> ran
      [] p[1] = "mXCBs" -> mXCBs[p[2]]
      [] p[1] = "mCBs" -> mCBs[p[2]]
      [] p[1] = "mFns" -> mFns[p[2]]
      [] p[1] = "nextCB" -> IF nextCB[p[2]] = NoJob THEN <<>> ELSE <<nextCB[p[2]]>>

\* As long as no ring has grown, every job is in exactly one place: queued, taken
\* by one thread, or run; so no coroutine is resumed twice and none is forgotten.
InOnePlace ==
    ~grown =>
    /\ UNION {ToSet(JobsAt(p)) : p \in Place} = Issued
    /\ \A p \in Place : IsInjective(JobsAt(p))
    /\ \A p, q \in Place : p # q => ToSet(JobsAt(p)) \cap ToSet(JobsAt(q)) = {}

\* As long as no ring has grown, coroutines without an executor are resumed in the
\* order in which they were pushed, except one that a thread is about to return to
\* its caller: that one may be overtaken, because the queue was released before.
ResumedInOrder ==
    ~grown => \A j, h \in Issued :
        /\ kind[j] = "cb" /\ kind[h] = "cb" /\ j < h
        /\ h \in ToSet(ran) /\ j \notin ToSet(ran)
        => \E t \in Thread : pc[t] = "return" /\ nextCB[t] = j

\* The inductive invariant of the jobs, until a ring grows.  Every queue is in the order of the
\* pushes and holds one kind of job ...
QueuesInOrder ==
    /\ Increasing(exCBs) /\ Increasing(exFns) /\ IsInjective(ran)
    /\ \A t \in Thread : Increasing(mXCBs[t]) /\ Increasing(mCBs[t]) /\ Increasing(mFns[t])
OfKind(S, k) == \A j \in S : j <= numJobs /\ kind[j] = k
QueuesOfKind ==
    /\ OfKind(ToSet(exCBs), "cb") /\ OfKind(ToSet(exFns), "fn") /\ ToSet(ran) \subseteq Issued
    /\ \A t \in Thread :
        /\ OfKind(ToSet(mXCBs[t]), "ex") /\ OfKind(ToSet(mCBs[t]), "cb") /\ OfKind(ToSet(mFns[t]), "fn")
        /\ nextCB[t] # NoJob => OfKind({nextCB[t]}, "cb")

\* ... only the owner of the queue holds coroutines and functions, and only a
\* thread that runs jobs or returns one has popped a coroutine ...
HeldByOwner ==
    \A t \in Thread :
        /\ ~mAquired[t] => mCBs[t] = <<>> /\ mFns[t] = <<>>
        /\ mXCBs[t] # <<>> => pc[t] = "ex"
        /\ nextCB[t] # NoJob => pc[t] \in {"loop", "running", "return"}

\* ... coroutines are run, popped, held and shared in this order, but for one
\* that is being returned ...
CBsInOrder ==
    /\ \A t \in Thread : \A x \in ToSet(mCBs[t]), y \in ToSet(exCBs) : x < y
    /\ \A t \in Thread : nextCB[t] # NoJob =>
        /\ \A y \in ToSet(exCBs) : nextCB[t] < y
        /\ \A u \in Thread : \A y \in ToSet(mCBs[u]) : nextCB[t] < y
        /\ \A u \in Thread \ {t} : nextCB[u] # nextCB[t] /\ (mAquired[t] => nextCB[u] < nextCB[t])
    /\ \A h \in ToSet(ran) : kind[h] = "cb" =>
        /\ \A y \in ToSet(exCBs) : h < y
        /\ \A t \in Thread :
            /\ \A y \in ToSet(mCBs[t]) : h < y
            /\ h # nextCB[t]
            /\ nextCB[t] # NoJob /\ pc[t] # "return" => h < nextCB[t]

\* ... and the other jobs are in one place at a time.
OthersApart ==
    /\ ToSet(exFns) \cap ToSet(ran) = {}
    /\ \A t \in Thread :
        /\ ToSet(mFns[t]) \cap (ToSet(exFns) \cup ToSet(ran)) = {} /\ ToSet(mXCBs[t]) \cap ToSet(ran) = {}
        /\ \A u \in Thread \ {t} : ToSet(mXCBs[t]) \cap ToSet(mXCBs[u]) = {}
Somewhere(j) ==
    \/ j \in ToSet(ran) \cup ToSet(exCBs) \cup ToSet(exFns)
    \/ \E t \in Thread : j \in ToSet(mXCBs[t]) \cup ToSet(mCBs[t]) \cup ToSet(mFns[t]) \cup {nextCB[t]}
JobInv ==
    /\ QueuesInOrder /\ QueuesOfKind /\ HeldByOwner /\ CBsInOrder /\ OthersApart
    /\ \A j \in Issued : Somewhere(j)
JobsKept == ~grown => JobInv

\* Every job that was pushed is run, or a ring grows first.
EveryJobRuns == \A j \in Job : (j <= numJobs) ~> (j \in ToSet(ran) \/ grown)
=============================================================================
