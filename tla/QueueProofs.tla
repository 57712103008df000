---------------------------- MODULE QueueProofs ----------------------------
(***************************************************************************)
(* Proofs about the three queues: ExecutionQueue, for any set of threads,  *)
(* any number of jobs and any size of its rings; CBQueue, the ring buffer, *)
(* for any sizes; and BlockQueue, the list of ring buffers, which          *)
(* implements a queue.                                                     *)
(***************************************************************************)
EXTENDS ExecutionQueue, CBQueue, BlockQueue, OpSeqProofs, FiniteSetTheorems

-----------------------------------------------------------------------------
(* ExecutionQueue: what the queues hold *)

\* What the invariants say about the numbers.
LEMMA JobNumbers ==
    ASSUME TypeOK
    PROVE  /\ numJobs \in Nat /\ MaxJobs \in Nat /\ Job \in SUBSET Nat /\ NoJob \notin Job
           /\ Issued \subseteq Job
           /\ \A s \in Seq(Job) : ToSet(s) \subseteq Job
<1>1. numJobs \in Nat /\ MaxJobs \in Nat /\ Job \in SUBSET Nat /\ NoJob \notin Job /\ Issued \subseteq Job
  BY ExecutionQueueAssumption DEF ExecutionQueueAssumption, TypeOK, TypesIn, Job, NoJob, Issued
<1>2. \A s \in Seq(Job) : ToSet(s) \subseteq Job  BY InToSet
<1> QED BY <1>1, <1>2

\* The empty queue.
LEMMA NoJobs == <<>> \in Seq(Job) /\ ToSet(<<>>) = {} /\ Increasing(<<>>) /\ IsInjective(<<>>)
<1>1. <<>> \in Seq({})  OBVIOUS
<1>2. ToSet(<<>>) = {}  BY <1>1, EmptyQueue
<1>3. Increasing(<<>>) /\ IsInjective(<<>>)  BY DEF Increasing, IsInjective
<1> QED BY <1>2, <1>3

\* The jobs of one order are new, and in the order in which they were pushed.
LEMMA NewOrder ==
    ASSUME TypeOK, NEW n \in Nat, numJobs + n <= MaxJobs, NEW order \in PushOrder, ToSet(order) \subseteq 1..n
    PROVE  /\ JobsOf(order) \in Seq(Job) /\ Increasing(JobsOf(order))
           /\ \A j : j \in ToSet(JobsOf(order)) <=> j \in Job /\ j - numJobs \in ToSet(order)
           /\ \A j \in ToSet(JobsOf(order)) : j > numJobs /\ j <= numJobs + n
<1> DEFINE s == JobsOf(order)
<1>0. numJobs \in Nat /\ MaxJobs \in Nat /\ MaxBatch \in Nat
  BY JobNumbers, ExecutionQueueAssumption DEF ExecutionQueueAssumption
<1>1. order \in Seq(1..MaxBatch) /\ Increasing(order)
  <2>1. PICK m \in 0..MaxBatch : order \in [1..m -> 1..MaxBatch]  BY DEF PushOrder
  <2>2. m \in Nat  BY <1>0, <2>1
  <2>3. order \in Seq(1..MaxBatch)  BY <2>1, <2>2, FunctionIsSeq
  <2>4. Increasing(order)  BY DEF PushOrder
  <2> QED BY <2>3, <2>4
<1>2. DOMAIN order = 1..Len(order) /\ Len(order) \in Nat /\ \A i \in 1..Len(order) : order[i] \in 1..n
  <2>1. \A i \in 1..Len(order) : order[i] \in ToSet(order)  BY <1>1, InToSet
  <2> QED BY <1>1, <2>1
<1>3. s = [i \in 1..Len(order) |-> numJobs + order[i]]  BY <1>2 DEF JobsOf
<1>4. \A i \in 1..Len(order) : /\ s[i] = numJobs + order[i] /\ s[i] \in Job
                                /\ s[i] > numJobs /\ s[i] <= numJobs + n /\ s[i] - numJobs = order[i]
  BY <1>0, <1>2, <1>3 DEF Job
<1>5. s \in Seq(Job) /\ Len(s) = Len(order) /\ DOMAIN s = 1..Len(order)  BY <1>2, <1>3, <1>4
<1> HIDE DEF s
<1>6. Increasing(s)
  <2> SUFFICES ASSUME NEW i \in DOMAIN s, NEW j \in DOMAIN s, i < j PROVE s[i] < s[j]
    BY DEF Increasing
  <2>1. order[i] < order[j] /\ order[i] \in 1..n /\ order[j] \in 1..n
    BY <1>1, <1>2, <1>5 DEF Increasing
  <2> QED BY <1>0, <1>4, <1>5, <2>1
<1>7. \A j \in ToSet(s) : j \in Job /\ j - numJobs \in ToSet(order) /\ j > numJobs /\ j <= numJobs + n
  <2> SUFFICES ASSUME NEW j \in ToSet(s)
               PROVE  j \in Job /\ j - numJobs \in ToSet(order) /\ j > numJobs /\ j <= numJobs + n
    OBVIOUS
  <2>1. PICK i \in 1..Len(order) : s[i] = j  BY <1>5, InToSet
  <2>2. order[i] \in ToSet(order)  BY <1>1, <2>1, InToSet
  <2> QED BY <1>4, <2>1, <2>2
<1>8. ASSUME NEW j \in Job, j - numJobs \in ToSet(order) PROVE j \in ToSet(s)
  <2>1. PICK i \in 1..Len(order) : order[i] = j - numJobs  BY <1>1, <1>8, InToSet
  <2>2. s[i] = j  BY <1>0, <1>4, <2>1 DEF Job
  <2> QED BY <1>5, <2>2, InToSet
<1> QED BY <1>5, <1>6, <1>7, <1>8 DEF s

\* A critical section: each new job is in the order of its kind and no other,
\* and the old jobs are as they were.
LEMMA NewJobs ==
    ASSUME TypeOK, NEW batch \in Batch, Issue(batch)
    PROVE  /\ numJobs' \in 0..MaxJobs /\ numJobs <= numJobs' /\ kind' \in [Job -> Kind]
           /\ JobsOf(batch.ex) \in Seq(Job) /\ Increasing(JobsOf(batch.ex))
           /\ JobsOf(batch.cb) \in Seq(Job) /\ Increasing(JobsOf(batch.cb))
           /\ JobsOf(batch.fn) \in Seq(Job) /\ Increasing(JobsOf(batch.fn))
           /\ \A j \in ToSet(JobsOf(batch.ex)) : j > numJobs /\ j <= numJobs' /\ kind'[j] = "ex"
           /\ \A j \in ToSet(JobsOf(batch.cb)) : j > numJobs /\ j <= numJobs' /\ kind'[j] = "cb"
           /\ \A j \in ToSet(JobsOf(batch.fn)) : j > numJobs /\ j <= numJobs' /\ kind'[j] = "fn"
           /\ \A j \in Issued' : \/ j \in Issued
                                  \/ j \in ToSet(JobsOf(batch.ex)) \cup ToSet(JobsOf(batch.cb)) \cup ToSet(JobsOf(batch.fn))
           /\ \A j \in Issued : kind'[j] = kind[j]
<1>0. numJobs \in Nat /\ MaxJobs \in Nat /\ MaxBatch \in Nat
  BY JobNumbers, ExecutionQueueAssumption DEF ExecutionQueueAssumption
<1>1. /\ batch.n \in 0..MaxBatch /\ batch.ex \in PushOrder /\ batch.cb \in PushOrder /\ batch.fn \in PushOrder
      /\ ToSet(batch.ex) \cup ToSet(batch.cb) \cup ToSet(batch.fn) = 1..batch.n
      /\ ToSet(batch.ex) \cap ToSet(batch.cb) = {} /\ (ToSet(batch.ex) \cup ToSet(batch.cb)) \cap ToSet(batch.fn) = {}
  BY DEF Batch
<1>2. PICK n \in Nat : n = batch.n  BY <1>0, <1>1
<1>3. numJobs + n <= MaxJobs /\ numJobs' = numJobs + n  BY <1>2 DEF Issue
<1>4. \A j \in Job : kind'[j] = CASE j - numJobs \in ToSet(batch.ex) -> "ex"
                                 [] j - numJobs \in ToSet(batch.cb) -> "cb"
                                 [] j - numJobs \in ToSet(batch.fn) -> "fn"
                                 [] OTHER -> kind[j]
  BY DEF Issue
<1>5. kind' \in [Job -> Kind]
  <2>1. \A j \in Job : kind[j] \in Kind  BY DEF TypeOK, TypesIn
  <2>2. \A j \in Job : kind'[j] \in Kind  BY <1>4, <2>1 DEF Kind
  <2>3. \E f : kind' = [j \in Job |-> f[j]]
    <3>1. kind' = [j \in Job |-> kind'[j]]  BY DEF Issue
    <3> QED BY <3>1
  <2> QED BY <2>2, <2>3
<1>6. /\ ToSet(batch.ex) \subseteq 1..n /\ ToSet(batch.cb) \subseteq 1..n /\ ToSet(batch.fn) \subseteq 1..n
  BY <1>1, <1>2
<1>7. ASSUME NEW order \in PushOrder, ToSet(order) \subseteq 1..n
      PROVE  /\ JobsOf(order) \in Seq(Job) /\ Increasing(JobsOf(order))
             /\ \A j : j \in ToSet(JobsOf(order)) <=> j \in Job /\ j - numJobs \in ToSet(order)
             /\ \A j \in ToSet(JobsOf(order)) : j > numJobs /\ j <= numJobs'
  BY <1>3, <1>7, NewOrder
<1>8. /\ \A j \in ToSet(JobsOf(batch.ex)) : kind'[j] = "ex"
      /\ \A j \in ToSet(JobsOf(batch.cb)) : kind'[j] = "cb"
      /\ \A j \in ToSet(JobsOf(batch.fn)) : kind'[j] = "fn"
  BY <1>1, <1>4, <1>6, <1>7
<1>9. ASSUME NEW j \in Issued', j \notin Issued
      PROVE  j \in ToSet(JobsOf(batch.ex)) \cup ToSet(JobsOf(batch.cb)) \cup ToSet(JobsOf(batch.fn))
  <2>1. j \in Job /\ j - numJobs \in 1..n  BY <1>0, <1>3, <1>9 DEF Issued, Job
  <2> QED BY <1>1, <1>2, <1>6, <1>7, <2>1
<1>10. ASSUME NEW j \in Issued PROVE kind'[j] = kind[j]
  <2>1. j \in Job /\ j - numJobs \notin 1..n  BY <1>0, <1>3, <1>10 DEF Issued, Job
  <2> QED BY <1>4, <1>6, <2>1
<1>11. numJobs' \in 0..MaxJobs /\ numJobs <= numJobs'  BY <1>0, <1>3
<1> QED BY <1>1, <1>5, <1>6, <1>7, <1>8, <1>9, <1>10, <1>11

\* Queues give and take what they hold.
LEMMA QueueOf ==
    ASSUME NEW H
    PROVE  /\ \A s \in Seq(H) : s # <<>> => Head(s) \in H /\ Head(s) = s[1] /\ Tail(s) \in Seq(H)
           /\ \A s \in Seq(H), e \in H : Append(s, e) \in Seq(H)
           /\ \A r, s \in Seq(H) : r \o s \in Seq(H)
           /\ <<>> \in Seq(H)
OBVIOUS

\* A push that finds room puts the jobs behind those that wait; one that does
\* not leaves a queue of jobs and empty handles.
LEMMA PushedFits ==
    ASSUME NEW q \in Seq(Job), NEW s \in Seq(Job), ~Full(q, s)
    PROVE  /\ Pushed(q, s) = {q \o s} /\ q \o s \in Seq(Job)
           /\ q = <<>> => q \o s = s
<1>1. Pushed(q, s) = {q \o s}  BY DEF Pushed
<1>2. q \o s \in Seq(Job) /\ (q = <<>> => q \o s = s)  OBVIOUS
<1> QED BY <1>1, <1>2

LEMMA PushedTypes ==
    ASSUME NEW H, H = Job \/ H = Job \cup {NoJob}, NEW q \in Seq(H), NEW s \in Seq(Job), NEW r \in Pushed(q, s)
    PROVE  /\ r \in Seq(Job \cup {NoJob})
           /\ ~Full(q, s) => r \in Seq(H)
<1>1. q \in Seq(Job \cup {NoJob}) /\ s \in Seq(H) /\ s \in Seq(Job \cup {NoJob})
  OBVIOUS
<1>2. CASE r = q \o s  BY <1>1, <1>2
<1>3. CASE Full(q, s) /\ r # q \o s
  <2>1. PICK k \in {m \in DOMAIN s : Len(q) + m > RingSize} : r = Grow(q, s, k)
    BY <1>3 DEF Pushed
  <2>2. PICK m \in Nat, n \in Nat : m = Len(q) /\ n = Len(s)  OBVIOUS
  <2>3. k \in 1..n /\ \A i \in 1..n : s[i] \in Job  BY <2>1, <2>2
  <2>4. r = [i \in 1..(m + n) |-> CASE i = 1 -> s[k] [] i > m + k -> s[i - m] [] OTHER -> NoJob]
    BY <2>1, <2>2 DEF Grow
  <2>5. ASSUME NEW i \in 1..(m + n) PROVE r[i] \in Job \cup {NoJob}
    <3>1. CASE i = 1  BY <2>3, <2>4, <3>1
    <3>2. CASE i # 1 /\ i > m + k
      <4>1. i - m \in 1..n  BY <2>2, <2>3, <3>2
      <4> QED BY <2>3, <2>4, <3>2, <4>1
    <3>3. CASE i # 1 /\ ~(i > m + k)  BY <2>4, <3>3
    <3> QED BY <3>1, <3>2, <3>3
  <2>6. m + n \in Nat /\ r \in [1..(m + n) -> Job \cup {NoJob}]
    <3>1. \E f : r = [i \in 1..(m + n) |-> f[i]]
      <4>1. r = [i \in 1..(m + n) |-> r[i]]  BY <2>4
      <4> QED BY <4>1
    <3> QED BY <2>2, <2>5, <3>1
  <2>7. r \in Seq(Job \cup {NoJob})  BY <2>6, FunctionIsSeq
  <2> QED BY <1>3, <2>7
<1>4. r = q \o s \/ (Full(q, s) /\ r # q \o s)  BY DEF Pushed
<1> QED BY <1>2, <1>3, <1>4

\* The Handle of a job that enters the scheduler: what is run before the first
\* empty handle are jobs.
LEMMA UpToNoJob ==
    ASSUME NEW s \in Seq(Job), NEW q \in Pushed(<<>>, s)
    PROVE  (IF NoJob \in ToSet(q) THEN <<Head(q)>> ELSE q) \in Seq(Job)
<1>0. <<>> \in Seq(Job) /\ <<>> \o s = s /\ Len(<<>>) = 0 /\ NoJob \notin Job
  BY DEF Job, NoJob
<1>1. CASE q = <<>> \o s
  <2>1. q \in Seq(Job)  BY <1>0, <1>1
  <2>2. NoJob \notin ToSet(q)
    <3>1. ToSet(q) \subseteq Job  BY <2>1, InToSet
    <3> QED BY <1>0, <3>1
  <2> QED BY <2>1, <2>2
<1>2. CASE q # <<>> \o s
  <2>1. PICK k \in DOMAIN s : q = Grow(<<>>, s, k)  BY <1>2 DEF Pushed
  <2>2. PICK n \in Nat : n = Len(s) /\ k \in 1..n /\ s[k] \in Job  BY <2>1
  <2>3. q = [i \in 1..n |-> CASE i = 1 -> s[k] [] i > 0 + k -> s[i - 0] [] OTHER -> NoJob]
    <3>1. Len(<<>>) + Len(s) = n  BY <1>0, <2>2
    <3> QED BY <1>0, <2>1, <3>1 DEF Grow
  <2>4. \A i \in 1..n : q[i] \in Job \cup {NoJob}
    <3>1. \A i \in 1..n : s[i] \in Job /\ i - 0 = i  BY <2>2
    <3> QED BY <2>2, <2>3, <3>1
  <2>5. q \in Seq(Job \cup {NoJob}) /\ Len(q) = n /\ 1 \in 1..n /\ q[1] = s[k]
    <3>1. 1 \in 1..n /\ q[1] = s[k]  BY <2>2, <2>3
    <3>2. q \in [1..n -> Job \cup {NoJob}]
      <4>1. q = [i \in 1..n |-> q[i]]  BY <2>3
      <4> QED BY <2>4, <4>1
    <3>3. q \in Seq(Job \cup {NoJob})  BY <2>2, <3>2, FunctionIsSeq
    <3> QED BY <2>2, <3>1, <3>2, <3>3
  <2>6. Head(q) = s[k] /\ <<Head(q)>> \in Seq(Job)  BY <2>2, <2>5
  <2>7. NoJob \notin ToSet(q) => q \in Seq(Job)
    <3> SUFFICES ASSUME NoJob \notin ToSet(q) PROVE q \in Seq(Job)  OBVIOUS
    <3>1. \A i \in 1..n : q[i] \in ToSet(q)  BY <2>5, InToSet
    <3>2. \A i \in 1..n : q[i] \in Job  BY <2>4, <3>1
    <3> QED BY <2>2, <2>5, <3>2
  <2> QED BY <2>6, <2>7
<1> QED BY <1>1, <1>2

\* Every step keeps the types, and a ring that has grown has grown for ever.
LEMMA TypesKept ==
    ASSUME TypeOK, Next
    PROVE  TypeOK' /\ (grown => grown')
<1>0. PICK H : /\ H = (IF grown THEN Job \cup {NoJob} ELSE Job)
               /\ H = Job \/ H = Job \cup {NoJob}
  OBVIOUS
<1>00. TypesIn(H)  BY <1>0 DEF TypeOK
<1>01. Job \subseteq H /\ grown \in BOOLEAN /\ "running" \in Pc /\ "ex" \in Pc /\ "out" \in Pc /\ "loop" \in Pc /\ "return" \in Pc
  BY <1>0, <1>00 DEF TypesIn, Pc
\* A step that pushes nothing.
<1>1. ASSUME UNCHANGED grown, TypesIn(H)' PROVE TypeOK' /\ (grown => grown')
  BY <1>0, <1>1 DEF TypeOK
<1> USE <1>00, <1>01
<1>2. ASSUME NEW t \in Thread, RunEx(t) PROVE TypeOK' /\ (grown => grown')
  <2>1. PICK s \in Seq(H) : s = mXCBs[t]  BY DEF TypesIn
  <2>2. Head(s) \in Job /\ Tail(s) \in Seq(H)
    <3>1. Head(s) \in H /\ Head(s) # NoJob /\ Tail(s) \in Seq(H)  BY <1>2, <2>1, QueueOf DEF RunEx
    <3> QED BY <1>0, <3>1
  <2>3. ran' \in Seq(Job)  BY <1>2, <2>1, <2>2, QueueOf DEF RunEx, TypesIn
  <2>4. mXCBs' \in [Thread -> Seq(H)]  BY <1>2, <2>1, <2>2 DEF RunEx, TypesIn
  <2>5. TypesIn(H)' /\ UNCHANGED grown  BY <1>2, <2>3, <2>4 DEF RunEx, TypesIn, shared
  <2> QED BY <1>1, <2>5
<1>3. ASSUME NEW t \in Thread, ExDone(t) PROVE TypeOK' /\ (grown => grown')
  <2>1. TypesIn(H)' /\ UNCHANGED grown  BY <1>3 DEF ExDone, TypesIn, shared, handle
  <2> QED BY <1>1, <2>1
<1>4. ASSUME NEW t \in Thread, Swap(t) PROVE TypeOK' /\ (grown => grown')
  <2>1. TypesIn(H)' /\ UNCHANGED grown  BY <1>4, QueueOf DEF Swap, TypesIn
  <2> QED BY <1>1, <2>1
<1>5. ASSUME NEW t \in Thread, Release(t) PROVE TypeOK' /\ (grown => grown')
  <2>1. TypesIn(H)' /\ UNCHANGED grown  BY <1>5 DEF Release, TypesIn
  <2> QED BY <1>1, <2>1
<1>6. ASSUME NEW t \in Thread, RunFn(t) PROVE TypeOK' /\ (grown => grown')
  <2>1. PICK s \in Seq(H) : s = mFns[t]  BY DEF TypesIn
  <2>2. Head(s) \in Job /\ Tail(s) \in Seq(H)
    <3>1. Head(s) \in H /\ Head(s) # NoJob /\ Tail(s) \in Seq(H)  BY <1>6, <2>1, QueueOf DEF RunFn
    <3> QED BY <1>0, <3>1
  <2>3. ran' \in Seq(Job)  BY <1>6, <2>1, <2>2, QueueOf DEF RunFn, TypesIn
  <2>4. mFns' \in [Thread -> Seq(H)] /\ pc' \in [Thread -> Pc]  BY <1>6, <2>1, <2>2 DEF RunFn, TypesIn
  <2>5. TypesIn(H)' /\ UNCHANGED grown  BY <1>6, <2>3, <2>4 DEF RunFn, TypesIn, shared
  <2> QED BY <1>1, <2>5
<1>7. ASSUME NEW t \in Thread, PopCB(t) PROVE TypeOK' /\ (grown => grown')
  <2>1. PICK s \in Seq(H) : s = mCBs[t] /\ s # <<>>  BY <1>7 DEF PopCB, TypesIn
  <2>2. Head(s) \in Job \cup {NoJob} /\ Tail(s) \in Seq(H)  BY <1>0, <2>1, QueueOf
  <2>3. nextCB' \in [Thread -> Job \cup {NoJob}] /\ mCBs' \in [Thread -> Seq(H)]
    BY <1>7, <2>1, <2>2 DEF PopCB, TypesIn
  <2>4. ran' \in Seq(Job) /\ pc' \in [Thread -> Pc]
    <3>1. CASE nextCB[t] = NoJob  BY <1>7, <3>1 DEF PopCB, TypesIn
    <3>2. CASE nextCB[t] # NoJob
      <4>1. nextCB[t] \in Job  BY <3>2 DEF TypesIn
      <4>2. ran' = Append(ran, nextCB[t]) /\ pc' = [pc EXCEPT ![t] = "running"]
        BY <1>7, <3>2 DEF PopCB
      <4> QED BY <4>1, <4>2, QueueOf DEF TypesIn
    <3> QED BY <3>1, <3>2
  <2>5. TypesIn(H)' /\ UNCHANGED grown  BY <1>7, <2>3, <2>4 DEF PopCB, TypesIn, shared
  <2> QED BY <1>1, <2>5
<1>8. ASSUME NEW t \in Thread, JobEnds(t) PROVE TypeOK' /\ (grown => grown')
  <2>1. TypesIn(H)' /\ UNCHANGED grown  BY <1>8 DEF JobEnds, TypesIn, shared, handle
  <2> QED BY <1>1, <2>1
<1>9. ASSUME NEW t \in Thread, Return(t) PROVE TypeOK' /\ (grown => grown')
  <2>1. ran' \in Seq(Job)
    <3>1. nextCB[t] = NoJob \/ nextCB[t] \in Job  BY DEF TypesIn
    <3> QED BY <1>9, <3>1, QueueOf DEF Return, TypesIn
  <2>2. TypesIn(H)' /\ UNCHANGED grown  BY <1>9, <2>1 DEF Return, TypesIn, shared, handle
  <2> QED BY <1>1, <2>2
<1>10. ASSUME NEW t \in Thread, Throw(t) PROVE TypeOK' /\ (grown => grown')
  <2>1. TypesIn(H)' /\ UNCHANGED grown  BY <1>10, QueueOf DEF Throw, TypesIn, shared
  <2> QED BY <1>1, <2>1
\* A critical section that pushes jobs.
<1>11. ASSUME NEW batch \in Batch, Issue(batch)
       PROVE  /\ numJobs' \in 0..MaxJobs /\ kind' \in [Job -> Kind]
              /\ JobsOf(batch.ex) \in Seq(Job) /\ JobsOf(batch.cb) \in Seq(Job) /\ JobsOf(batch.fn) \in Seq(Job)
  BY <1>11, NewJobs
<1>12. ASSUME NEW q \in Seq(H), NEW s \in Seq(Job), NEW r \in Pushed(q, s), NEW G,
              G = H \/ G = Job \cup {NoJob}, G = H => ~Full(q, s) \/ H = Job \cup {NoJob}
       PROVE  r \in Seq(G)
  BY <1>0, <1>12, PushedTypes
\* What the queues hold after it.
<1>13. ASSUME grown' \in BOOLEAN, grown => grown'
       PROVE  \E G : /\ G = (IF grown' THEN Job \cup {NoJob} ELSE Job)
                     /\ G = H \/ G = Job \cup {NoJob}
                     /\ ~grown' => G = H /\ ~grown
                     /\ \A s \in Seq(H) : s \in Seq(G)
  <2>1. PICK G : G = (IF grown' THEN Job \cup {NoJob} ELSE Job)  OBVIOUS
  <2>2. CASE grown'
    <3>1. G = Job \cup {NoJob}  BY <2>1, <2>2
    <3>2. \A s \in Seq(H) : s \in Seq(G)
      <4>1. H \subseteq G  BY <1>0, <3>1
      <4> QED BY <4>1
    <3> QED BY <2>1, <2>2, <3>1, <3>2
  <2>3. CASE ~grown'
    <3>1. G = Job /\ ~grown  BY <1>13, <2>1, <2>3
    <3>2. G = H  BY <1>0, <3>1
    <3> QED BY <2>1, <2>3, <3>1, <3>2
  <2> QED BY <1>13, <2>2, <2>3
<1>14. ASSUME NEW t \in Thread, NEW batch \in Batch, Acquire(t, batch) PROVE TypeOK' /\ (grown => grown')
  <2>0. Issue(batch) /\ PushToHandle(t, batch)  BY <1>14 DEF Acquire
  <2>1. grown' \in BOOLEAN /\ (grown => grown')
    BY <2>0, Zenon DEF PushToHandle, Full
  <2>2. PICK G : /\ G = (IF grown' THEN Job \cup {NoJob} ELSE Job)
                 /\ G = H \/ G = Job \cup {NoJob}
                 /\ ~grown' => G = H /\ ~grown
                 /\ \A s \in Seq(H) : s \in Seq(G)
    BY <1>13, <2>1
  <2>3. /\ \A q \in Pushed(<<>>, JobsOf(batch.ex)) : q \in Seq(G)
        /\ \A q \in Pushed(<<>>, JobsOf(batch.cb)) : q \in Seq(G)
        /\ \A q \in Pushed(<<>>, JobsOf(batch.fn)) : q \in Seq(G)
    <3>1. ~grown' => /\ ~Full(<<>>, JobsOf(batch.ex)) /\ ~Full(<<>>, JobsOf(batch.cb))
                     /\ ~Full(<<>>, JobsOf(batch.fn))
      BY <2>0 DEF PushToHandle
    <3>2. G # Job \cup {NoJob} => ~grown'  BY <2>2
    <3>3. <<>> \in Seq(H)  BY QueueOf
    <3> QED BY <1>11, <1>12, <2>0, <2>2, <3>1, <3>2, <3>3
  <2>4. mXCBs' \in [Thread -> Seq(G)] /\ mCBs' \in [Thread -> Seq(G)] /\ mFns' \in [Thread -> Seq(G)]
    <3>1. /\ \A u \in Thread : mXCBs[u] \in Seq(G) /\ mCBs[u] \in Seq(G) /\ mFns[u] \in Seq(G)
          /\ mXCBs \in [Thread -> Seq(H)] /\ mCBs \in [Thread -> Seq(H)] /\ mFns \in [Thread -> Seq(H)]
      BY <2>2 DEF TypesIn
    <3>2. mXCBs \in [Thread -> Seq(G)] /\ mCBs \in [Thread -> Seq(G)] /\ mFns \in [Thread -> Seq(G)]
      BY <3>1
    <3> QED BY <2>0, <2>3, <3>2 DEF PushToHandle
  <2>5. exCBs' \in Seq(G) /\ exFns' \in Seq(G)  BY <1>14, <2>2 DEF Acquire, TypesIn
  <2>6. TypesIn(G)'  BY <1>11, <1>14, <2>0, <2>1, <2>4, <2>5 DEF Acquire, TypesIn
  <2> QED BY <2>1, <2>2, <2>6 DEF TypeOK
<1>15. ASSUME NEW batch \in Batch, Defer(batch)
       PROVE  /\ grown' \in BOOLEAN /\ (grown => grown')
              /\ Issue(batch) /\ mHasRunner' \in BOOLEAN /\ mAquired' \in [Thread -> BOOLEAN]
              /\ nextCB' \in [Thread -> Job \cup {NoJob}]
              /\ \E G : /\ G = (IF grown' THEN Job \cup {NoJob} ELSE Job)
                        /\ \A q \in Pushed(<<>>, JobsOf(batch.ex)) : q \in Seq(G)
                        /\ exCBs' \in Seq(G) /\ exFns' \in Seq(G)
                        /\ mXCBs \in [Thread -> Seq(G)]
                        /\ mCBs' \in [Thread -> Seq(G)] /\ mFns' \in [Thread -> Seq(G)]
  <2>0. Issue(batch) /\ mHasRunner' \in BOOLEAN /\ mAquired' \in [Thread -> BOOLEAN]
        /\ nextCB' \in [Thread -> Job \cup {NoJob}]
    BY <1>15 DEF Defer, TypesIn
  <2>1. grown' \in BOOLEAN /\ (grown => grown')
    BY <1>15, Zenon DEF Defer, Full
  <2>2. PICK G : /\ G = (IF grown' THEN Job \cup {NoJob} ELSE Job)
                 /\ G = H \/ G = Job \cup {NoJob}
                 /\ ~grown' => G = H /\ ~grown
                 /\ \A s \in Seq(H) : s \in Seq(G)
    BY <1>13, <2>1
  <2>3. ~grown' => /\ ~Full(<<>>, JobsOf(batch.ex)) /\ ~Full(exCBs, JobsOf(batch.cb))
                   /\ ~Full(exFns, JobsOf(batch.fn))
    BY <1>15 DEF Defer
  <2>4. G # Job \cup {NoJob} => ~grown'  BY <2>2
  <2>5. <<>> \in Seq(H) /\ exCBs \in Seq(H) /\ exFns \in Seq(H)  BY QueueOf DEF TypesIn
  <2>6. \A q \in Pushed(<<>>, JobsOf(batch.ex)) : q \in Seq(G)
    BY <1>11, <1>12, <2>0, <2>2, <2>3, <2>4, <2>5
  <2>7. exCBs' \in Seq(G) /\ exFns' \in Seq(G)
    BY <1>11, <1>12, <1>15, <2>0, <2>2, <2>3, <2>4, <2>5 DEF Defer
  <2>8. mXCBs \in [Thread -> Seq(G)] /\ mCBs' \in [Thread -> Seq(G)] /\ mFns' \in [Thread -> Seq(G)]
    <3>1. /\ \A u \in Thread : mXCBs[u] \in Seq(G) /\ mCBs[u] \in Seq(G) /\ mFns[u] \in Seq(G)
          /\ mXCBs \in [Thread -> Seq(H)] /\ mCBs \in [Thread -> Seq(H)] /\ mFns \in [Thread -> Seq(H)]
      BY <2>2 DEF TypesIn
    <3> QED BY <1>15, <3>1 DEF Defer
  <2> QED BY <2>0, <2>1, <2>2, <2>6, <2>7, <2>8
<1>16. ASSUME NEW t \in Thread, NEW batch \in Batch, Enter(t, batch) PROVE TypeOK' /\ (grown => grown')
  <2>0. Defer(batch)  BY <1>16 DEF Enter
  <2>1. PICK G : /\ G = (IF grown' THEN Job \cup {NoJob} ELSE Job)
                 /\ \A q \in Pushed(<<>>, JobsOf(batch.ex)) : q \in Seq(G)
                 /\ exCBs' \in Seq(G) /\ exFns' \in Seq(G)
                 /\ mXCBs \in [Thread -> Seq(G)]
                 /\ mCBs' \in [Thread -> Seq(G)] /\ mFns' \in [Thread -> Seq(G)]
    BY <1>15, <2>0
  <2>2. mXCBs' \in [Thread -> Seq(G)]  BY <1>16, <2>1 DEF Enter
  <2>3. pc' \in [Thread -> Pc] /\ ran' \in Seq(Job)  BY <1>16 DEF Enter, TypesIn
  <2>4. TypesIn(G)'  BY <1>11, <1>15, <2>0, <2>1, <2>2, <2>3 DEF TypesIn
  <2> QED BY <1>15, <2>0, <2>1, <2>4 DEF TypeOK
<1>17. ASSUME NEW t \in Thread, NEW batch \in Batch, Reenter(t, batch) PROVE TypeOK' /\ (grown => grown')
  <2>0. Defer(batch) /\ Issue(batch)  BY <1>15, <1>17 DEF Reenter
  <2>1. PICK G : /\ G = (IF grown' THEN Job \cup {NoJob} ELSE Job)
                 /\ \A q \in Pushed(<<>>, JobsOf(batch.ex)) : q \in Seq(G)
                 /\ exCBs' \in Seq(G) /\ exFns' \in Seq(G)
                 /\ mXCBs \in [Thread -> Seq(G)]
                 /\ mCBs' \in [Thread -> Seq(G)] /\ mFns' \in [Thread -> Seq(G)]
    BY <1>15, <2>0
  <2>2. ran' \in Seq(Job)
    <3>1. PICK q \in Pushed(<<>>, JobsOf(batch.ex)) :
              ran' = ran \o (IF NoJob \in ToSet(q) THEN <<Head(q)>> ELSE q)
      BY <1>17 DEF Reenter
    <3>2. JobsOf(batch.ex) \in Seq(Job)  BY <1>11, <2>0
    <3>3. (IF NoJob \in ToSet(q) THEN <<Head(q)>> ELSE q) \in Seq(Job)
      BY <3>1, <3>2, UpToNoJob
    <3>4. PICK s \in Seq(Job) : s = IF NoJob \in ToSet(q) THEN <<Head(q)>> ELSE q  BY <3>3
    <3>5. ran' = ran \o s /\ ran \in Seq(Job)  BY <3>1, <3>4 DEF TypesIn
    <3> QED BY <3>5, QueueOf
  <2>3. pc' \in [Thread -> Pc] /\ mXCBs' \in [Thread -> Seq(G)]  BY <1>17, <2>1 DEF Reenter, TypesIn
  <2>4. TypesIn(G)'  BY <1>11, <1>15, <2>0, <2>1, <2>2, <2>3 DEF TypesIn
  <2> QED BY <1>15, <2>0, <2>1, <2>4 DEF TypeOK
<1> QED BY <1>2, <1>3, <1>4, <1>5, <1>6, <1>7, <1>8, <1>9, <1>10, <1>14, <1>16, <1>17 DEF Next, RunnerStep

\* At first there is no job.
LEMMA InitTypes == Init => TypeOK
<1> SUFFICES ASSUME Init PROVE TypeOK  OBVIOUS
<1>1. /\ mHasRunner \in BOOLEAN /\ exCBs \in Seq(Job) /\ exFns \in Seq(Job) /\ ran \in Seq(Job)
      /\ grown = FALSE
  BY NoJobs DEF Init
<1>2. pc \in [Thread -> Pc] /\ mAquired \in [Thread -> BOOLEAN]  BY DEF Init, Pc
<1>3. /\ mXCBs \in [Thread -> Seq(Job)] /\ mCBs \in [Thread -> Seq(Job)] /\ mFns \in [Thread -> Seq(Job)]
      /\ nextCB \in [Thread -> Job \cup {NoJob}]
  BY NoJobs DEF Init
<1>4. numJobs \in 0..MaxJobs  BY ExecutionQueueAssumption DEF Init, ExecutionQueueAssumption
<1>5. kind \in [Job -> Kind]  BY DEF Init, Kind
<1>6. TypesIn(Job)  BY <1>1, <1>2, <1>3, <1>4, <1>5 DEF TypesIn
<1> QED BY <1>1, <1>6 DEF TypeOK

\* The types of the whole queue: until a ring grows the queues hold jobs only.
THEOREM TypesCorrect == Spec => []TypeOK
<1>1. ASSUME TypeOK, [Next]_vars PROVE TypeOK'
  <2>1. CASE Next  BY <1>1, <2>1, TypesKept
  <2>2. CASE UNCHANGED vars
    <3>1. TypesIn(IF grown THEN Job \cup {NoJob} ELSE Job)'
      BY <1>1, <2>2 DEF vars, shared, handle, TypeOK, TypesIn
    <3> QED BY <3>1 DEF TypeOK
  <2> QED BY <1>1, <2>1, <2>2
<1> QED BY <1>1, InitTypes, PTL DEF Spec

\* The types until a ring grows.
JobTypes == TypesIn(Job) /\ ~grown

LEMMA OnlyJobs == TypeOK /\ ~grown => JobTypes
BY DEF TypeOK, JobTypes

LEMMA OnlyJobsNext == TypeOK' /\ ~grown' => JobTypes'
BY DEF TypeOK, JobTypes

\* A queue of the jobs gives and takes jobs.
LEMMA QueueTypes ==
    ASSUME JobTypes
    PROVE  /\ exCBs \in Seq(Job) /\ exFns \in Seq(Job) /\ ran \in Seq(Job)
           /\ \A t \in Thread : /\ mXCBs[t] \in Seq(Job) /\ mCBs[t] \in Seq(Job) /\ mFns[t] \in Seq(Job)
                                 /\ nextCB[t] \in Job \cup {NoJob}
           /\ \A s \in Seq(Job) : s # <<>> => Head(s) \in Job /\ Head(s) = s[1] /\ Tail(s) \in Seq(Job)
           /\ \A s \in Seq(Job), e \in Job : Append(s, e) \in Seq(Job)
           /\ \A r, s \in Seq(Job) : r \o s \in Seq(Job)
           /\ <<>> \in Seq(Job)
BY QueueOf DEF JobTypes, TypesIn

\* Until a ring grows the pushes put the jobs behind those that wait.
LEMMA RoomInHandle ==
    ASSUME TypeOK, JobTypes, ~grown', NEW t \in Thread, NEW batch \in Batch, Issue(batch), PushToHandle(t, batch)
    PROVE  /\ mXCBs' = [mXCBs EXCEPT ![t] = JobsOf(batch.ex)]
           /\ mCBs' = [mCBs EXCEPT ![t] = JobsOf(batch.cb)]
           /\ mFns' = [mFns EXCEPT ![t] = JobsOf(batch.fn)]
<1>1. /\ ~Full(<<>>, JobsOf(batch.ex)) /\ ~Full(<<>>, JobsOf(batch.cb)) /\ ~Full(<<>>, JobsOf(batch.fn))
  BY DEF PushToHandle
<1>2. JobsOf(batch.ex) \in Seq(Job) /\ JobsOf(batch.cb) \in Seq(Job) /\ JobsOf(batch.fn) \in Seq(Job)
  BY NewJobs
<1>3. \A s \in Seq(Job) : ~Full(<<>>, s) => Pushed(<<>>, s) = {s}
  <2> SUFFICES ASSUME NEW s \in Seq(Job), ~Full(<<>>, s) PROVE Pushed(<<>>, s) = {s}  OBVIOUS
  <2>1. <<>> \in Seq(Job)  BY QueueOf
  <2> QED BY <2>1, PushedFits
<1>4. /\ Pushed(<<>>, JobsOf(batch.ex)) = {JobsOf(batch.ex)}
      /\ Pushed(<<>>, JobsOf(batch.cb)) = {JobsOf(batch.cb)}
      /\ Pushed(<<>>, JobsOf(batch.fn)) = {JobsOf(batch.fn)}
  BY <1>1, <1>2, <1>3
<1> QED BY <1>4 DEF PushToHandle

LEMMA RoomInQueues ==
    ASSUME TypeOK, JobTypes, ~grown', NEW batch \in Batch, Defer(batch)
    PROVE  /\ exCBs' = exCBs \o JobsOf(batch.cb) /\ exFns' = exFns \o JobsOf(batch.fn)
           /\ Pushed(<<>>, JobsOf(batch.ex)) = {JobsOf(batch.ex)}
           /\ NoJob \notin ToSet(JobsOf(batch.ex))
<1>1. /\ ~Full(<<>>, JobsOf(batch.ex)) /\ ~Full(exCBs, JobsOf(batch.cb)) /\ ~Full(exFns, JobsOf(batch.fn))
      /\ exCBs' \in Pushed(exCBs, JobsOf(batch.cb)) /\ exFns' \in Pushed(exFns, JobsOf(batch.fn))
  BY DEF Defer
<1>2. JobsOf(batch.ex) \in Seq(Job) /\ JobsOf(batch.cb) \in Seq(Job) /\ JobsOf(batch.fn) \in Seq(Job)
  BY NewJobs DEF Defer
<1>3. exCBs \in Seq(Job) /\ exFns \in Seq(Job) /\ <<>> \in Seq(Job)  BY QueueTypes
<1>4. /\ Pushed(exCBs, JobsOf(batch.cb)) = {exCBs \o JobsOf(batch.cb)}
      /\ Pushed(exFns, JobsOf(batch.fn)) = {exFns \o JobsOf(batch.fn)}
      /\ Pushed(<<>>, JobsOf(batch.ex)) = {JobsOf(batch.ex)}
  BY <1>1, <1>2, <1>3, PushedFits
<1>5. NoJob \notin ToSet(JobsOf(batch.ex))  BY <1>2, JobNumbers
<1> QED BY <1>1, <1>4, <1>5

\* ... and no empty handle is called.
LEMMA NothingThrows ==
    ASSUME JobTypes, NEW t \in Thread
    PROVE  ~Throw(t)
<1>1. NoJob \notin Job  BY DEF Job, NoJob
<1> QED BY <1>1, QueueTypes DEF Throw, JobTypes
-----------------------------------------------------------------------------
(* ExecutionQueue: who runs the queue *)

\* The types of the variables that decide who runs the queue.
ControlTypes ==
    /\ mHasRunner \in BOOLEAN
    /\ pc \in [Thread -> Pc] /\ mAquired \in [Thread -> BOOLEAN]

\* A Handle owns the queue from acquire until its thread has found no job.
OwnerInside == \A t \in Thread : mAquired[t] => pc[t] \in {"ex", "loop", "running"}

IInv == ControlTypes /\ OneRunner /\ OwnerInside /\ NoneStranded
-----------------------------------------------------------------------------
\* At first nobody runs the queue.
LEMMA InitIInv == Init => IInv
BY DEF Init, IInv, ControlTypes, Pc, OneRunner, OwnerInside, NoneStranded

\* Entering the scheduler keeps the invariant: a thread owns the queue only if
\* nobody did, and hands its jobs to the owner only if there is one.
LEMMA EnterStep ==
    ASSUME IInv, NEW t \in Thread, NEW batch \in Batch,
           Acquire(t, batch) \/ Enter(t, batch) \/ Reenter(t, batch)
    PROVE  IInv'
<1> USE DEF IInv, ControlTypes, Pc, OneRunner, OwnerInside, NoneStranded
<1>1. CASE Acquire(t, batch)
  <2>1. grown => grown'  BY <1>1, Zenon DEF Acquire, PushToHandle
  <2> QED BY <1>1, <2>1 DEF Acquire
<1>2. CASE Enter(t, batch)
  <2>1. grown => grown'  BY <1>2, Zenon DEF Enter, Defer
  <2> QED BY <1>2, <2>1 DEF Enter, Defer
<1>3. CASE Reenter(t, batch)
  <2>1. grown => grown'  BY <1>3, Zenon DEF Reenter, Defer
  <2> QED BY <1>3, <2>1 DEF Reenter, Defer
<1> QED BY <1>1, <1>2, <1>3

\* Running jobs keeps it: only the owner takes and releases the queue, and it
\* releases it only when the shared queues are empty.
LEMMA RunStep ==
    ASSUME TypeOK, IInv, NEW t \in Thread, RunnerStep(t)
    PROVE  IInv'
<1> USE DEF IInv, ControlTypes, Pc, OneRunner, OwnerInside, NoneStranded, shared, handle
<1>1. CASE RunEx(t)
  BY <1>1 DEF RunEx
<1>2. CASE ExDone(t)
  BY <1>2 DEF ExDone
<1>3. CASE Swap(t)
  BY <1>3 DEF Swap
<1>4. CASE Release(t)
  BY <1>4 DEF Release
<1>5. CASE RunFn(t)
  BY <1>5 DEF RunFn
<1>6. CASE PopCB(t)
  BY <1>6 DEF PopCB
<1>7. CASE JobEnds(t)
  BY <1>7 DEF JobEnds
<1>8. CASE Return(t)
  BY <1>8 DEF Return
<1>9. CASE Throw(t)
  <2>1. grown  BY <1>9, OnlyJobs, NothingThrows DEF TypeOK, TypesIn
  <2> QED BY <1>9, <2>1 DEF Throw
<1> QED BY <1>1, <1>2, <1>3, <1>4, <1>5, <1>6, <1>7, <1>8, <1>9 DEF RunnerStep

\* The queue has the owner its flag tells of, and keeps nobody's jobs when the
\* flag tells of none.
THEOREM Owned == Spec => []IInv
<1>1. ASSUME TypeOK, IInv, [Next]_vars PROVE IInv'
  <2>1. CASE Next
    BY <1>1, <2>1, EnterStep, RunStep DEF Next
  <2>2. CASE UNCHANGED vars
    BY <1>1, <2>2 DEF vars, shared, handle, IInv, ControlTypes, OneRunner, OwnerInside, NoneStranded
  <2> QED BY <1>1, <2>1, <2>2
<1> QED BY <1>1, InitIInv, TypesCorrect, PTL DEF Spec

\* At most one thread runs jobs at a time, and mHasRunner is set while there is
\* one and, until a ring grows, only then, for any number of threads.
THEOREM RunnerUnique == Spec => []OneRunner
<1>1. IInv => OneRunner  BY DEF IInv
<1> QED BY <1>1, Owned, PTL

\* A job handed to the runner is never left in the shared queues after the
\* runner has given them up, also after a ring has grown.
THEOREM NoJobStranded == Spec => []NoneStranded
<1>1. IInv => NoneStranded  BY DEF IInv
<1> QED BY <1>1, Owned, PTL
-----------------------------------------------------------------------------
(* ExecutionQueue: where the jobs are *)

\* What the first job of a queue is.
LEMMA FirstJob ==
    ASSUME TypeOK, JobTypes, NEW q \in Seq(Job), Increasing(q), q # <<>>
    PROVE  /\ Head(q) \in ToSet(q) /\ Head(q) \in Job /\ \A j \in ToSet(q) : Head(q) <= j
           /\ ToSet(Tail(q)) = ToSet(q) \ {Head(q)} /\ Increasing(Tail(q)) /\ Tail(q) \in Seq(Job)
<1>1. Job \in SUBSET Nat /\ Head(q) = q[1] /\ Head(q) \in Job  BY JobNumbers, QueueTypes
<1>2. q[1] \in ToSet(q) /\ \A j \in ToSet(q) : q[1] <= j  BY <1>1, FirstOfIncreasing
<1>3. ToSet(Tail(q)) = ToSet(q) \ {q[1]} /\ Increasing(Tail(q)) /\ Tail(q) \in Seq(Job)  BY <1>1, TailFacts
<1> QED BY <1>1, <1>2, <1>3

\* A job that is run is added to the history.
LEMMA RunOne ==
    ASSUME TypeOK, JobTypes, NEW e \in Job, ran' = Append(ran, e)
    PROVE  /\ ToSet(ran)' = ToSet(ran) \cup {e}
           /\ IsInjective(ran) /\ e \notin ToSet(ran) => IsInjective(ran)'
<1>1. ran \in Seq(Job)  BY DEF JobTypes, TypesIn
<1> QED BY <1>1, AppendFacts, AppendNew

\* A job is handed to its executor.
LEMMA RunExKeepsJobs ==
    ASSUME TypeOK, JobTypes, IInv, JobInv, NEW t \in Thread, RunEx(t)
    PROVE  JobInv'
<1>1. PICK e \in Job : e = Head(mXCBs[t])  BY QueueTypes DEF RunEx
<1>2. /\ e \in ToSet(mXCBs[t]) /\ ToSet(Tail(mXCBs[t])) = ToSet(mXCBs[t]) \ {e}
      /\ Increasing(Tail(mXCBs[t]))
  BY <1>1, FirstJob, QueueTypes DEF RunEx, JobInv, QueuesInOrder
<1>3. /\ mXCBs'[t] = Tail(mXCBs[t]) /\ \A u \in Thread \ {t} : mXCBs'[u] = mXCBs[u]
      /\ ran' = Append(ran, e)
      /\ UNCHANGED <<mHasRunner, exCBs, exFns, pc, mAquired, mCBs, mFns, nextCB, numJobs, kind>>
  BY <1>1 DEF RunEx, JobTypes, TypesIn, shared
<1>4. e \notin ToSet(ran) /\ kind[e] = "ex" /\ e <= numJobs /\ e \in Issued
  BY <1>2, JobNumbers DEF JobInv, OthersApart, QueuesOfKind, OfKind, Issued, Job
<1>5. ToSet(ran)' = ToSet(ran) \cup {e} /\ IsInjective(ran)'
  BY <1>3, <1>4, RunOne DEF JobInv, QueuesInOrder
<1>6. QueuesInOrder'  BY <1>2, <1>3, <1>5 DEF JobInv, QueuesInOrder
<1>7. QueuesOfKind'  BY <1>2, <1>3, <1>4, <1>5 DEF JobInv, QueuesOfKind, OfKind, Issued
<1>8. HeldByOwner'  BY <1>3 DEF JobInv, HeldByOwner, RunEx
<1>9. CBsInOrder'  BY <1>3, <1>4, <1>5 DEF JobInv, CBsInOrder
<1>10. OthersApart'
  <2>1. \A u \in Thread : e \notin ToSet(mFns[u]) /\ e \notin ToSet(exFns)
    BY <1>4 DEF JobInv, QueuesOfKind, OfKind
  <2>2. ToSet(exFns)' \cap ToSet(ran)' = {}  BY <1>3, <1>5, <2>1 DEF JobInv, OthersApart
  <2>3. ASSUME NEW u \in Thread PROVE ToSet(mFns[u])' \cap (ToSet(exFns)' \cup ToSet(ran)') = {}
    BY <1>3, <1>5, <2>1 DEF JobInv, OthersApart
  <2>4. \A u \in Thread : ToSet(mXCBs'[u]) \subseteq ToSet(mXCBs[u]) \ {e}
    BY <1>2, <1>3 DEF JobInv, OthersApart
  <2>5. ASSUME NEW u \in Thread PROVE ToSet(mXCBs'[u]) \cap ToSet(ran)' = {}
    BY <1>5, <2>4 DEF JobInv, OthersApart
  <2>6. ASSUME NEW u \in Thread, NEW v \in Thread \ {u} PROVE ToSet(mXCBs'[u]) \cap ToSet(mXCBs'[v]) = {}
    BY <2>4 DEF JobInv, OthersApart
  <2> QED BY <2>2, <2>3, <2>5, <2>6 DEF OthersApart
<1>11. (\A j \in Issued : Somewhere(j))'
  BY <1>2, <1>3, <1>5 DEF JobInv, Somewhere, Issued
<1> QED BY <1>6, <1>7, <1>8, <1>9, <1>10, <1>11 DEF JobInv

\* The steps that move no job.
LEMMA MoveKeepsJobs ==
    ASSUME TypeOK, JobTypes, IInv, JobInv, NEW t \in Thread, ExDone(t) \/ Release(t) \/ JobEnds(t)
    PROVE  JobInv'
<1>1. UNCHANGED <<exCBs, exFns, mXCBs, mCBs, mFns, nextCB, numJobs, kind, ran>>
  BY DEF ExDone, Release, JobEnds, shared, handle
<1>2. /\ \A u \in Thread \ {t} : pc'[u] = pc[u] /\ mAquired'[u] = mAquired[u]
      /\ \A u \in Thread : mAquired'[u] => mAquired[u]
      /\ nextCB[t] # NoJob => pc'[t] = "return" \/ (pc[t] # "return" /\ pc'[t] \in {"loop", "running"})
      /\ mXCBs[t] = <<>>
      /\ ~mAquired'[t] => mCBs[t] = <<>> /\ mFns[t] = <<>>
  BY DEF ExDone, Release, JobEnds, shared, handle, JobTypes, TypesIn, JobInv, HeldByOwner, Drained
<1>3. QueuesInOrder'  BY <1>1 DEF JobInv, QueuesInOrder
<1>4. QueuesOfKind'  BY <1>1 DEF JobInv, QueuesOfKind, OfKind, Issued
<1>5. HeldByOwner'
  <2> SUFFICES ASSUME NEW u \in Thread
               PROVE  /\ ~mAquired'[u] => mCBs[u] = <<>> /\ mFns[u] = <<>>
                      /\ mXCBs[u] # <<>> => pc'[u] = "ex"
                      /\ nextCB[u] # NoJob => pc'[u] \in {"loop", "running", "return"}
    BY <1>1 DEF HeldByOwner
  <2>1. CASE u = t  BY <1>2, <2>1
  <2>2. CASE u # t  BY <1>2, <2>2 DEF JobInv, HeldByOwner
  <2> QED BY <2>1, <2>2
<1>6. CBsInOrder'
  <2>1. \A u \in Thread : nextCB[u] # NoJob /\ pc'[u] # "return" => pc[u] # "return"  BY <1>2
  <2> QED BY <1>1, <1>2, <2>1 DEF JobInv, CBsInOrder
<1>7. OthersApart'  BY <1>1 DEF JobInv, OthersApart
<1>8. (\A j \in Issued : Somewhere(j))'  BY <1>1 DEF JobInv, Somewhere, Issued
<1> QED BY <1>3, <1>4, <1>5, <1>6, <1>7, <1>8 DEF JobInv

\* The owner of the queue is the only thread that holds coroutines or functions.
LEMMA OnlyOwnerHolds ==
    ASSUME TypeOK, JobTypes, IInv, JobInv, NEW t \in Thread, pc[t] \in {"loop", "running"}
    PROVE  /\ mAquired[t]
           /\ \A u \in Thread \ {t} : ~mAquired[u] /\ mCBs[u] = <<>> /\ mFns[u] = <<>>
           /\ \A u \in Thread \ {t} : nextCB[u] # NoJob => pc[u] = "return"
<1>1. mAquired[t]  BY DEF IInv, OneRunner
<1>2. \A u \in Thread \ {t} : ~mAquired[u]  BY <1>1 DEF IInv, OneRunner
<1>3. \A u \in Thread \ {t} : mCBs[u] = <<>> /\ mFns[u] = <<>>  BY <1>2 DEF JobInv, HeldByOwner
<1>4. \A u \in Thread \ {t} : nextCB[u] # NoJob => pc[u] = "return"
  BY <1>2 DEF JobInv, HeldByOwner, IInv, OneRunner
<1> QED BY <1>1, <1>2, <1>3, <1>4

\* The owner takes the shared jobs.
LEMMA SwapKeepsJobs ==
    ASSUME TypeOK, JobTypes, IInv, JobInv, NEW t \in Thread, Swap(t)
    PROVE  JobInv'
<1>1. /\ mCBs'[t] = exCBs /\ mFns'[t] = exFns /\ exCBs' = <<>> /\ exFns' = <<>>
      /\ \A u \in Thread \ {t} : mCBs'[u] = mCBs[u] /\ mFns'[u] = mFns[u]
      /\ UNCHANGED <<mHasRunner, pc, mAquired, mXCBs, nextCB, numJobs, kind, ran>>
  BY DEF Swap, JobTypes, TypesIn
<1>2. /\ mAquired[t] /\ mCBs[t] = <<>> /\ mFns[t] = <<>>
      /\ \A u \in Thread \ {t} : mCBs[u] = <<>> /\ mFns[u] = <<>>
  BY OnlyOwnerHolds DEF Swap, Drained
<1>3. \A u \in Thread : mCBs[u] = <<>> /\ mFns[u] = <<>>  BY <1>2
<1>4. /\ \A u \in Thread : ToSet(mCBs'[u]) \subseteq ToSet(exCBs) /\ ToSet(mFns'[u]) \subseteq ToSet(exFns)
      /\ \A u \in Thread : Increasing(mCBs'[u]) /\ Increasing(mFns'[u])
  <2>1. \A u \in Thread \ {t} : mCBs'[u] = <<>> /\ mFns'[u] = <<>>  BY <1>1, <1>3
  <2> QED BY <1>1, <2>1, NoJobs DEF JobInv, QueuesInOrder
<1>5. QueuesInOrder'  BY <1>1, <1>4, NoJobs DEF JobInv, QueuesInOrder
<1>6. QueuesOfKind'  BY <1>1, <1>4, NoJobs DEF JobInv, QueuesOfKind, OfKind, Issued
<1>7. HeldByOwner'  BY <1>1, <1>2 DEF JobInv, HeldByOwner
<1>8. CBsInOrder'  BY <1>1, <1>4, NoJobs DEF JobInv, CBsInOrder
<1>9. OthersApart'
  <2>1. ToSet(exFns)' = {} /\ UNCHANGED <<mXCBs, ran>>  BY <1>1, NoJobs
  <2> QED BY <1>4, <2>1 DEF JobInv, OthersApart
<1>10. (\A j \in Issued : Somewhere(j))'
  <2> SUFFICES ASSUME NEW j \in Issued PROVE Somewhere(j)'  BY <1>1 DEF Issued
  <2>1. Somewhere(j)  BY DEF JobInv
  <2>2. \A u \in Thread : j \notin ToSet(mCBs[u]) \cup ToSet(mFns[u])  BY <1>3, NoJobs
  <2> QED BY <1>1, <2>1, <2>2 DEF Somewhere
<1> QED BY <1>5, <1>6, <1>7, <1>8, <1>9, <1>10 DEF JobInv

\* A function is called.
LEMMA RunFnKeepsJobs ==
    ASSUME TypeOK, JobTypes, IInv, JobInv, NEW t \in Thread, RunFn(t)
    PROVE  JobInv'
<1>1. PICK e \in Job : e = Head(mFns[t])  BY QueueTypes DEF RunFn
<1>2. /\ e \in ToSet(mFns[t]) /\ ToSet(Tail(mFns[t])) = ToSet(mFns[t]) \ {e}
      /\ Increasing(Tail(mFns[t]))
  BY <1>1, FirstJob, QueueTypes DEF RunFn, JobInv, QueuesInOrder
<1>3. /\ mFns'[t] = Tail(mFns[t]) /\ \A u \in Thread \ {t} : mFns'[u] = mFns[u]
      /\ pc'[t] = "running" /\ \A u \in Thread \ {t} : pc'[u] = pc[u]
      /\ ran' = Append(ran, e)
      /\ UNCHANGED <<mHasRunner, exCBs, exFns, mAquired, mXCBs, mCBs, nextCB, numJobs, kind>>
  BY <1>1 DEF RunFn, JobTypes, TypesIn, shared
<1>4. e \notin ToSet(ran) /\ kind[e] = "fn" /\ e <= numJobs /\ e \in Issued /\ e \notin ToSet(exFns)
  BY <1>2, JobNumbers DEF JobInv, OthersApart, QueuesOfKind, OfKind, Issued, Job
<1>5. ToSet(ran)' = ToSet(ran) \cup {e} /\ IsInjective(ran)'
  BY <1>3, <1>4, RunOne DEF JobInv, QueuesInOrder
<1>0. mAquired[t] /\ pc[t] = "loop" /\ \A u \in Thread \ {t} : mFns[u] = <<>>
  BY OnlyOwnerHolds DEF RunFn
<1>6. QueuesInOrder'  BY <1>2, <1>3, <1>5 DEF JobInv, QueuesInOrder
<1>7. QueuesOfKind'  BY <1>2, <1>3, <1>4, <1>5 DEF JobInv, QueuesOfKind, OfKind, Issued
<1>8. HeldByOwner'  BY <1>0, <1>3 DEF JobInv, HeldByOwner
<1>9. CBsInOrder'
  <2>1. \A u \in Thread : pc'[u] # "return" => pc[u] # "return"  BY <1>0, <1>3
  <2> QED BY <1>3, <1>4, <1>5, <2>1 DEF JobInv, CBsInOrder
<1>10. OthersApart'
  <2>1. \A u \in Thread : e \notin ToSet(mXCBs[u])  BY <1>4 DEF JobInv, QueuesOfKind, OfKind
  <2>2. ToSet(exFns)' \cap ToSet(ran)' = {}  BY <1>3, <1>4, <1>5 DEF JobInv, OthersApart
  <2>3. \A u \in Thread : ToSet(mFns'[u]) \subseteq ToSet(mFns[u]) \ {e}
    BY <1>0, <1>2, <1>3, NoJobs
  <2>4. ASSUME NEW u \in Thread PROVE ToSet(mFns'[u]) \cap (ToSet(exFns)' \cup ToSet(ran)') = {}
    BY <1>3, <1>5, <2>3 DEF JobInv, OthersApart
  <2>5. ASSUME NEW u \in Thread PROVE ToSet(mXCBs'[u]) \cap ToSet(ran)' = {}
    BY <1>3, <1>5, <2>1 DEF JobInv, OthersApart
  <2> QED BY <1>3, <2>2, <2>4, <2>5 DEF JobInv, OthersApart
<1>11. (\A j \in Issued : Somewhere(j))'
  BY <1>2, <1>3, <1>5 DEF JobInv, Somewhere, Issued
<1> QED BY <1>6, <1>7, <1>8, <1>9, <1>10, <1>11 DEF JobInv

\* A popped coroutine is resumed: it is one that nobody else has, and the ones
\* that come after it are still to be run.
LEMMA Popped ==
    ASSUME TypeOK, JobTypes, IInv, JobInv, NEW t \in Thread, nextCB[t] # NoJob, NEW e, e = nextCB[t]
    PROVE  /\ e \in Job /\ e \in Issued /\ kind[e] = "cb" /\ e \notin ToSet(ran) /\ e \notin ToSet(exFns)
           /\ \A u \in Thread : e \notin ToSet(mFns[u]) /\ e \notin ToSet(mXCBs[u])
           /\ \A y \in ToSet(exCBs) : e < y
           /\ \A u \in Thread : \A y \in ToSet(mCBs[u]) : e < y
           /\ \A u \in Thread \ {t} : e # nextCB[u]
           /\ \A u \in Thread \ {t} : nextCB[u] # NoJob /\ pc[u] # "return" => e < nextCB[u]
<1>1. e \in Job  BY QueueTypes
<1>2. kind[e] = "cb" /\ e <= numJobs  BY DEF JobInv, QueuesOfKind, OfKind
<1>3. e \in Issued  BY <1>1, <1>2, JobNumbers DEF Issued, Job
<1>4. e \notin ToSet(ran)  BY <1>2 DEF JobInv, CBsInOrder
<1>5. e \notin ToSet(exFns) /\ \A u \in Thread : e \notin ToSet(mFns[u]) /\ e \notin ToSet(mXCBs[u])
  BY <1>2 DEF JobInv, QueuesOfKind, OfKind
<1>6. /\ \A y \in ToSet(exCBs) : e < y
      /\ \A u \in Thread : \A y \in ToSet(mCBs[u]) : e < y
      /\ \A u \in Thread \ {t} : e # nextCB[u]
  BY DEF JobInv, CBsInOrder
<1>7. ASSUME NEW u \in Thread \ {t}, nextCB[u] # NoJob, pc[u] # "return" PROVE e < nextCB[u]
  <2>1. mAquired[u]  BY <1>7 DEF JobInv, HeldByOwner, IInv, OneRunner
  <2> QED BY <1>7, <2>1 DEF JobInv, CBsInOrder
<1> QED BY <1>1, <1>2, <1>3, <1>4, <1>5, <1>6, <1>7

\* The last coroutine is resumed by the caller of runReturnLast.
LEMMA ReturnKeepsJobs ==
    ASSUME TypeOK, JobTypes, IInv, JobInv, NEW t \in Thread, Return(t)
    PROVE  JobInv'
<1>1. /\ nextCB'[t] = NoJob /\ \A u \in Thread \ {t} : nextCB'[u] = nextCB[u]
      /\ pc'[t] = "out" /\ pc[t] = "return" /\ \A u \in Thread \ {t} : pc'[u] = pc[u]
      /\ UNCHANGED <<mHasRunner, exCBs, exFns, mAquired, mXCBs, mCBs, mFns, numJobs, kind>>
  BY DEF Return, JobTypes, TypesIn, shared, handle
<1>2. ~mAquired[t] /\ mXCBs[t] = <<>>  BY <1>1 DEF IInv, OwnerInside, JobInv, HeldByOwner
<1>3. HeldByOwner'  BY <1>1, <1>2 DEF JobInv, HeldByOwner
<1>4. CASE nextCB[t] = NoJob
  <2>1. UNCHANGED ran  BY <1>4 DEF Return
  <2>2. nextCB' = nextCB  BY <1>4 DEF Return, JobTypes, TypesIn
  <2>3. QueuesInOrder'  BY <1>1, <2>1 DEF JobInv, QueuesInOrder
  <2>4. QueuesOfKind'  BY <1>1, <2>1, <2>2 DEF JobInv, QueuesOfKind, OfKind, Issued
  <2>5. CBsInOrder'  BY <1>1, <1>4, <2>1, <2>2 DEF JobInv, CBsInOrder
  <2>6. OthersApart'  BY <1>1, <2>1 DEF JobInv, OthersApart
  <2>7. (\A j \in Issued : Somewhere(j))'  BY <1>1, <2>1, <2>2 DEF JobInv, Somewhere, Issued
  <2> QED BY <1>3, <2>3, <2>4, <2>5, <2>6, <2>7 DEF JobInv
<1>5. CASE nextCB[t] # NoJob
  <2>1. PICK e \in Job : e = nextCB[t]  BY <1>5, QueueTypes
  <2>2. ran' = Append(ran, e)  BY <1>5, <2>1 DEF Return
  <2>3. /\ e \in Issued /\ kind[e] = "cb" /\ e \notin ToSet(ran) /\ e \notin ToSet(exFns)
        /\ \A u \in Thread : e \notin ToSet(mFns[u]) /\ e \notin ToSet(mXCBs[u])
        /\ \A y \in ToSet(exCBs) : e < y
        /\ \A u \in Thread : \A y \in ToSet(mCBs[u]) : e < y
        /\ \A u \in Thread \ {t} : e # nextCB[u]
        /\ \A u \in Thread \ {t} : nextCB[u] # NoJob /\ pc[u] # "return" => e < nextCB[u]
    BY <1>5, <2>1, Popped
  <2>4. ToSet(ran)' = ToSet(ran) \cup {e} /\ IsInjective(ran)'
    BY <2>2, <2>3, RunOne DEF JobInv, QueuesInOrder
  <2>5. QueuesInOrder'  BY <1>1, <2>4 DEF JobInv, QueuesInOrder
  <2>6. QueuesOfKind'  BY <1>1, <2>3, <2>4 DEF JobInv, QueuesOfKind, OfKind, Issued
  <2>7. CBsInOrder'
    <3>1. \A u \in Thread : nextCB'[u] # NoJob => u # t /\ nextCB'[u] = nextCB[u] /\ pc'[u] = pc[u]
      BY <1>1
    <3>2. \A u \in Thread : \A x \in ToSet(mCBs[u])', y \in ToSet(exCBs)' : x < y
      BY <1>1 DEF JobInv, CBsInOrder
    <3>3. ASSUME NEW u \in Thread, nextCB'[u] # NoJob
          PROVE  /\ \A y \in ToSet(exCBs)' : nextCB'[u] < y
                 /\ \A v \in Thread : \A y \in ToSet(mCBs[v])' : nextCB'[u] < y
      BY <1>1, <3>1, <3>3 DEF JobInv, CBsInOrder
    <3>4. ASSUME NEW u \in Thread, nextCB'[u] # NoJob, NEW v \in Thread \ {u}
          PROVE  nextCB'[v] # nextCB'[u] /\ (mAquired'[u] => nextCB'[v] < nextCB'[u])
      <4>1. u # t /\ nextCB'[u] = nextCB[u] /\ nextCB[u] \in Job /\ mAquired'[u] = mAquired[u]
        BY <1>1, <3>1, <3>4, QueueTypes
      <4>2. CASE v = t  BY <1>1, <4>1, <4>2 DEF Job, NoJob
      <4>3. CASE v # t  BY <1>1, <3>4, <4>1, <4>3 DEF JobInv, CBsInOrder
      <4> QED BY <4>2, <4>3
    <3>5. ASSUME NEW h \in ToSet(ran)', kind'[h] = "cb"
          PROVE  /\ \A y \in ToSet(exCBs)' : h < y
                 /\ \A u \in Thread : /\ \A y \in ToSet(mCBs[u])' : h < y
                                      /\ h # nextCB'[u]
                                      /\ nextCB'[u] # NoJob /\ pc'[u] # "return" => h < nextCB'[u]
      <4>0. NoJob \notin Job /\ h \in Job
        BY <2>4, JobNumbers, QueueTypes
      <4>1. CASE h = e  BY <1>1, <2>3, <3>1, <4>0, <4>1
      <4>2. CASE h \in ToSet(ran)  BY <1>1, <3>1, <3>5, <4>0, <4>2 DEF JobInv, CBsInOrder
      <4> QED BY <2>4, <4>1, <4>2
    <3> QED BY <3>2, <3>3, <3>4, <3>5 DEF CBsInOrder
  <2>8. OthersApart'  BY <1>1, <2>3, <2>4 DEF JobInv, OthersApart
  <2>9. (\A j \in Issued : Somewhere(j))'
    BY <1>1, <2>1, <2>4 DEF JobInv, Somewhere, Issued
  <2> QED BY <1>3, <2>5, <2>6, <2>7, <2>8, <2>9 DEF JobInv
<1> QED BY <1>4, <1>5

\* A coroutine is popped, and the one that was popped before it is resumed.
LEMMA PopCBKeepsJobs ==
    ASSUME TypeOK, JobTypes, IInv, JobInv, NEW t \in Thread, PopCB(t)
    PROVE  JobInv'
<1>1. PICK e \in Job : e = Head(mCBs[t])  BY QueueTypes DEF PopCB
<1>2. /\ e \in ToSet(mCBs[t]) /\ ToSet(Tail(mCBs[t])) = ToSet(mCBs[t]) \ {e}
      /\ Increasing(Tail(mCBs[t])) /\ \A j \in ToSet(mCBs[t]) : e <= j
  BY <1>1, FirstJob, QueueTypes DEF PopCB, JobInv, QueuesInOrder
<1>3. /\ mCBs'[t] = Tail(mCBs[t]) /\ \A u \in Thread \ {t} : mCBs'[u] = mCBs[u]
      /\ nextCB'[t] = e /\ \A u \in Thread \ {t} : nextCB'[u] = nextCB[u]
      /\ UNCHANGED <<mHasRunner, exCBs, exFns, mAquired, mXCBs, mFns, numJobs, kind>>
  BY <1>1 DEF PopCB, JobTypes, TypesIn, shared
<1>4. pc'[t] \in {"loop", "running"} /\ \A u \in Thread \ {t} : pc'[u] = pc[u]
  BY DEF PopCB, JobTypes, TypesIn
<1>5. /\ pc[t] = "loop" /\ mAquired[t]
      /\ \A u \in Thread \ {t} : ~mAquired[u] /\ mCBs[u] = <<>> /\ mFns[u] = <<>>
      /\ \A u \in Thread \ {t} : nextCB[u] # NoJob => pc[u] = "return"
  BY OnlyOwnerHolds DEF PopCB
<1>6. /\ kind[e] = "cb" /\ e <= numJobs /\ e \in Issued /\ e # NoJob
      /\ \A y \in ToSet(exCBs) : e < y
      /\ \A u \in Thread : nextCB[u] # NoJob => nextCB[u] < e
      /\ \A h \in ToSet(ran) : kind[h] = "cb" => h < e
  BY <1>2, JobNumbers DEF JobInv, QueuesOfKind, OfKind, CBsInOrder, Issued, Job
\* What is run is what was popped before.
<1>7. /\ ToSet(ran) \subseteq ToSet(ran)'
      /\ nextCB[t] # NoJob => nextCB[t] \in ToSet(ran)'
      /\ \A h \in ToSet(ran)' : h \in ToSet(ran) \/ (nextCB[t] # NoJob /\ h = nextCB[t])
      /\ IsInjective(ran)'
  <2>1. CASE nextCB[t] = NoJob
    <3>1. ran' = ran  BY <2>1 DEF PopCB
    <3> QED BY <2>1, <3>1 DEF JobInv, QueuesInOrder
  <2>2. CASE nextCB[t] # NoJob
    <3>1. PICK n \in Job : n = nextCB[t]  BY <2>2, QueueTypes
    <3>2. n \notin ToSet(ran)  BY <2>2, <3>1, Popped
    <3>3. ran' = Append(ran, n)  BY <2>2, <3>1 DEF PopCB
    <3>4. ToSet(ran)' = ToSet(ran) \cup {n} /\ IsInjective(ran)'
      BY <3>2, <3>3, RunOne DEF JobInv, QueuesInOrder
    <3> QED BY <2>2, <3>1, <3>4
  <2> QED BY <2>1, <2>2
<1>8. QueuesInOrder'  BY <1>2, <1>3, <1>7 DEF JobInv, QueuesInOrder
<1>9. QueuesOfKind'
  <2>1. ToSet(ran)' \subseteq Issued'
    <3>1. nextCB[t] # NoJob => nextCB[t] \in Issued  BY Popped
    <3> QED BY <1>3, <1>7, <3>1 DEF JobInv, QueuesOfKind, Issued
  <2>2. \A u \in Thread : nextCB'[u] # NoJob => OfKind({nextCB[u]}, "cb")'
    <3> SUFFICES ASSUME NEW u \in Thread, nextCB'[u] # NoJob
                 PROVE  nextCB'[u] <= numJobs /\ kind[nextCB'[u]] = "cb"
      BY <1>3 DEF OfKind
    <3>1. CASE u = t  BY <1>3, <1>6, <3>1
    <3>2. CASE u # t  BY <1>3, <3>2 DEF JobInv, QueuesOfKind, OfKind
    <3> QED BY <3>1, <3>2
  <2>3. \A u \in Thread : ToSet(mCBs'[u]) \subseteq ToSet(mCBs[u])  BY <1>2, <1>3
  <2>4. /\ OfKind(ToSet(exCBs), "cb")' /\ OfKind(ToSet(exFns), "fn")'
        /\ \A u \in Thread : OfKind(ToSet(mXCBs[u]), "ex")' /\ OfKind(ToSet(mFns[u]), "fn")'
    BY <1>3 DEF JobInv, QueuesOfKind, OfKind
  <2>5. \A u \in Thread : OfKind(ToSet(mCBs[u]), "cb")'
    BY <1>3, <2>3 DEF JobInv, QueuesOfKind, OfKind
  <2> QED BY <2>1, <2>2, <2>4, <2>5 DEF QueuesOfKind
<1>10. HeldByOwner'
  <2>1. mXCBs[t] = <<>>  BY <1>5 DEF JobInv, HeldByOwner
  <2> QED BY <1>3, <1>4, <1>5, <2>1 DEF JobInv, HeldByOwner
<1>11. CBsInOrder'
  <2>1. \A u \in Thread : \A x \in ToSet(mCBs'[u]) : x \in ToSet(mCBs[u]) /\ e < x
    <3>1. \A x \in ToSet(mCBs'[t]) : x \in ToSet(mCBs[t]) /\ x # e /\ e <= x /\ x \in Job
      BY <1>2, <1>3, JobNumbers, QueueTypes
    <3>2. \A x \in ToSet(mCBs'[t]) : e < x  BY <3>1 DEF Job
    <3>3. \A u \in Thread \ {t} : ToSet(mCBs'[u]) = {}  BY <1>3, <1>5, NoJobs
    <3> QED BY <3>1, <3>2, <3>3
  <2>2. \A u \in Thread : \A x \in ToSet(mCBs'[u]), y \in ToSet(exCBs)' : x < y
    BY <1>3, <2>1 DEF JobInv, CBsInOrder
  <2>3. ASSUME NEW u \in Thread, nextCB'[u] # NoJob
        PROVE  /\ \A y \in ToSet(exCBs)' : nextCB'[u] < y
               /\ \A v \in Thread : \A y \in ToSet(mCBs'[v]) : nextCB'[u] < y
    <3>1. CASE u = t  BY <1>3, <1>6, <2>1, <3>1
    <3>2. CASE u # t  BY <1>3, <2>1, <2>3, <3>2 DEF JobInv, CBsInOrder
    <3> QED BY <3>1, <3>2
  <2>4. ASSUME NEW u \in Thread, nextCB'[u] # NoJob, NEW v \in Thread \ {u}
        PROVE  nextCB'[v] # nextCB'[u] /\ (mAquired'[u] => nextCB'[v] < nextCB'[u])
    <3>0. e > NoJob /\ e \in Nat  BY DEF Job, NoJob
    <3>1. CASE u = t
      <4>1. nextCB'[v] = nextCB[v] /\ nextCB[v] \in Job \cup {NoJob}  BY <1>3, <3>1, QueueTypes
      <4>2. nextCB[v] < e  BY <1>6, <3>0, <4>1 DEF NoJob
      <4> QED BY <1>3, <3>0, <3>1, <4>1, <4>2 DEF Job, NoJob
    <3>2. CASE u # t
      <4>1. ~mAquired'[u] /\ nextCB'[u] = nextCB[u]  BY <1>3, <1>5, <3>2
      <4>2. CASE v = t
        <5>1. nextCB[u] < e /\ nextCB[u] \in Job  BY <1>6, <2>4, <4>1, QueueTypes
        <5> QED BY <1>3, <4>1, <4>2, <5>1 DEF Job
      <4>3. CASE v # t  BY <1>3, <2>4, <4>1, <4>3 DEF JobInv, CBsInOrder
      <4> QED BY <4>1, <4>2, <4>3
    <3> QED BY <3>1, <3>2
  <2>5. ASSUME NEW h \in ToSet(ran)', kind'[h] = "cb"
        PROVE  /\ \A y \in ToSet(exCBs)' : h < y
               /\ \A u \in Thread : /\ \A y \in ToSet(mCBs'[u]) : h < y
                                    /\ h # nextCB'[u]
                                    /\ nextCB'[u] # NoJob /\ pc'[u] # "return" => h < nextCB'[u]
    <3>1. \A u \in Thread : nextCB'[u] # NoJob /\ pc'[u] # "return" => u = t  BY <1>3, <1>4, <1>5
    <3>2. CASE h \in ToSet(ran)
      <4>1. h < e /\ h \in Job  BY <1>3, <1>6, <2>5, <3>2, JobNumbers, QueueTypes
      <4>2. h # e  BY <4>1 DEF Job
      <4>3. /\ \A y \in ToSet(exCBs)' : h < y
            /\ \A u \in Thread : (\A y \in ToSet(mCBs'[u]) : h < y) /\ h # nextCB[u]
        BY <1>3, <2>1, <2>5, <3>2 DEF JobInv, CBsInOrder
      <4> QED BY <1>3, <3>1, <4>1, <4>2, <4>3
    <3>3. CASE nextCB[t] # NoJob /\ h = nextCB[t]
      <4>1. /\ h \in Job
            /\ \A y \in ToSet(exCBs) : h < y
            /\ \A u \in Thread : \A y \in ToSet(mCBs[u]) : h < y
            /\ \A u \in Thread \ {t} : h # nextCB[u]
        BY <3>3, Popped
      <4>2. h < e /\ h # e  BY <1>2, <3>3, <4>1 DEF Job
      <4>3. \A u \in Thread : \A y \in ToSet(mCBs'[u]) : h < y  BY <2>1, <4>1
      <4>4. \A u \in Thread : h # nextCB'[u]  BY <1>3, <4>1, <4>2
      <4> QED BY <1>3, <3>1, <4>1, <4>2, <4>3, <4>4
    <3> QED BY <1>7, <3>2, <3>3
  <2> QED BY <2>2, <2>3, <2>4, <2>5 DEF CBsInOrder
<1>12. OthersApart'
  <2>1. \A h \in ToSet(ran)' : h \in ToSet(ran) \/ (h \notin ToSet(exFns)
                                   /\ \A u \in Thread : h \notin ToSet(mFns[u]) \cup ToSet(mXCBs[u]))
    BY <1>7, Popped
  <2> QED BY <1>3, <2>1 DEF JobInv, OthersApart
<1>13. (\A j \in Issued : Somewhere(j))'
  <2> SUFFICES ASSUME NEW j \in Issued PROVE Somewhere(j)'  BY <1>3 DEF Issued
  <2>1. j # NoJob  BY JobNumbers
  <2>2. Somewhere(j)  BY DEF JobInv
  <2>3. CASE j \in ToSet(ran) \cup ToSet(exCBs) \cup ToSet(exFns)
    BY <1>3, <1>7, <2>3 DEF Somewhere
  <2>4. ASSUME NEW u \in Thread,
               j \in ToSet(mXCBs[u]) \cup ToSet(mCBs[u]) \cup ToSet(mFns[u]) \cup {nextCB[u]}
        PROVE  Somewhere(j)'
    <3>1. CASE j = nextCB[t]  BY <1>7, <2>1, <3>1 DEF Somewhere
    <3>2. CASE j = e  BY <1>3, <3>2 DEF Somewhere
    <3>3. CASE j # nextCB[t] /\ j # e
      <4>1. j \in ToSet(mXCBs'[u]) \cup ToSet(mCBs'[u]) \cup ToSet(mFns'[u]) \cup {nextCB'[u]}
        BY <1>2, <1>3, <2>4, <3>3
      <4> QED BY <4>1 DEF Somewhere
    <3> QED BY <3>1, <3>2, <3>3
  <2> QED BY <2>2, <2>3, <2>4 DEF Somewhere
<1> QED BY <1>8, <1>9, <1>10, <1>11, <1>12, <1>13 DEF JobInv

\* All jobs that are anywhere were issued.
LEMMA AllIssued ==
    ASSUME TypeOK, JobTypes, JobInv
    PROVE  /\ ToSet(ran) \subseteq Issued /\ ToSet(exCBs) \subseteq Issued /\ ToSet(exFns) \subseteq Issued
           /\ \A u \in Thread : /\ ToSet(mXCBs[u]) \subseteq Issued /\ ToSet(mCBs[u]) \subseteq Issued
                                /\ ToSet(mFns[u]) \subseteq Issued
                                /\ nextCB[u] # NoJob => nextCB[u] \in Issued
<1>1. \A j \in Job : j <= numJobs => j \in Issued  BY JobNumbers DEF Job, Issued
<1>2. ToSet(ran) \subseteq Issued  BY DEF JobInv, QueuesOfKind
<1>3. ToSet(exCBs) \subseteq Issued /\ ToSet(exFns) \subseteq Issued
  BY <1>1, JobNumbers, QueueTypes DEF JobInv, QueuesOfKind, OfKind
<1>4. ASSUME NEW u \in Thread
      PROVE  /\ ToSet(mXCBs[u]) \subseteq Issued /\ ToSet(mCBs[u]) \subseteq Issued
             /\ ToSet(mFns[u]) \subseteq Issued
             /\ nextCB[u] # NoJob => nextCB[u] \in Issued
  <2>1. ToSet(mXCBs[u]) \subseteq Job /\ ToSet(mCBs[u]) \subseteq Job /\ ToSet(mFns[u]) \subseteq Job
    BY JobNumbers, QueueTypes
  <2> QED BY <1>1, <2>1, QueueTypes DEF JobInv, QueuesOfKind, OfKind
<1> QED BY <1>2, <1>3, <1>4

\* A critical section that pushes jobs.  Those with an executor go to the Handle
\* or are scheduled; the others go to the Handle, when the shared queues are
\* empty, or to the shared queues.
LEMMA PushKeepsJobs ==
    ASSUME TypeOK, JobTypes, IInv, JobInv, NEW t \in Thread, NEW batch \in Batch, Issue(batch),
           QueuesInOrder', HeldByOwner', UNCHANGED nextCB,
           \A u \in Thread : nextCB[u] # NoJob => pc'[u] = pc[u] /\ mAquired'[u] = mAquired[u],
           \A u \in Thread \ {t} : mXCBs'[u] = mXCBs[u] /\ mCBs'[u] = mCBs[u] /\ mFns'[u] = mFns[u],
           NEW X, NEW C, NEW F,
           X = ToSet(JobsOf(batch.ex)), C = ToSet(JobsOf(batch.cb)), F = ToSet(JobsOf(batch.fn)),
           \/ ran' = ran /\ ToSet(mXCBs'[t]) = ToSet(mXCBs[t]) \cup X
           \/ ToSet(ran)' = ToSet(ran) \cup X /\ mXCBs' = mXCBs,
           \/ exCBs = <<>> /\ exCBs' = <<>> /\ ToSet(mCBs'[t]) = ToSet(mCBs[t]) \cup C
           \/ ToSet(exCBs)' = ToSet(exCBs) \cup C /\ mCBs' = mCBs,
           \/ exFns = <<>> /\ exFns' = <<>> /\ ToSet(mFns'[t]) = ToSet(mFns[t]) \cup F
           \/ ToSet(exFns)' = ToSet(exFns) \cup F /\ mFns' = mFns
    PROVE  JobInv'
<1>1. /\ numJobs \in Nat /\ numJobs' \in Nat /\ numJobs <= numJobs'
      /\ \A j \in Issued : j <= numJobs /\ j <= numJobs' /\ j \in Issued' /\ j \in Nat /\ kind'[j] = kind[j]
  BY NewJobs, JobNumbers DEF Issued
<1>2. /\ \A j \in X : j > numJobs /\ j <= numJobs' /\ kind'[j] = "ex" /\ j \in Issued' /\ j \in Nat /\ j \notin Issued
      /\ \A j \in C : j > numJobs /\ j <= numJobs' /\ kind'[j] = "cb" /\ j \in Issued' /\ j \in Nat /\ j \notin Issued
      /\ \A j \in F : j > numJobs /\ j <= numJobs' /\ kind'[j] = "fn" /\ j \in Issued' /\ j \in Nat /\ j \notin Issued
  <2>1. X \subseteq Job /\ C \subseteq Job /\ F \subseteq Job  BY NewJobs, JobNumbers
  <2>2. \A j \in Job : j > numJobs /\ j <= numJobs' => j \in Issued' /\ j \in Nat /\ j \notin Issued
    BY <1>1 DEF Job, Issued
  <2> QED BY <2>1, <2>2, NewJobs
<1>3. \A x \in Issued, y \in X \cup C \cup F : x < y  BY <1>1, <1>2
\* Every queue has its old jobs and new ones.
<1>4. /\ \A h \in ToSet(ran)' : h \in ToSet(ran) \/ h \in X
      /\ \A h \in ToSet(exCBs)' : h \in ToSet(exCBs) \/ h \in C
      /\ \A h \in ToSet(exFns)' : h \in ToSet(exFns) \/ h \in F
  BY NoJobs
<1>5. ASSUME NEW u \in Thread
      PROVE  /\ \A h \in ToSet(mXCBs'[u]) : h \in ToSet(mXCBs[u]) \/ (h \in X /\ u = t)
             /\ \A h \in ToSet(mCBs'[u]) : h \in ToSet(mCBs[u]) \/ (h \in C /\ u = t)
             /\ \A h \in ToSet(mFns'[u]) : h \in ToSet(mFns[u]) \/ (h \in F /\ u = t)
  <2>1. CASE u = t  BY <2>1
  <2>2. CASE u # t  BY <2>2
  <2> QED BY <2>1, <2>2
<1>6. /\ ToSet(exCBs)' # {} => mCBs' = mCBs
      /\ ToSet(exFns)' # {} => mFns' = mFns
      /\ ran' = ran \/ mXCBs' = mXCBs
  BY NoJobs
<1>7. QueuesOfKind'
  <2>1. ToSet(ran)' \subseteq Issued'  BY <1>1, <1>2, <1>4, AllIssued
  <2>2. /\ \A j \in ToSet(exCBs)' : j <= numJobs' /\ kind'[j] = "cb"
        /\ \A j \in ToSet(exFns)' : j <= numJobs' /\ kind'[j] = "fn"
    BY <1>1, <1>2, <1>4, AllIssued DEF JobInv, QueuesOfKind, OfKind
  <2>3. ASSUME NEW u \in Thread
        PROVE  /\ \A j \in ToSet(mXCBs'[u]) : j <= numJobs' /\ kind'[j] = "ex"
               /\ \A j \in ToSet(mCBs'[u]) : j <= numJobs' /\ kind'[j] = "cb"
               /\ \A j \in ToSet(mFns'[u]) : j <= numJobs' /\ kind'[j] = "fn"
               /\ nextCB[u] # NoJob => nextCB[u] <= numJobs' /\ kind'[nextCB[u]] = "cb"
    <3>1. /\ \A j \in ToSet(mXCBs[u]) : j \in Issued /\ kind[j] = "ex"
          /\ \A j \in ToSet(mCBs[u]) : j \in Issued /\ kind[j] = "cb"
          /\ \A j \in ToSet(mFns[u]) : j \in Issued /\ kind[j] = "fn"
          /\ nextCB[u] # NoJob => nextCB[u] \in Issued /\ kind[nextCB[u]] = "cb"
      BY AllIssued DEF JobInv, QueuesOfKind, OfKind
    <3> QED BY <1>1, <1>2, <1>5, <3>1
  <2> QED BY <2>1, <2>2, <2>3 DEF QueuesOfKind, OfKind
<1>8. CBsInOrder'
  <2>1. \A u \in Thread : \A x \in ToSet(mCBs'[u]), y \in ToSet(exCBs)' : x < y
    BY <1>3, <1>4, <1>6, AllIssued DEF JobInv, CBsInOrder
  <2>2. ASSUME NEW u \in Thread, nextCB[u] # NoJob
        PROVE  /\ \A y \in ToSet(exCBs)' : nextCB[u] < y
               /\ \A v \in Thread : \A y \in ToSet(mCBs'[v]) : nextCB[u] < y
               /\ \A v \in Thread \ {u} : nextCB[v] # nextCB[u] /\ (mAquired'[u] => nextCB[v] < nextCB[u])
    <3>0. nextCB[u] \in Issued  BY <2>2, AllIssued
    <3>1. \A y \in ToSet(exCBs)' : nextCB[u] < y
      BY <1>3, <1>4, <2>2, <3>0 DEF JobInv, CBsInOrder
    <3>2. \A v \in Thread : \A y \in ToSet(mCBs'[v]) : nextCB[u] < y
      BY <1>3, <1>5, <2>2, <3>0 DEF JobInv, CBsInOrder
    <3>3. \A v \in Thread \ {u} : nextCB[v] # nextCB[u] /\ (mAquired'[u] => nextCB[v] < nextCB[u])
      BY <2>2 DEF JobInv, CBsInOrder
    <3> QED BY <3>1, <3>2, <3>3
  <2>3. ASSUME NEW h \in ToSet(ran)', kind'[h] = "cb"
        PROVE  /\ \A y \in ToSet(exCBs)' : h < y
               /\ \A u \in Thread : /\ \A y \in ToSet(mCBs'[u]) : h < y
                                    /\ h # nextCB[u]
                                    /\ nextCB[u] # NoJob /\ pc'[u] # "return" => h < nextCB[u]
    <3>1. h \in ToSet(ran) /\ h \in Issued /\ kind[h] = "cb"
      BY <1>1, <1>2, <1>4, <2>3, AllIssued
    <3>2. \A y \in ToSet(exCBs)' : h < y
      BY <1>3, <1>4, <3>1 DEF JobInv, CBsInOrder
    <3>3. \A u \in Thread : \A y \in ToSet(mCBs'[u]) : h < y
      BY <1>3, <1>5, <3>1 DEF JobInv, CBsInOrder
    <3>4. \A u \in Thread : /\ h # nextCB[u]
                            /\ nextCB[u] # NoJob /\ pc'[u] # "return" => h < nextCB[u]
      BY <3>1 DEF JobInv, CBsInOrder
    <3> QED BY <3>2, <3>3, <3>4
  <2> QED BY <2>1, <2>2, <2>3 DEF CBsInOrder
<1>9. OthersApart'
  <2>1. X \cap F = {}  BY <1>2
  <2>2. ToSet(exFns)' \cap ToSet(ran)' = {}
    BY <1>2, <1>4, <2>1, AllIssued DEF JobInv, OthersApart
  <2>3. ASSUME NEW u \in Thread PROVE ToSet(mFns'[u]) \cap ToSet(exFns)' = {}
    <3>1. CASE ToSet(exFns)' = {}  BY <3>1
    <3>2. CASE mFns' = mFns  BY <1>2, <1>4, <3>2, AllIssued DEF JobInv, OthersApart
    <3> QED BY <1>6, <3>1, <3>2
  <2>0. ASSUME NEW u \in Thread
        PROVE  /\ ToSet(mFns[u]) \cap ToSet(ran) = {} /\ ToSet(mXCBs[u]) \cap ToSet(ran) = {}
               /\ ToSet(mFns[u]) \subseteq Issued /\ ToSet(mXCBs[u]) \subseteq Issued
    BY AllIssued DEF JobInv, OthersApart
  <2>4. ASSUME NEW u \in Thread PROVE ToSet(mFns'[u]) \cap ToSet(ran)' = {}
    <3>1. ToSet(ran) \subseteq Issued  BY AllIssued
    <3> QED BY <1>2, <1>4, <1>5, <2>0, <2>1, <3>1
  <2>5. ASSUME NEW u \in Thread PROVE ToSet(mXCBs'[u]) \cap ToSet(ran)' = {}
    <3>0. ToSet(ran) \subseteq Issued  BY AllIssued
    <3>1. CASE ran' = ran  BY <1>2, <1>5, <2>0, <3>0, <3>1
    <3>2. CASE mXCBs' = mXCBs  BY <1>2, <1>4, <2>0, <3>0, <3>2
    <3>3. ran' = ran \/ mXCBs' = mXCBs  BY <1>6
    <3> QED BY <3>1, <3>2, <3>3, Zenon
  <2>6. ASSUME NEW u \in Thread, NEW v \in Thread \ {u} PROVE ToSet(mXCBs'[u]) \cap ToSet(mXCBs'[v]) = {}
    BY <1>2, <1>5, AllIssued DEF JobInv, OthersApart
  <2> QED BY <2>2, <2>3, <2>4, <2>5, <2>6 DEF OthersApart
<1>10. ASSUME NEW j \in Issued' PROVE Somewhere(j)'
  <2>1. j \in Issued \/ j \in X \/ j \in C \/ j \in F  BY NewJobs
  <2>2. /\ \A h \in ToSet(ran) : h \in ToSet(ran)'
        /\ \A h \in ToSet(exCBs) : h \in ToSet(exCBs)'
        /\ \A h \in ToSet(exFns) : h \in ToSet(exFns)'
    BY NoJobs
  <2>3. ASSUME NEW u \in Thread
        PROVE  /\ ToSet(mXCBs[u]) \subseteq ToSet(mXCBs'[u]) /\ ToSet(mCBs[u]) \subseteq ToSet(mCBs'[u])
               /\ ToSet(mFns[u]) \subseteq ToSet(mFns'[u])
    <3>1. CASE u = t  BY <3>1
    <3>2. CASE u # t  BY <3>2
    <3> QED BY <3>1, <3>2
  <2>4. CASE j \in Issued
    <3>1. Somewhere(j)  BY <2>4 DEF JobInv
    <3> QED BY <2>2, <2>3, <3>1 DEF Somewhere
  <2>5. CASE j \in X
    <3>1. j \in ToSet(ran)' \/ j \in ToSet(mXCBs'[t])  BY <2>5
    <3> QED BY <3>1 DEF Somewhere
  <2>6. CASE j \in C
    <3>1. j \in ToSet(exCBs)' \/ j \in ToSet(mCBs'[t])  BY <2>6
    <3> QED BY <3>1 DEF Somewhere
  <2>7. CASE j \in F
    <3>1. j \in ToSet(exFns)' \/ j \in ToSet(mFns'[t])  BY <2>7
    <3> QED BY <3>1 DEF Somewhere
  <2> QED BY <2>1, <2>4, <2>5, <2>6, <2>7
<1> QED BY <1>7, <1>8, <1>9, <1>10 DEF JobInv

\* The first thread to come keeps its jobs.
LEMMA AcquireKeepsJobs ==
    ASSUME TypeOK, JobTypes, IInv, JobInv, ~grown',
           NEW t \in Thread, NEW batch \in Batch, Acquire(t, batch)
    PROVE  JobInv'
<1>0. Issue(batch) /\ PushToHandle(t, batch)  BY DEF Acquire
<1>1. /\ Issue(batch)
      /\ mXCBs' = [mXCBs EXCEPT ![t] = JobsOf(batch.ex)]
      /\ mCBs' = [mCBs EXCEPT ![t] = JobsOf(batch.cb)]
      /\ mFns' = [mFns EXCEPT ![t] = JobsOf(batch.fn)]
  BY <1>0, RoomInHandle
<1>2. /\ mXCBs'[t] = JobsOf(batch.ex) /\ mCBs'[t] = JobsOf(batch.cb) /\ mFns'[t] = JobsOf(batch.fn)
      /\ pc'[t] = "ex" /\ mAquired'[t]
      /\ \A u \in Thread \ {t} : /\ mXCBs'[u] = mXCBs[u] /\ mCBs'[u] = mCBs[u] /\ mFns'[u] = mFns[u]
                                 /\ pc'[u] = pc[u] /\ mAquired'[u] = mAquired[u]
      /\ UNCHANGED <<exCBs, exFns, nextCB, ran>>
  BY <1>1 DEF Acquire, JobTypes, TypesIn
<1>3. /\ exCBs = <<>> /\ exFns = <<>> /\ \A u \in Thread : ~mAquired[u]
      /\ nextCB[t] = NoJob /\ mXCBs[t] = <<>> /\ mCBs[t] = <<>> /\ mFns[t] = <<>>
  <2>1. exCBs = <<>> /\ exFns = <<>> /\ \A u \in Thread : ~mAquired[u]
    BY DEF Acquire, IInv, NoneStranded, OneRunner
  <2> QED BY <2>1 DEF Acquire, JobInv, HeldByOwner
<1>4. /\ Increasing(JobsOf(batch.ex)) /\ Increasing(JobsOf(batch.cb)) /\ Increasing(JobsOf(batch.fn))
  BY <1>1, NewJobs
<1>5. QueuesInOrder'  BY <1>2, <1>4 DEF JobInv, QueuesInOrder
<1>6. HeldByOwner'  BY <1>2, <1>3 DEF JobInv, HeldByOwner
<1>7. \A u \in Thread : nextCB[u] # NoJob => pc'[u] = pc[u] /\ mAquired'[u] = mAquired[u]
  BY <1>2, <1>3
<1>8. /\ ToSet(mXCBs'[t]) = ToSet(mXCBs[t]) \cup ToSet(JobsOf(batch.ex))
      /\ ToSet(mCBs'[t]) = ToSet(mCBs[t]) \cup ToSet(JobsOf(batch.cb))
      /\ ToSet(mFns'[t]) = ToSet(mFns[t]) \cup ToSet(JobsOf(batch.fn))
  BY <1>2, <1>3, NoJobs
<1>9. /\ \A u \in Thread \ {t} : mXCBs'[u] = mXCBs[u] /\ mCBs'[u] = mCBs[u] /\ mFns'[u] = mFns[u]
      /\ nextCB' = nextCB /\ ran' = ran /\ exCBs' = <<>> /\ exFns' = <<>>
  BY <1>2, <1>3
<1> QED BY <1>1, <1>3, <1>5, <1>6, <1>7, <1>8, <1>9, PushKeepsJobs

\* Jobs that are put behind the shared ones keep them in order.
LEMMA DeferFacts ==
    ASSUME TypeOK, JobTypes, JobInv, ~grown', NEW batch \in Batch, Defer(batch)
    PROVE  /\ ToSet(exCBs)' = ToSet(exCBs) \cup ToSet(JobsOf(batch.cb)) /\ Increasing(exCBs)'
           /\ ToSet(exFns)' = ToSet(exFns) \cup ToSet(JobsOf(batch.fn)) /\ Increasing(exFns)'
           /\ UNCHANGED <<mAquired, mCBs, mFns, nextCB>> /\ Issue(batch)
<1>1. Issue(batch) /\ exCBs' = exCBs \o JobsOf(batch.cb) /\ exFns' = exFns \o JobsOf(batch.fn)
  BY RoomInQueues DEF Defer
<1>2. /\ JobsOf(batch.cb) \in Seq(Job) /\ Increasing(JobsOf(batch.cb))
      /\ JobsOf(batch.fn) \in Seq(Job) /\ Increasing(JobsOf(batch.fn))
      /\ \A j \in ToSet(JobsOf(batch.cb)) \cup ToSet(JobsOf(batch.fn)) : j > numJobs /\ j \in Nat
  <2>1. /\ JobsOf(batch.cb) \in Seq(Job) /\ Increasing(JobsOf(batch.cb))
        /\ JobsOf(batch.fn) \in Seq(Job) /\ Increasing(JobsOf(batch.fn))
        /\ \A j \in ToSet(JobsOf(batch.cb)) \cup ToSet(JobsOf(batch.fn)) : j > numJobs
    BY <1>1, NewJobs
  <2>2. ToSet(JobsOf(batch.cb)) \subseteq Nat /\ ToSet(JobsOf(batch.fn)) \subseteq Nat  BY <2>1, JobNumbers
  <2> QED BY <2>1, <2>2
<1>3. \A j \in ToSet(exCBs) \cup ToSet(exFns) : j <= numJobs /\ j \in Nat  BY AllIssued, JobNumbers DEF Issued
<1>4. /\ \A x \in ToSet(exCBs), y \in ToSet(JobsOf(batch.cb)) : x < y
      /\ \A x \in ToSet(exFns), y \in ToSet(JobsOf(batch.fn)) : x < y
  BY <1>2, <1>3, JobNumbers
<1>5. Job \in SUBSET Nat /\ exCBs \in Seq(Job) /\ exFns \in Seq(Job) /\ Increasing(exCBs) /\ Increasing(exFns)
  BY JobNumbers, QueueTypes DEF JobInv, QueuesInOrder
<1>6. ToSet(exCBs)' = ToSet(exCBs) \cup ToSet(JobsOf(batch.cb)) /\ Increasing(exCBs)'
  BY <1>1, <1>2, <1>4, <1>5, ConcatFacts
<1>7. ToSet(exFns)' = ToSet(exFns) \cup ToSet(JobsOf(batch.fn)) /\ Increasing(exFns)'
  BY <1>1, <1>2, <1>4, <1>5, ConcatFacts
<1> QED BY <1>1, <1>6, <1>7 DEF Defer

\* A thread that finds the queue taken gives its jobs to the owner.
LEMMA EnterKeepsJobs ==
    ASSUME TypeOK, JobTypes, IInv, JobInv, ~grown',
           NEW t \in Thread, NEW batch \in Batch, Enter(t, batch)
    PROVE  JobInv'
<1>1. Defer(batch) /\ Issue(batch)  BY DEF Enter, Defer
<1>2. /\ mXCBs'[t] = JobsOf(batch.ex) /\ pc'[t] = "ex"
      /\ \A u \in Thread \ {t} : mXCBs'[u] = mXCBs[u] /\ pc'[u] = pc[u]
      /\ UNCHANGED ran
  <2>1. PICK q \in Pushed(<<>>, JobsOf(batch.ex)) : mXCBs' = [mXCBs EXCEPT ![t] = q]
    BY DEF Enter
  <2>2. q = JobsOf(batch.ex)  BY <1>1, <2>1, RoomInQueues
  <2> QED BY <2>1, <2>2 DEF Enter, JobTypes, TypesIn
<1>3. mXCBs[t] = <<>> /\ nextCB[t] = NoJob  BY DEF Enter, JobInv, HeldByOwner
<1>4. /\ ToSet(exCBs)' = ToSet(exCBs) \cup ToSet(JobsOf(batch.cb)) /\ Increasing(exCBs)'
      /\ ToSet(exFns)' = ToSet(exFns) \cup ToSet(JobsOf(batch.fn)) /\ Increasing(exFns)'
      /\ UNCHANGED <<mAquired, mCBs, mFns, nextCB>>
  BY <1>1, DeferFacts
<1>5. QueuesInOrder'
  <2>1. Increasing(JobsOf(batch.ex))  BY <1>1, NewJobs
  <2> QED BY <1>2, <1>4, <2>1 DEF JobInv, QueuesInOrder
<1>6. HeldByOwner'  BY <1>2, <1>3, <1>4 DEF JobInv, HeldByOwner
<1>7. \A u \in Thread : nextCB[u] # NoJob => pc'[u] = pc[u] /\ mAquired'[u] = mAquired[u]
  BY <1>2, <1>3, <1>4
<1>8. ToSet(mXCBs'[t]) = ToSet(mXCBs[t]) \cup ToSet(JobsOf(batch.ex))  BY <1>2, <1>3, NoJobs
<1>9. /\ \A u \in Thread \ {t} : mXCBs'[u] = mXCBs[u] /\ mCBs'[u] = mCBs[u] /\ mFns'[u] = mFns[u]
      /\ nextCB' = nextCB /\ ran' = ran /\ mCBs' = mCBs /\ mFns' = mFns
      /\ ToSet(exCBs)' = ToSet(exCBs) \cup ToSet(JobsOf(batch.cb))
      /\ ToSet(exFns)' = ToSet(exFns) \cup ToSet(JobsOf(batch.fn))
  BY <1>2, <1>4
<1> QED BY <1>1, <1>5, <1>6, <1>7, <1>8, <1>9, PushKeepsJobs

\* A job that is being run gives the jobs it makes ready to the owner.
LEMMA ReenterKeepsJobs ==
    ASSUME TypeOK, JobTypes, IInv, JobInv, ~grown',
           NEW t \in Thread, NEW batch \in Batch, Reenter(t, batch)
    PROVE  JobInv'
<1>1. Defer(batch) /\ Issue(batch)  BY DEF Reenter, Defer
<1>2. ran' = ran \o JobsOf(batch.ex) /\ UNCHANGED <<pc, mXCBs>>
  <2>1. PICK q \in Pushed(<<>>, JobsOf(batch.ex)) :
            ran' = ran \o (IF NoJob \in ToSet(q) THEN <<Head(q)>> ELSE q)
    BY DEF Reenter
  <2>2. q = JobsOf(batch.ex) /\ NoJob \notin ToSet(q)  BY <1>1, <2>1, RoomInQueues
  <2> QED BY <2>1, <2>2 DEF Reenter
<1>4. /\ ToSet(exCBs)' = ToSet(exCBs) \cup ToSet(JobsOf(batch.cb)) /\ Increasing(exCBs)'
      /\ ToSet(exFns)' = ToSet(exFns) \cup ToSet(JobsOf(batch.fn)) /\ Increasing(exFns)'
      /\ UNCHANGED <<mAquired, mCBs, mFns, nextCB>>
  BY <1>1, DeferFacts
<1>5. ToSet(ran)' = ToSet(ran) \cup ToSet(JobsOf(batch.ex)) /\ IsInjective(ran)'
  <2>1. /\ JobsOf(batch.ex) \in Seq(Job) /\ Increasing(JobsOf(batch.ex))
        /\ \A j \in ToSet(JobsOf(batch.ex)) : j > numJobs
    BY <1>1, NewJobs
  <2>2. Job \in SUBSET Nat /\ ran \in Seq(Job) /\ IsInjective(ran)
    BY JobNumbers, QueueTypes DEF JobInv, QueuesInOrder
  <2>3. ToSet(ran) \cap ToSet(JobsOf(batch.ex)) = {}
    <3>1. \A j \in ToSet(ran) : ~(j > numJobs)  BY AllIssued, JobNumbers DEF Issued
    <3> QED BY <2>1, <3>1
  <2>4. IsInjective(JobsOf(batch.ex))  BY <2>1, <2>2, IncreasingIsInjective
  <2> QED BY <1>2, <2>1, <2>2, <2>3, <2>4, ConcatFacts
<1>6. QueuesInOrder'  BY <1>2, <1>4, <1>5 DEF JobInv, QueuesInOrder
<1>7. HeldByOwner'  BY <1>2, <1>4 DEF JobInv, HeldByOwner
<1> QED BY <1>1, <1>2, <1>4, <1>5, <1>6, <1>7, PushKeepsJobs

\* At first there is no job.
LEMMA InitJobs == Init => JobInv
<1> SUFFICES ASSUME Init PROVE JobInv  OBVIOUS
<1>2. /\ exCBs = <<>> /\ exFns = <<>> /\ ran = <<>> /\ numJobs = 0
      /\ \A t \in Thread : mXCBs[t] = <<>> /\ mCBs[t] = <<>> /\ mFns[t] = <<>> /\ nextCB[t] = NoJob
  BY DEF Init
<1>3. QueuesInOrder /\ QueuesOfKind
  BY <1>2, NoJobs DEF QueuesInOrder, QueuesOfKind, OfKind
<1>4. HeldByOwner /\ OthersApart  BY <1>2, NoJobs DEF HeldByOwner, OthersApart
<1>5. CBsInOrder  BY <1>2, NoJobs DEF CBsInOrder
<1>6. Issued = {}  BY <1>2 DEF Issued
<1> QED BY <1>3, <1>4, <1>5, <1>6 DEF JobInv

\* Until a ring grows the invariant of the jobs holds, for any number of threads
\* and of jobs.
THEOREM JobsAccounted == Spec => []JobsKept
<1>1. ASSUME TypeOK, IInv, JobsKept, [Next]_vars PROVE JobsKept'
  <2> SUFFICES ASSUME ~grown' PROVE JobInv'  BY DEF JobsKept
  <2>1. CASE Next
    <3>1. ~grown  BY <1>1, <2>1, TypesKept
    <3>2. JobTypes /\ JobInv  BY <1>1, <3>1, OnlyJobs DEF JobsKept
    <3>3. ASSUME NEW t \in Thread, NEW batch \in Batch,
                 Acquire(t, batch) \/ Enter(t, batch) \/ Reenter(t, batch)
          PROVE  JobInv'
      BY <1>1, <3>2, <3>3, AcquireKeepsJobs, EnterKeepsJobs, ReenterKeepsJobs
    <3>4. ASSUME NEW t \in Thread, RunnerStep(t) PROVE JobInv'
      BY <1>1, <3>2, <3>4, RunExKeepsJobs, MoveKeepsJobs, SwapKeepsJobs, RunFnKeepsJobs, PopCBKeepsJobs,
         ReturnKeepsJobs, NothingThrows
         DEF RunnerStep
    <3> QED BY <2>1, <3>3, <3>4 DEF Next
  <2>2. CASE UNCHANGED vars
    <3>0. JobInv  BY <1>1, <2>2 DEF vars, JobsKept
    <3>2. QueuesInOrder' /\ HeldByOwner' /\ OthersApart'
      BY <2>2, <3>0 DEF vars, shared, handle, JobInv, QueuesInOrder, HeldByOwner, OthersApart
    <3>3. QueuesOfKind'  BY <2>2, <3>0 DEF vars, shared, handle, JobInv, QueuesOfKind, OfKind, Issued
    <3>4. CBsInOrder'  BY <2>2, <3>0 DEF vars, shared, handle, JobInv, CBsInOrder
    <3>5. (\A j \in Issued : Somewhere(j))'
      BY <2>2, <3>0 DEF vars, shared, handle, JobInv, Somewhere, Issued
    <3> QED BY <3>2, <3>3, <3>4, <3>5 DEF JobInv
  <2> QED BY <1>1, <2>1, <2>2
<1>2. Init => JobsKept  BY InitJobs DEF JobsKept
<1> QED BY <1>1, <1>2, Owned, TypesCorrect, PTL DEF Spec

\* As long as no ring has grown, coroutines without an executor are resumed in the
\* order of their pushes, but for one that runReturnLast is about to give to its
\* caller, however many threads push jobs and enter the queue.
THEOREM CoroutinesInOrder == Spec => []ResumedInOrder
<1>1. ASSUME JobsKept PROVE ResumedInOrder
  <2> SUFFICES ASSUME JobInv, NEW j \in Issued, NEW h \in Issued, kind[j] = "cb", kind[h] = "cb", j < h,
                      h \in ToSet(ran), j \notin ToSet(ran)
               PROVE  \E t \in Thread : pc[t] = "return" /\ nextCB[t] = j
    BY <1>1 DEF ResumedInOrder, JobsKept
  <2>1. j \in Nat /\ h \in Nat /\ j # NoJob /\ ~(h < j)  BY DEF Issued, NoJob
  <2>2. j \notin ToSet(exCBs) /\ \A t \in Thread : j \notin ToSet(mCBs[t])
    BY <2>1 DEF JobInv, CBsInOrder
  <2>3. j \notin ToSet(exFns) /\ \A t \in Thread : j \notin ToSet(mFns[t]) \cup ToSet(mXCBs[t])
    BY DEF JobInv, QueuesOfKind, OfKind
  <2>4. PICK t \in Thread : j = nextCB[t]
    <3>1. Somewhere(j)  BY DEF JobInv
    <3> QED BY <2>2, <2>3, <3>1 DEF Somewhere
  <2>5. pc[t] = "return"  BY <2>1, <2>4 DEF JobInv, CBsInOrder
  <2> QED BY <2>4, <2>5
<1> QED BY <1>1, JobsAccounted, PTL

\* The jobs at the places of the shared queues, of the history and of a thread.
LEMMA PlaceCases ==
    ASSUME NEW p \in Place
    PROVE  \/ p = <<"exCBs">> /\ JobsAt(p) = exCBs
           \/ p = <<"exFns">> /\ JobsAt(p) = exFns
           \/ p = <<"ran">> /\ JobsAt(p) = ran
           \/ \E t \in Thread : \/ p = <<"mXCBs", t>> /\ JobsAt(p) = mXCBs[t]
                                \/ p = <<"mCBs", t>> /\ JobsAt(p) = mCBs[t]
                                \/ p = <<"mFns", t>> /\ JobsAt(p) = mFns[t]
                                \/ p = <<"nextCB", t>> /\ JobsAt(p) = IF nextCB[t] = NoJob THEN <<>> ELSE <<nextCB[t]>>
<1>1. CASE p = <<"exCBs">>  BY <1>1 DEF JobsAt
<1>2. CASE p = <<"exFns">>  BY <1>2 DEF JobsAt
<1>3. CASE p = <<"ran">>  BY <1>3 DEF JobsAt
<1>4. CASE p \in {"mXCBs", "mCBs", "mFns", "nextCB"} \X Thread
  <2>1. PICK k \in {"mXCBs", "mCBs", "mFns", "nextCB"}, t \in Thread : p = <<k, t>>  BY <1>4
  <2>2. p[1] = k /\ p[2] = t  BY <2>1
  <2>3. CASE k = "mXCBs"  BY <2>1, <2>2, <2>3 DEF JobsAt
  <2>4. CASE k = "mCBs"  BY <2>1, <2>2, <2>4 DEF JobsAt
  <2>5. CASE k = "mFns"  BY <2>1, <2>2, <2>5 DEF JobsAt
  <2>6. CASE k = "nextCB"
    <3>1. JobsAt(p) = IF nextCB[t] = NoJob THEN <<>> ELSE <<nextCB[t]>>  BY <2>2, <2>6 DEF JobsAt
    <3> QED BY <2>1, <2>6, <3>1
  <2> QED BY <2>1, <2>3, <2>4, <2>5, <2>6
<1> QED BY <1>1, <1>2, <1>3, <1>4 DEF Place

\* The sets of these jobs.
LEMMA PlaceSets ==
    ASSUME TypeOK, JobTypes, JobInv, NEW p \in Place
    PROVE  /\ IsInjective(JobsAt(p))
           /\ \/ p = <<"exCBs">> /\ ToSet(JobsAt(p)) = ToSet(exCBs)
              \/ p = <<"exFns">> /\ ToSet(JobsAt(p)) = ToSet(exFns)
              \/ p = <<"ran">> /\ ToSet(JobsAt(p)) = ToSet(ran)
              \/ \E t \in Thread : \/ p = <<"mXCBs", t>> /\ ToSet(JobsAt(p)) = ToSet(mXCBs[t])
                                   \/ p = <<"mCBs", t>> /\ ToSet(JobsAt(p)) = ToSet(mCBs[t])
                                   \/ p = <<"mFns", t>> /\ ToSet(JobsAt(p)) = ToSet(mFns[t])
                                   \/ p = <<"nextCB", t>> /\ ToSet(JobsAt(p)) = {nextCB[t]} \ {NoJob}
<1>0. \A s \in Seq(Job) : Increasing(s) => IsInjective(s)  BY JobNumbers, IncreasingIsInjective
<1>1. IsInjective(exCBs) /\ IsInjective(exFns) /\ IsInjective(ran)
  BY <1>0, QueueTypes DEF JobInv, QueuesInOrder
<1>2. \A t \in Thread : IsInjective(mXCBs[t]) /\ IsInjective(mCBs[t]) /\ IsInjective(mFns[t])
  BY <1>0, QueueTypes DEF JobInv, QueuesInOrder
<1>3. ASSUME NEW t \in Thread, NEW s, s = IF nextCB[t] = NoJob THEN <<>> ELSE <<nextCB[t]>>
      PROVE  IsInjective(s) /\ ToSet(s) = {nextCB[t]} \ {NoJob}
  <2>1. CASE nextCB[t] = NoJob  BY <1>3, <2>1, NoJobs
  <2>2. CASE nextCB[t] # NoJob
    <3>1. s = <<nextCB[t]>>  BY <1>3, <2>2
    <3>2. s \in Seq({nextCB[t]}) /\ Len(s) = 1 /\ s[1] = nextCB[t] /\ DOMAIN s = {1}  BY <3>1
    <3>3. \A x : x \in ToSet(s) <=> x = nextCB[t]
      <4>1. \A x : x \in ToSet(s) <=> \E i \in 1..Len(s) : s[i] = x  BY <3>2, InToSet
      <4> QED BY <3>2, <4>1
    <3>4. IsInjective(s)  BY <3>2 DEF IsInjective
    <3> QED BY <2>2, <3>3, <3>4
  <2> QED BY <2>1, <2>2
<1>4. CASE p = <<"exCBs">> /\ JobsAt(p) = exCBs  BY <1>1, <1>4
<1>5. CASE p = <<"exFns">> /\ JobsAt(p) = exFns  BY <1>1, <1>5
<1>6. CASE p = <<"ran">> /\ JobsAt(p) = ran  BY <1>1, <1>6
<1>7. ASSUME NEW t \in Thread, p = <<"mXCBs", t>>, JobsAt(p) = mXCBs[t]
      PROVE  IsInjective(JobsAt(p)) /\ p = <<"mXCBs", t>> /\ ToSet(JobsAt(p)) = ToSet(mXCBs[t])
  BY <1>2, <1>7
<1>8. ASSUME NEW t \in Thread, p = <<"mCBs", t>>, JobsAt(p) = mCBs[t]
      PROVE  IsInjective(JobsAt(p)) /\ p = <<"mCBs", t>> /\ ToSet(JobsAt(p)) = ToSet(mCBs[t])
  BY <1>2, <1>8
<1>9. ASSUME NEW t \in Thread, p = <<"mFns", t>>, JobsAt(p) = mFns[t]
      PROVE  IsInjective(JobsAt(p)) /\ p = <<"mFns", t>> /\ ToSet(JobsAt(p)) = ToSet(mFns[t])
  BY <1>2, <1>9
<1>10. ASSUME NEW t \in Thread, p = <<"nextCB", t>>,
              JobsAt(p) = IF nextCB[t] = NoJob THEN <<>> ELSE <<nextCB[t]>>
       PROVE  IsInjective(JobsAt(p)) /\ p = <<"nextCB", t>> /\ ToSet(JobsAt(p)) = {nextCB[t]} \ {NoJob}
  BY <1>3, <1>10
<1>11. CASE \E t \in Thread : \/ p = <<"mXCBs", t>> /\ JobsAt(p) = mXCBs[t]
                              \/ p = <<"mCBs", t>> /\ JobsAt(p) = mCBs[t]
                              \/ p = <<"mFns", t>> /\ JobsAt(p) = mFns[t]
                              \/ p = <<"nextCB", t>> /\ JobsAt(p) = IF nextCB[t] = NoJob THEN <<>> ELSE <<nextCB[t]>>
  BY <1>7, <1>8, <1>9, <1>10, <1>11
<1> QED BY <1>4, <1>5, <1>6, <1>11, PlaceCases

\* Jobs of different places are different jobs: their kinds differ, one is before
\* the other, or one has been run.
LEMMA PlacesApart ==
    ASSUME TypeOK, JobTypes, IInv, JobInv
    PROVE  /\ ToSet(exCBs) \cap ToSet(exFns) = {} /\ ToSet(exCBs) \cap ToSet(ran) = {}
           /\ ToSet(exFns) \cap ToSet(ran) = {}
           /\ \A t \in Thread, S \in {ToSet(exCBs), ToSet(exFns), ToSet(ran)} :
                 /\ S \cap ToSet(mXCBs[t]) = {} /\ S \cap ToSet(mCBs[t]) = {}
                 /\ S \cap ToSet(mFns[t]) = {} /\ nextCB[t] \notin S
           /\ \A t, u \in Thread :
                 /\ ToSet(mXCBs[t]) \cap ToSet(mCBs[u]) = {} /\ ToSet(mXCBs[t]) \cap ToSet(mFns[u]) = {}
                 /\ ToSet(mCBs[t]) \cap ToSet(mFns[u]) = {}
                 /\ nextCB[t] \notin ToSet(mXCBs[u]) /\ nextCB[t] \notin ToSet(mCBs[u])
                 /\ nextCB[t] \notin ToSet(mFns[u])
           /\ \A t \in Thread : \A u \in Thread \ {t} :
                 /\ ToSet(mXCBs[t]) \cap ToSet(mXCBs[u]) = {} /\ ToSet(mCBs[t]) \cap ToSet(mCBs[u]) = {}
                 /\ ToSet(mFns[t]) \cap ToSet(mFns[u]) = {}
                 /\ nextCB[t] = NoJob \/ nextCB[t] # nextCB[u]
<1>0. /\ ToSet(ran) \subseteq Job /\ ToSet(exCBs) \subseteq Job /\ ToSet(exFns) \subseteq Job
      /\ \A t \in Thread : ToSet(mXCBs[t]) \subseteq Job /\ ToSet(mCBs[t]) \subseteq Job /\ ToSet(mFns[t]) \subseteq Job
      /\ \A j \in Job : ~(j < j) /\ j # NoJob
  <2>1. \A j \in Job : ~(j < j) /\ j # NoJob  BY JobNumbers
  <2> QED BY <2>1, QueueTypes, JobNumbers
<1>1. /\ \A j \in ToSet(exCBs) : kind[j] = "cb"
      /\ \A j \in ToSet(exFns) : kind[j] = "fn"
      /\ \A t \in Thread : /\ \A j \in ToSet(mXCBs[t]) : kind[j] = "ex"
                           /\ \A j \in ToSet(mCBs[t]) : kind[j] = "cb"
                           /\ \A j \in ToSet(mFns[t]) : kind[j] = "fn"
                           /\ nextCB[t] # NoJob => kind[nextCB[t]] = "cb"
  BY DEF JobInv, QueuesOfKind, OfKind
<1>2. ToSet(exCBs) \cap ToSet(exFns) = {} /\ ToSet(exCBs) \cap ToSet(ran) = {} /\ ToSet(exFns) \cap ToSet(ran) = {}
  BY <1>0, <1>1 DEF JobInv, CBsInOrder, OthersApart
<1>3. ASSUME NEW t \in Thread
      PROVE  /\ ToSet(exCBs) \cap ToSet(mXCBs[t]) = {} /\ ToSet(exCBs) \cap ToSet(mCBs[t]) = {}
             /\ ToSet(exCBs) \cap ToSet(mFns[t]) = {} /\ nextCB[t] \notin ToSet(exCBs)
  BY <1>0, <1>1 DEF JobInv, CBsInOrder
<1>4. ASSUME NEW t \in Thread
      PROVE  /\ ToSet(exFns) \cap ToSet(mXCBs[t]) = {} /\ ToSet(exFns) \cap ToSet(mCBs[t]) = {}
             /\ ToSet(exFns) \cap ToSet(mFns[t]) = {} /\ nextCB[t] \notin ToSet(exFns)
  BY <1>0, <1>1 DEF JobInv, OthersApart
<1>5. ASSUME NEW t \in Thread
      PROVE  /\ ToSet(ran) \cap ToSet(mXCBs[t]) = {} /\ ToSet(ran) \cap ToSet(mCBs[t]) = {}
             /\ ToSet(ran) \cap ToSet(mFns[t]) = {} /\ nextCB[t] \notin ToSet(ran)
  BY <1>0, <1>1 DEF JobInv, CBsInOrder, OthersApart
<1>6. ASSUME NEW t \in Thread, NEW u \in Thread
      PROVE  /\ ToSet(mXCBs[t]) \cap ToSet(mCBs[u]) = {} /\ ToSet(mXCBs[t]) \cap ToSet(mFns[u]) = {}
             /\ ToSet(mCBs[t]) \cap ToSet(mFns[u]) = {}
             /\ nextCB[t] \notin ToSet(mXCBs[u]) /\ nextCB[t] \notin ToSet(mCBs[u])
             /\ nextCB[t] \notin ToSet(mFns[u])
  BY <1>0, <1>1 DEF JobInv, CBsInOrder
<1>7. ASSUME NEW t \in Thread, NEW u \in Thread \ {t}
      PROVE  /\ ToSet(mXCBs[t]) \cap ToSet(mXCBs[u]) = {} /\ ToSet(mCBs[t]) \cap ToSet(mCBs[u]) = {}
             /\ ToSet(mFns[t]) \cap ToSet(mFns[u]) = {}
             /\ nextCB[t] = NoJob \/ nextCB[t] # nextCB[u]
  <2>1. ~mAquired[t] \/ ~mAquired[u]  BY DEF IInv, OneRunner
  <2>2. (mCBs[t] = <<>> /\ mFns[t] = <<>>) \/ (mCBs[u] = <<>> /\ mFns[u] = <<>>)
    BY <2>1 DEF JobInv, HeldByOwner
  <2> QED BY <2>2, NoJobs DEF JobInv, OthersApart, CBsInOrder
<1> QED BY <1>2, <1>3, <1>4, <1>5, <1>6, <1>7

\* As long as no ring has grown, every job is in exactly one place: a job is never
\* run twice, taken by two threads or forgotten, for any number of threads and jobs.
THEOREM JobsInOnePlace == Spec => []InOnePlace
<1>1. ASSUME TypeOK, IInv, JobsKept PROVE InOnePlace
  <2> USE <1>1
  <2> SUFFICES ASSUME ~grown, JobTypes, JobInv PROVE InOnePlace
    BY OnlyJobs DEF JobsKept, InOnePlace
  <2>1. ASSUME NEW p \in Place PROVE ToSet(JobsAt(p)) \subseteq Issued
    BY PlaceSets, AllIssued
  <2>2. ASSUME NEW j \in Issued PROVE \E p \in Place : j \in ToSet(JobsAt(p))
    <3>0. j # NoJob /\ Somewhere(j)  BY JobNumbers DEF JobInv
    <3>1. /\ <<"ran">> \in Place /\ <<"exCBs">> \in Place /\ <<"exFns">> \in Place
          /\ JobsAt(<<"ran">>) = ran /\ JobsAt(<<"exCBs">>) = exCBs /\ JobsAt(<<"exFns">>) = exFns
      BY DEF Place, JobsAt
    <3>2. CASE j \in ToSet(ran) \cup ToSet(exCBs) \cup ToSet(exFns)  BY <3>1, <3>2
    <3>3. ASSUME NEW t \in Thread, j \in ToSet(mXCBs[t]) \cup ToSet(mCBs[t]) \cup ToSet(mFns[t]) \cup {nextCB[t]}
          PROVE  \E p \in Place : j \in ToSet(JobsAt(p))
      <4>1. <<"mXCBs", t>> \in Place /\ <<"mCBs", t>> \in Place /\ <<"mFns", t>> \in Place /\ <<"nextCB", t>> \in Place
        BY DEF Place
      <4>2. /\ JobsAt(<<"mXCBs", t>>) = mXCBs[t] /\ JobsAt(<<"mCBs", t>>) = mCBs[t]
            /\ JobsAt(<<"mFns", t>>) = mFns[t]
        BY DEF JobsAt
      <4>3. ToSet(JobsAt(<<"nextCB", t>>)) = {nextCB[t]} \ {NoJob}
        <5>1. PICK p \in Place : p = <<"nextCB", t>>  BY <4>1
        <5>2. \A u \in Thread : /\ p # <<"mXCBs", u>> /\ p # <<"mCBs", u>> /\ p # <<"mFns", u>>
                                /\ p = <<"nextCB", u>> => u = t
          BY <5>1
        <5>3. p # <<"exCBs">> /\ p # <<"exFns">> /\ p # <<"ran">>
          <6>1. Len(p) = 2 /\ Len(<<"exCBs">>) = 1 /\ Len(<<"exFns">>) = 1 /\ Len(<<"ran">>) = 1  BY <5>1
          <6> QED BY <6>1
        <5> QED BY <5>1, <5>2, <5>3, PlaceSets
      <4> QED BY <3>0, <3>3, <4>1, <4>2, <4>3
    <3> QED BY <3>0, <3>2, <3>3 DEF Somewhere
  <2>3. UNION {ToSet(JobsAt(p)) : p \in Place} = Issued  BY <2>1, <2>2
  <2>4. \A p \in Place : IsInjective(JobsAt(p))  BY PlaceSets
  <2>5. ASSUME NEW p \in Place, NEW q \in Place, p # q PROVE ToSet(JobsAt(p)) \cap ToSet(JobsAt(q)) = {}
    <3> DEFINE P == ToSet(JobsAt(p))
               Q == ToSet(JobsAt(q))
    <3>0. \/ q = <<"exCBs">> /\ Q = ToSet(exCBs)
          \/ q = <<"exFns">> /\ Q = ToSet(exFns)
          \/ q = <<"ran">> /\ Q = ToSet(ran)
          \/ \E t \in Thread : \/ q = <<"mXCBs", t>> /\ Q = ToSet(mXCBs[t])
                               \/ q = <<"mCBs", t>> /\ Q = ToSet(mCBs[t])
                               \/ q = <<"mFns", t>> /\ Q = ToSet(mFns[t])
                               \/ q = <<"nextCB", t>> /\ Q = {nextCB[t]} \ {NoJob}
      BY PlaceSets
    <3>00. \/ p = <<"exCBs">> /\ P = ToSet(exCBs)
           \/ p = <<"exFns">> /\ P = ToSet(exFns)
           \/ p = <<"ran">> /\ P = ToSet(ran)
           \/ \E t \in Thread : \/ p = <<"mXCBs", t>> /\ P = ToSet(mXCBs[t])
                                \/ p = <<"mCBs", t>> /\ P = ToSet(mCBs[t])
                                \/ p = <<"mFns", t>> /\ P = ToSet(mFns[t])
                                \/ p = <<"nextCB", t>> /\ P = {nextCB[t]} \ {NoJob}
      BY PlaceSets
    <3> HIDE DEF P, Q
    <3>1. ASSUME p = <<"exCBs">> /\ P = ToSet(exCBs) PROVE P \cap Q = {}
      BY <2>5, <3>0, <3>1, PlacesApart
    <3>2. ASSUME p = <<"exFns">> /\ P = ToSet(exFns) PROVE P \cap Q = {}
      BY <2>5, <3>0, <3>2, PlacesApart
    <3>3. ASSUME p = <<"ran">> /\ P = ToSet(ran) PROVE P \cap Q = {}
      BY <2>5, <3>0, <3>3, PlacesApart
    <3>4. ASSUME NEW t \in Thread, p = <<"mXCBs", t>> /\ P = ToSet(mXCBs[t]) PROVE P \cap Q = {}
      BY <2>5, <3>0, <3>4, PlacesApart
    <3>5. ASSUME NEW t \in Thread, p = <<"mCBs", t>> /\ P = ToSet(mCBs[t]) PROVE P \cap Q = {}
      BY <2>5, <3>0, <3>5, PlacesApart
    <3>6. ASSUME NEW t \in Thread, p = <<"mFns", t>> /\ P = ToSet(mFns[t]) PROVE P \cap Q = {}
      BY <2>5, <3>0, <3>6, PlacesApart
    <3>7. ASSUME NEW t \in Thread, p = <<"nextCB", t>> /\ P = {nextCB[t]} \ {NoJob} PROVE P \cap Q = {}
      BY <2>5, <3>0, <3>7, PlacesApart
    <3>8. P \cap Q = {}  BY <3>00, <3>1, <3>2, <3>3, <3>4, <3>5, <3>6, <3>7
    <3> QED BY <3>8 DEF P, Q
  <2> QED BY <2>3, <2>4, <2>5 DEF InOnePlace
<1> QED BY <1>1, JobsAccounted, Owned, TypesCorrect, PTL
-----------------------------------------------------------------------------
(* Positions and slots of a ring buffer *)

\* Division with a rest.
LEMMA Quotient ==
    ASSUME NEW a \in Nat, NEW v \in Nat, v > 0
    PROVE  a \div v \in Int /\ a = v * (a \div v) + (a % v)
OBVIOUS

\* Two positions less than a buffer apart are different slots.
LEMMA SlotsApart ==
    ASSUME NEW a \in Nat, NEW b \in Nat, NEW v \in Nat \ {0}, a < b, b < a + v
    PROVE  a % v # b % v
<1> SUFFICES ASSUME a % v = b % v PROVE FALSE  OBVIOUS
<1>0. v \in Nat /\ v > 0  OBVIOUS
<1>1. PICK q \in Int : a = v * q + (a % v)
  <2>1. a \div v \in Int /\ a = v * (a \div v) + (a % v)  BY <1>0, Quotient
  <2> QED BY ONLY <2>1
<1>2. PICK p \in Int : b = v * p + (b % v)
  <2>1. b \div v \in Int /\ b = v * (b \div v) + (b % v)  BY <1>0, Quotient
  <2> QED BY ONLY <2>1
<1>3. a % v \in Int /\ v * q \in Int /\ v * p \in Int  OBVIOUS
<1>4. b - a = v * p - v * q  BY <1>1, <1>2, <1>3
<1>5. v * p - v * q = v * (p - q)  OBVIOUS
<1>6. ASSUME NEW k \in Int, 0 < v * k PROVE v * k >= v  BY <1>6
<1>7. b - a >= v  BY <1>4, <1>5, <1>6
<1> QED BY <1>7

\* A position has a slot.
LEMMA SlotInBuffer ==
    ASSUME NEW a \in Nat, NEW v \in Nat \ {0}
    PROVE  a % v \in 0..(v - 1)
OBVIOUS
-----------------------------------------------------------------------------
(* CBQueue: the ring buffer of callbacks *)

\* The buffer is indexed from 0, is never smaller than the array it began with,
\* and has room for what the head and the tail say is in it.
Buffer ==
    /\ VecSize(mVec) \in Nat \ {0} /\ ArraySize <= VecSize(mVec)
    /\ DOMAIN mVec = 0..(VecSize(mVec) - 1)
    /\ mVec = [i \in DOMAIN mVec |-> mVec[i]]

Counts ==
    /\ mHead \in Nat /\ mTail \in Nat /\ fifo \in Seq(Callback)
    /\ mHead = mTail + Len(fifo) /\ Len(fifo) <= VecSize(mVec)

RingInv == Buffer /\ Counts /\ FifoUntilGrown
-----------------------------------------------------------------------------
\* The size of a buffer that is indexed from 0.
LEMMA SizeOfBuffer ==
    ASSUME NEW v, NEW n \in Nat \ {0}, DOMAIN v = 0..(n - 1)
    PROVE  VecSize(v) = n
<1>1. Cardinality(0..(n - 1)) = IF 0 > n - 1 THEN 0 ELSE (n - 1) - 0 + 1  BY FS_Interval
<1> QED BY <1>1 DEF VecSize

\* The queue begins empty, in the array.
LEMMA RingInitInv == RingInit => RingInv
<1> SUFFICES ASSUME RingInit PROVE RingInv  OBVIOUS
<1>1. DOMAIN mVec = 0..(ArraySize - 1) /\ ArraySize \in Nat \ {0}
  BY CBQueueAssumption DEF RingInit, CBQueueAssumption
<1>2. VecSize(mVec) = ArraySize  BY <1>1, SizeOfBuffer
<1>3. Buffer  BY <1>1, <1>2 DEF RingInit, Buffer
<1>4. fifo \in Seq(Callback) /\ Len(fifo) = 0  BY DEF RingInit
<1>5. Counts  BY <1>1, <1>2, <1>4 DEF RingInit, Counts
<1>6. FifoUntilGrown  BY <1>4 DEF FifoUntilGrown, HoldsFifo
<1> QED BY <1>3, <1>5, <1>6 DEF RingInv

\* A push into a buffer with room takes a slot that no waiting handle has.
LEMMA PushRoomStep ==
    ASSUME RingInv, NEW h \in Callback, PushRoom(h)
    PROVE  RingInv'
<1> DEFINE v == VecSize(mVec)
           i == mHead % v
<1>1. /\ v \in Nat \ {0} /\ mHead \in Nat /\ mTail \in Nat /\ fifo \in Seq(Callback) /\ Len(fifo) \in Nat
      /\ mHead = mTail + Len(fifo) /\ Len(fifo) < v /\ DOMAIN mVec = 0..(v - 1)
  BY DEF RingInv, Buffer, Counts, PushRoom
<1>2. mVec' = [mVec EXCEPT ![i] = h] /\ mHead' = mHead + 1 /\ mTail' = mTail /\ fifo' = Append(fifo, h)
  BY DEF PushRoom
<1>3. DOMAIN mVec' = DOMAIN mVec /\ VecSize(mVec)' = v  BY <1>2 DEF VecSize
<1>4. i \in 0..(v - 1)  BY <1>1, SlotInBuffer
<1>5. Buffer'
  <2>1. mVec' = [j \in DOMAIN mVec |-> mVec'[j]]  BY <1>2
  <2> QED BY <1>1, <1>3, <2>1 DEF RingInv, Buffer
<1>6. /\ fifo' \in Seq(Callback) /\ Len(fifo') = Len(fifo) + 1 /\ fifo'[Len(fifo) + 1] = h
      /\ \A k \in 1..Len(fifo) : fifo'[k] = fifo[k]
  BY <1>1, <1>2
<1>7. Counts'  BY <1>1, <1>2, <1>3, <1>6 DEF Counts
<1>8. FifoUntilGrown'
  <2> SUFFICES ASSUME v = ArraySize, NEW k \in 1..Len(fifo')
               PROVE  mVec'[(mTail + k - 1) % v] = fifo'[k]
    BY <1>2, <1>3 DEF FifoUntilGrown, HoldsFifo
  <2>1. CASE k = Len(fifo) + 1
    <3>1. mTail + k - 1 = mHead  BY <1>1, <2>1
    <3>2. mVec'[i] = h  BY <1>1, <1>2, <1>4
    <3> QED BY <1>6, <2>1, <3>1, <3>2
  <2>2. CASE k # Len(fifo) + 1
    <3>1. k \in 1..Len(fifo)  BY <1>1, <1>6, <2>2
    <3>2. PICK a \in Nat : a = mTail + k - 1 /\ a < mHead /\ mHead < a + v  BY <1>1, <3>1
    <3>3. a % v # i /\ a % v \in 0..(v - 1)  BY <1>1, <3>2, SlotsApart, SlotInBuffer
    <3>4. mVec'[a % v] = mVec[a % v]  BY <1>1, <1>2, <3>3
    <3>5. mVec[a % v] = fifo[k]  BY <3>1, <3>2 DEF RingInv, FifoUntilGrown, HoldsFifo
    <3> QED BY <1>6, <3>1, <3>2, <3>4, <3>5
  <2> QED BY <2>1, <2>2
<1> QED BY <1>5, <1>7, <1>8 DEF RingInv

\* The greater of two sizes.
LEMMA MaxOfTwo ==
    ASSUME NEW a \in Nat, NEW b \in Nat
    PROVE  Max({a, b}) \in Nat /\ Max({a, b}) >= a
<1>1. \E x \in {a, b} : \A y \in {a, b} : x >= y  OBVIOUS
<1>2. Max({a, b}) \in {a, b} /\ \A y \in {a, b} : Max({a, b}) >= y  BY <1>1 DEF Max
<1> QED BY <1>2

\* A push into a full buffer replaces it by one at least twice as large.
LEMMA PushGrowStep ==
    ASSUME RingInv, NEW h \in Callback, PushGrow(h)
    PROVE  RingInv'
<1> DEFINE v == VecSize(mVec)
           w == Max({v * 2, MinVecSize})
<1>1. /\ v \in Nat \ {0} /\ ArraySize <= v /\ mHead \in Nat /\ mTail \in Nat /\ fifo \in Seq(Callback)
      /\ Len(fifo) \in Nat /\ mHead = mTail + Len(fifo) /\ Len(fifo) = v /\ ArraySize \in Nat
  BY CBQueueAssumption DEF RingInv, Buffer, Counts, PushGrow, CBQueueAssumption
<1>2. w \in Nat /\ w >= v * 2 /\ w \in Nat \ {0} /\ w > v
  <2>1. v * 2 \in Nat /\ MinVecSize \in Nat  BY <1>1, CBQueueAssumption DEF CBQueueAssumption
  <2>2. w \in Nat /\ w >= v * 2  BY <2>1, MaxOfTwo
  <2> QED BY <1>1, <2>2
<1>3. DOMAIN Grown = 0..(w - 1)  BY DEF Grown
<1>4. mVec' = [Grown EXCEPT ![Size % v] = h] /\ mHead' = Size + 1 /\ mTail' = 0 /\ fifo' = Append(fifo, h)
  BY DEF PushGrow
<1>5. DOMAIN mVec' = 0..(w - 1)  BY <1>3, <1>4
<1> HIDE DEF w
<1>6. VecSize(mVec)' = w  BY <1>2, <1>5, SizeOfBuffer
<1>7. Buffer'
  <2>1. mVec' = [j \in DOMAIN mVec' |-> mVec'[j]]  BY <1>4
  <2> QED BY <1>1, <1>2, <1>5, <1>6, <2>1 DEF Buffer
<1>8. Counts'
  <2>0. fifo \in Seq(Callback) /\ fifo' = Append(fifo, h)  BY <1>1, <1>4
  <2>1. fifo' \in Seq(Callback) /\ Len(fifo') = Len(fifo) + 1  BY ONLY <2>0, h \in Callback
  <2>2. Size = Len(fifo)  BY <1>1 DEF Size
  <2> QED BY <1>1, <1>2, <1>4, <1>6, <2>1, <2>2 DEF Counts
<1>9. FifoUntilGrown'  BY <1>1, <1>2, <1>6 DEF FifoUntilGrown
<1> QED BY <1>7, <1>8, <1>9 DEF RingInv

\* A pop leaves the slots of the other handles alone.
LEMMA PopFrontStep ==
    ASSUME RingInv, RingPopFront
    PROVE  RingInv'
<1> DEFINE v == VecSize(mVec)
           i == mTail % v
<1>1. /\ v \in Nat \ {0} /\ mHead \in Nat /\ mTail \in Nat /\ fifo \in Seq(Callback) /\ Len(fifo) \in Nat
      /\ mHead = mTail + Len(fifo) /\ Len(fifo) <= v /\ DOMAIN mVec = 0..(v - 1) /\ Len(fifo) > 0
  BY DEF RingInv, Buffer, Counts, RingPopFront, Size
<1>2. PICK left : mVec' = [mVec EXCEPT ![i] = left]  BY DEF RingPopFront
<1>3. mHead' = mHead /\ mTail' = mTail + 1 /\ fifo' = Tail(fifo)  BY DEF RingPopFront
<1>4. DOMAIN mVec' = DOMAIN mVec /\ VecSize(mVec)' = v  BY <1>2 DEF VecSize
<1>5. Buffer'
  <2>1. mVec' = [j \in DOMAIN mVec |-> mVec'[j]]  BY <1>2
  <2> QED BY <1>1, <1>4, <2>1 DEF RingInv, Buffer
<1>6. /\ fifo' \in Seq(Callback) /\ Len(fifo') = Len(fifo) - 1 /\ Len(fifo') \in Nat
      /\ \A k \in 1..Len(fifo') : fifo'[k] = fifo[k + 1]
  BY <1>1, <1>3
<1>7. Counts'  BY <1>1, <1>3, <1>4, <1>6 DEF Counts
<1>8. FifoUntilGrown'
  <2> SUFFICES ASSUME v = ArraySize, NEW k \in 1..Len(fifo')
               PROVE  mVec'[(mTail' + k - 1) % v] = fifo'[k]
    BY <1>4 DEF FifoUntilGrown, HoldsFifo
  <2>1. k \in Nat /\ k + 1 \in 1..Len(fifo)  BY <1>1, <1>6
  <2>2. PICK a \in Nat : a = mTail + k /\ mTail < a /\ a < mTail + v  BY <1>1, <2>1
  <2>3. mTail' + k - 1 = a /\ mTail + (k + 1) - 1 = a  BY <1>1, <1>3, <2>1, <2>2
  <2>4. a % v # i /\ a % v \in 0..(v - 1)  BY <1>1, <2>2, SlotsApart, SlotInBuffer
  <2>5. mVec'[a % v] = mVec[a % v]  BY <1>1, <1>2, <2>4
  <2>6. mVec[a % v] = fifo[k + 1]  BY <2>1, <2>3 DEF RingInv, FifoUntilGrown, HoldsFifo
  <2> QED BY <1>6, <2>3, <2>5, <2>6
<1> QED BY <1>5, <1>7, <1>8 DEF RingInv

\* The positions and the history always agree.
THEOREM RingKept == RingSpec => []RingInv
<1>1. ASSUME RingInv, [RingNext]_ringVars PROVE RingInv'
  <2>1. CASE RingNext  BY <1>1, <2>1, PushRoomStep, PushGrowStep, PopFrontStep DEF RingNext
  <2>2. CASE UNCHANGED ringVars
    BY <1>1, <2>2 DEF ringVars, RingInv, Buffer, Counts, FifoUntilGrown, HoldsFifo, VecSize
  <2> QED BY <1>1, <2>1, <2>2
<1> QED BY <1>1, RingInitInv, PTL DEF RingSpec

\* size() counts what was pushed and not popped, also across a growth, for every
\* size of the buffers.
THEOREM SizeIsKept == RingSpec => []SizeKept
<1>1. RingInv => SizeKept
  <2> SUFFICES ASSUME RingInv PROVE Size = Len(fifo)  BY DEF SizeKept
  <2>1. mHead \in Nat /\ mTail \in Nat /\ Len(fifo) \in Nat /\ mHead = mTail + Len(fifo)
    BY DEF RingInv, Counts
  <2> QED BY <2>1 DEF Size
<1> QED BY <1>1, RingKept, PTL

\* While the handles fit into the array the buffer is a queue, however often the
\* positions have wrapped around and for every size of the array.
THEOREM FifoWithoutGrowth == RingSpec => []FifoUntilGrown
<1>1. RingInv => FifoUntilGrown  BY DEF RingInv
<1> QED BY <1>1, RingKept, PTL
-----------------------------------------------------------------------------
(* One block of a queue *)

\* A block: its positions span at most its capacity.
IsBlock(b) ==
    /\ b = [cap |-> b.cap, mBegin |-> b.mBegin, mEnd |-> b.mEnd, data |-> b.data]
    /\ b.cap \in Nat \ {0} /\ b.mBegin \in Nat /\ b.mEnd \in Nat
    /\ b.mBegin <= b.mEnd /\ b.mEnd <= b.mBegin + b.cap
    /\ b.data \in [0..(b.cap - 1) -> Item \cup {Hole}]

\* The entries of a block as the lists that Contents joins.
Entries(b) == [n \in 1..Occupied(b) |-> Entry(At(b, b.mBegin + n - 1))]

\* What a position in use holds.
LEMMA AtType ==
    ASSUME NEW b, IsBlock(b), NEW i \in Nat
    PROVE  At(b, i) \in Item \cup {Hole} /\ i % b.cap \in 0..(b.cap - 1)
<1>1. i % b.cap \in 0..(b.cap - 1)  BY SlotInBuffer DEF IsBlock
<1> QED BY <1>1 DEF IsBlock, At

LEMMA EntryType ==
    ASSUME NEW x \in Item \cup {Hole}
    PROVE  Entry(x) \in Seq(Item)
BY DEF Entry

LEMMA EntriesType ==
    ASSUME NEW b, IsBlock(b)
    PROVE  /\ Occupied(b) \in Nat /\ Occupied(b) <= b.cap
           /\ Entries(b) \in Seq(Seq(Item)) /\ Len(Entries(b)) = Occupied(b)
           /\ InBlock(b) = FlattenSeq(Entries(b)) /\ InBlock(b) \in Seq(Item)
<1>1. Occupied(b) \in Nat /\ Occupied(b) <= b.cap  BY DEF IsBlock, Occupied
<1>2. ASSUME NEW n \in 1..Occupied(b) PROVE Entry(At(b, b.mBegin + n - 1)) \in Seq(Item)
  <2>1. b.mBegin + n - 1 \in Nat  BY <1>1 DEF IsBlock
  <2> QED BY <2>1, AtType, EntryType
<1>3. Entries(b) \in [1..Occupied(b) -> Seq(Item)]  BY <1>2 DEF Entries
<1>4. Entries(b) \in Seq(Seq(Item)) /\ Len(Entries(b)) = Occupied(b)  BY <1>1, <1>3, FunctionIsSeq
<1>5. InBlock(b) = FlattenSeq(Entries(b))  BY DEF InBlock, Entries
<1> QED BY <1>1, <1>4, <1>5, FlattenType

\* emplace_back into a block with room leaves the entries in use alone.
LEMMA EmplaceBlock ==
    ASSUME NEW b, IsBlock(b), Occupied(b) < b.cap, NEW x \in Item
    PROVE  /\ IsBlock(Emplace(b, x)) /\ Occupied(Emplace(b, x)) = Occupied(b) + 1
           /\ Emplace(b, x).cap = b.cap /\ Emplace(b, x).mBegin = b.mBegin /\ Emplace(b, x).mEnd = b.mEnd + 1
           /\ Emplace(b, x).data = [b.data EXCEPT ![b.mEnd % b.cap] = x]
           /\ InBlock(Emplace(b, x)) = Append(InBlock(b), x)
           /\ \A i \in b.mBegin..(b.mEnd - 1) : At(Emplace(b, x), i) = At(b, i)
           /\ At(Emplace(b, x), b.mEnd) = x
<1> DEFINE c == Emplace(b, x)
           s == b.mEnd % b.cap
<1>0. /\ b.cap \in Nat \ {0} /\ b.mBegin \in Nat /\ b.mEnd \in Nat
      /\ b.mBegin <= b.mEnd /\ b.mEnd < b.mBegin + b.cap
  BY DEF IsBlock, Occupied
<1>1. s \in 0..(b.cap - 1)  BY <1>0, SlotInBuffer
<1>2. /\ c = [cap |-> b.cap, mBegin |-> b.mBegin, mEnd |-> b.mEnd + 1, data |-> [b.data EXCEPT ![s] = x]]
      /\ b.data \in [0..(b.cap - 1) -> Item \cup {Hole}]
  <2>1. b.data \in [0..(b.cap - 1) -> Item \cup {Hole}]  BY DEF IsBlock
  <2>2. PICK ca, be, en, da : b = [cap |-> ca, mBegin |-> be, mEnd |-> en, data |-> da]  BY DEF IsBlock
  <2>3. c = [cap |-> ca, mBegin |-> be, mEnd |-> en + 1, data |-> [da EXCEPT ![s] = x]]
    <3>1. DOMAIN c = {"cap", "mBegin", "mEnd", "data"}  BY <2>2 DEF Emplace
    <3>2. c.cap = ca /\ c.mBegin = be  BY <2>2 DEF Emplace
    <3>3. c.mEnd = en + 1  BY <2>2 DEF Emplace
    <3>4. c.data = [da EXCEPT ![s] = x]  BY <2>2 DEF Emplace
    <3>5. c = [f \in DOMAIN c |-> c[f]]  BY <2>2 DEF Emplace
    <3> HIDE DEF c
    <3> QED BY <3>1, <3>2, <3>3, <3>4, <3>5
  <2> QED BY <2>1, <2>2, <2>3
<1>3. /\ c.cap = b.cap /\ c.mBegin = b.mBegin /\ c.mEnd = b.mEnd + 1
      /\ c.data = [b.data EXCEPT ![s] = x]
      /\ c = [cap |-> c.cap, mBegin |-> c.mBegin, mEnd |-> c.mEnd, data |-> c.data]
  BY <1>2
<1> HIDE DEF c
<1>4. c.data \in [0..(b.cap - 1) -> Item \cup {Hole}]  BY <1>1, <1>2, <1>3
<1>5. IsBlock(c)  BY <1>0, <1>3, <1>4 DEF IsBlock
<1>6. Occupied(c) = Occupied(b) + 1  BY <1>0, <1>3 DEF Occupied
<1>7. At(c, b.mEnd) = x  BY <1>1, <1>2, <1>3 DEF At
<1>8. ASSUME NEW i \in b.mBegin..(b.mEnd - 1) PROVE At(c, i) = At(b, i)
  <2>1. i \in Nat /\ i < b.mEnd /\ b.mEnd < i + b.cap  BY <1>0
  <2>2. i % b.cap # s /\ i % b.cap \in 0..(b.cap - 1)  BY <1>0, <2>1, SlotsApart, SlotInBuffer
  <2> QED BY <1>2, <1>3, <2>2 DEF At
<1>9. Entries(c) = Append(Entries(b), <<x>>)
  <2> DEFINE n == Occupied(b)
  <2>1. n \in Nat /\ n = b.mEnd - b.mBegin  BY <1>0 DEF Occupied
  <2>2. Entries(b) \in Seq(Seq(Item)) /\ Len(Entries(b)) = n  BY EntriesType
  <2>3. Entries(c) \in Seq(Seq(Item)) /\ Len(Entries(c)) = n + 1  BY <1>5, <1>6, EntriesType
  <2>4. <<x>> \in Seq(Item)  OBVIOUS
  <2>5. Append(Entries(b), <<x>>) \in Seq(Seq(Item)) /\ Len(Append(Entries(b), <<x>>)) = n + 1
    BY <2>2, <2>4
  <2>6. ASSUME NEW j \in 1..(n + 1) PROVE Entries(c)[j] = Append(Entries(b), <<x>>)[j]
    <3>1. Entries(c)[j] = Entry(At(c, b.mBegin + j - 1))  BY <1>3, <1>6 DEF Entries
    <3>2. CASE j = n + 1
      <4>1. b.mBegin + j - 1 = b.mEnd  BY <1>0, <2>1, <3>2
      <4>2. Entry(x) = <<x>>  BY DEF Entry, Item, Hole
      <4> QED BY <1>7, <2>2, <2>4, <3>1, <3>2, <4>1, <4>2
    <3>3. CASE j # n + 1
      <4>0. j \in 1..n
        <5> HIDE DEF n
        <5> QED BY <2>1, <3>3
      <4>1. j \in 1..n /\ b.mBegin + j - 1 \in b.mBegin..(b.mEnd - 1)
        <5> HIDE DEF n
        <5> QED BY <1>0, <2>1, <4>0
      <4>2. Entries(b)[j] = Entry(At(b, b.mBegin + j - 1))  BY <4>1 DEF Entries
      <4>3. Append(Entries(b), <<x>>)[j] = Entries(b)[j]  BY <2>2, <2>4, <4>1
      <4> QED BY <1>8, <3>1, <4>1, <4>2, <4>3
    <3> QED BY <3>2, <3>3
  <2> HIDE DEF n
  <2> QED BY <2>1, <2>3, <2>5, <2>6, SeqEqual
<1>10. InBlock(c) = Append(InBlock(b), x)
  <2>1. /\ Entries(b) \in Seq(Seq(Item)) /\ InBlock(b) = FlattenSeq(Entries(b))
        /\ InBlock(b) \in Seq(Item) /\ InBlock(c) = FlattenSeq(Entries(c))
    BY <1>5, EntriesType
  <2>2. PICK e \in Seq(Seq(Item)), y \in Seq(Item) : e = Entries(b) /\ y = <<x>>
    <3>1. <<x>> \in Seq(Item)  OBVIOUS
    <3> QED BY <2>1, <3>1, Zenon
  <2>3. FlattenSeq(Append(e, y)) = FlattenSeq(e) \o y  BY FlattenAppend
  <2>4. InBlock(c) = InBlock(b) \o <<x>>  BY <1>9, <2>1, <2>2, <2>3
  <2> QED BY <2>1, <2>4
<1> QED BY <1>3, <1>5, <1>6, <1>7, <1>8, <1>10 DEF c

\* Entry i of a block loses its item.
Emptied(b, i) == [b EXCEPT !.data[i % b.cap] = Hole]

\* Block c is block b without the item at position i; the list of the other
\* items stays.
WithoutItem(b, i, c) ==
    /\ IsBlock(c) /\ c.mBegin = b.mBegin /\ c.mEnd = b.mEnd /\ c.cap = b.cap
    /\ c.data = [b.data EXCEPT ![i % b.cap] = Hole]
    /\ \A j \in b.mBegin..(b.mEnd - 1) : At(c, j) = IF j = i THEN Hole ELSE At(b, j)
    /\ \E l \in Seq(Item), r \in Seq(Item), x \in Item :
           /\ InBlock(b) = (l \o <<x>>) \o r /\ InBlock(c) = (l \o <<>>) \o r
           /\ i = b.mBegin => l = <<>>

LEMMA ResetBlock ==
    ASSUME NEW b, IsBlock(b), NEW i \in Filled(b), NEW c, c = Emptied(b, i)
    PROVE  WithoutItem(b, i, c)
<1> DEFINE s == i % b.cap
<1>0. /\ b.cap \in Nat \ {0} /\ b.mBegin \in Nat /\ b.mEnd \in Nat /\ i \in Nat
      /\ b.mBegin <= i /\ i < b.mEnd /\ b.mEnd <= b.mBegin + b.cap /\ At(b, i) # Hole
  BY DEF IsBlock, Filled
<1>1. s \in 0..(b.cap - 1)  BY <1>0, SlotInBuffer
<1>2. /\ c = [cap |-> b.cap, mBegin |-> b.mBegin, mEnd |-> b.mEnd, data |-> [b.data EXCEPT ![s] = Hole]]
      /\ b.data \in [0..(b.cap - 1) -> Item \cup {Hole}]
  BY DEF IsBlock, Emptied
<1>3. /\ c.cap = b.cap /\ c.mBegin = b.mBegin /\ c.mEnd = b.mEnd
      /\ c.data = [b.data EXCEPT ![s] = Hole]
      /\ c = [cap |-> c.cap, mBegin |-> c.mBegin, mEnd |-> c.mEnd, data |-> c.data]
  BY <1>2
<1>4. c.data \in [0..(b.cap - 1) -> Item \cup {Hole}]  BY <1>1, <1>2, <1>3
<1>5. IsBlock(c)  BY <1>0, <1>3, <1>4 DEF IsBlock
<1>6. ASSUME NEW j \in b.mBegin..(b.mEnd - 1) PROVE At(c, j) = IF j = i THEN Hole ELSE At(b, j)
  <2>1. CASE j = i  BY <1>1, <1>2, <1>3, <2>1 DEF At
  <2>2. CASE j # i
    <3>1. j \in Nat /\ ((j < i /\ i < j + b.cap) \/ (i < j /\ j < i + b.cap))  BY <1>0, <2>2
    <3>2. j % b.cap # s /\ j % b.cap \in 0..(b.cap - 1)  BY <1>0, <3>1, SlotsApart, SlotInBuffer
    <3> QED BY <1>2, <1>3, <2>2, <3>2 DEF At
  <2> QED BY <2>1, <2>2
<1>7. \E l \in Seq(Item), r \in Seq(Item), x \in Item :
          /\ InBlock(b) = (l \o <<x>>) \o r /\ InBlock(c) = (l \o <<>>) \o r
          /\ i = b.mBegin => l = <<>>
  <2>0. PICK k \in Nat : k = i - b.mBegin + 1  BY <1>0
  <2>1. /\ Entries(b) \in Seq(Seq(Item)) /\ Len(Entries(b)) = Occupied(b) /\ Occupied(b) \in Nat
        /\ InBlock(b) = FlattenSeq(Entries(b))
        /\ Entries(c) \in Seq(Seq(Item)) /\ Len(Entries(c)) = Occupied(c)
        /\ InBlock(c) = FlattenSeq(Entries(c))
    BY <1>5, EntriesType
  <2>2. k \in 1..Occupied(b) /\ Occupied(b) = b.mEnd - b.mBegin  BY <1>0, <2>0 DEF Occupied
  <2>3. Occupied(c) = Occupied(b)  BY <1>3 DEF Occupied
  <2>4. Entries(b)[k] = <<At(b, i)>> /\ At(b, i) \in Item
    <3>1. b.mBegin + k - 1 = i  BY <1>0, <2>0
    <3>2. Entries(b)[k] = Entry(At(b, i))  BY <2>2, <3>1 DEF Entries
    <3>3. At(b, i) \in Item \cup {Hole}  BY <1>0, AtType
    <3> QED BY <1>0, <3>2, <3>3 DEF Entry
  <2>5. ASSUME NEW n \in 1..Occupied(b) PROVE Entries(c)[n] = IF n = k THEN <<>> ELSE Entries(b)[n]
    <3>1. Entries(c)[n] = Entry(At(c, b.mBegin + n - 1)) /\ Entries(b)[n] = Entry(At(b, b.mBegin + n - 1))
      BY <1>3, <2>3 DEF Entries
    <3>2. b.mBegin + n - 1 \in b.mBegin..(b.mEnd - 1) /\ (b.mBegin + n - 1 = i <=> n = k)  BY <1>0, <2>0, <2>2
    <3>3. CASE n = k
      <4>1. Entry(Hole) = <<>>  BY DEF Entry
      <4> QED BY <1>6, <3>1, <3>2, <3>3, <4>1
    <3>4. CASE n # k  BY <1>6, <3>1, <3>2, <3>4
    <3> QED BY <3>3, <3>4
  <2>6. i = b.mBegin => k = 1  BY <1>0, <2>0
  <2>7. PICK e \in Seq(Seq(Item)), f \in Seq(Seq(Item)) :
            e = Entries(b) /\ f = Entries(c) /\ DifferAt(e, f, k)
    BY <2>1, <2>2, <2>3, <2>5 DEF DifferAt
  <2>8. PICK l \in Seq(Item), r \in Seq(Item) :
            /\ FlattenSeq(e) = (l \o e[k]) \o r /\ FlattenSeq(f) = (l \o f[k]) \o r
            /\ EmptyBefore(e, k) => l = <<>>
            /\ k = Len(e) => r = <<>>
    <3>1. e \in Seq(Seq(Item)) /\ f \in Seq(Seq(Item)) /\ DifferAt(e, f, k)  BY <2>7
    <3> QED BY ONLY <3>1, FlattenReplace
  <2>9. e[k] = <<At(b, i)>> /\ f[k] = <<>>  BY <2>2, <2>4, <2>5, <2>7
  <2>10. i = b.mBegin => l = <<>>  BY <2>6, <2>8 DEF EmptyBefore
  <2>11. InBlock(b) = (l \o <<At(b, i)>>) \o r /\ InBlock(c) = (l \o <<>>) \o r
    BY <2>1, <2>7, <2>8, <2>9, Zenon
  <2> QED BY <2>4, <2>10, <2>11
<1> HIDE DEF s
<1> QED BY <1>3, <1>5, <1>6, <1>7 DEF WithoutItem, s

\* The holes in front are passed over: the list of a block stays.
LEMMA SkipInBlock ==
    ASSUME NEW b, IsBlock(b), NEW at \in b.mBegin..b.mEnd, NEW c, c = [b EXCEPT !.mBegin = at],
           \A i \in b.mBegin..(at - 1) : At(b, i) = Hole
    PROVE  IsBlock(c) /\ InBlock(c) = InBlock(b) /\ Filled(c) = Filled(b)
           /\ c.mBegin = at /\ c.mEnd = b.mEnd /\ c.cap = b.cap /\ c.data = b.data
<1>0. /\ b.cap \in Nat \ {0} /\ b.mBegin \in Nat /\ b.mEnd \in Nat /\ at \in Nat
      /\ b.mBegin <= at /\ at <= b.mEnd /\ b.mEnd <= b.mBegin + b.cap
  BY DEF IsBlock
<1>1. /\ c.cap = b.cap /\ c.mBegin = at /\ c.mEnd = b.mEnd /\ c.data = b.data
      /\ c = [cap |-> c.cap, mBegin |-> c.mBegin, mEnd |-> c.mEnd, data |-> c.data]
  <2>1. c = [cap |-> b.cap, mBegin |-> at, mEnd |-> b.mEnd, data |-> b.data]  BY DEF IsBlock
  <2> QED BY <2>1
<1>2. IsBlock(c)  BY <1>0, <1>1 DEF IsBlock
<1>3. \A i : At(c, i) = At(b, i)  BY <1>1 DEF At
<1>4. Filled(c) = Filled(b)
  <2>1. ASSUME NEW i \in b.mBegin..(b.mEnd - 1), At(b, i) # Hole PROVE i \in at..(b.mEnd - 1)
    <3>1. i \notin b.mBegin..(at - 1)  BY <2>1
    <3> QED BY <1>0, <3>1
  <2>2. at..(b.mEnd - 1) \subseteq b.mBegin..(b.mEnd - 1)  BY <1>0
  <2> QED BY <1>1, <1>3, <2>1, <2>2 DEF Filled
<1>5. PICK d \in Nat : d = at - b.mBegin  BY <1>0
<1>6. PICK e \in Seq(Seq(Item)), n \in Nat : e = Entries(b) /\ Len(e) = n /\ n = Occupied(b) /\ d <= n /\ InBlock(b) = FlattenSeq(e)
  <2>1. Occupied(b) = b.mEnd - b.mBegin  BY DEF Occupied
  <2>2. d <= Occupied(b)  BY <1>0, <1>5, <2>1
  <2> QED BY <2>2, EntriesType
<1>7. Entries(c) = SubSeq(e, d + 1, n)
  <2>1. Occupied(c) = n - d  BY <1>0, <1>1, <1>5, <1>6 DEF Occupied
  <2>2. Entries(c) \in Seq(Seq(Item)) /\ Len(Entries(c)) = n - d  BY <1>2, <2>1, EntriesType
  <2>3. /\ SubSeq(e, d + 1, n) \in Seq(Seq(Item)) /\ Len(SubSeq(e, d + 1, n)) = n - d
        /\ \A k \in 1..(n - d) : SubSeq(e, d + 1, n)[k] = e[d + k]
    <3>1. e \in Seq(Seq(Item)) /\ d \in 0..Len(e) /\ Len(e) = n  BY <1>6
    <3> QED BY ONLY <3>1, SuffixFacts
  <2>4. ASSUME NEW k \in 1..(n - d) PROVE Entries(c)[k] = e[d + k]
    <3>1. Entries(c)[k] = Entry(At(b, at + k - 1))  BY <1>1, <1>3, <2>1 DEF Entries
    <3>2. d + k \in 1..n  BY <1>5, <1>6
    <3>3. Entries(b)[d + k] = Entry(At(b, b.mBegin + (d + k) - 1))  BY <1>6, <3>2 DEF Entries
    <3>4. b.mBegin + (d + k) - 1 = at + k - 1  BY <1>0, <1>5
    <3> QED BY <1>6, <3>1, <3>3, <3>4
  <2> QED BY <2>2, <2>3, <2>4, SeqEqual
<1>8. FlattenSeq(e) = FlattenSeq(SubSeq(e, 1, d)) \o FlattenSeq(SubSeq(e, d + 1, n))
  <2>1. d \in 0..Len(e)  BY <1>5, <1>6
  <2>2. FlattenSeq(e) = FlattenSeq(SubSeq(e, 1, d)) \o FlattenSeq(SubSeq(e, d + 1, Len(e)))
    BY <2>1, FlattenSplit
  <2> QED BY <1>6, <2>2
<1>9. FlattenSeq(SubSeq(e, 1, d)) = <<>>
  <2>1. /\ SubSeq(e, 1, d) \in Seq(Seq(Item)) /\ Len(SubSeq(e, 1, d)) = d
        /\ \A k \in 1..d : SubSeq(e, 1, d)[k] = e[k]
    BY <1>5, <1>6
  <2>2. ASSUME NEW k \in 1..d PROVE e[k] = <<>>
    <3>0. d <= n  BY <1>6
    <3>1. k \in 1..n /\ b.mBegin + k - 1 \in b.mBegin..(at - 1)
      <4>1. k \in 1..n  BY ONLY <3>0, k \in 1..d, d \in Nat, n \in Nat
      <4>2. b.mBegin + k - 1 \in b.mBegin..(at - 1)  BY ONLY <1>0, <1>5, k \in 1..d, d \in Nat
      <4> QED BY <4>1, <4>2
    <3>2. Entries(b)[k] = Entry(At(b, b.mBegin + k - 1))  BY <1>6, <3>1 DEF Entries
    <3>3. At(b, b.mBegin + k - 1) = Hole  BY <3>1
    <3> QED BY <1>6, <3>2, <3>3 DEF Entry
  <2>3. PICK p \in Seq(Seq(Item)) : p = SubSeq(e, 1, d) /\ \A k \in 1..Len(p) : p[k] = <<>>  BY <2>1, <2>2
  <2>4. FlattenSeq(p) = <<>>  BY <2>3, FlattenNothing
  <2> QED BY <2>3, <2>4
<1>10. InBlock(c) = InBlock(b)
  <2>1. InBlock(c) = FlattenSeq(Entries(c)) /\ InBlock(c) \in Seq(Item)  BY <1>2, EntriesType
  <2>2. FlattenSeq(e) = <<>> \o InBlock(c)  BY <1>7, <1>8, <1>9, <2>1
  <2>3. <<>> \o InBlock(c) = InBlock(c)  BY <2>1, ConcatEmptySeq
  <2> QED BY <1>6, <2>2, <2>3
<1> QED BY <1>1, <1>2, <1>4, <1>10

\* A block without an item has an empty list.
LEMMA NothingFilled ==
    ASSUME NEW b, IsBlock(b), Filled(b) = {}
    PROVE  InBlock(b) = <<>>
<1>1. PICK e \in Seq(Seq(Item)) : e = Entries(b) /\ Len(e) = Occupied(b) /\ InBlock(b) = FlattenSeq(e)
  BY EntriesType
<1>2. ASSUME NEW k \in 1..Len(e) PROVE e[k] = <<>>
  <2>1. b.mBegin + k - 1 \in b.mBegin..(b.mEnd - 1)  BY <1>1 DEF IsBlock, Occupied
  <2>2. At(b, b.mBegin + k - 1) = Hole  BY <2>1 DEF Filled
  <2>3. Entries(b)[k] = Entry(At(b, b.mBegin + k - 1))  BY <1>1 DEF Entries
  <2> QED BY <1>1, <2>2, <2>3 DEF Entry
<1>3. FlattenSeq(e) = <<>>  BY <1>2, FlattenNothing
<1> QED BY <1>1, <1>3
-----------------------------------------------------------------------------
(* A list of blocks *)

Block ==
    {b \in UNION {[cap : {c}, mBegin : Nat, mEnd : Nat, data : [0..(c - 1) -> Item \cup {Hole}]] : c \in Nat \ {0}} :
        IsBlock(b)}

\* The items of a list of blocks: Contents is ContentsOf(blocks).
Lists(bs) == [k \in 1..Len(bs) |-> InBlock(bs[k])]
ContentsOf(bs) == FlattenSeq(Lists(bs))

LEMMA BlockIs ==
    ASSUME NEW b
    PROVE  b \in Block <=> IsBlock(b)
<1> SUFFICES ASSUME IsBlock(b) PROVE b \in Block  BY DEF Block
<1>1. b \in [cap : {b.cap}, mBegin : Nat, mEnd : Nat, data : [0..(b.cap - 1) -> Item \cup {Hole}]]
  BY DEF IsBlock
<1>2. b.cap \in Nat \ {0}  BY DEF IsBlock
<1> QED BY <1>1, <1>2 DEF Block

LEMMA ListsType ==
    ASSUME NEW bs \in Seq(Block)
    PROVE  /\ Lists(bs) \in Seq(Seq(Item)) /\ Len(Lists(bs)) = Len(bs)
           /\ ContentsOf(bs) \in Seq(Item)
           /\ \A k \in 1..Len(bs) : Lists(bs)[k] = InBlock(bs[k]) /\ IsBlock(bs[k])
<1>1. \A k \in 1..Len(bs) : IsBlock(bs[k])  BY BlockIs
<1>2. \A k \in 1..Len(bs) : InBlock(bs[k]) \in Seq(Item)  BY <1>1, EntriesType
<1>3. Lists(bs) \in [1..Len(bs) -> Seq(Item)] /\ Len(bs) \in Nat  BY <1>2 DEF Lists
<1>4. Lists(bs) \in Seq(Seq(Item)) /\ Len(Lists(bs)) = Len(bs)  BY <1>3, FunctionIsSeq
<1>5. \A k \in 1..Len(bs) : Lists(bs)[k] = InBlock(bs[k])  BY DEF Lists
<1> QED BY <1>1, <1>4, <1>5, FlattenType DEF ContentsOf

\* One block is replaced.
Replaced(bs, k, c) == [bs EXCEPT ![k] = c]

\* The lists cs and bs of blocks differ in block k, which is c in cs, and so do
\* the items they hold.
DifferInBlock(bs, k, c, cs) ==
    /\ cs \in Seq(Block) /\ Len(cs) = Len(bs) /\ cs[k] = c
    /\ \A i \in 1..Len(bs) : i # k => cs[i] = bs[i]
    /\ \E a \in Seq(Item), d \in Seq(Item) :
           /\ ContentsOf(bs) = (a \o InBlock(bs[k])) \o d
           /\ ContentsOf(cs) = (a \o InBlock(c)) \o d
           /\ k = 1 => a = <<>>
           /\ k = Len(bs) => d = <<>>

LEMMA ReplaceBlock ==
    ASSUME NEW bs \in Seq(Block), NEW k \in 1..Len(bs), NEW c, IsBlock(c), NEW cs, cs = Replaced(bs, k, c)
    PROVE  DifferInBlock(bs, k, c, cs)
<1>1. c \in Block  BY BlockIs
<1>2. cs \in Seq(Block) /\ Len(cs) = Len(bs) /\ cs[k] = c /\ \A i \in 1..Len(bs) : i # k => cs[i] = bs[i]
  BY <1>1 DEF Replaced
<1>3. PICK s \in Seq(Seq(Item)), t \in Seq(Seq(Item)) : s = Lists(bs) /\ t = Lists(cs)  BY <1>2, ListsType
<1>4. /\ Len(s) = Len(bs) /\ s[k] = InBlock(bs[k]) /\ t[k] = InBlock(c)
      /\ FlattenSeq(s) = ContentsOf(bs) /\ FlattenSeq(t) = ContentsOf(cs)
  <2>1. Len(s) = Len(bs) /\ s[k] = InBlock(bs[k])  BY <1>3, ListsType
  <2>2. t[k] = InBlock(cs[k])
    <3>1. k \in 1..Len(cs)  BY <1>2
    <3> QED BY <1>2, <1>3, <3>1, ListsType
  <2> QED BY <1>2, <1>3, <2>1, <2>2 DEF ContentsOf
<1>5. DifferAt(s, t, k)
  <2>1. Len(t) = Len(s)  BY <1>2, <1>3, ListsType
  <2>2. ASSUME NEW i \in 1..Len(s), i # k PROVE t[i] = s[i]
    <3>1. i \in 1..Len(bs) /\ i \in 1..Len(cs)  BY <1>2, <1>4
    <3>2. t[i] = InBlock(cs[i]) /\ s[i] = InBlock(bs[i])  BY <1>2, <1>3, <3>1, ListsType
    <3> QED BY <1>2, <2>2, <3>1, <3>2
  <2> QED BY <1>4, <2>1, <2>2 DEF DifferAt
<1>6. PICK a \in Seq(Item), d \in Seq(Item) :
          /\ FlattenSeq(s) = (a \o s[k]) \o d /\ FlattenSeq(t) = (a \o t[k]) \o d
          /\ EmptyBefore(s, k) => a = <<>>
          /\ k = Len(s) => d = <<>>
  <2>1. s \in Seq(Seq(Item)) /\ t \in Seq(Seq(Item)) /\ DifferAt(s, t, k)  BY <1>5
  <2> QED BY ONLY <2>1, FlattenReplace
<1>7. k = 1 => a = <<>>  BY <1>6 DEF EmptyBefore
<1>8. k = Len(bs) => d = <<>>  BY <1>4, <1>6
<1>9. ContentsOf(bs) = (a \o InBlock(bs[k])) \o d /\ ContentsOf(cs) = (a \o InBlock(c)) \o d
  BY ONLY <1>4, <1>6
<1> QED BY <1>2, <1>7, <1>8, <1>9, Zenon DEF DifferInBlock

\* The queue is empty and its only block has no entries, or its first entry is
\* an item.
FrontIsItem(bs) ==
    \/ Len(bs) = 1 /\ Occupied(bs[1]) = 0
    \/ Occupied(bs[1]) > 0 /\ At(bs[1], bs[1].mBegin) # Hole

\* Where SkipHoles stops: at the first item, or behind the last entry.
LEMMA SkipHolesStops ==
    ASSUME NEW bs \in Seq(Block), Len(bs) > 0
    PROVE  \E k \in 1..Len(bs) : \E at \in bs[k].mBegin..bs[k].mEnd :
               /\ SkipHoles(bs) = <<[bs[k] EXCEPT !.mBegin = at]>> \o SubSeq(bs, k + 1, Len(bs))
               /\ \A i \in 1..(k - 1) : Filled(bs[i]) = {}
               /\ \A i \in bs[k].mBegin..(at - 1) : At(bs[k], i) = Hole
               /\ (k = Len(bs) /\ at = bs[k].mEnd) \/ at \in Filled(bs[k])
<1> DEFINE full == {k \in DOMAIN bs : Filled(bs[k]) # {}}
<1>0. DOMAIN bs = 1..Len(bs) /\ Len(bs) \in Nat /\ \A k \in 1..Len(bs) : IsBlock(bs[k])
  BY BlockIs
<1>1. CASE full = {}
  <2>1. SkipHoles(bs) = <<[bs[Len(bs)] EXCEPT !.mBegin = bs[Len(bs)].mEnd]>> \o SubSeq(bs, Len(bs) + 1, Len(bs))
    BY <1>1, Zenon DEF SkipHoles
  <2>2. PICK n \in 1..Len(bs) : n = Len(bs) /\ IsBlock(bs[n])
    <3>1. Len(bs) \in 1..Len(bs)  BY <1>0
    <3> HIDE DEF full
    <3> QED BY <1>0, <3>1
  <2>3. \A i \in 1..n : Filled(bs[i]) = {}  BY <1>0, <1>1, <2>2
  <2>4. bs[n].mEnd \in bs[n].mBegin..bs[n].mEnd  BY <2>2 DEF IsBlock
  <2>5. \A i \in bs[n].mBegin..(bs[n].mEnd - 1) : At(bs[n], i) = Hole  BY <1>0, <2>2, <2>3 DEF Filled
  <2>6. \A i \in 1..(n - 1) : Filled(bs[i]) = {}  BY <1>0, <2>2, <2>3
  <2> HIDE DEF full
  <2> QED BY <2>1, <2>2, <2>4, <2>5, <2>6
<1>2. CASE full # {}
  <2> DEFINE k == CHOOSE m \in full : \A n \in full : m <= n
             at == CHOOSE i \in Filled(bs[k]) : \A j \in Filled(bs[k]) : i <= j
  <2>1. k \in full /\ \A n \in full : k <= n
    <3>1. full \in SUBSET Nat  BY <1>0
    <3>2. \E m \in full : \A n \in full : m <= n
      <4> HIDE DEF full
      <4> QED BY <1>2, <3>1, LeastNat
    <3> QED BY <3>2, Zenon
  <2>2. at \in Filled(bs[k]) /\ \A j \in Filled(bs[k]) : at <= j
    <3>1. Filled(bs[k]) # {} /\ IsBlock(bs[k])  BY <1>0, <2>1
    <3>2. Filled(bs[k]) \in SUBSET Nat
      <4> HIDE DEF k
      <4> QED BY <3>1 DEF Filled, IsBlock
    <3>3. \E m \in Filled(bs[k]) : \A j \in Filled(bs[k]) : m <= j
      <4> HIDE DEF k
      <4> QED BY <3>1, <3>2, LeastNat
    <3> HIDE DEF k
    <3> QED BY <3>3, Zenon
  <2>3. SkipHoles(bs) = <<[bs[k] EXCEPT !.mBegin = at]>> \o SubSeq(bs, k + 1, Len(bs))
    BY <1>2, Zenon DEF SkipHoles
  <2> HIDE DEF at
  <2>4. k \in 1..Len(bs) /\ IsBlock(bs[k])  BY <1>0, <2>1
  <2>5. \A i \in 1..(k - 1) : Filled(bs[i]) = {}
    <3> SUFFICES ASSUME NEW i \in 1..(k - 1), Filled(bs[i]) # {} PROVE FALSE  OBVIOUS
    <3>1. i \in 1..Len(bs) /\ i \in Nat /\ k \in Nat /\ ~(k <= i)
      <4> HIDE DEF k
      <4> QED BY <1>0, <2>4
    <3>2. i \in full  BY <1>0, <3>1
    <3> HIDE DEF full, k
    <3> QED BY <2>1, <3>1, <3>2
  <2> HIDE DEF full, k
  <2>6. at \in bs[k].mBegin..bs[k].mEnd  BY <2>2, <2>4 DEF Filled, IsBlock
  <2>7. \A i \in bs[k].mBegin..(at - 1) : At(bs[k], i) = Hole
    <3> SUFFICES ASSUME NEW i \in bs[k].mBegin..(at - 1), At(bs[k], i) # Hole PROVE FALSE  OBVIOUS
    <3>1. i \in bs[k].mBegin..(bs[k].mEnd - 1) /\ ~(at <= i)  BY <2>4, <2>6 DEF IsBlock
    <3> QED BY <2>2, <3>1 DEF Filled
  <2> QED BY <2>2, <2>3, <2>4, <2>5, <2>6, <2>7
<1> QED BY <1>1, <1>2

\* What is left of a queue of n blocks after the first k.
LEMMA Remainder ==
    ASSUME NEW n \in Nat, NEW k \in 1..n, NEW m, m = n - k
    PROVE  k \in Nat /\ 1 <= k /\ m \in Nat /\ n = k + m
OBVIOUS

\* SkipHoles keeps the items and brings one of them to the front.
LEMMA SkipHolesFacts ==
    ASSUME NEW bs \in Seq(Block), Len(bs) > 0, NEW cs, cs = SkipHoles(bs)
    PROVE  /\ cs \in Seq(Block) /\ Len(cs) > 0
           /\ ContentsOf(cs) = ContentsOf(bs) /\ FrontIsItem(cs)
           /\ \A k \in 1..Len(cs) : \E j \in 1..Len(bs) :
                  cs[k].cap = bs[j].cap /\ cs[k].data = bs[j].data /\ Filled(cs[k]) = Filled(bs[j])
<1>0. DOMAIN bs = 1..Len(bs) /\ Len(bs) \in Nat /\ \A k \in 1..Len(bs) : IsBlock(bs[k])
  BY BlockIs
<1>1. PICK k \in 1..Len(bs) : \E at \in bs[k].mBegin..bs[k].mEnd :
               /\ cs = <<[bs[k] EXCEPT !.mBegin = at]>> \o SubSeq(bs, k + 1, Len(bs))
               /\ \A i \in 1..(k - 1) : Filled(bs[i]) = {}
               /\ \A i \in bs[k].mBegin..(at - 1) : At(bs[k], i) = Hole
               /\ (k = Len(bs) /\ at = bs[k].mEnd) \/ at \in Filled(bs[k])
  BY SkipHolesStops
<1>2. PICK at \in bs[k].mBegin..bs[k].mEnd :
               /\ cs = <<[bs[k] EXCEPT !.mBegin = at]>> \o SubSeq(bs, k + 1, Len(bs))
               /\ \A i \in 1..(k - 1) : Filled(bs[i]) = {}
               /\ \A i \in bs[k].mBegin..(at - 1) : At(bs[k], i) = Hole
               /\ (k = Len(bs) /\ at = bs[k].mEnd) \/ at \in Filled(bs[k])
  BY <1>1
<1>3. PICK b, c : b = bs[k] /\ c = [b EXCEPT !.mBegin = at] /\ IsBlock(b)  BY <1>0
<1>4. /\ IsBlock(c) /\ InBlock(c) = InBlock(b) /\ Filled(c) = Filled(b)
      /\ c.mBegin = at /\ c.mEnd = b.mEnd /\ c.cap = b.cap /\ c.data = b.data
  <2>1. at \in b.mBegin..b.mEnd /\ \A i \in b.mBegin..(at - 1) : At(b, i) = Hole  BY <1>2, <1>3
  <2> QED BY <1>3, <2>1, SkipInBlock
<1>5. PICK m \in Nat, r \in Seq(Block) :
          /\ m = Len(bs) - k /\ r = SubSeq(bs, k + 1, Len(bs)) /\ Len(r) = m
          /\ \A i \in 1..m : r[i] = bs[k + i]
  <2>1. k \in 0..Len(bs) /\ Len(bs) - k \in Nat  BY <1>0
  <2>2. /\ SubSeq(bs, k + 1, Len(bs)) \in Seq(Block) /\ Len(SubSeq(bs, k + 1, Len(bs))) = Len(bs) - k
        /\ \A i \in 1..(Len(bs) - k) : SubSeq(bs, k + 1, Len(bs))[i] = bs[k + i]
    BY ONLY <2>1, bs \in Seq(Block), SuffixFacts
  <2> QED BY ONLY <2>1, <2>2, Zenon
<1>a. k \in Nat /\ 1 <= k /\ m \in Nat /\ Len(bs) = k + m
  <2>1. Len(bs) \in Nat /\ m = Len(bs) - k  BY <1>0, <1>5
  <2> QED BY ONLY <2>1, k \in 1..Len(bs), Remainder, Zenon
<1>b. ASSUME NEW i \in 1..(m + 1), i # 1 PROVE i - 1 \in 1..m /\ i = (i - 1) + 1
  BY ONLY <1>b, i \in 1..(m + 1), m \in Nat
<1>6. /\ cs \in Seq(Block) /\ Len(cs) = m + 1 /\ cs[1] = c
      /\ \A i \in 1..m : cs[i + 1] = bs[k + i]
  <2>1. cs = <<c>> \o r  BY <1>2, <1>3, <1>5
  <2>2. <<c>> \in Seq(Block) /\ Len(<<c>>) = 1 /\ <<c>>[1] = c
    <3>1. c \in Block  BY <1>4, BlockIs
    <3> QED BY <3>1
  <2>3. /\ <<c>> \o r \in Seq(Block) /\ Len(<<c>> \o r) = 1 + m
        /\ \A i \in 1..(1 + m) : (<<c>> \o r)[i] = IF i <= 1 THEN <<c>>[i] ELSE r[i - 1]
    BY <1>5, <2>2, ConcatProperties
  <2>4. (<<c>> \o r)[1] = c  BY <2>2, <2>3
  <2>5. ASSUME NEW i \in 1..m PROVE (<<c>> \o r)[i + 1] = bs[k + i]
    <3>1. i + 1 \in 1..(1 + m) /\ ~(i + 1 <= 1) /\ (i + 1) - 1 = i  OBVIOUS
    <3>2. (<<c>> \o r)[i + 1] = r[(i + 1) - 1]  BY <2>3, <3>1
    <3> QED BY <1>5, <3>1, <3>2
  <2> QED BY <2>1, <2>3, <2>4, <2>5
<1>7. FrontIsItem(cs)
  <2>1. CASE k = Len(bs) /\ at = b.mEnd
    <3>1. Len(cs) = 1  BY <1>5, <1>6, <2>1
    <3>2. Occupied(c) = 0  BY <1>3, <1>4, <2>1 DEF Occupied, IsBlock
    <3> QED BY <1>6, <3>1, <3>2 DEF FrontIsItem
  <2>2. CASE at \in Filled(b)
    <3>1. Occupied(c) > 0  BY <1>3, <1>4, <2>2 DEF Occupied, IsBlock, Filled
    <3>2. At(c, c.mBegin) # Hole  BY <1>4, <2>2 DEF Filled
    <3> QED BY <1>6, <3>1, <3>2 DEF FrontIsItem
  <2> QED BY <1>2, <1>3, <2>1, <2>2
<1>8. ContentsOf(cs) = ContentsOf(bs)
  <2>1. PICK s \in Seq(Seq(Item)), t \in Seq(Seq(Item)) :
            /\ s = Lists(bs) /\ t = Lists(cs) /\ Len(s) = Len(bs) /\ Len(t) = m + 1
            /\ \A i \in 1..Len(bs) : s[i] = InBlock(bs[i])
            /\ \A i \in 1..(m + 1) : t[i] = InBlock(cs[i])
    BY <1>6, ListsType
  <2>2. PICK p \in Seq(Seq(Item)), q \in Seq(Seq(Item)) :
            /\ p = SubSeq(s, 1, k - 1) /\ Len(p) = k - 1 /\ \A i \in 1..(k - 1) : p[i] = s[i]
            /\ q = SubSeq(s, (k - 1) + 1, Len(s)) /\ Len(q) = m + 1 /\ \A i \in 1..(m + 1) : q[i] = s[(k - 1) + i]
            /\ FlattenSeq(s) = FlattenSeq(p) \o FlattenSeq(q)
    <3>0. Len(s) = k + m  BY <1>a, <2>1
    <3>1. k - 1 \in 0..Len(s) /\ Len(s) - (k - 1) = m + 1  BY ONLY <1>a, <3>0
    <3>2. s \in Seq(Seq(Item))  OBVIOUS
    <3>3. /\ SubSeq(s, 1, k - 1) \in Seq(Seq(Item)) /\ Len(SubSeq(s, 1, k - 1)) = k - 1
          /\ \A i \in 1..(k - 1) : SubSeq(s, 1, k - 1)[i] = s[i]
      BY ONLY <3>1, <3>2, PrefixFacts
    <3>4. /\ SubSeq(s, (k - 1) + 1, Len(s)) \in Seq(Seq(Item)) /\ Len(SubSeq(s, (k - 1) + 1, Len(s))) = m + 1
          /\ \A i \in 1..(m + 1) : SubSeq(s, (k - 1) + 1, Len(s))[i] = s[(k - 1) + i]
      BY ONLY <3>1, <3>2, SuffixFacts
    <3>5. FlattenSeq(s) = FlattenSeq(SubSeq(s, 1, k - 1)) \o FlattenSeq(SubSeq(s, (k - 1) + 1, Len(s)))
      BY ONLY <3>1, <3>2, FlattenSplit
    <3> QED BY ONLY <3>3, <3>4, <3>5, Zenon
  <2>3. FlattenSeq(p) = <<>>
    <3>1. ASSUME NEW i \in 1..Len(p) PROVE p[i] = <<>>
      <4>1. i \in 1..(k - 1) /\ i \in 1..Len(bs)  BY <1>0, <2>2
      <4>2. IsBlock(bs[i]) /\ Filled(bs[i]) = {}  BY <1>0, <1>2, <4>1
      <4>3. InBlock(bs[i]) = <<>>  BY <4>2, NothingFilled
      <4> QED BY <2>1, <2>2, <4>1, <4>3
    <3> QED BY <3>1, FlattenNothing
  <2>4. q = t
    <3>1. ASSUME NEW i \in 1..(m + 1) PROVE q[i] = t[i]
      <4>1. (k - 1) + i \in 1..Len(bs)  BY ONLY <1>a, i \in 1..(m + 1)
      <4>2. q[i] = InBlock(bs[(k - 1) + i])  BY <2>1, <2>2, <4>1
      <4>3. CASE i = 1
        <5>1. (k - 1) + i = k  BY <4>3
        <5> QED BY <1>3, <1>4, <1>6, <2>1, <4>2, <4>3, <5>1
      <4>4. CASE i # 1
        <5>1. PICK j \in 1..m : i = j + 1  BY ONLY <1>b, <4>4, i \in 1..(m + 1), Zenon
        <5>2. (k - 1) + i = k + j  BY ONLY <1>a, <5>1, j \in 1..m
        <5>3. t[i] = InBlock(cs[i]) /\ cs[j + 1] = bs[k + j]  BY <1>6, <2>1
        <5> QED BY <4>2, <5>1, <5>2, <5>3
      <4> QED BY <4>3, <4>4
    <3>2. Len(q) = Len(t) /\ Len(t) = m + 1  BY <2>1, <2>2
    <3> QED BY <3>1, <3>2, SeqEqual
  <2>5. FlattenSeq(q) \in Seq(Item)  BY FlattenType
  <2>6. <<>> \o FlattenSeq(q) = FlattenSeq(q)  BY <2>5, ConcatEmptySeq
  <2>7. FlattenSeq(s) = FlattenSeq(t)  BY <2>2, <2>3, <2>4, <2>6, Zenon
  <2> QED BY <2>1, <2>7 DEF ContentsOf
<1>9. \A i \in 1..Len(cs) : \E j \in 1..Len(bs) :
          cs[i].cap = bs[j].cap /\ cs[i].data = bs[j].data /\ Filled(cs[i]) = Filled(bs[j])
  <2> TAKE i \in 1..Len(cs)
  <2>1. CASE i = 1  BY <1>3, <1>4, <1>6, <2>1
  <2>2. CASE i # 1
    <3>0. i \in 1..(m + 1)  BY <1>6
    <3>1. PICK j \in 1..m : i = j + 1  BY ONLY <1>b, <2>2, <3>0, Zenon
    <3>a. k + j \in 1..Len(bs)  BY ONLY <1>a, j \in 1..m
    <3>2. cs[i] = bs[k + j] /\ k + j \in 1..Len(bs)  BY <1>6, <3>1, <3>a
    <3> QED BY <3>2
  <2> QED BY <2>1, <2>2
<1>10. cs \in Seq(Block) /\ Len(cs) > 0  BY <1>6
<1> QED BY ONLY <1>7, <1>8, <1>9, <1>10

\* Every item of a block is at a position that is in use.
Inside(b) == \A i \in DOMAIN b.data : b.data[i] # Hole => \E p \in Filled(b) : p % b.cap = i

LEMMA EmplaceInside ==
    ASSUME NEW b, IsBlock(b), Occupied(b) < b.cap, Inside(b), NEW x \in Item
    PROVE  Inside(Emplace(b, x))
<1> DEFINE s == b.mEnd % b.cap
<1>1. PICK c : c = Emplace(b, x)  OBVIOUS
<1>2. /\ IsBlock(c) /\ At(c, b.mEnd) = x
      /\ \A i \in b.mBegin..(b.mEnd - 1) : At(c, i) = At(b, i)
  BY <1>1, EmplaceBlock
<1>3. /\ c.cap = b.cap /\ c.mBegin = b.mBegin /\ c.mEnd = b.mEnd + 1
      /\ c.data = [b.data EXCEPT ![s] = x]
  BY <1>1, EmplaceBlock
<1>4. b.mBegin \in Nat /\ b.mEnd \in Nat /\ b.mBegin <= b.mEnd  BY DEF IsBlock
<1>5. Filled(b) \subseteq Filled(c)
  <2>1. b.mBegin..(b.mEnd - 1) \subseteq c.mBegin..(c.mEnd - 1)  BY <1>3, <1>4
  <2> QED BY <1>2, <2>1 DEF Filled
<1>6. b.mEnd \in Filled(c)
  <2>1. b.mEnd \in c.mBegin..(c.mEnd - 1)  BY <1>3, <1>4
  <2>2. x # Hole  BY DEF Item, Hole
  <2> QED BY <1>2, <2>1, <2>2 DEF Filled
<1>7. ASSUME NEW i \in DOMAIN c.data, c.data[i] # Hole
      PROVE  \E p \in Filled(c) : p % c.cap = i
  <2>1. CASE i = s  BY <1>3, <1>6, <2>1
  <2>2. CASE i # s
    <3>1. i \in DOMAIN b.data /\ b.data[i] # Hole  BY <1>3, <1>7, <2>2
    <3>2. PICK p \in Filled(b) : p % b.cap = i  BY <3>1 DEF Inside
    <3> QED BY <1>3, <1>5, <3>2
  <2> QED BY <2>1, <2>2
<1>8. Inside(c)  BY <1>7 DEF Inside
<1> QED BY <1>1, <1>8

LEMMA Emplaced ==
    ASSUME NEW b, IsBlock(b), Occupied(b) < b.cap, Inside(b), NEW x \in Item, NEW c, c = Emplace(b, x)
    PROVE  /\ IsBlock(c) /\ Inside(c) /\ Occupied(c) = Occupied(b) + 1 /\ c.mBegin = b.mBegin
           /\ InBlock(c) = Append(InBlock(b), x) /\ At(c, b.mEnd) = x
           /\ \A i \in b.mBegin..(b.mEnd - 1) : At(c, i) = At(b, i)
<1>1. /\ IsBlock(Emplace(b, x)) /\ Occupied(Emplace(b, x)) = Occupied(b) + 1
      /\ Emplace(b, x).mBegin = b.mBegin
      /\ InBlock(Emplace(b, x)) = Append(InBlock(b), x) /\ At(Emplace(b, x), b.mEnd) = x
      /\ \A i \in b.mBegin..(b.mEnd - 1) : At(Emplace(b, x), i) = At(b, i)
  BY EmplaceBlock
<1>2. Inside(Emplace(b, x))  BY EmplaceInside
<1> QED BY <1>1, <1>2, Zenon

LEMMA ResetInside ==
    ASSUME NEW b, IsBlock(b), Inside(b), NEW i \in Filled(b), NEW c, c = Emptied(b, i)
    PROVE  Inside(c)
<1>1. /\ c.mBegin = b.mBegin /\ c.mEnd = b.mEnd /\ c.cap = b.cap
      /\ c.data = [b.data EXCEPT ![i % b.cap] = Hole]
      /\ \A j \in b.mBegin..(b.mEnd - 1) : At(c, j) = IF j = i THEN Hole ELSE At(b, j)
  BY ResetBlock DEF WithoutItem
<1>2. Filled(b) \ {i} \subseteq Filled(c)  BY <1>1 DEF Filled
<1>3. ASSUME NEW n \in DOMAIN c.data, c.data[n] # Hole
      PROVE  \E p \in Filled(c) : p % c.cap = n
  <2>1. n \in DOMAIN b.data  BY <1>1
  <2>2. n # i % b.cap /\ b.data[n] # Hole  BY <1>1, <1>3, <2>1
  <2>3. PICK p \in Filled(b) : p % b.cap = n  BY <2>1, <2>2 DEF Inside
  <2>4. p # i  BY <2>2, <2>3
  <2> QED BY <1>1, <1>2, <2>3, <2>4
<1> QED BY <1>3 DEF Inside

\* A new block.
LEMMA NewBlockFacts ==
    ASSUME NEW n \in Nat \ {0}
    PROVE  /\ IsBlock(NewBlock(n)) /\ Occupied(NewBlock(n)) = 0 /\ NewBlock(n).cap = n
           /\ InBlock(NewBlock(n)) = <<>> /\ Inside(NewBlock(n)) /\ NewBlock(n).mBegin = NewBlock(n).mEnd
<1>1. PICK b : b = NewBlock(n)  OBVIOUS
<1>2. /\ b.cap = n /\ b.mBegin = 0 /\ b.mEnd = 0 /\ b.data = [i \in 0..(n - 1) |-> Hole]
      /\ b = [cap |-> b.cap, mBegin |-> b.mBegin, mEnd |-> b.mEnd, data |-> b.data]
  BY <1>1 DEF NewBlock
<1>3. IsBlock(b)  BY <1>2 DEF IsBlock
<1>4. Occupied(b) = 0  BY <1>2 DEF Occupied
<1>5. Filled(b) = {}  BY <1>2 DEF Filled
<1>6. Inside(b)  BY <1>2 DEF Inside
<1> QED BY <1>1, <1>2, <1>3, <1>4, <1>5, <1>6, NothingFilled
-----------------------------------------------------------------------------
(* The queue *)

\* The blocks are blocks, and the first of them begins with an item.
BlocksInv ==
    /\ blocks \in Seq(Block) /\ Len(blocks) > 0
    /\ \A k \in 1..Len(blocks) : Inside(blocks[k])
    /\ FrontIsItem(blocks)

CountInv == mSize = Len(Contents) /\ mSize <= pushed /\ pushed \in 0..MaxItems /\ threw \in BOOLEAN

BlocksHold == BlocksInv /\ CountInv

LEMMA ContentsIs ==
    ASSUME blocks \in Seq(Block)
    PROVE  Contents = ContentsOf(blocks)
BY DEF Contents, ContentsOf, Lists

LEMMA ContentsIsNext ==
    ASSUME blocks' \in Seq(Block)
    PROVE  Contents' = ContentsOf(blocks')
BY DEF Contents, ContentsOf, Lists

\* The queue begins with one block and no items.
LEMMA QueueInitInv == QueueInit => BlocksHold /\ Contents = <<>>
<1> SUFFICES ASSUME QueueInit PROVE BlocksHold /\ Contents = <<>>  OBVIOUS
<1>1. PICK b : b = NewBlock(DefaultCapacity) /\ blocks = <<b>>  BY DEF QueueInit
<1>2. IsBlock(b) /\ Occupied(b) = 0 /\ InBlock(b) = <<>> /\ Inside(b)
  BY <1>1, BlockQueueAssumption, NewBlockFacts DEF BlockQueueAssumption
<1>3. blocks \in Seq(Block) /\ Len(blocks) = 1 /\ blocks[1] = b
  <2>1. b \in Block  BY <1>2, BlockIs
  <2> QED BY <1>1, <2>1
<1>4. BlocksInv  BY <1>2, <1>3 DEF BlocksInv, FrontIsItem
<1>5. Contents = <<>>
  <2>1. PICK s \in Seq(Seq(Item)) : s = Lists(blocks) /\ Len(s) = 1 /\ \A k \in 1..1 : s[k] = InBlock(blocks[k])
    BY <1>3, ListsType
  <2>2. \A k \in 1..Len(s) : s[k] = <<>>  BY <1>2, <1>3, <2>1
  <2>3. FlattenSeq(s) = <<>>  BY <2>2, FlattenNothing
  <2> QED BY <1>3, <2>1, <2>3, ContentsIs DEF ContentsOf
<1>6. CountInv
  <2>1. Len(Contents) = 0  BY <1>5
  <2>2. MaxItems \in Nat  BY BlockQueueAssumption DEF BlockQueueAssumption
  <2>3. threw \in BOOLEAN  BY Zenon DEF QueueInit
  <2>4. mSize = Len(Contents) /\ mSize <= pushed /\ pushed \in 0..MaxItems  BY <2>1, <2>2 DEF QueueInit
  <2> QED BY <2>3, <2>4 DEF CountInv
<1> QED BY <1>4, <1>5, <1>6 DEF BlocksHold

\* push_back appends to the contents, in the last block or in a new one.
LEMMA PushStep ==
    ASSUME BlocksHold, PushBack
    PROVE  BlocksHold' /\ Contents' = Append(Contents, pushed + 1) /\ pushed' = pushed + 1
<1>0. PICK x \in Item : x = pushed + 1
  BY BlockQueueAssumption DEF PushBack, Item, BlockQueueAssumption, BlocksHold, CountInv
<1>a. /\ blocks \in Seq(Block) /\ Len(blocks) \in Nat /\ Len(blocks) > 0 /\ pushed \in Nat
      /\ mSize = Len(Contents) /\ mSize <= pushed /\ threw \in BOOLEAN
      /\ mSize' = mSize + 1 /\ pushed' = pushed + 1 /\ threw' = threw /\ pushed' \in 0..MaxItems
  BY BlockQueueAssumption DEF BlocksHold, BlocksInv, CountInv, PushBack, Item, BlockQueueAssumption
<1>1. PICK n \in 1..Len(blocks) : n = Len(blocks)  BY <1>0, <1>a
<1>2. PICK b : b = blocks[n] /\ b = mLast /\ IsBlock(b) /\ Inside(b)
  BY <1>0, <1>a, <1>1, BlockIs DEF BlocksHold, BlocksInv, mLast
<1>3. Contents = ContentsOf(blocks) /\ Contents \in Seq(Item) /\ <<x>> \in Seq(Item)  BY <1>0, <1>a, ContentsIs, ListsType
<1>4. blocks' \in Seq(Block) /\ Len(blocks') > 0 /\ (\A k \in 1..Len(blocks') : Inside(blocks'[k])) /\ FrontIsItem(blocks')
      /\ ContentsOf(blocks') = Contents \o <<x>>
  <2>1. CASE Occupied(b) = b.cap
    <3>1. 2 * b.cap \in Nat \ {0}  BY <1>2 DEF IsBlock
    <3>2. PICK e : e = NewBlock(2 * b.cap) /\ IsBlock(e) /\ Occupied(e) = 0 /\ Occupied(e) < e.cap
                   /\ InBlock(e) = <<>> /\ Inside(e)
      BY <3>1, NewBlockFacts
    <3>3. PICK c : c = Emplace(e, x) /\ IsBlock(c) /\ InBlock(c) = Append(<<>>, x) /\ Inside(c)
      <4>1. PICK c : c = Emplace(e, x)  OBVIOUS
      <4>2. IsBlock(e) /\ Occupied(e) < e.cap /\ Inside(e) /\ InBlock(e) = <<>>  BY <3>2
      <4>3. IsBlock(c) /\ Inside(c) /\ InBlock(c) = Append(InBlock(e), x)
        BY ONLY <4>1, <4>2, x \in Item, Emplaced
      <4> QED BY <4>1, <4>2, <4>3
    <3>4. blocks' = Append(blocks, c)  BY <1>0, <1>2, <2>1, <3>2, <3>3 DEF PushBack
    <3>5. c \in Block  BY <3>3, BlockIs
    <3>6. /\ blocks' \in Seq(Block) /\ Len(blocks') = n + 1 /\ blocks'[n + 1] = c
          /\ \A k \in 1..n : blocks'[k] = blocks[k]
      BY <1>0, <1>a, <1>1, <3>4, <3>5
    <3>7. \A k \in 1..Len(blocks') : Inside(blocks'[k])
      <4>1. ASSUME NEW k \in 1..Len(blocks') PROVE Inside(blocks'[k])
        <5>1. CASE k = n + 1  BY <3>3, <3>6, <5>1
        <5>2. CASE k # n + 1
          <6>1. k \in 1..n  BY <3>6, <5>2
          <6> QED BY <1>1, <3>6, <6>1 DEF BlocksHold, BlocksInv
        <5> QED BY <5>1, <5>2
      <4> QED BY <4>1
    <3>8. FrontIsItem(blocks')
      <4>1. blocks'[1] = blocks[1]  BY <3>6
      <4>2. Occupied(blocks[1]) > 0 /\ At(blocks[1], blocks[1].mBegin) # Hole
        <5>1. ~(Len(blocks) = 1 /\ Occupied(blocks[1]) = 0)  BY <1>1, <1>2, <2>1 DEF IsBlock
        <5> QED BY <5>1 DEF BlocksHold, BlocksInv, FrontIsItem
      <4> QED BY <4>1, <4>2 DEF FrontIsItem
    <3>9. ContentsOf(blocks') = Contents \o <<x>>
      <4>1. Lists(blocks') = Append(Lists(blocks), <<x>>)
        <5>1. Lists(blocks') \in Seq(Seq(Item)) /\ Len(Lists(blocks')) = n + 1
              /\ \A k \in 1..(n + 1) : Lists(blocks')[k] = InBlock(blocks'[k])
          BY <3>6, ListsType
        <5>2. PICK s \in Seq(Seq(Item)) : s = Lists(blocks) /\ Len(s) = n /\ \A k \in 1..n : s[k] = InBlock(blocks[k])
          BY <1>0, <1>a, <1>1, ListsType
        <5>3. /\ Append(s, <<x>>) \in Seq(Seq(Item)) /\ Len(Append(s, <<x>>)) = n + 1
              /\ Append(s, <<x>>)[n + 1] = <<x>> /\ \A k \in 1..n : Append(s, <<x>>)[k] = s[k]
          BY <1>3, <5>2
        <5>4. ASSUME NEW k \in 1..(n + 1) PROVE Lists(blocks')[k] = Append(s, <<x>>)[k]
          <6>1. CASE k = n + 1
            <7>1. Append(<<>>, x) = <<x>>  OBVIOUS
            <7> QED BY <3>3, <3>6, <5>1, <5>3, <6>1, <7>1
          <6>2. CASE k # n + 1
            <7>1. k \in 1..n  BY <6>2
            <7> QED BY <3>6, <5>1, <5>2, <5>3, <7>1
          <6> QED BY <6>1, <6>2
        <5>5. Lists(blocks') = Append(s, <<x>>)  BY <5>1, <5>3, <5>4, SeqEqual
        <5> QED BY <5>2, <5>5
      <4>2. PICK s \in Seq(Seq(Item)), y \in Seq(Item) : s = Lists(blocks) /\ y = <<x>>
        BY <1>0, <1>a, <1>3, ListsType, Zenon
      <4>3. FlattenSeq(Append(s, y)) = FlattenSeq(s) \o y  BY FlattenAppend
      <4> QED BY <1>3, <4>1, <4>2, <4>3 DEF ContentsOf
    <3> QED BY <3>6, <3>7, <3>8, <3>9
  <2>2. CASE Occupied(b) # b.cap
    <3>1. Occupied(b) < b.cap  BY <1>2, <2>2 DEF IsBlock, Occupied
    <3>2. PICK c : /\ c = Emplace(b, x) /\ IsBlock(c) /\ InBlock(c) = Append(InBlock(b), x) /\ Inside(c)
                   /\ Occupied(c) = Occupied(b) + 1 /\ c.mBegin = b.mBegin /\ At(c, b.mEnd) = x
                   /\ \A i \in b.mBegin..(b.mEnd - 1) : At(c, i) = At(b, i)
      <4>1. PICK c : c = Emplace(b, x)  OBVIOUS
      <4>2. IsBlock(b) /\ Inside(b)  BY <1>2
      <4>3. /\ IsBlock(c) /\ InBlock(c) = Append(InBlock(b), x) /\ Inside(c)
            /\ Occupied(c) = Occupied(b) + 1 /\ c.mBegin = b.mBegin /\ At(c, b.mEnd) = x
            /\ \A i \in b.mBegin..(b.mEnd - 1) : At(c, i) = At(b, i)
        BY ONLY <3>1, <4>1, <4>2, x \in Item, Emplaced
      <4> QED BY <4>1, <4>3, Zenon
    <3>3. blocks' = Replaced(blocks, n, c)
      <4>1. blocks' = [blocks EXCEPT ![Len(blocks)] = Emplace(blocks[Len(blocks)], pushed + 1)]
        BY <1>2, <2>2 DEF PushBack
      <4> QED BY <1>1, <1>2, <3>2, <1>0, <4>1 DEF Replaced
    <3>4. /\ blocks' \in Seq(Block) /\ Len(blocks') = Len(blocks) /\ blocks'[n] = c
          /\ \A i \in 1..Len(blocks) : i # n => blocks'[i] = blocks[i]
          /\ \E a \in Seq(Item), d \in Seq(Item) :
                  /\ ContentsOf(blocks) = (a \o InBlock(blocks[n])) \o d
                  /\ ContentsOf(blocks') = (a \o InBlock(c)) \o d
                  /\ n = 1 => a = <<>>
                  /\ n = Len(blocks) => d = <<>>
      <4>1. PICK cs, bs : cs = blocks' /\ bs = blocks  OBVIOUS
      <4>2. bs \in Seq(Block) /\ n \in 1..Len(bs) /\ IsBlock(c) /\ cs = Replaced(bs, n, c)
        BY <1>a, <3>2, <3>3, <4>1
      <4>3. DifferInBlock(bs, n, c, cs)  BY ONLY <4>2, ReplaceBlock
      <4> QED BY <4>1, <4>3, Zenon DEF DifferInBlock
    <3>5. \A k \in 1..Len(blocks') : Inside(blocks'[k])
      BY <3>2, <3>4 DEF BlocksHold, BlocksInv
    <3>6. FrontIsItem(blocks')
      <4>1. CASE n = 1
        <5>1. blocks'[1] = c /\ blocks[1] = b /\ c.mBegin = b.mBegin
          BY <1>2, <3>2, <3>4, <4>1
        <5>2. Occupied(c) > 0 /\ b.mBegin \in Nat /\ b.mEnd \in Nat /\ b.mBegin <= b.mEnd
          BY <1>2, <3>2 DEF Occupied, IsBlock
        <5>3. CASE b.mBegin = b.mEnd
          <6>1. x # Hole  BY <1>0, <1>a DEF Item, Hole
          <6> QED BY <3>2, <5>1, <5>2, <5>3, <6>1 DEF FrontIsItem
        <5>4. CASE b.mBegin # b.mEnd
          <6>1. b.mBegin \in b.mBegin..(b.mEnd - 1)  BY <5>2, <5>4
          <6>2. Occupied(b) # 0  BY <5>2, <5>4 DEF Occupied
          <6>3. At(b, b.mBegin) # Hole  BY <5>1, <6>2 DEF BlocksHold, BlocksInv, FrontIsItem
          <6> QED BY <3>2, <5>1, <5>2, <6>1, <6>3 DEF FrontIsItem
        <5> QED BY <5>3, <5>4
      <4>2. CASE n # 1
        <5>1. blocks'[1] = blocks[1]  BY <1>0, <1>a, <3>4, <4>2
        <5>2. Occupied(blocks[1]) > 0 /\ At(blocks[1], blocks[1].mBegin) # Hole
          BY <1>1, <4>2 DEF BlocksHold, BlocksInv, FrontIsItem
        <5> QED BY <5>1, <5>2 DEF FrontIsItem
      <4> QED BY <4>1, <4>2
    <3>7. ContentsOf(blocks') = Contents \o <<x>>
      <4>1. PICK a \in Seq(Item), d \in Seq(Item) :
                  /\ ContentsOf(blocks) = (a \o InBlock(b)) \o d
                  /\ ContentsOf(blocks') = (a \o InBlock(c)) \o d
                  /\ d = <<>>
        BY <1>1, <1>2, <3>4
      <4>2. PICK y \in Seq(Item), z \in Seq(Item) : y = InBlock(b) /\ z = <<x>>
        <5>1. InBlock(b) \in Seq(Item)  BY <1>2, EntriesType
        <5> QED BY <1>3, <5>1, Zenon
      <4>3. Append(y, x) = y \o z  BY <1>0, <1>a, <4>2, AppendIsConcat
      <4>4. (a \o y) \o z = a \o (y \o z)  BY ConcatAssociative
      <4>5. (a \o y) \in Seq(Item) /\ a \o (y \o z) \in Seq(Item)  OBVIOUS
      <4>6. (a \o y) \o <<>> = a \o y /\ (a \o (y \o z)) \o <<>> = a \o (y \o z)  BY <4>5, ConcatEmptySeq
      <4>7. ContentsOf(blocks) = a \o y  BY <4>1, <4>2, <4>6, Zenon
      <4>8. ContentsOf(blocks') = a \o (y \o z)  BY <3>2, <4>1, <4>2, <4>3, <4>6, Zenon
      <4> QED BY <1>3, <4>2, <4>4, <4>7, <4>8, Zenon
    <3> QED BY <1>0, <1>a, <3>4, <3>5, <3>6, <3>7
  <2> QED BY <2>1, <2>2
<1>5. BlocksInv'  BY <1>4 DEF BlocksInv
<1>6. Contents' = Append(Contents, x)
  <2>1. Contents' = Contents \o <<x>>  BY <1>4, ContentsIsNext
  <2> QED BY <1>0, <1>a, <1>3, <2>1
<1>7. Len(Contents') = Len(Contents) + 1 /\ Len(Contents) \in Nat  BY <1>0, <1>a, <1>3, <1>6
<1>8. CountInv'  BY <1>0, <1>a, <1>7 DEF CountInv
<1> QED BY <1>0, <1>a, <1>5, <1>6, <1>8 DEF BlocksHold

\* The front of the queue: the entry pop_front takes.
IsFront(k, i) == k = 1 /\ i = blocks[1].mBegin

\* An entry loses its item: the others stay in their order.
LEMMA ResetFacts ==
    ASSUME BlocksInv, NEW k \in 1..Len(blocks), NEW i \in Filled(blocks[k]), NEW cs, cs = Reset(k, i)
    PROVE  /\ cs \in Seq(Block) /\ Len(cs) > 0 /\ \A j \in 1..Len(cs) : Inside(cs[j])
           /\ \E l \in Seq(Item), r \in Seq(Item), x \in Item :
                  /\ ContentsOf(blocks) = (l \o <<x>>) \o r /\ ContentsOf(cs) = l \o r
                  /\ IsFront(k, i) => l = <<>>
           /\ ~IsFront(k, i) => FrontIsItem(cs)
<1>0. /\ blocks \in Seq(Block) /\ Len(blocks) \in Nat /\ Len(blocks) > 0 /\ FrontIsItem(blocks)
      /\ \A j \in 1..Len(blocks) : Inside(blocks[j]) /\ IsBlock(blocks[j])
  BY BlockIs DEF BlocksInv
<1>1. PICK b, c : b = blocks[k] /\ c = Emptied(b, i) /\ IsBlock(b) /\ Inside(b) /\ i \in Filled(b)
  BY <1>0
<1>2. /\ IsBlock(c) /\ c.mBegin = b.mBegin /\ c.mEnd = b.mEnd
      /\ \A j \in b.mBegin..(b.mEnd - 1) : At(c, j) = IF j = i THEN Hole ELSE At(b, j)
      /\ \E l \in Seq(Item), r \in Seq(Item), x \in Item :
             /\ InBlock(b) = (l \o <<x>>) \o r /\ InBlock(c) = (l \o <<>>) \o r
             /\ i = b.mBegin => l = <<>>
  <2>1. WithoutItem(b, i, c)  BY ONLY <1>1, ResetBlock
  <2> QED BY <2>1, Zenon DEF WithoutItem
<1>3. Inside(c)  BY ONLY <1>1, ResetInside
<1>4. cs = Replaced(blocks, k, c)  BY <1>0, <1>1 DEF Reset, Emptied, Replaced
<1>5. /\ cs \in Seq(Block) /\ Len(cs) = Len(blocks) /\ cs[k] = c
      /\ \A j \in 1..Len(blocks) : j # k => cs[j] = blocks[j]
      /\ \E a \in Seq(Item), d \in Seq(Item) :
             /\ ContentsOf(blocks) = (a \o InBlock(blocks[k])) \o d
             /\ ContentsOf(cs) = (a \o InBlock(c)) \o d
             /\ k = 1 => a = <<>>
             /\ k = Len(blocks) => d = <<>>
  <2>1. blocks \in Seq(Block) /\ k \in 1..Len(blocks) /\ IsBlock(c) /\ cs = Replaced(blocks, k, c)
    BY <1>0, <1>2, <1>4
  <2>2. DifferInBlock(blocks, k, c, cs)  BY ONLY <2>1, ReplaceBlock
  <2> QED BY <2>2, Zenon DEF DifferInBlock
<1>6. \A j \in 1..Len(cs) : Inside(cs[j])
  <2> SUFFICES ASSUME NEW j \in 1..Len(cs) PROVE Inside(cs[j])  OBVIOUS
  <2>1. j \in 1..Len(blocks)  BY <1>5
  <2> QED BY <1>0, <1>3, <1>5, <2>1
<1>7. \E l \in Seq(Item), r \in Seq(Item), x \in Item :
          /\ ContentsOf(blocks) = (l \o <<x>>) \o r /\ ContentsOf(cs) = l \o r
          /\ IsFront(k, i) => l = <<>>
  <2>1. PICK l \in Seq(Item), r \in Seq(Item), x \in Item :
            /\ InBlock(b) = (l \o <<x>>) \o r /\ InBlock(c) = (l \o <<>>) \o r
            /\ i = b.mBegin => l = <<>>
    BY <1>2
  <2>2. PICK a \in Seq(Item), d \in Seq(Item) :
            /\ ContentsOf(blocks) = (a \o InBlock(b)) \o d
            /\ ContentsOf(cs) = (a \o InBlock(c)) \o d
            /\ k = 1 => a = <<>>
    BY <1>1, <1>5
  <2>3. PICK p \in Seq(Item) : p = <<x>>
    <3>1. <<x>> \in Seq(Item)  OBVIOUS
    <3> QED BY <3>1, Zenon
  <2>4. PICK m \in Seq(Item), n \in Seq(Item) : m = a \o l /\ n = r \o d
    <3>1. a \o l \in Seq(Item) /\ r \o d \in Seq(Item)  OBVIOUS
    <3> QED BY <3>1, Zenon
  <2>5. (a \o ((l \o p) \o r)) \o d = (m \o p) \o n /\ (a \o ((l \o <<>>) \o r)) \o d = m \o n
    <3>1. Regrouped(a, l, p, r, d)  BY Regroup
    <3> QED BY ONLY <2>4, <3>1, Zenon DEF Regrouped
  <2>7. ContentsOf(blocks) = (m \o <<x>>) \o n /\ ContentsOf(cs) = m \o n
    BY ONLY <2>1, <2>2, <2>3, <2>5, Zenon
  <2>8. IsFront(k, i) => m = <<>>
    <3> SUFFICES ASSUME IsFront(k, i) PROVE m = <<>>  OBVIOUS
    <3>1. l = <<>> /\ a = <<>>  BY <1>1, <2>1, <2>2 DEF IsFront
    <3>2. <<>> \o l = l  BY ConcatEmptySeq
    <3> QED BY <2>4, <3>1, <3>2
  <2> QED BY <2>7, <2>8
<1>8. ASSUME ~IsFront(k, i) PROVE FrontIsItem(cs)
  <2>1. CASE k # 1
    <3>1. cs[1] = blocks[1] /\ Len(cs) = Len(blocks)  BY <1>0, <1>5, <2>1
    <3> QED BY <1>0, <3>1 DEF FrontIsItem
  <2>2. CASE k = 1
    <3>1. i # b.mBegin /\ i \in b.mBegin..(b.mEnd - 1) /\ b.mBegin \in Nat /\ b.mEnd \in Nat
      BY <1>1, <1>8, <2>2 DEF IsFront, Filled, IsBlock
    <3>2. b.mBegin \in b.mBegin..(b.mEnd - 1) /\ b.mEnd - b.mBegin > 0  BY <3>1
    <3>3. At(c, b.mBegin) = At(b, b.mBegin) /\ Occupied(c) > 0 /\ Occupied(b) # 0
      BY <1>2, <3>1, <3>2 DEF Occupied
    <3>4. At(b, b.mBegin) # Hole  BY <1>0, <1>1, <2>2, <3>3 DEF FrontIsItem
    <3> QED BY <1>2, <1>5, <2>2, <3>3, <3>4 DEF FrontIsItem
  <2> QED BY <2>1, <2>2
<1> QED BY <1>0, <1>5, <1>6, <1>7, <1>8

\* List t is list s without one of its items, the first if l is empty.
OneRemoved(s, l, t) ==
    /\ s \in Seq(Item) /\ Len(t) = Len(s) - 1
    /\ \E n \in 1..Len(s) : RemoveAt(s, n) = t
    /\ l = <<>> => s # <<>> /\ Tail(s) = t

LEMMA RemoveBetween ==
    ASSUME NEW l \in Seq(Item), NEW r \in Seq(Item), NEW x \in Item, NEW s, s = (l \o <<x>>) \o r
    PROVE  OneRemoved(s, l, l \o r)
<1>1. PICK p \in Seq(Item) : p = <<x>> /\ Len(p) = 1
  <2>1. <<x>> \in Seq(Item) /\ Len(<<x>>) = 1  OBVIOUS
  <2> QED BY <2>1, Zenon
<1>2. PICK m \in Nat, n \in Nat : m = Len(l) /\ n = Len(r)  OBVIOUS
<1>3. /\ l \o p \in Seq(Item) /\ Len(l \o p) = m + 1
      /\ \A j \in 1..(m + 1) : (l \o p)[j] = IF j <= m THEN l[j] ELSE p[j - m]
  BY <1>1, <1>2, ConcatProperties
<1>4. /\ s \in Seq(Item) /\ Len(s) = (m + 1) + n
      /\ \A j \in 1..((m + 1) + n) : s[j] = IF j <= m + 1 THEN (l \o p)[j] ELSE r[j - (m + 1)]
  BY <1>1, <1>2, <1>3, ConcatProperties
<1>5. PICK t \in Seq(Item) : /\ t = l \o r /\ Len(t) = m + n
                             /\ \A j \in 1..(m + n) : t[j] = IF j <= m THEN l[j] ELSE r[j - m]
  <2>1. /\ l \o r \in Seq(Item) /\ Len(l \o r) = m + n
        /\ \A j \in 1..(m + n) : (l \o r)[j] = IF j <= m THEN l[j] ELSE r[j - m]
    BY ONLY l \in Seq(Item), r \in Seq(Item), <1>2, ConcatProperties
  <2> QED BY <2>1, Zenon
<1>6. RemoveAt(s, m + 1) = t
  <2>1. SubSeq(s, 1, m) = l
    <3>1. m \in 0..Len(s)  BY <1>4
    <3>2. /\ SubSeq(s, 1, m) \in Seq(Item) /\ Len(SubSeq(s, 1, m)) = m
          /\ \A j \in 1..m : SubSeq(s, 1, m)[j] = s[j]
      BY ONLY <1>4, <3>1, PrefixFacts
    <3>3. ASSUME NEW j \in 1..m PROVE s[j] = l[j]
      <4>1. j \in 1..((m + 1) + n) /\ j \in 1..(m + 1) /\ j <= m + 1 /\ j <= m
        BY ONLY j \in 1..m, m \in Nat, n \in Nat
      <4> QED BY ONLY <1>3, <1>4, <4>1
    <3> QED BY <1>2, <3>2, <3>3, SeqEqual
  <2>2. SubSeq(s, (m + 1) + 1, Len(s)) = r
    <3>1. m + 1 \in 0..Len(s) /\ Len(s) - (m + 1) = n  BY <1>4
    <3>2. /\ SubSeq(s, (m + 1) + 1, Len(s)) \in Seq(Item) /\ Len(SubSeq(s, (m + 1) + 1, Len(s))) = n
          /\ \A j \in 1..n : SubSeq(s, (m + 1) + 1, Len(s))[j] = s[(m + 1) + j]
      BY ONLY <1>4, <3>1, SuffixFacts
    <3>3. ASSUME NEW j \in 1..n PROVE s[(m + 1) + j] = r[j]
      <4>1. (m + 1) + j \in 1..((m + 1) + n) /\ ~((m + 1) + j <= m + 1) /\ ((m + 1) + j) - (m + 1) = j
        BY ONLY j \in 1..n, m \in Nat, n \in Nat
      <4> QED BY ONLY <1>4, <4>1
    <3> QED BY <1>2, <3>2, <3>3, SeqEqual
  <2>3. (m + 1) - 1 = m  OBVIOUS
  <2> QED BY ONLY <1>5, <2>1, <2>2, <2>3 DEF RemoveAt
<1>7. ASSUME l = <<>> PROVE s # <<>> /\ Tail(s) = t
  <2>1. m = 0 /\ Len(s) = n + 1  BY <1>2, <1>4, <1>7
  <2>2. s # <<>> /\ Tail(s) \in Seq(Item) /\ Len(Tail(s)) = n /\ \A j \in 1..n : Tail(s)[j] = s[j + 1]
    BY <1>4, <2>1
  <2>3. ASSUME NEW j \in 1..n PROVE s[j + 1] = t[j]
    <3>1. j + 1 \in 1..((m + 1) + n) /\ ~(j + 1 <= m + 1) /\ (j + 1) - (m + 1) = j
          /\ j \in 1..(m + n) /\ ~(j <= m) /\ j - m = j
      BY ONLY <2>1, j \in 1..n, m \in Nat, n \in Nat
    <3>2. s[j + 1] = r[j] /\ t[j] = r[j]  BY ONLY <1>4, <1>5, <3>1
    <3> QED BY <3>2
  <2>4. Len(t) = n  BY <1>5, <2>1
  <2> QED BY <2>2, <2>3, <2>4, SeqEqual
<1>8. m + 1 \in 1..Len(s) /\ Len(t) = Len(s) - 1  BY <1>4, <1>5
<1> QED BY ONLY <1>4, <1>5, <1>6, <1>7, <1>8, Zenon DEF OneRemoved

\* pop_front and erase: the blocks stay in order, and one item is gone.
LEMMA TakeStep ==
    ASSUME BlocksHold, NEW k \in 1..Len(blocks), NEW i \in Filled(blocks[k]),
           blocks' = (IF IsFront(k, i) THEN SkipHoles(Reset(k, i)) ELSE Reset(k, i)),
           mSize' = mSize - 1, UNCHANGED <<pushed, threw>>
    PROVE  /\ BlocksHold' /\ Contents \in Seq(Item) /\ \E n \in 1..Len(Contents) : Contents' = RemoveAt(Contents, n)
           /\ IsFront(k, i) => Contents # <<>> /\ Contents' = Tail(Contents)
<1>1. PICK cs : cs = Reset(k, i)  OBVIOUS
<1>2. /\ cs \in Seq(Block) /\ Len(cs) > 0 /\ \A j \in 1..Len(cs) : Inside(cs[j])
      /\ \E l \in Seq(Item), r \in Seq(Item), x \in Item :
             /\ ContentsOf(blocks) = (l \o <<x>>) \o r /\ ContentsOf(cs) = l \o r
             /\ IsFront(k, i) => l = <<>>
      /\ ~IsFront(k, i) => FrontIsItem(cs)
  <2>1. BlocksInv  BY DEF BlocksHold
  <2> QED BY ONLY <1>1, <2>1, k \in 1..Len(blocks), i \in Filled(blocks[k]), ResetFacts
<1>3. PICK ds : ds = blocks' /\ ds = IF IsFront(k, i) THEN SkipHoles(cs) ELSE cs  BY <1>1, Zenon
<1>4. /\ ds \in Seq(Block) /\ Len(ds) > 0 /\ \A j \in 1..Len(ds) : Inside(ds[j])
      /\ FrontIsItem(ds) /\ ContentsOf(ds) = ContentsOf(cs)
  <2>1. CASE IsFront(k, i)
    <3>1. cs \in Seq(Block) /\ Len(cs) > 0 /\ ds = SkipHoles(cs)  BY <1>2, <1>3, <2>1
    <3>2. /\ ds \in Seq(Block) /\ Len(ds) > 0
          /\ ContentsOf(ds) = ContentsOf(cs) /\ FrontIsItem(ds)
          /\ \A j \in 1..Len(ds) : \E n \in 1..Len(cs) :
                 ds[j].cap = cs[n].cap /\ ds[j].data = cs[n].data /\ Filled(ds[j]) = Filled(cs[n])
      BY ONLY <3>1, SkipHolesFacts
    <3>3. ASSUME NEW j \in 1..Len(ds) PROVE Inside(ds[j])
      <4>1. PICK n \in 1..Len(cs) :
                ds[j].cap = cs[n].cap /\ ds[j].data = cs[n].data /\ Filled(ds[j]) = Filled(cs[n])
        BY <3>2
      <4>2. Inside(cs[n])  BY <1>2
      <4> QED BY <4>1, <4>2, Zenon DEF Inside
    <3> QED BY <3>2, <3>3
  <2>2. CASE ~IsFront(k, i)  BY <1>2, <1>3, <2>2
  <2> QED BY <2>1, <2>2
<1>5. BlocksInv'  BY <1>3, <1>4 DEF BlocksInv
<1>6. blocks \in Seq(Block) /\ Contents = ContentsOf(blocks) /\ Contents' = ContentsOf(cs)
  BY <1>3, <1>4, ContentsIs, ContentsIsNext DEF BlocksHold, BlocksInv
<1>7. PICK l \in Seq(Item), r \in Seq(Item), x \in Item :
          /\ Contents = (l \o <<x>>) \o r /\ Contents' = l \o r
          /\ IsFront(k, i) => l = <<>>
  BY <1>2, <1>6
<1>8. PICK s, t : s = Contents /\ t = Contents' /\ s = (l \o <<x>>) \o r /\ t = l \o r  BY <1>7, Zenon
<1>9. OneRemoved(s, l, t)
  <2>1. OneRemoved(s, l, l \o r)
    <3>1. s = (l \o <<x>>) \o r  BY <1>8
    <3> QED BY ONLY <3>1, l \in Seq(Item), r \in Seq(Item), x \in Item, RemoveBetween
  <2> QED BY <1>8, <2>1, Zenon
<1>10. CountInv'
  <2>1. Len(t) = Len(s) - 1 /\ Len(s) \in Nat  BY <1>9 DEF OneRemoved
  <2>2. threw' \in BOOLEAN  BY Zenon DEF BlocksHold, CountInv
  <2>3. mSize' = Len(t) /\ mSize' <= pushed' /\ pushed' \in 0..MaxItems
    BY <1>8, <2>1, BlockQueueAssumption DEF BlocksHold, CountInv, BlockQueueAssumption
  <2> QED BY <1>8, <2>2, <2>3 DEF CountInv
<1>11. Contents \in Seq(Item) /\ \E n \in 1..Len(Contents) : Contents' = RemoveAt(Contents, n)
  BY <1>8, <1>9, Zenon DEF OneRemoved
<1>12. IsFront(k, i) => Contents # <<>> /\ Contents' = Tail(Contents)
  BY <1>7, <1>8, <1>9, Zenon DEF OneRemoved
<1> QED BY <1>5, <1>10, <1>11, <1>12, Zenon DEF BlocksHold

\* While there are items the first entry is one.
LEMMA FrontFilled ==
    ASSUME BlocksHold, mSize > 0
    PROVE  /\ 1 \in 1..Len(blocks) /\ blocks[1].mBegin \in Filled(blocks[1])
           /\ Occupied(blocks[1]) > 0 /\ FrontEntry # Hole
<1>0. /\ blocks \in Seq(Block) /\ Len(blocks) \in Nat /\ Len(blocks) > 0 /\ FrontIsItem(blocks)
      /\ Contents = ContentsOf(blocks) /\ mSize = Len(Contents)
  BY ContentsIs DEF BlocksHold, BlocksInv, CountInv
<1>1. 1 \in 1..Len(blocks) /\ IsBlock(blocks[1])
  <2>1. 1 \in 1..Len(blocks)  BY <1>0
  <2> QED BY <1>0, <2>1, BlockIs
<1>2. ~(Len(blocks) = 1 /\ Occupied(blocks[1]) = 0)
  <2> SUFFICES ASSUME Len(blocks) = 1, Occupied(blocks[1]) = 0 PROVE FALSE  OBVIOUS
  <2>1. PICK s \in Seq(Seq(Item)) : s = Lists(blocks) /\ Len(s) = 1 /\ \A j \in 1..1 : s[j] = InBlock(blocks[j])
    BY <1>0, ListsType
  <2>2. Filled(blocks[1]) = {}  BY <1>1 DEF Filled, Occupied, IsBlock
  <2>3. InBlock(blocks[1]) = <<>>  BY <1>1, <2>2, NothingFilled
  <2>4. \A j \in 1..Len(s) : s[j] = <<>>  BY <2>1, <2>3
  <2>5. FlattenSeq(s) = <<>>  BY <2>4, FlattenNothing
  <2>6. Contents = <<>>  BY <1>0, <2>1, <2>5 DEF ContentsOf
  <2> QED BY <1>0, <2>6
<1>3. Occupied(blocks[1]) > 0 /\ FrontEntry # Hole  BY <1>0, <1>2 DEF FrontIsItem, FrontEntry
<1>4. blocks[1].mBegin \in Filled(blocks[1])
  BY <1>1, <1>3 DEF Filled, Occupied, IsBlock, FrontEntry
<1> QED BY <1>1, <1>3, <1>4

LEMMA PopStep ==
    ASSUME BlocksHold, PopFront
    PROVE  BlocksHold' /\ Contents # <<>> /\ Contents' = Tail(Contents) /\ UNCHANGED pushed
<1>1. 1 \in 1..Len(blocks) /\ blocks[1].mBegin \in Filled(blocks[1])  BY FrontFilled DEF PopFront
<1>2. PICK k, i : k = 1 /\ i = blocks[1].mBegin  OBVIOUS
<1>3. /\ k \in 1..Len(blocks) /\ i \in Filled(blocks[k]) /\ IsFront(k, i)
      /\ blocks' = (IF IsFront(k, i) THEN SkipHoles(Reset(k, i)) ELSE Reset(k, i))
      /\ mSize' = mSize - 1 /\ UNCHANGED <<pushed, threw>>
  BY <1>1, <1>2 DEF PopFront, IsFront
<1>4. BlocksHold' /\ Contents # <<>> /\ Contents' = Tail(Contents)  BY <1>3, TakeStep
<1> QED BY <1>3, <1>4

LEMMA EraseStep ==
    ASSUME BlocksHold, NEW k \in DOMAIN blocks, NEW i, EraseValid(k, i)
    PROVE  BlocksHold' /\ UNCHANGED pushed /\ \E n \in 1..Len(Contents) : Contents' = RemoveAt(Contents, n)
<1>1. /\ k \in 1..Len(blocks) /\ i \in Filled(blocks[k])
      /\ blocks' = (IF IsFront(k, i) THEN SkipHoles(Reset(k, i)) ELSE Reset(k, i))
      /\ mSize' = mSize - 1 /\ UNCHANGED <<pushed, threw>>
  BY DEF EraseValid, IsFront, BlocksHold, BlocksInv
<1>2. BlocksHold' /\ \E n \in 1..Len(Contents) : Contents' = RemoveAt(Contents, n)  BY <1>1, TakeStep
<1> QED BY <1>1, <1>2

LEMMA StutterStep ==
    ASSUME BlocksHold, blocks' = blocks, mSize' = mSize, pushed' = pushed, threw' \in BOOLEAN
    PROVE  BlocksHold' /\ Contents' = Contents
<1>1. BlocksInv'  BY DEF BlocksHold, BlocksInv
<1>2. Contents' = Contents  BY DEF Contents
<1>3. CountInv'
  <2>1. mSize' = Len(Contents') /\ mSize' <= pushed' /\ pushed' \in 0..MaxItems
    BY <1>2 DEF BlocksHold, CountInv
  <2> QED BY <2>1 DEF CountInv
<1> QED BY <1>1, <1>2, <1>3 DEF BlocksHold

\* Every step keeps the invariant and is a step of the abstract queue, or none.
LEMMA QueueStep ==
    ASSUME BlocksHold, [QueueNext]_queueVars
    PROVE  BlocksHold' /\ [Abstract!Next]_(Abstract!vars)
<1>0. Contents \in Seq(Item) /\ DOMAIN Contents = 1..Len(Contents)
  <2>1. Contents \in Seq(Item)  BY ContentsIs, ListsType DEF BlocksHold, BlocksInv
  <2> QED BY <2>1
<1>1. CASE PushBack
  <2>1. BlocksHold' /\ Contents' = Append(Contents, pushed + 1) /\ pushed' = pushed + 1  BY <1>1, PushStep
  <2>2. Abstract!Push  BY <1>1, <2>1 DEF PushBack, Abstract!Push
  <2> QED BY <2>1, <2>2 DEF Abstract!Next
<1>2. CASE PopFront
  <2>1. BlocksHold' /\ Contents # <<>> /\ Contents' = Tail(Contents) /\ UNCHANGED pushed  BY <1>2, PopStep
  <2>2. Abstract!Pop  BY <2>1 DEF Abstract!Pop
  <2> QED BY <2>1, <2>2 DEF Abstract!Next
<1>3. ASSUME NEW k \in DOMAIN blocks, NEW i, EraseValid(k, i)
      PROVE  BlocksHold' /\ [Abstract!Next]_(Abstract!vars)
  <2>1. BlocksHold' /\ UNCHANGED pushed /\ \E n \in 1..Len(Contents) : Contents' = RemoveAt(Contents, n)
    BY <1>3, EraseStep
  <2>2. Abstract!Erase  BY <1>0, <2>1 DEF Abstract!Erase, Abstract!RemoveAt, RemoveAt
  <2> QED BY <2>1, <2>2 DEF Abstract!Next
<1>4. ASSUME NEW k \in DOMAIN blocks, NEW i, EraseThrows(k, i)
      PROVE  BlocksHold' /\ [Abstract!Next]_(Abstract!vars)
  <2>1. blocks' = blocks /\ mSize' = mSize /\ pushed' = pushed /\ threw' \in BOOLEAN
    BY <1>4, Zenon DEF EraseThrows
  <2>2. BlocksHold' /\ Contents' = Contents  BY <2>1, StutterStep
  <2> QED BY <2>1, <2>2 DEF Abstract!vars
<1>5. CASE UNCHANGED queueVars
  <2>1. blocks' = blocks /\ mSize' = mSize /\ pushed' = pushed /\ threw' = threw  BY <1>5 DEF queueVars
  <2>2. threw' \in BOOLEAN  BY <2>1, Zenon DEF BlocksHold, CountInv
  <2>3. BlocksHold' /\ Contents' = Contents  BY <2>1, <2>2, StutterStep
  <2> QED BY <2>1, <2>3 DEF Abstract!vars
<1> QED BY <1>1, <1>2, <1>3, <1>4, <1>5 DEF QueueNext
-----------------------------------------------------------------------------
(* The theorems *)

\* The blocks always begin with an item, hold the items at positions that are in
\* use, and are counted by mSize.
THEOREM BlocksKept == QueueSpec => []BlocksHold
<1>1. QueueInit => BlocksHold  BY QueueInitInv
<1>2. BlocksHold /\ [QueueNext]_queueVars => BlocksHold'  BY QueueStep
<1> QED BY <1>1, <1>2, PTL DEF QueueSpec

\* The positions of a block span at most its capacity, and size() is never more
\* than what was pushed.
THEOREM BlockTypes == QueueSpec => []QueueTypeOK
<1>1. BlocksHold => QueueTypeOK
  <2> SUFFICES ASSUME BlocksHold PROVE QueueTypeOK  OBVIOUS
  <2>1. ASSUME NEW k \in DOMAIN blocks
        PROVE  /\ blocks[k].mBegin \in Nat /\ Occupied(blocks[k]) \in 0..blocks[k].cap
               /\ \A i \in DOMAIN blocks[k].data : blocks[k].data[i] \in Item \cup {Hole}
    <3>1. blocks[k] \in Block  BY DEF BlocksHold, BlocksInv
    <3>2. IsBlock(blocks[k])  BY <3>1, BlockIs
    <3> QED BY <3>2 DEF IsBlock, Occupied
  <2>2. Contents \in Seq(Item)  BY ContentsIs, ListsType DEF BlocksHold, BlocksInv
  <2>3. mSize \in 0..MaxItems /\ pushed \in 0..MaxItems
    BY <2>2, BlockQueueAssumption DEF BlocksHold, CountInv, BlockQueueAssumption
  <2>4. threw \in BOOLEAN  BY Zenon DEF BlocksHold, CountInv
  <2> QED BY <2>1, <2>3, <2>4 DEF QueueTypeOK
<1> QED BY <1>1, BlocksKept, PTL

\* front() returns an item whenever size() is not 0, however items were erased
\* and blocks emptied, and size() counts the items.
THEOREM FrontIsThere == QueueSpec => []FrontHasValue
<1>1. BlocksHold => FrontHasValue  BY FrontFilled DEF FrontHasValue, BlocksHold, CountInv
<1> QED BY <1>1, BlocksKept, PTL

\* A new item never replaces one that is still queued, wherever the positions of
\* a block have wrapped around.
THEOREM NothingIsOverwritten == QueueSpec => []NoItemOutside
<1>1. BlocksHold => NoItemOutside  BY DEF BlocksHold, BlocksInv, Inside, NoItemOutside
<1> QED BY <1>1, BlocksKept, PTL

\* The list of blocks is one queue: push_back, pop_front and erase do to the
\* items what they do in the abstract queue, for every capacity of the first
\* block, across every new block and every block that is dropped.
THEOREM QueueIsImplemented == QueueSpec => ImplementsQueue
<1>1. QueueInit => Abstract!Init
  <2> SUFFICES ASSUME QueueInit PROVE Abstract!Init  OBVIOUS
  <2>1. Contents = <<>>  BY QueueInitInv
  <2> QED BY <2>1 DEF QueueInit, Abstract!Init
<1>2. BlocksHold /\ [QueueNext]_queueVars => [Abstract!Next]_(Abstract!vars)  BY QueueStep
<1> QED BY <1>1, <1>2, BlocksKept, PTL DEF QueueSpec, ImplementsQueue, Abstract!Spec
=============================================================================
