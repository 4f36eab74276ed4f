------------------------- MODULE TasqClientGatherer -------------------------
(* The gathering thread survives until close, for every number of caller  *)
(* threads and jobs, when callers never reuse a name and recv raises no   *)
(* transient error: set_result is never called on a done future.          *)
(*                                                                         *)
(* GathererSurvives is not inductive.  The thread dies when a result      *)
(* finds its future done, so the proof must show that the future under   *)
(* the result's name was completed, if at all, by that very send, and    *)
(* that each send is answered once.  The first needs FutureIntegrity's    *)
(* strengthening IInv (a key names one job) and that a job is sent once: *)
(* the deque holds distinct jobs never sent.  The second needs that a    *)
(* future's value is a send already gathered.                             *)
EXTENDS TasqClientFifo

(* No job is sent twice.                                                   *)
SendsUnique ==
    \A i, j \in 1..Len(sent) : sent[i].uid = sent[j].uid => i = j

(* The deque holds distinct jobs, none of them sent yet.                  *)
PendingFresh ==
    /\ \A i, j \in 1..Len(pending) : pending[i].uid = pending[j].uid => i = j
    /\ \A i \in 1..Len(pending), k \in 1..Len(sent) : pending[i].uid # sent[k].uid

(* A done future was completed by a send whose result was received, and  *)
(* the ZMQ loop's job_result is one received.                             *)
DoneGathered ==
    /\ \A f \in 1..Len(fut) : fut[f].val # 0 => fut[f].val \in gathered
    /\ last # 0 => last \in gathered

GParts ==
    /\ UidsBuilt
    /\ SendsUnique
    /\ PendingFresh
    /\ DoneGathered
    /\ GathererSurvives

GInv == IInv /\ GParts

----------------------------------------------------------------------------
(* The heart of the proof: the answer to a send not yet received finds   *)
(* its future not done.  The future under its name belongs to its job    *)
(* (KeyOwner, NamesUnique); if that future were done, the send that did  *)
(* it would carry the same job (FutureIntegrity), so it would be this     *)
(* send (SendsUnique), which was not received yet (DoneGathered).         *)
LEMMA AnswerFindsOpenFuture ==
    ASSUME TypeRest, IntegrityParts, SendsUnique, DoneGathered,
           NEW i \in 1..Len(sent), i \notin gathered,
           sent[i].name \in DOMAIN results
    PROVE  fut[results[sent[i].name]].val = 0
<1> DEFINE k == sent[i].name
           f == results[k]
           j == fut[f].val
<1> SUFFICES ASSUME j # 0 PROVE FALSE
  OBVIOUS
<1>1. /\ f \in 1..Len(fut)
      /\ sent[i] \in Job
      /\ fut[f] \in Future
  BY DEF TypeRest
<1>2. j \in gathered /\ j \in 1..Len(sent)
  BY <1>1 DEF DoneGathered, TypeRest
<1>3. sent[j].uid = fut[f].job.uid
  BY <1>1, <1>2 DEF IntegrityParts, FutureIntegrity
<1>4. k # NoName
  BY <1>1, ConstantFacts DEF Job
<1>5. fut[f].job.name = k
  BY <1>4 DEF IntegrityParts, KeyOwner
<1>6. fut[f].job.uid = sent[i].uid
  <2>1. Known(fut[f].job) /\ Known(sent[i])
    BY <1>1 DEF IntegrityParts, JobsKnown
  <2>2. submitted[fut[f].job.uid].name = submitted[sent[i].uid].name
    BY <1>5, <2>1 DEF Known
  <2>. QED
    BY <2>1, <2>2 DEF IntegrityParts, NamesUnique, Known
<1>7. j = i
  BY <1>2, <1>3, <1>6 DEF SendsUnique
<1>. QED
  BY <1>2, <1>7

(* The body of schedule keeps the jobs sent and buffered distinct, when  *)
(* the job it sends or buffers is neither sent nor left in the deque, and *)
(* the deque it leaves holds distinct jobs none of which were sent.      *)
LEMMA SendOrBufferFresh ==
    ASSUME TypeRest, SendsUnique,
           NEW job \in Job, NEW key \in Keys, NEW rest \in Seq(Job),
           \A k \in 1..Len(sent) : sent[k].uid # job.uid,
           \A i \in 1..Len(rest) : rest[i].uid # job.uid,
           \A i, j \in 1..Len(rest) : rest[i].uid = rest[j].uid => i = j,
           \A i \in 1..Len(rest), k \in 1..Len(sent) : rest[i].uid # sent[k].uid,
           SendOrBuffer(job, key, rest)
    PROVE  SendsUnique' /\ PendingFresh'
<1>1. CASE ~is_connected
  <2>1. pending' = <<job>> \o rest /\ UNCHANGED sent
    BY <1>1, Zenon DEF SendOrBuffer
  <2>2. /\ Len(pending') = Len(rest) + 1
        /\ pending'[1] = job
        /\ \A i \in 2..Len(pending') : pending'[i] = rest[i - 1]
    BY <2>1
  <2>3. \A i, j \in 1..Len(pending') : pending'[i].uid = pending'[j].uid => i = j
    <3> SUFFICES ASSUME NEW i \in 1..Len(pending'), NEW j \in 1..Len(pending'),
                        pending'[i].uid = pending'[j].uid
                 PROVE  i = j
      OBVIOUS
    <3>1. CASE i = 1 /\ j = 1
      BY <3>1
    <3>2. CASE i = 1 /\ j > 1
      BY <2>2, <3>2
    <3>3. CASE i > 1 /\ j = 1
      BY <2>2, <3>3
    <3>4. CASE i > 1 /\ j > 1
      BY <2>2, <3>4
    <3>. QED
      BY <3>1, <3>2, <3>3, <3>4
  <2>4. \A i \in 1..Len(pending'), k \in 1..Len(sent') : pending'[i].uid # sent'[k].uid
    <3> SUFFICES ASSUME NEW i \in 1..Len(pending'), NEW k \in 1..Len(sent)
                 PROVE  pending'[i].uid # sent[k].uid
      BY <2>1
    <3>1. CASE i = 1
      BY <2>2, <3>1
    <3>2. CASE i > 1
      <4>1. i - 1 \in 1..Len(rest) /\ pending'[i] = rest[i - 1]
        BY <2>2, <3>2
      <4>. QED
        BY <4>1
    <3>. QED
      BY <3>1, <3>2
  <2>. QED
    BY <2>1, <2>3, <2>4 DEF SendsUnique, PendingFresh
<1>2. CASE is_connected
  <2>1. sent' = Append(sent, job) /\ pending' = rest
    BY <1>2, Zenon DEF SendOrBuffer
  <2>2. sent \in Seq(Job)
    BY DEF TypeRest
  <2>3. SendsUnique'
    <3> SUFFICES ASSUME NEW i \in 1..Len(sent'), NEW j \in 1..Len(sent'),
                        sent'[i].uid = sent'[j].uid
                 PROVE  i = j
      BY DEF SendsUnique
    <3>1. CASE i <= Len(sent) /\ j <= Len(sent)
      BY <2>1, <2>2, <3>1 DEF SendsUnique
    <3>2. CASE i = Len(sent) + 1 /\ j <= Len(sent)
      BY <2>1, <2>2, <3>2
    <3>3. CASE i <= Len(sent) /\ j = Len(sent) + 1
      BY <2>1, <2>2, <3>3
    <3>4. CASE i = Len(sent) + 1 /\ j = Len(sent) + 1
      BY <3>4
    <3>. QED
      BY <2>1, <2>2, <3>1, <3>2, <3>3, <3>4
  <2>4. PendingFresh'
    <3>1. \A i \in 1..Len(rest), k \in 1..Len(sent') : rest[i].uid # sent'[k].uid
      <4> SUFFICES ASSUME NEW i \in 1..Len(rest), NEW k \in 1..Len(sent) + 1
                   PROVE  rest[i].uid # sent'[k].uid
        BY <2>1, <2>2
      <4>1. CASE k = Len(sent) + 1
        BY <2>1, <2>2, <4>1
      <4>2. CASE k <= Len(sent)
        BY <2>1, <2>2, <4>2
      <4>. QED
        BY <2>2, <4>1, <4>2
    <3>. QED
      BY <2>1, <3>1 DEF PendingFresh
  <2>. QED
    BY <2>3, <2>4
<1>. QED
  BY <1>1, <1>2

(* The body of schedule keeps every part of the strengthening, when the   *)
(* job and the deque it leaves are fresh and were built.                  *)
LEMMA SendOrBufferGParts ==
    ASSUME TypeRest, GParts,
           NEW job \in Job, NEW key \in Keys, NEW rest \in Seq(Job),
           \A k \in 1..Len(sent) : sent[k].uid # job.uid,
           \A i \in 1..Len(rest) : rest[i].uid # job.uid,
           \A i, j \in 1..Len(rest) : rest[i].uid = rest[j].uid => i = j,
           \A i \in 1..Len(rest), k \in 1..Len(sent) : rest[i].uid # sent[k].uid,
           Len(submitted') \in Nat, Len(submitted) <= Len(submitted'),
           job.uid <= Len(submitted'),
           \A i \in 1..Len(rest) : rest[i].uid <= Len(submitted'),
           SendOrBuffer(job, key, rest),
           UNCHANGED <<closed, gatherer, gathered, last>>
    PROVE  GParts'
<1>1. SendsUnique' /\ PendingFresh'
  BY SendOrBufferFresh DEF GParts
<1>2. /\ sent \in Seq(Job)
      /\ \A x \in Job : x.uid \in Nat
      /\ \A k \in 1..Len(sent) : sent[k].uid <= Len(submitted)
  BY DEF TypeRest, Job, GParts, UidsBuilt
<1>3. \A f \in 1..Len(fut) : fut[f].val # 0 => fut[f].val \in gathered
  BY DEF GParts, DoneGathered
<1>4. CASE ~is_connected
  <2>1. pending' = <<job>> \o rest /\ UNCHANGED <<fut, sent>>
    BY <1>4, Zenon DEF SendOrBuffer
  <2>2. UidsBuilt'
    <3>1. \A k \in 1..Len(sent) : sent[k].uid <= Len(submitted')
      BY <1>2
    <3>2. \A i \in 1..Len(pending') : pending'[i].uid <= Len(submitted')
      <4> SUFFICES ASSUME NEW i \in 1..Len(pending')
                   PROVE  pending'[i].uid <= Len(submitted')
        OBVIOUS
      <4>1. CASE i = 1
        BY <2>1, <4>1
      <4>2. CASE i > 1
        <5>1. i - 1 \in 1..Len(rest) /\ pending'[i] = rest[i - 1]
          BY <2>1, <4>2
        <5>. QED
          BY <5>1
      <4>. QED
        BY <4>1, <4>2
    <3>. QED
      BY <2>1, <3>1, <3>2 DEF UidsBuilt
  <2>3. DoneGathered' /\ GathererSurvives'
    BY <2>1 DEF GParts, DoneGathered, GathererSurvives
  <2>. QED
    BY <1>1, <2>2, <2>3 DEF GParts
<1>5. CASE is_connected
  <2>1. /\ fut' = Append(fut, [job |-> job, val |-> 0])
        /\ sent' = Append(sent, job)
        /\ pending' = rest
    BY <1>5, Zenon DEF SendOrBuffer
  <2>2. UidsBuilt'
    <3>1. \A k \in 1..Len(sent') : sent'[k].uid <= Len(submitted')
      <4> SUFFICES ASSUME NEW k \in 1..Len(sent) + 1
                   PROVE  sent'[k].uid <= Len(submitted')
        BY <1>2, <2>1
      <4>1. CASE k = Len(sent) + 1
        BY <1>2, <2>1, <4>1
      <4>2. CASE k <= Len(sent)
        <5>1. k \in 1..Len(sent) /\ sent'[k] = sent[k]
          BY <1>2, <2>1, <4>2
        <5>2. sent[k].uid \in Nat /\ sent[k].uid <= Len(submitted)
          BY <1>2, <5>1
        <5>. QED
          BY <5>1, <5>2
      <4>. QED
        BY <1>2, <4>1, <4>2
    <3>. QED
      BY <2>1, <3>1 DEF UidsBuilt
  <2>3. DoneGathered'
    <3>1. \A f \in 1..Len(fut') : fut'[f].val # 0 => fut'[f].val \in gathered
      <4> SUFFICES ASSUME NEW f \in 1..Len(fut) + 1, fut'[f].val # 0
                   PROVE  fut'[f].val \in gathered
        BY <2>1 DEF TypeRest
      <4>1. f # Len(fut) + 1
        BY <2>1 DEF TypeRest
      <4>2. f \in 1..Len(fut) /\ fut'[f] = fut[f]
        BY <2>1, <4>1 DEF TypeRest
      <4>. QED
        BY <1>3, <4>2
    <3>. QED
      BY <3>1 DEF GParts, DoneGathered
  <2>4. GathererSurvives'
    BY DEF GParts, GathererSurvives
  <2>. QED
    BY <1>1, <2>2, <2>3, <2>4 DEF GParts
<1>. QED
  BY <1>4, <1>5

(* schedule and schedule_blocking build a job newer than every job sent   *)
(* or buffered, so the strengthening is kept.                              *)
LEMMA SubmitGParts ==
    ASSUME TypeRest, GParts,
           NEW arg \in Names, NEW by \in {"schedule", "blocking"},
           Len(submitted) < MaxJobs,
           submitted' = Append(submitted, MakeJob(arg, by)),
           SendOrBuffer(MakeJob(arg, by), arg, pending),
           UNCHANGED <<closed, gatherer, gathered, last>>
    PROVE  GParts'
<1> DEFINE job == MakeJob(arg, by)
<1>1. job \in Job /\ job.uid = Len(submitted) + 1
  BY MakeJobType DEF MakeJob
<1>2. /\ \A k \in 1..Len(sent) : sent[k].uid < job.uid
      /\ \A i \in 1..Len(pending) : pending[i].uid < job.uid
  BY <1>1, NewestJob DEF GParts
<1>3. /\ pending \in Seq(Job) /\ sent \in Seq(Job)
      /\ \A x \in Job : x.uid \in Nat
      /\ Len(submitted) \in Nat
      /\ Len(submitted') = Len(submitted) + 1
      /\ arg \in Keys
  BY DEF TypeRest, Job, Keys
<1>4. /\ \A k \in 1..Len(sent) : sent[k].uid # job.uid
      /\ \A i \in 1..Len(pending) : pending[i].uid # job.uid
      /\ \A i \in 1..Len(pending) : pending[i].uid <= Len(submitted')
  BY <1>1, <1>2, <1>3
<1>5. /\ Len(submitted') \in Nat
      /\ Len(submitted) <= Len(submitted')
      /\ job.uid <= Len(submitted')
  BY <1>1, <1>3
<1>6. /\ \A i, j \in 1..Len(pending) : pending[i].uid = pending[j].uid => i = j
      /\ \A i \in 1..Len(pending), k \in 1..Len(sent) : pending[i].uid # sent[k].uid
  BY DEF GParts, PendingFresh
<1>. QED
  BY <1>1, <1>3, <1>4, <1>5, <1>6, SendOrBufferGParts

(* One iteration of connect's drain loop sends or re-buffers the right    *)
(* end of the deque, a job never sent, and keeps the rest.                *)
LEMMA DrainGParts ==
    ASSUME TypeRest, GParts, pending # <<>>,
           SendOrBuffer(pending[Len(pending)], pending[Len(pending)].name,
                        SubSeq(pending, 1, Len(pending) - 1)),
           UNCHANGED <<submitted, closed, gatherer, gathered, last>>
    PROVE  GParts'
<1> DEFINE n == Len(pending)
           job == pending[n]
           rest == SubSeq(pending, 1, n - 1)
<1>1. /\ n \in Nat \ {0}
      /\ pending \in Seq(Job)
      /\ Len(submitted) \in Nat
      /\ job \in Job
  BY DEF TypeRest
<1>2. /\ rest \in Seq(Job)
      /\ Len(rest) = n - 1
      /\ \A i \in 1..n - 1 : rest[i] = pending[i]
  <2>1. n - 1 \in 0..Len(pending)
    BY <1>1
  <2>. QED
    BY <1>1, <2>1, SubSeqProps
<1>3. job.name \in Keys
  BY <1>1 DEF Job, Keys
<1>4. \A k \in 1..Len(sent) : sent[k].uid # job.uid
  BY <1>1 DEF GParts, PendingFresh
<1>5. \A i \in 1..Len(rest) : rest[i].uid # job.uid
  BY <1>1, <1>2 DEF GParts, PendingFresh
<1>6. \A i, j \in 1..Len(rest) : rest[i].uid = rest[j].uid => i = j
  BY <1>1, <1>2 DEF GParts, PendingFresh
<1>7. \A i \in 1..Len(rest), k \in 1..Len(sent) : rest[i].uid # sent[k].uid
  BY <1>1, <1>2 DEF GParts, PendingFresh
<1>8. /\ job.uid <= Len(submitted)
      /\ \A i \in 1..Len(rest) : rest[i].uid <= Len(submitted)
  BY <1>1, <1>2 DEF GParts, UidsBuilt
<1>9. /\ Len(submitted') \in Nat
      /\ Len(submitted) <= Len(submitted')
  BY <1>1
<1>. QED
  BY <1>1, <1>2, <1>3, <1>4, <1>5, <1>6, <1>7, <1>8, <1>9, SendOrBufferGParts

(* The gathering thread receives the answer to send i, not received      *)
(* before: its future is open, so set_result completes it and the thread *)
(* lives on.                                                               *)
LEMMA GatherGParts ==
    ASSUME TypeRest, IntegrityParts, GParts,
           NEW i \in 1..MaxJobs, GatherResults(i)
    PROVE  GParts'
<1> DEFINE k == sent[i].name
<1>1. /\ gatherer = "alive" /\ ~closed
      /\ i \in 1..Len(sent) /\ i \notin gathered
      /\ gathered' = gathered \cup {i} /\ last' = i
      /\ SetResult(i)
      /\ UNCHANGED <<closed, pending, results, sent, submitted>>
  BY DEF GatherResults
<1>2. UidsBuilt' /\ SendsUnique' /\ PendingFresh'
  BY <1>1 DEF GParts, UidsBuilt, SendsUnique, PendingFresh
<1>3. \A f \in 1..Len(fut) : fut[f].val # 0 => fut[f].val \in gathered
  BY DEF GParts, DoneGathered
<1>4. CASE k \notin DOMAIN results
  <2>1. UNCHANGED <<fut, gatherer>>
    BY <1>1, <1>4, Zenon DEF SetResult
  <2>. QED
    BY <1>1, <1>2, <1>3, <2>1 DEF GParts, DoneGathered, GathererSurvives
<1>5. CASE k \in DOMAIN results
  <2> DEFINE f == results[k]
  <2>1. fut[f].val = 0
    BY <1>1, <1>5, AnswerFindsOpenFuture DEF GParts
  <2>2. fut' = [fut EXCEPT ![f].val = i] /\ UNCHANGED gatherer
    BY <1>1, <1>5, <2>1, Zenon DEF SetResult
  <2>3. f \in 1..Len(fut) /\ fut \in Seq(Future)
    BY <1>5 DEF TypeRest
  <2>4. \A g \in 1..Len(fut') : fut'[g].val # 0 => fut'[g].val \in gathered'
    <3> SUFFICES ASSUME NEW g \in 1..Len(fut), fut'[g].val # 0
                 PROVE  fut'[g].val \in gathered'
      BY <2>2, <2>3
    <3>1. CASE g = f
      BY <1>1, <2>2, <2>3, <3>1 DEF Future
    <3>2. CASE g # f
      BY <1>1, <1>3, <2>2, <2>3, <3>2
    <3>. QED
      BY <3>1, <3>2
  <2>. QED
    BY <1>1, <1>2, <2>2, <2>4 DEF GParts, DoneGathered, GathererSurvives
<1>. QED
  BY <1>4, <1>5

(* A ZMQ recv error can only happen once the client is closed when no   *)
(* transient error occurs; the stale job_result it applies again is one  *)
(* received before.                                                        *)
LEMMA RecvErrorGParts ==
    ASSUME TypeRest, GParts, Transport = "zmq" => MaxErrors = 0,
           GatherRecvError
    PROVE  GParts'
<1>1. /\ Transport = "zmq" /\ closed
      /\ UNCHANGED <<closed, last, pending, results, sent, gathered, submitted>>
  BY ConstantFacts DEF GatherRecvError, TypeRest
<1>2. UidsBuilt' /\ SendsUnique' /\ PendingFresh'
  BY <1>1 DEF GParts, UidsBuilt, SendsUnique, PendingFresh
<1>5. GathererSurvives'
  BY <1>1 DEF GathererSurvives
<1>3. \A f \in 1..Len(fut) : fut[f].val # 0 => fut[f].val \in gathered
  BY DEF GParts, DoneGathered
<1>4. \A g \in 1..Len(fut') : fut'[g].val # 0 => fut'[g].val \in gathered
  <2>1. CASE last = 0
    <3>1. UNCHANGED fut
      BY <2>1, Zenon DEF GatherRecvError
    <3>. QED
      BY <1>3, <3>1
  <2>2. CASE last # 0 /\ sent[last].name \notin DOMAIN results
    <3>1. UNCHANGED fut
      BY <2>2, Zenon DEF GatherRecvError, SetResult
    <3>. QED
      BY <1>3, <3>1
  <2>3. CASE last # 0 /\ sent[last].name \in DOMAIN results
                      /\ fut[results[sent[last].name]].val # 0
    <3>1. UNCHANGED fut
      BY <2>3, Zenon DEF GatherRecvError, SetResult
    <3>. QED
      BY <1>3, <3>1
  <2>4. CASE last # 0 /\ sent[last].name \in DOMAIN results
                      /\ fut[results[sent[last].name]].val = 0
    <3> DEFINE f == results[sent[last].name]
    <3>1. fut' = [fut EXCEPT ![f].val = last]
      BY <2>4, Zenon DEF GatherRecvError, SetResult
    <3>2. f \in 1..Len(fut) /\ fut \in Seq(Future) /\ last \in gathered
      BY <2>4 DEF TypeRest, GParts, DoneGathered
    <3> SUFFICES ASSUME NEW g \in 1..Len(fut), fut'[g].val # 0
                 PROVE  fut'[g].val \in gathered
      BY <3>1, <3>2
    <3>3. CASE g = f
      BY <3>1, <3>2, <3>3 DEF Future
    <3>4. CASE g # f
      BY <1>3, <3>1, <3>2, <3>4
    <3>. QED
      BY <3>3, <3>4
  <2>. QED
    BY <2>1, <2>2, <2>3, <2>4
<1>. QED
  BY <1>1, <1>2, <1>4, <1>5 DEF GParts, DoneGathered

(* A caller step that leaves the deque, the sends, the futures and the    *)
(* gathering state alone, never reopens the client and never kills the   *)
(* thread keeps the strengthening.                                         *)
LEMMA QuietGParts ==
    ASSUME GParts,
           UNCHANGED <<pending, sent, submitted, fut, gathered, last>>,
           ~closed' => ~closed,
           gatherer' = "dead" => gatherer = "dead"
    PROVE  GParts'
BY DEF GParts, UidsBuilt, SendsUnique, PendingFresh, DoneGathered,
       GathererSurvives

----------------------------------------------------------------------------
LEMMA GInvParts == GInv <=> TypeOK /\ IntegrityParts /\ GParts
BY IInvParts DEF GInv

LEMMA InitGInv == Init => GInv
<1> SUFFICES ASSUME Init PROVE GInv
  OBVIOUS
<1>1. IInv
  BY InitIInv
<1>2. GParts
  BY DEF Init, GParts, UidsBuilt, SendsUnique, PendingFresh, DoneGathered,
         GathererSurvives
<1>. QED
  BY <1>1, <1>2 DEF GInv

(* Each step of a caller thread keeps GParts.                              *)
LEMMA CallerGParts ==
    ASSUME TypeRest, GParts, NEW t \in Threads,
           \/ \E arg \in Names : Schedule(t, arg)
           \/ Connect(t)
           \/ Drain(t)
           \/ Disconnect(t)
           \/ Close(t)
           \/ ScheduleBlocking(t)
           \/ \E arg \in Names : ScheduleBlockingSend(t, arg)
           \/ ResultReturns(t)
           \/ ResultTimeout(t)
           \/ ExitEnter(t)
           \/ ExitScan(t)
    PROVE  GParts'
<1>1. CASE \E arg \in Names : Schedule(t, arg)
  <2>1. PICK arg \in Names : Schedule(t, arg)
    BY <1>1
  <2>2. /\ Len(submitted) < MaxJobs
        /\ submitted' = Append(submitted, MakeJob(arg, "schedule"))
        /\ SendOrBuffer(MakeJob(arg, "schedule"), arg, pending)
        /\ UNCHANGED <<closed, gatherer, gathered, last>>
    BY <2>1 DEF Schedule
  <2>. QED
    BY <2>2, SubmitGParts
<1>2. CASE \E arg \in Names : ScheduleBlockingSend(t, arg)
  <2>1. PICK arg \in Names : ScheduleBlockingSend(t, arg)
    BY <1>2
  <2>2. /\ Len(submitted) < MaxJobs
        /\ submitted' = Append(submitted, MakeJob(arg, "blocking"))
        /\ SendOrBuffer(MakeJob(arg, "blocking"), arg, pending)
        /\ UNCHANGED <<closed, gatherer, gathered, last>>
    BY <2>1 DEF ScheduleBlockingSend
  <2>. QED
    BY <2>2, SubmitGParts
<1>3. CASE Drain(t) /\ pending # <<>>
  <2>1. /\ SendOrBuffer(pending[Len(pending)], pending[Len(pending)].name,
                        SubSeq(pending, 1, Len(pending) - 1))
        /\ UNCHANGED <<submitted, closed, gatherer, gathered, last>>
    BY <1>3, Zenon DEF Drain
  <2>. QED
    BY <1>3, <2>1, DrainGParts
<1>4. CASE Drain(t) /\ pending = <<>>
  <2>1. UNCHANGED <<pending, sent, submitted, fut, gathered, last,
                    closed, gatherer>>
    BY <1>4, Zenon DEF Drain
  <2>. QED
    BY <2>1, QuietGParts
<1>5. CASE Connect(t)
  <2>1. /\ UNCHANGED <<pending, sent, submitted, fut, gathered, last, closed>>
        /\ gatherer' = "dead" => gatherer = "dead"
    BY <1>5 DEF Connect
  <2>. QED
    BY <2>1, QuietGParts
<1>6. CASE \/ Disconnect(t) \/ ScheduleBlocking(t)
           \/ ResultReturns(t) \/ ResultTimeout(t) \/ ExitEnter(t)
  <2>1. UNCHANGED <<pending, sent, submitted, fut, gathered, last,
                    closed, gatherer>>
    BY <1>6 DEF Disconnect, ScheduleBlocking, ResultReturns, ResultTimeout,
                ExitEnter
  <2>. QED
    BY <2>1, QuietGParts
<1>7. CASE Close(t) \/ ExitScan(t)
  <2>1. /\ UNCHANGED <<pending, sent, submitted, fut, gathered, last, gatherer>>
        /\ ~closed' => ~closed
    BY <1>7 DEF Close, ExitScan
  <2>. QED
    BY <2>1, QuietGParts
<1>. QED
  BY <1>1, <1>2, <1>3, <1>4, <1>5, <1>6, <1>7

LEMMA NextGInv ==
    ASSUME FreshNames, Transport = "zmq" => MaxErrors = 0
    PROVE  GInv /\ [Next]_vars => GInv'
<1> SUFFICES ASSUME GInv, [Next]_vars PROVE GInv'
  OBVIOUS
<1>1. TypeOK /\ TypeRest /\ IntegrityParts /\ GParts
  BY GInvParts, TypeOKParts
<1>2. IInv'
  BY <1>1, NextIInv, IInvParts DEF GInv
<1>3. ASSUME NEW t \in Threads,
             \/ \E arg \in Names : Schedule(t, arg)
             \/ Connect(t)
             \/ Drain(t)
             \/ Disconnect(t)
             \/ Close(t)
             \/ ScheduleBlocking(t)
             \/ \E arg \in Names : ScheduleBlockingSend(t, arg)
             \/ ResultReturns(t)
             \/ ResultTimeout(t)
             \/ ExitEnter(t)
             \/ ExitScan(t)
      PROVE  GParts'
  BY <1>1, <1>3, CallerGParts
<1>4. ASSUME NEW i \in 1..MaxJobs, GatherResults(i) PROVE GParts'
  BY <1>1, <1>4, GatherGParts
<1>5. ASSUME GatherRecvError PROVE GParts'
  BY <1>1, <1>5, RecvErrorGParts
<1>6. ASSUME UNCHANGED vars PROVE GParts'
  BY <1>1, <1>6, QuietGParts DEF vars
<1>7. GParts'
  BY <1>3, <1>4, <1>5, <1>6 DEF Next
<1>. QED
  BY <1>2, <1>7 DEF GInv

(* The thread running _gather_results is never killed before close() by *)
(* set_result on a future already done (InvalidStateError) or by an      *)
(* unbound job_result (UnboundLocalError), for every number of caller     *)
(* threads and jobs and every transport, when callers never reuse a name *)
(* and ZMQ's recv raises only once the context is terminated.             *)
THEOREM GathererSurvivesHolds ==
    ASSUME FreshNames, Transport = "zmq" => MaxErrors = 0
    PROVE  Spec => []GathererSurvives
<1>1. Init => GInv
  BY InitGInv
<1>2. GInv /\ [Next]_vars => GInv'
  BY NextGInv
<1>3. GInv => GathererSurvives
  BY DEF GInv, GParts
<1>. QED
  BY <1>1, <1>2, <1>3, PTL DEF Spec

----------------------------------------------------------------------------
(* close() disconnects, and no caller connects a closed client.           *)
ClosedDisconnected == closed => ~is_connected

LEMMA NextClosedDisconnected ==
    ClosedDisconnected /\ [Next]_vars => ClosedDisconnected'
<1> SUFFICES ASSUME ClosedDisconnected, [Next]_vars PROVE ClosedDisconnected'
  OBVIOUS
<1>1. ASSUME NEW t \in Threads,
             \/ \E arg \in Names : Schedule(t, arg)
             \/ Connect(t)
             \/ Drain(t)
             \/ Disconnect(t)
             \/ Close(t)
             \/ ScheduleBlocking(t)
             \/ \E arg \in Names : ScheduleBlockingSend(t, arg)
             \/ ResultReturns(t)
             \/ ResultTimeout(t)
             \/ ExitEnter(t)
             \/ ExitScan(t)
      PROVE  ClosedDisconnected'
  BY <1>1 DEF ClosedDisconnected, Schedule, Connect, Drain, Disconnect, Close,
              ScheduleBlocking, ScheduleBlockingSend, ResultReturns,
              ResultTimeout, ExitEnter, ExitScan
<1>2. ASSUME (\E i \in 1..MaxJobs : GatherResults(i)) \/ GatherRecvError
      PROVE  ClosedDisconnected'
  BY <1>2 DEF ClosedDisconnected, GatherResults, GatherRecvError
<1>. QED
  BY <1>1, <1>2 DEF Next, vars, ClosedDisconnected

(* With one caller thread on a ZMQTasqClient, no job is left in the deque *)
(* while the client is connected and outside connect's drain loop: the    *)
(* only start() that raises is the one of a dead gathering thread, and    *)
(* that thread survives until close(), which disconnects.                 *)
THEOREM NoStrandedPendingZmq ==
    ASSUME NEW t0, Threads = {t0}, Transport = "zmq", FreshNames,
           MaxErrors = 0
    PROVE  Spec => []NoStrandedPending
<1> DEFINE SInv == FInv /\ GInv /\ ClosedDisconnected
<1>1. Init => SInv
  BY InitFInv, InitGInv DEF Init, ClosedDisconnected
<1>2. SInv /\ [Next]_vars => SInv'
  BY NextFInv, NextGInv, NextClosedDisconnected
<1>3. SInv => NoStrandedPending
  <2> SUFFICES ASSUME SInv, is_connected, \A t \in Threads : pc[t] # "drain",
                      pending # <<>>
               PROVE  FALSE
    BY DEF NoStrandedPending
  <2>1. gatherer = "dead"
    BY FInvParts DEF FParts, BufferedMeansRaised, StartRaises
  <2>2. ~closed
    BY DEF ClosedDisconnected
  <2>. QED
    BY <2>1, <2>2 DEF GInv, GParts, GathererSurvives
<1>. QED
  BY <1>1, <1>2, <1>3, PTL DEF Spec

=============================================================================
