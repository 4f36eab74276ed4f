--------------------------- MODULE TasqClientFifo ---------------------------
(* FIFO release for a client used by one caller thread, for every         *)
(* transport and every bound: jobs reach self._client.send in submission  *)
(* order.  With two threads it fails (run fifo_race): a schedule() of one *)
(* thread can send between the pop and the send of the other's drain.    *)
(*                                                                         *)
(* FifoRelease alone is not inductive.  The drain loop sends the deque's  *)
(* right end, so the deque must be ordered (PendingDesc) and its jobs     *)
(* newer than every job sent, unless the client can never drain again    *)
(* (StrandedForGood): a schedule() while connected sends at once, past    *)
(* jobs still buffered, only when the last connect's start() raised       *)
(* (BufferedMeansRaised), and a start() that raises once raises forever.  *)
EXTENDS TasqClientProofs

(* What SubSeq returns: a prefix of the given length, element by element. *)
LEMMA SubSeqProps ==
    ASSUME NEW S, NEW s \in Seq(S), NEW m \in 0..Len(s)
    PROVE  /\ SubSeq(s, 1, m) \in Seq(S)
           /\ Len(SubSeq(s, 1, m)) = m
           /\ \A i \in 1..m : SubSeq(s, 1, m)[i] = s[i]
OBVIOUS

FParts ==
    /\ FifoRelease
    /\ PendingDesc
    /\ UidsBuilt
    /\ StrandedForGood
    /\ BufferedMeansRaised
    /\ DrainConnected

LEMMA FInvParts == FInv <=> TypeOK /\ FParts
BY Zenon DEF FInv, FParts

----------------------------------------------------------------------------
(* The gathering thread only ever dies: set_result leaves its state alone *)
(* or kills it.                                                            *)
LEMMA SetResultGatherer ==
    ASSUME NEW i, SetResult(i)
    PROVE  gatherer' = gatherer \/ gatherer' = "dead"
BY Zenon DEF SetResult

(* A start() that raises keeps raising: the thread object never returns  *)
(* to "new", and a dead thread stays dead.                                *)
LEMMA StartRaisesKept ==
    ASSUME gatherer' = gatherer \/ (gatherer = "alive" /\ gatherer' = "dead")
    PROVE  StartRaises => StartRaises'
BY DEF StartRaises

(* A step of the one caller thread outside the drain loop that leaves     *)
(* the deque, the sends, the history and the gathering thread alone, and *)
(* does not connect, keeps the strengthening.                              *)
LEMMA CallerStepKeeps ==
    ASSUME NEW t0, Threads = {t0}, FParts,
           pc[t0] # "drain", pc'[t0] # "drain",
           is_connected' => is_connected,
           UNCHANGED <<pending, sent, submitted, gatherer>>
    PROVE  FParts'
<1>1. StartRaises' = StartRaises
  BY DEF StartRaises
<1>2. OlderBuffered' = OlderBuffered
  BY DEF OlderBuffered
<1>3. FifoRelease' /\ PendingDesc' /\ UidsBuilt'
  BY DEF FParts, FifoRelease, PendingDesc, UidsBuilt
<1>4. StrandedForGood'
  BY <1>1, <1>2 DEF FParts, StrandedForGood
<1>5. BufferedMeansRaised'
  BY <1>1 DEF FParts, BufferedMeansRaised
<1>6. DrainConnected'
  BY DEF DrainConnected
<1>. QED
  BY <1>3, <1>4, <1>5, <1>6 DEF FParts


(* A job built now is newer than every job sent or buffered.              *)
LEMMA NewestJob ==
    ASSUME TypeRest, UidsBuilt, NEW job \in Job, job.uid = Len(submitted) + 1
    PROVE  /\ \A k \in 1..Len(sent) : sent[k].uid < job.uid
           /\ \A i \in 1..Len(pending) : pending[i].uid < job.uid
<1>1. Len(submitted) \in Nat /\ job.uid \in Nat
  BY DEF TypeRest, Job
<1>2. ASSUME NEW k \in 1..Len(sent) PROVE sent[k].uid < job.uid
  <2>1. sent[k] \in Job
    BY DEF TypeRest
  <2>2. sent[k].uid \in Nat /\ sent[k].uid <= Len(submitted)
    BY <2>1 DEF UidsBuilt, Job
  <2>. QED
    BY <1>1, <2>2
<1>3. ASSUME NEW i \in 1..Len(pending) PROVE pending[i].uid < job.uid
  <2>1. pending[i] \in Job
    BY DEF TypeRest
  <2>2. pending[i].uid \in Nat /\ pending[i].uid <= Len(submitted)
    BY <2>1 DEF UidsBuilt, Job
  <2>. QED
    BY <1>1, <2>2
<1>. QED
  BY <1>2, <1>3

(* The body of schedule, run by the one caller thread outside the drain  *)
(* loop with the job it just built, keeps the strengthening.              *)
LEMMA SubmitFifo ==
    ASSUME NEW t0, Threads = {t0}, TypeRest, FParts,
           NEW job \in Job, job.uid = Len(submitted) + 1,
           NEW key \in Keys,
           submitted' = Append(submitted, job),
           SendOrBuffer(job, key, pending),
           pc[t0] # "drain", pc'[t0] # "drain",
           UNCHANGED <<is_connected, gatherer>>
    PROVE  FParts'
<1>0. /\ \A k \in 1..Len(sent) : sent[k].uid < job.uid
      /\ \A i \in 1..Len(pending) : pending[i].uid < job.uid
  BY NewestJob DEF FParts
<1>1. StartRaises' = StartRaises
  BY DEF StartRaises
<1>2. /\ Len(submitted') = Len(submitted) + 1
      /\ Len(submitted) \in Nat
      /\ job.uid \in Nat
      /\ pending \in Seq(Job) /\ sent \in Seq(Job)
      /\ \A x \in Job : x.uid \in Nat
  BY DEF TypeRest, Job
<1>3. CASE ~is_connected
  <2>1. pending' = <<job>> \o pending /\ UNCHANGED <<results, fut, sent>>
    BY <1>3, Zenon DEF SendOrBuffer
  <2>2. /\ Len(pending') = Len(pending) + 1
        /\ pending'[1] = job
        /\ \A i \in 2..Len(pending') : pending'[i] = pending[i - 1]
    BY <2>1, <1>2
  <2>3. FifoRelease'
    BY <2>1 DEF FParts, FifoRelease
  <2>4. PendingDesc'
    <3> SUFFICES ASSUME NEW i \in 1..Len(pending'), NEW j \in 1..Len(pending'),
                        i < j
                 PROVE  pending'[i].uid > pending'[j].uid
      BY DEF PendingDesc
    <3>1. j - 1 \in 1..Len(pending) /\ pending'[j] = pending[j - 1]
      BY <1>2, <2>2
    <3>2. CASE i = 1
      BY <1>0, <2>2, <3>1, <3>2
    <3>3. CASE i > 1
      <4>1. i - 1 \in 1..Len(pending) /\ pending'[i] = pending[i - 1]
        BY <1>2, <2>2, <3>3
      <4>. QED
        BY <3>1, <4>1 DEF FParts, PendingDesc
    <3>. QED
      BY <3>2, <3>3
  <2>5. UidsBuilt'
    <3>1. \A i \in 1..Len(sent') : sent'[i].uid <= Len(submitted')
      <4> SUFFICES ASSUME NEW i \in 1..Len(sent) PROVE sent[i].uid <= Len(submitted) + 1
        BY <1>2, <2>1
      <4>1. sent[i].uid \in Nat /\ sent[i].uid <= Len(submitted)
        BY <1>2 DEF FParts, UidsBuilt
      <4>. QED
        BY <1>2, <4>1
    <3>2. \A i \in 1..Len(pending') : pending'[i].uid <= Len(submitted')
      <4> SUFFICES ASSUME NEW i \in 1..Len(pending')
                   PROVE  pending'[i].uid <= Len(submitted) + 1
        BY <1>2
      <4>1. CASE i = 1
        BY <1>2, <2>2, <4>1
      <4>2. CASE i > 1
        <5>1. i - 1 \in 1..Len(pending) /\ pending'[i] = pending[i - 1]
          BY <1>2, <2>2, <4>2
        <5>2. pending[i - 1].uid \in Nat /\ pending[i - 1].uid <= Len(submitted)
          BY <1>2, <5>1 DEF FParts, UidsBuilt
        <5>. QED
          BY <1>2, <5>1, <5>2
      <4>. QED
        BY <1>2, <4>1, <4>2
    <3>. QED
      BY <3>1, <3>2 DEF UidsBuilt
  <2>6. OlderBuffered' => OlderBuffered
    <3> SUFFICES ASSUME NEW i \in 1..Len(pending'), NEW k \in 1..Len(sent),
                        pending'[i].uid <= sent[k].uid
                 PROVE  OlderBuffered
      BY <2>1 DEF OlderBuffered
    <3>1. CASE i = 1
      <4>1. sent[k].uid \in Nat
        BY <1>2
      <4>. QED
        BY <1>0, <1>2, <2>2, <3>1, <4>1
    <3>2. CASE i > 1
      <4>1. i - 1 \in 1..Len(pending) /\ pending'[i] = pending[i - 1]
        BY <1>2, <2>2, <3>2
      <4>. QED
        BY <4>1 DEF OlderBuffered
    <3>. QED
      BY <1>2, <3>1, <3>2
  <2>7. StrandedForGood'
    BY <1>1, <2>6 DEF FParts, StrandedForGood
  <2>8. BufferedMeansRaised' /\ DrainConnected'
    BY <1>3 DEF BufferedMeansRaised, DrainConnected
  <2>. QED
    BY <2>3, <2>4, <2>5, <2>7, <2>8 DEF FParts
<1>4. CASE is_connected
  <2>1. sent' = Append(sent, job) /\ pending' = pending
    BY <1>4, Zenon DEF SendOrBuffer
  <2>2. pending # <<>> => StartRaises
    BY <1>4 DEF FParts, BufferedMeansRaised
  <2>3. FifoRelease'
    <3> SUFFICES ASSUME NEW i \in 1..Len(sent'), NEW j \in 1..Len(sent'), i < j
                 PROVE  sent'[i].uid < sent'[j].uid
      BY DEF FifoRelease
    <3>1. i \in 1..Len(sent) /\ sent'[i] = sent[i]
      BY <1>2, <2>1
    <3>2. CASE j = Len(sent) + 1
      <4>1. sent'[j] = job
        BY <1>2, <2>1, <3>2
      <4>. QED
        BY <1>0, <3>1, <4>1
    <3>3. CASE j <= Len(sent)
      <4>1. j \in 1..Len(sent) /\ sent'[j] = sent[j]
        BY <1>2, <2>1, <3>3
      <4>. QED
        BY <3>1, <4>1 DEF FParts, FifoRelease
    <3>. QED
      BY <1>2, <2>1, <3>2, <3>3
  <2>4. PendingDesc'
    BY <2>1 DEF FParts, PendingDesc
  <2>5. UidsBuilt'
    <3>1. \A i \in 1..Len(sent') : sent'[i].uid <= Len(submitted')
      <4> SUFFICES ASSUME NEW i \in 1..Len(sent')
                   PROVE  sent'[i].uid <= Len(submitted) + 1
        BY <1>2
      <4>1. CASE i = Len(sent) + 1
        BY <1>2, <2>1, <4>1
      <4>2. CASE i <= Len(sent)
        <5>1. i \in 1..Len(sent) /\ sent'[i] = sent[i]
          BY <1>2, <2>1, <4>2
        <5>2. sent[i].uid \in Nat /\ sent[i].uid <= Len(submitted)
          BY <1>2, <5>1 DEF FParts, UidsBuilt
        <5>. QED
          BY <1>2, <5>1, <5>2
      <4>. QED
        BY <1>2, <2>1, <4>1, <4>2
    <3>2. \A i \in 1..Len(pending') : pending'[i].uid <= Len(submitted')
      <4> SUFFICES ASSUME NEW i \in 1..Len(pending)
                   PROVE  pending[i].uid <= Len(submitted) + 1
        BY <1>2, <2>1
      <4>1. pending[i].uid \in Nat /\ pending[i].uid <= Len(submitted)
        BY <1>2 DEF FParts, UidsBuilt
      <4>. QED
        BY <1>2, <4>1
    <3>. QED
      BY <3>1, <3>2 DEF UidsBuilt
  <2>6. OlderBuffered' => pending # <<>>
    BY <2>1 DEF OlderBuffered
  <2>7. StrandedForGood'
    BY <1>1, <2>2, <2>6 DEF StrandedForGood
  <2>8. BufferedMeansRaised'
    BY <1>1, <2>1, <2>2 DEF BufferedMeansRaised
  <2>9. DrainConnected'
    BY DEF DrainConnected
  <2>. QED
    BY <2>3, <2>4, <2>5, <2>7, <2>8, <2>9 DEF FParts
<1>. QED
  BY <1>3, <1>4

(* Appending a job newer than every job sent keeps the sends ordered.   *)
LEMMA AppendFifo ==
    ASSUME sent \in Seq(Job), FifoRelease, NEW job \in Job,
           \A k \in 1..Len(sent) : sent[k].uid < job.uid,
           sent' = Append(sent, job)
    PROVE  FifoRelease'
<1> SUFFICES ASSUME NEW i \in 1..Len(sent'), NEW j \in 1..Len(sent'), i < j
             PROVE  sent'[i].uid < sent'[j].uid
  BY DEF FifoRelease
<1>1. i \in 1..Len(sent) /\ sent'[i] = sent[i]
  OBVIOUS
<1>2. CASE j = Len(sent) + 1
  BY <1>1, <1>2
<1>3. CASE j <= Len(sent)
  <2>1. j \in 1..Len(sent) /\ sent'[j] = sent[j]
    BY <1>3
  <2>. QED
    BY <1>1, <2>1 DEF FifoRelease
<1>. QED
  BY <1>2, <1>3

(* schedule() by the one caller thread keeps the strengthening.            *)
LEMMA ScheduleFifo ==
    ASSUME NEW t0, Threads = {t0}, TypeRest, FParts,
           NEW arg \in Names, Schedule(t0, arg)
    PROVE  FParts'
<1> DEFINE job == MakeJob(arg, "schedule")
<1>1. job \in Job
  BY MakeJobType DEF Schedule
<1>2. job.uid = Len(submitted) + 1
  BY DEF MakeJob
<1>3. arg \in Keys
  BY DEF Keys
<1>4. /\ submitted' = Append(submitted, job)
      /\ SendOrBuffer(job, arg, pending)
      /\ pc[t0] # "drain" /\ pc'[t0] # "drain"
      /\ UNCHANGED <<is_connected, gatherer>>
  BY DEF Schedule
<1>. QED
  BY <1>1, <1>2, <1>3, <1>4, SubmitFifo

(* The sending step of schedule_blocking keeps the strengthening.         *)
LEMMA ScheduleBlockingSendFifo ==
    ASSUME NEW t0, Threads = {t0}, TypeRest, FParts,
           NEW arg \in Names, ScheduleBlockingSend(t0, arg)
    PROVE  FParts'
<1> DEFINE job == MakeJob(arg, "blocking")
<1>1. job \in Job
  BY MakeJobType DEF ScheduleBlockingSend
<1>2. job.uid = Len(submitted) + 1
  BY DEF MakeJob
<1>3. arg \in Keys
  BY DEF Keys
<1>4. pc'[t0] \in {"wait", "idle"} /\ pc[t0] = "sched"
  BY DEF ScheduleBlockingSend, TypeRest
<1>5. /\ submitted' = Append(submitted, job)
      /\ SendOrBuffer(job, arg, pending)
      /\ UNCHANGED <<is_connected, gatherer>>
  BY DEF ScheduleBlockingSend
<1>. QED
  BY <1>1, <1>2, <1>3, <1>4, <1>5, SubmitFifo

(* connect keeps the strengthening: it enters the drain loop only when    *)
(* start() did not raise, and then no buffered job is older than a send. *)
LEMMA ConnectFifo ==
    ASSUME NEW t0, Threads = {t0}, TypeRest, FParts, Connect(t0)
    PROVE  FParts'
<1>1. UNCHANGED <<pending, sent, submitted>> /\ is_connected'
  BY DEF Connect
<1>2. /\ FifoRelease' /\ PendingDesc' /\ UidsBuilt'
      /\ OlderBuffered' = OlderBuffered
  BY <1>1 DEF FParts, FifoRelease, PendingDesc, UidsBuilt, OlderBuffered
<1>3. DrainConnected'
  BY <1>1 DEF DrainConnected
<1>4. CASE StartRaises
  <2>1. gatherer' = gatherer
    BY <1>4 DEF Connect, StartRaises
  <2>2. StartRaises'
    BY <1>4, <2>1 DEF StartRaises
  <2>3. \A t \in Threads : pc'[t] # "drain"
    BY <1>4 DEF Connect, TypeRest
  <2>. QED
    BY <1>2, <1>3, <2>2, <2>3
       DEF FParts, StrandedForGood, BufferedMeansRaised
<1>5. CASE ~StartRaises
  <2>1. ~OlderBuffered
    BY <1>5 DEF FParts, StrandedForGood
  <2>2. pc'[t0] = "drain"
    BY <1>5 DEF Connect, TypeRest
  <2>. QED
    BY <1>2, <1>3, <2>1, <2>2
       DEF FParts, StrandedForGood, BufferedMeansRaised
<1>. QED
  BY <1>4, <1>5

(* One iteration of connect's drain loop keeps the strengthening: it      *)
(* sends the deque's right end, the oldest buffered job, which is newer  *)
(* than every job sent, and the rest stays newer than it.                 *)
LEMMA DrainFifo ==
    ASSUME NEW t0, Threads = {t0}, TypeRest, FParts, Drain(t0)
    PROVE  FParts'
<1>1. pc[t0] = "drain" /\ is_connected /\ ~OlderBuffered
  BY DEF Drain, FParts, DrainConnected, StrandedForGood
<1>2. UNCHANGED <<is_connected, gatherer, submitted>>
  BY DEF Drain
<1>3. CASE pending = <<>>
  <2>1. UNCHANGED <<pending, sent>> /\ pc' = [pc EXCEPT ![t0] = "idle"]
    BY <1>3, Zenon DEF Drain
  <2>2. pc'[t0] = "idle"
    BY <2>1 DEF TypeRest
  <2>3. ~OlderBuffered'
    BY <1>3, <2>1 DEF OlderBuffered
  <2>. QED
    BY <1>2, <1>3, <2>1, <2>2, <2>3
       DEF FParts, FifoRelease, PendingDesc, UidsBuilt, StrandedForGood,
           BufferedMeansRaised, DrainConnected
<1>4. CASE pending # <<>>
  <2> DEFINE n == Len(pending)
             job == pending[n]
             rest == SubSeq(pending, 1, n - 1)
  <2>1. SendOrBuffer(job, job.name, rest) /\ UNCHANGED pc
    BY <1>4, Zenon DEF Drain
  <2>2. sent' = Append(sent, job) /\ pending' = rest
    BY <1>1, <2>1, Zenon DEF SendOrBuffer
  <2>3. /\ n \in Nat \ {0}
        /\ pending \in Seq(Job) /\ sent \in Seq(Job)
        /\ Len(submitted) \in Nat
        /\ \A x \in Job : x.uid \in Nat
    BY <1>4 DEF TypeRest, Job
  <2>4. /\ job \in Job
        /\ Len(rest) = n - 1
        /\ \A i \in 1..n - 1 : rest[i] = pending[i]
    <3>1. job \in Job
      BY <2>3
    <3>2. n - 1 \in 0..n
      BY <2>3
    <3>3. Len(rest) = n - 1 /\ \A i \in 1..n - 1 : rest[i] = pending[i]
      BY <2>3, <3>2, SubSeqProps
    <3>. QED
      BY <3>1, <3>3
  <2>5. \A k \in 1..Len(sent) : sent[k].uid < job.uid
    <3> SUFFICES ASSUME NEW k \in 1..Len(sent)
                 PROVE  sent[k].uid < job.uid
      OBVIOUS
    <3>1. ~(job.uid <= sent[k].uid)
      BY <1>1, <2>3 DEF OlderBuffered
    <3>2. job.uid \in Nat /\ sent[k].uid \in Nat
      BY <2>3, <2>4
    <3>. QED
      BY <3>1, <3>2
  <2>6. FifoRelease'
    BY <2>2, <2>3, <2>4, <2>5, AppendFifo DEF FParts
  <2>7. PendingDesc'
    <3> SUFFICES ASSUME NEW i \in 1..n - 1, NEW j \in 1..n - 1, i < j
                 PROVE  rest[i].uid > rest[j].uid
      BY <2>2, <2>4 DEF PendingDesc
    <3>1. rest[i] = pending[i] /\ rest[j] = pending[j]
      BY <2>4
    <3>2. i \in 1..Len(pending) /\ j \in 1..Len(pending)
      BY <2>3
    <3>. QED
      BY <3>1, <3>2 DEF FParts, PendingDesc
  <2>8. UidsBuilt'
    <3>1. job.uid <= Len(submitted)
      BY <2>3 DEF FParts, UidsBuilt
    <3>2. \A k \in 1..Len(sent') : sent'[k].uid <= Len(submitted)
      <4> SUFFICES ASSUME NEW k \in 1..Len(sent) + 1
                   PROVE  sent'[k].uid <= Len(submitted)
        BY <2>2, <2>3
      <4>1. CASE k = Len(sent) + 1
        BY <2>2, <2>3, <3>1, <4>1
      <4>2. CASE k <= Len(sent)
        <5>1. k \in 1..Len(sent) /\ sent'[k] = sent[k]
          BY <2>2, <2>3, <4>2
        <5>. QED
          BY <5>1 DEF FParts, UidsBuilt
      <4>. QED
        BY <2>3, <4>1, <4>2
    <3>3. \A i \in 1..Len(pending') : pending'[i].uid <= Len(submitted)
      BY <2>2, <2>3, <2>4 DEF FParts, UidsBuilt
    <3>. QED
      BY <1>2, <3>2, <3>3 DEF UidsBuilt
  <2>9. ~OlderBuffered'
    <3> SUFFICES ASSUME NEW i \in 1..Len(pending'), NEW k \in 1..Len(sent'),
                        pending'[i].uid <= sent'[k].uid
                 PROVE  FALSE
      BY DEF OlderBuffered
    <3>1. i \in 1..n - 1 /\ pending'[i] = pending[i]
      BY <2>2, <2>4
    <3>2. CASE k <= Len(sent)
      <4>1. k \in 1..Len(sent) /\ sent'[k] = sent[k]
        BY <2>2, <2>3, <3>2
      <4>. QED
        BY <1>1, <3>1, <4>1 DEF OlderBuffered
    <3>3. CASE k = Len(sent) + 1
      <4>1. sent'[k] = job
        BY <2>2, <2>3, <3>3
      <4>2. pending[i].uid > job.uid
        BY <2>3, <3>1 DEF FParts, PendingDesc
      <4>3. pending[i].uid \in Nat /\ job.uid \in Nat
        BY <2>3, <2>4, <3>1
      <4>. QED
        BY <3>1, <4>1, <4>2, <4>3
    <3>. QED
      BY <2>2, <2>3, <3>2, <3>3
  <2>10. pc'[t0] = "drain"
    BY <1>1, <2>1
  <2>. QED
    BY <1>2, <2>6, <2>7, <2>8, <2>9, <2>10, <1>1
       DEF FParts, StrandedForGood, BufferedMeansRaised, DrainConnected
<1>. QED
  BY <1>3, <1>4

(* A step of the gathering thread leaves the deque, the sends and every  *)
(* caller alone, and a start() that raised still raises after it.         *)
LEMMA GatherFifo ==
    ASSUME FParts, StartRaises => StartRaises',
           UNCHANGED <<pending, sent, submitted, pc, is_connected>>
    PROVE  FParts'
<1>1. OlderBuffered' = OlderBuffered
  BY DEF OlderBuffered
<1>. QED
  BY <1>1 DEF FParts, FifoRelease, PendingDesc, UidsBuilt, StrandedForGood,
              BufferedMeansRaised, DrainConnected

(* recv answers a send, or raises: either way the thread lives or dies.  *)
LEMMA GatherStepRaises ==
    ASSUME (\E i \in 1..MaxJobs : GatherResults(i)) \/ GatherRecvError
    PROVE  /\ StartRaises => StartRaises'
           /\ UNCHANGED <<pending, sent, submitted, pc, is_connected>>
<1>1. gatherer = "alive" /\ (gatherer' = gatherer \/ gatherer' = "dead")
  <2>1. CASE \E i \in 1..MaxJobs : GatherResults(i)
    BY <2>1, SetResultGatherer DEF GatherResults
  <2>2. CASE GatherRecvError
    BY <2>2, SetResultGatherer, Zenon DEF GatherRecvError
  <2>. QED
    BY <2>1, <2>2
<1>2. StartRaises => StartRaises'
  BY <1>1, StartRaisesKept
<1>3. UNCHANGED <<pending, sent, submitted, pc, is_connected>>
  BY DEF GatherResults, GatherRecvError
<1>. QED
  BY <1>2, <1>3

(* The caller's other calls leave the deque and the sends alone and never *)
(* connect.                                                                *)
LEMMA CallerFifo ==
    ASSUME NEW t0, Threads = {t0}, TypeRest, FParts,
           \/ Disconnect(t0) \/ Close(t0) \/ ScheduleBlocking(t0)
           \/ ResultReturns(t0) \/ ResultTimeout(t0)
           \/ ExitEnter(t0) \/ ExitScan(t0)
    PROVE  FParts'
<1>1. CASE Disconnect(t0) \/ Close(t0)
  BY <1>1, CallerStepKeeps DEF Disconnect, Close
<1>2. CASE ScheduleBlocking(t0)
  <2>1. pc[t0] # "drain" /\ pc'[t0] # "drain"
    BY <1>2 DEF ScheduleBlocking, TypeRest
  <2>. QED
    BY <1>2, <2>1, CallerStepKeeps DEF ScheduleBlocking
<1>3. CASE ResultReturns(t0) \/ ResultTimeout(t0)
  <2>1. pc[t0] # "drain" /\ pc'[t0] # "drain"
    BY <1>3 DEF ResultReturns, ResultTimeout, TypeRest
  <2>2. UNCHANGED <<is_connected, pending, sent, submitted, gatherer>>
    BY <1>3 DEF ResultReturns, ResultTimeout
  <2>. QED
    BY <2>1, <2>2, CallerStepKeeps
<1>4. CASE ExitEnter(t0)
  <2>1. pc[t0] # "drain" /\ pc'[t0] # "drain"
    BY <1>4 DEF ExitEnter, TypeRest
  <2>. QED
    BY <1>4, <2>1, CallerStepKeeps DEF ExitEnter
<1>5. CASE ExitScan(t0)
  <2>1. pc[t0] = "exit"
    BY <1>5 DEF ExitScan
  <2>2. pc' = pc \/ pc' = [pc EXCEPT ![t0] = "idle"]
    BY <1>5, Zenon DEF ExitScan
  <2>3. pc'[t0] # "drain"
    BY <2>1, <2>2 DEF TypeRest
  <2>4. is_connected' => is_connected
    BY <1>5, Zenon DEF ExitScan
  <2>5. UNCHANGED <<pending, sent, submitted, gatherer>>
    BY <1>5 DEF ExitScan
  <2>. QED
    BY <2>1, <2>3, <2>4, <2>5, CallerStepKeeps
<1>. QED
  BY <1>1, <1>2, <1>3, <1>4, <1>5

----------------------------------------------------------------------------
LEMMA InitFInv == Init => FInv
<1> SUFFICES ASSUME Init PROVE TypeOK /\ FParts
  BY FInvParts
<1>1. TypeOK
  BY InitTypeOK
<1>2. pending = <<>> /\ sent = <<>>
  BY DEF Init
<1>3. ~OlderBuffered
  BY <1>2 DEF OlderBuffered
<1>4. \A t \in Threads : pc[t] # "drain"
  BY DEF Init
<1>. QED
  BY <1>1, <1>2, <1>3, <1>4
     DEF FParts, FifoRelease, PendingDesc, UidsBuilt, StrandedForGood,
         BufferedMeansRaised, DrainConnected

LEMMA NextFInv ==
    ASSUME NEW t0, Threads = {t0}
    PROVE  FInv /\ [Next]_vars => FInv'
<1> SUFFICES ASSUME FInv, [Next]_vars PROVE FInv'
  OBVIOUS
<1>1. TypeOK /\ TypeRest /\ FParts
  BY FInvParts, TypeOKParts
<1>2. TypeOK'
  BY <1>1, NextTypeOK
<1>3. ASSUME NEW t \in Threads,
             \/ \E arg \in Names : Schedule(t, arg)
             \/ Connect(t)
             \/ Drain(t)
             \/ Disconnect(t)
             \/ Close(t)
             \/ ScheduleBlocking(t)
             \/ \E arg \in Names : ScheduleBlockingSend(t, arg)
             \/ ResultReturns(t)
             \/ ResultTimeout(t)
             \/ ExitEnter(t)
             \/ ExitScan(t)
      PROVE  FParts'
  <2>1. t = t0
    OBVIOUS
  <2>2. CASE \E arg \in Names : Schedule(t, arg)
    BY <1>1, <2>1, <2>2, ScheduleFifo
  <2>3. CASE Connect(t)
    BY <1>1, <2>1, <2>3, ConnectFifo
  <2>4. CASE Drain(t)
    BY <1>1, <2>1, <2>4, DrainFifo
  <2>5. CASE \E arg \in Names : ScheduleBlockingSend(t, arg)
    BY <1>1, <2>1, <2>5, ScheduleBlockingSendFifo
  <2>6. CASE \/ Disconnect(t) \/ Close(t) \/ ScheduleBlocking(t)
             \/ ResultReturns(t) \/ ResultTimeout(t)
             \/ ExitEnter(t) \/ ExitScan(t)
    BY <1>1, <2>1, <2>6, CallerFifo
  <2>. QED
    BY <1>3, <2>2, <2>3, <2>4, <2>5, <2>6
<1>4. ASSUME (\E i \in 1..MaxJobs : GatherResults(i)) \/ GatherRecvError
      PROVE  FParts'
  BY <1>1, <1>4, GatherStepRaises, GatherFifo
<1>5. ASSUME UNCHANGED vars PROVE FParts'
  <2>1. StartRaises => StartRaises'
    BY <1>5 DEF vars, StartRaises
  <2>. QED
    BY <1>1, <1>5, <2>1, GatherFifo DEF vars
<1>6. FParts'
  BY <1>3, <1>4, <1>5 DEF Next
<1>. QED
  BY <1>2, <1>6, Zenon DEF FInv, FParts

(* Jobs reach self._client.send in the order schedule() and               *)
(* schedule_blocking() were called, for a client driven by one thread:    *)
(* for every transport, every number of jobs and every recv failure, the *)
(* drain loop of connect never lets a newer job overtake a buffered one.  *)
THEOREM FifoReleaseOneThread ==
    ASSUME NEW t0, Threads = {t0}
    PROVE  Spec => []FifoRelease
<1>1. Init => FInv
  BY InitFInv
<1>2. FInv /\ [Next]_vars => FInv'
  BY NextFInv
<1>3. FInv => FifoRelease
  BY FInvParts DEF FParts
<1>. QED
  BY <1>1, <1>2, <1>3, PTL DEF Spec

=============================================================================
