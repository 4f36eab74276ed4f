-------------------------- MODULE TasqClientProofs --------------------------
(* Proofs about the client state machine of TasqClient, for every value  *)
(* of its constants.                                                     *)
EXTENDS TasqClient, TLAPS

(* The facts about the constants that the proofs use (the assumption also *)
(* says FreshNames is a Boolean, which SMT should not see everywhere).     *)
LEMMA ConstantFacts ==
    /\ Threads # {}
    /\ Names \cap Nat = {}
    /\ NoName \notin Nat
    /\ MaxJobs \in Nat
    /\ MaxErrors \in Nat
BY ConstantsAssumption, Zenon

USE ConstantFacts

----------------------------------------------------------------------------
(* TypeOK split in two: the Boolean flags, which Zenon handles, and the   *)
(* rest, which SMT handles (SMT fails on the two kinds together).        *)
TypeBool == is_connected \in BOOLEAN /\ closed \in BOOLEAN

TypeRest ==
    /\ gatherer \in {"new", "alive", "dead"}
    /\ last \in 0..Len(sent)
    /\ errors \in 0..MaxErrors
    /\ pending \in Seq(Job)
    /\ DOMAIN results \subseteq Keys
    /\ \A k \in DOMAIN results : results[k] \in 1..Len(fut)
    /\ fut \in Seq(Future)
    /\ sent \in Seq(Job)
    /\ gathered \subseteq 1..Len(sent)
    /\ submitted \in Seq(Job)
    /\ pc \in [Threads -> {"idle", "drain", "sched", "wait", "exit"}]
    /\ waiting \in [Threads -> 0..Len(fut)]
    /\ snap \in [Threads -> SUBSET Keys]

LEMMA TypeOKParts == TypeOK <=> TypeBool /\ TypeRest
BY Zenon DEF TypeOK, TypeBool, TypeRest

(* The body of schedule keeps the deque, the results map and the futures  *)
(* well typed, for any job and any key of the map.                         *)
LEMMA SendOrBufferType ==
    ASSUME TypeRest,
           NEW job \in Job, NEW key \in Keys, NEW rest \in Seq(Job),
           SendOrBuffer(job, key, rest)
    PROVE  /\ pending' \in Seq(Job)
           /\ DOMAIN results' \subseteq Keys
           /\ \A k \in DOMAIN results' : results'[k] \in 1..Len(fut')
           /\ fut' \in Seq(Future)
           /\ sent' \in Seq(Job)
           /\ Len(sent) <= Len(sent')
           /\ Len(fut) <= Len(fut')
<1>1. CASE ~is_connected
  <2>1. pending' = <<job>> \o rest /\ UNCHANGED <<results, fut, sent>>
    BY <1>1, Zenon DEF SendOrBuffer
  <2>. QED
    BY <2>1 DEF TypeRest
<1>2. CASE is_connected
  <2>1. /\ fut' = Append(fut, [job |-> job, val |-> 0])
        /\ results' = [k \in DOMAIN results \cup {key} |->
                         IF k = key THEN Len(fut) + 1 ELSE results[k]]
        /\ sent' = Append(sent, job)
        /\ pending' = rest
    BY <1>2, Zenon DEF SendOrBuffer
  <2>2. [job |-> job, val |-> 0] \in Future
    BY DEF Future
  <2>. QED
    BY <2>1, <2>2 DEF TypeRest
<1>. QED
  BY <1>1, <1>2

(* A job built by a caller is a Job while the bound is not reached.        *)
LEMMA MakeJobType ==
    ASSUME TypeRest, Len(submitted) < MaxJobs,
           NEW arg \in Names, NEW by \in {"schedule", "blocking"}
    PROVE  MakeJob(arg, by) \in Job
BY DEF MakeJob, Job, TypeRest

(* Completing a future, or killing the gathering thread, keeps the      *)
(* futures and the thread state well typed.                             *)
LEMMA SetResultType ==
    ASSUME TypeRest, NEW i \in 1..Len(sent), SetResult(i)
    PROVE  /\ fut' \in Seq(Future)
           /\ Len(fut') = Len(fut)
           /\ gatherer' \in {"new", "alive", "dead"}
<1> DEFINE k == sent[i].name
<1>1. CASE k \notin DOMAIN results
  <2>1. UNCHANGED <<fut, gatherer>>
    BY <1>1, Zenon DEF SetResult
  <2>. QED
    BY <2>1 DEF TypeRest
<1>2. CASE k \in DOMAIN results /\ fut[results[k]].val # 0
  <2>1. gatherer' = "dead" /\ UNCHANGED fut
    BY <1>2, Zenon DEF SetResult
  <2>. QED
    BY <2>1 DEF TypeRest
<1>3. CASE k \in DOMAIN results /\ fut[results[k]].val = 0
  <2>1. fut' = [fut EXCEPT ![results[k]].val = i] /\ UNCHANGED gatherer
    BY <1>3, Zenon DEF SetResult
  <2>2. results[k] \in 1..Len(fut) /\ fut \in Seq(Future)
    BY <1>3 DEF TypeRest
  <2>3. [fut[results[k]] EXCEPT !.val = i] \in Future
    <3>1. fut[results[k]] \in Future /\ i \in Nat
      BY <2>2
    <3>. QED
      BY <3>1, Zenon DEF Future
  <2>. QED
    BY <2>1, <2>2, <2>3 DEF TypeRest
<1>. QED
  BY <1>1, <1>2, <1>3

LEMMA InitTypeOK == Init => TypeOK
<1> SUFFICES ASSUME Init PROVE TypeBool /\ TypeRest
  BY TypeOKParts
<1>1. TypeBool
  BY Zenon DEF Init, TypeBool
<1>2. TypeRest
  BY DEF Init, TypeRest
<1> QED
  BY <1>1, <1>2

(* Every action sets the two flags to TRUE, FALSE or leaves them alone.  *)
LEMMA NextTypeBool == TypeBool /\ [Next]_vars => TypeBool'
BY Zenon DEF TypeBool, Next, vars, Schedule, SendOrBuffer, Connect, Drain,
   Disconnect, Close, ScheduleBlocking, ScheduleBlockingSend, ResultReturns,
   ResultTimeout, ExitEnter, ExitScan, GatherResults, GatherRecvError

LEMMA NextTypeRest == TypeRest /\ [Next]_vars => TypeRest'
<1> SUFFICES ASSUME TypeRest, [Next]_vars PROVE TypeRest'
    OBVIOUS
<1>1. ASSUME NEW t \in Threads, NEW arg \in Names, Schedule(t, arg)
      PROVE  TypeRest'
  <2>1. MakeJob(arg, "schedule") \in Job
    BY <1>1, MakeJobType DEF Schedule
  <2>2. arg \in Keys
    BY DEF Keys
  <2>3. SendOrBuffer(MakeJob(arg, "schedule"), arg, pending)
    BY <1>1 DEF Schedule
  <2>4. /\ pending' \in Seq(Job)
        /\ DOMAIN results' \subseteq Keys
        /\ \A k \in DOMAIN results' : results'[k] \in 1..Len(fut')
        /\ fut' \in Seq(Future)
        /\ sent' \in Seq(Job)
        /\ Len(sent) <= Len(sent')
        /\ Len(fut) <= Len(fut')
    BY <2>1, <2>2, <2>3, SendOrBufferType DEF TypeRest
  <2>5. submitted' \in Seq(Job)
    BY <1>1, <2>1 DEF Schedule, TypeRest
  <2>. QED
    BY <1>1, <2>4, <2>5 DEF Schedule, TypeRest
<1>2. ASSUME NEW t \in Threads, Connect(t)
      PROVE  TypeRest'
  BY <1>2 DEF Connect, TypeRest
<1>3. ASSUME NEW t \in Threads, Drain(t)
      PROVE  TypeRest'
  <2>1. CASE pending = <<>>
    BY <1>3, <2>1 DEF Drain, TypeRest
  <2>2. CASE pending # <<>>
    <3> DEFINE job == pending[Len(pending)]
               rest == SubSeq(pending, 1, Len(pending) - 1)
    <3>1. job \in Job /\ rest \in Seq(Job)
      BY <2>2 DEF TypeRest
    <3>2. job.name \in Keys
      BY <3>1 DEF Job, Keys
    <3>3. SendOrBuffer(job, job.name, rest)
      BY <1>3, <2>2 DEF Drain
    <3>4. /\ pending' \in Seq(Job)
          /\ DOMAIN results' \subseteq Keys
          /\ \A k \in DOMAIN results' : results'[k] \in 1..Len(fut')
          /\ fut' \in Seq(Future)
          /\ sent' \in Seq(Job)
          /\ Len(sent) <= Len(sent')
          /\ Len(fut) <= Len(fut')
      BY <3>1, <3>2, <3>3, SendOrBufferType DEF TypeRest
    <3>5. UNCHANGED <<pc, gatherer, last, errors, gathered, submitted, waiting, snap>>
      BY <1>3, <2>2, Zenon DEF Drain
    <3>. QED
      BY <3>4, <3>5 DEF TypeRest
  <2>. QED
    BY <2>1, <2>2
<1>4. ASSUME NEW t \in Threads, Disconnect(t)
      PROVE  TypeRest'
  BY <1>4 DEF Disconnect, TypeRest
<1>5. ASSUME NEW t \in Threads, Close(t)
      PROVE  TypeRest'
  BY <1>5 DEF Close, TypeRest
<1>6. ASSUME NEW t \in Threads, ScheduleBlocking(t)
      PROVE  TypeRest'
  BY <1>6 DEF ScheduleBlocking, TypeRest
<1>7. ASSUME NEW t \in Threads, NEW arg \in Names, ScheduleBlockingSend(t, arg)
      PROVE  TypeRest'
  <2>1. MakeJob(arg, "blocking") \in Job
    BY <1>7, MakeJobType DEF ScheduleBlockingSend
  <2>2. arg \in Keys
    BY DEF Keys
  <2>3. SendOrBuffer(MakeJob(arg, "blocking"), arg, pending)
    BY <1>7 DEF ScheduleBlockingSend
  <2>4. /\ pending' \in Seq(Job)
        /\ DOMAIN results' \subseteq Keys
        /\ \A k \in DOMAIN results' : results'[k] \in 1..Len(fut')
        /\ fut' \in Seq(Future)
        /\ sent' \in Seq(Job)
        /\ Len(sent) <= Len(sent')
        /\ Len(fut) <= Len(fut')
    BY <2>1, <2>2, <2>3, SendOrBufferType DEF TypeRest
  <2>5. Len(fut') = IF is_connected THEN Len(fut) + 1 ELSE Len(fut)
    <3>1. CASE is_connected
      <4>1. fut' = Append(fut, [job |-> MakeJob(arg, "blocking"), val |-> 0])
        BY <2>3, <3>1, Zenon DEF SendOrBuffer
      <4>. QED
        BY <3>1, <4>1 DEF TypeRest
    <3>2. CASE ~is_connected
      <4>1. fut' = fut
        BY <2>3, <3>2, Zenon DEF SendOrBuffer
      <4>. QED
        BY <3>2, <4>1
    <3>. QED
      BY <3>1, <3>2
  <2>6. waiting' \in [Threads -> 0..Len(fut')]
    <3>1. waiting' = [waiting EXCEPT ![t] = IF is_connected THEN Len(fut) + 1 ELSE 0]
      BY <1>7 DEF ScheduleBlockingSend
    <3>. QED
      BY <2>4, <2>5, <3>1 DEF TypeRest
  <2>7. submitted' \in Seq(Job)
    BY <1>7, <2>1 DEF ScheduleBlockingSend, TypeRest
  <2>. QED
    BY <1>7, <2>4, <2>6, <2>7 DEF ScheduleBlockingSend, TypeRest
<1>8. ASSUME NEW t \in Threads, ResultReturns(t)
      PROVE  TypeRest'
  BY <1>8 DEF ResultReturns, TypeRest
<1>9. ASSUME NEW t \in Threads, ResultTimeout(t)
      PROVE  TypeRest'
  BY <1>9 DEF ResultTimeout, TypeRest
<1>10. ASSUME NEW i \in 1..MaxJobs, GatherResults(i)
       PROVE  TypeRest'
  <2>1. i \in 1..Len(sent) /\ SetResult(i)
    BY <1>10 DEF GatherResults
  <2>2. /\ fut' \in Seq(Future)
        /\ Len(fut') = Len(fut)
        /\ gatherer' \in {"new", "alive", "dead"}
    BY <2>1, SetResultType
  <2>. QED
    BY <1>10, <2>1, <2>2 DEF GatherResults, TypeRest
<1>11. ASSUME GatherRecvError
       PROVE  TypeRest'
  <2>1. CASE last = 0
    BY <1>11, <2>1 DEF GatherRecvError, TypeRest
  <2>2. CASE last # 0
    <3>1. last \in 1..Len(sent) /\ SetResult(last)
      BY <1>11, <2>2 DEF GatherRecvError, TypeRest
    <3>2. /\ fut' \in Seq(Future)
          /\ Len(fut') = Len(fut)
          /\ gatherer' \in {"new", "alive", "dead"}
      BY <3>1, SetResultType
    <3>. QED
      BY <1>11, <3>1, <3>2 DEF GatherRecvError, TypeRest
  <2>. QED
    BY <2>1, <2>2
<1>12. CASE UNCHANGED vars
  BY <1>12 DEF vars, TypeRest
<1>13. ASSUME NEW t \in Threads, ExitEnter(t)
       PROVE  TypeRest'
  BY <1>13 DEF ExitEnter, TypeRest
<1>14. ASSUME NEW t \in Threads, ExitScan(t)
       PROVE  TypeRest'
  BY <1>14 DEF ExitScan, TypeRest
<1>. QED
  BY <1>1, <1>2, <1>3, <1>4, <1>5, <1>6, <1>7, <1>8, <1>9, <1>10, <1>11,
     <1>12, <1>13, <1>14 DEF Next

LEMMA NextTypeOK == TypeOK /\ [Next]_vars => TypeOK'
BY NextTypeBool, NextTypeRest, TypeOKParts, Zenon DEF TypeOK, TypeBool, TypeRest

(* Type correctness of the client: every reachable state is well typed.   *)
THEOREM TypeCorrect == Spec => []TypeOK
BY InitTypeOK, NextTypeOK, PTL DEF Spec

----------------------------------------------------------------------------
(* FutureIntegrity.  The parts of IInv beyond the type invariant.         *)
IntegrityParts ==
    /\ SubmittedIds
    /\ UuidNames
    /\ NamesUnique
    /\ JobsKnown
    /\ KeyOwner
    /\ ValSent
    /\ FutureIntegrity

LEMMA IInvParts == IInv <=> TypeOK /\ IntegrityParts
BY Zenon DEF IInv, IntegrityParts

(* The history only grows: what was built keeps its place.                 *)
HistoryExtended ==
    /\ Len(submitted) <= Len(submitted')
    /\ \A i \in 1..Len(submitted) : submitted'[i] = submitted[i]

(* Known, for a given history.                                             *)
KnownIn(job, hist) == job.uid \in 1..Len(hist) /\ hist[job.uid] = job

(* A job known before is known after the history is extended.              *)
LEMMA KnownKept ==
    ASSUME TypeRest, HistoryExtended, NEW job, Known(job)
    PROVE  KnownIn(job, submitted')
BY DEF Known, KnownIn, HistoryExtended, TypeRest

(* The body of schedule keeps the futures tied to their jobs, provided the *)
(* job is known in the new history, the jobs left in the deque are known  *)
(* and a real key is the job's name.                                       *)
LEMMA SendOrBufferKeeps ==
    ASSUME TypeRest, JobsKnown, KeyOwner, ValSent, FutureIntegrity,
           HistoryExtended,
           NEW job \in Job, NEW key \in Keys, NEW rest \in Seq(Job),
           KnownIn(job, submitted'),
           \A i \in 1..Len(rest) : KnownIn(rest[i], submitted'),
           key # NoName => job.name = key,
           SendOrBuffer(job, key, rest)
    PROVE  JobsKnown' /\ KeyOwner' /\ ValSent' /\ FutureIntegrity'
<1>1. /\ \A i \in 1..Len(sent) : KnownIn(sent[i], submitted')
      /\ \A f \in 1..Len(fut) : KnownIn(fut[f].job, submitted')
  BY KnownKept DEF JobsKnown
<1>2. CASE ~is_connected
  <2>1. pending' = <<job>> \o rest /\ UNCHANGED <<results, fut, sent>>
    BY <1>2, Zenon DEF SendOrBuffer
  <2>2. JobsKnown'
    <3>1. \A i \in 1..Len(pending') : KnownIn(pending'[i], submitted')
      <4>1. SUFFICES ASSUME NEW i \in 1..Len(pending')
                     PROVE  KnownIn(pending'[i], submitted')
        OBVIOUS
      <4>2. CASE i = 1
        BY <2>1, <4>2
      <4>3. CASE i > 1
        <5>1. i - 1 \in 1..Len(rest) /\ pending'[i] = rest[i - 1]
          BY <2>1, <4>3
        <5>. QED
          BY <5>1
      <4>. QED
        BY <4>2, <4>3
    <3>. QED
      BY <1>1, <2>1, <3>1 DEF JobsKnown, Known, KnownIn
  <2>. QED
    BY <2>1, <2>2 DEF KeyOwner, ValSent, FutureIntegrity
<1>3. CASE is_connected
  <2>1. /\ fut' = Append(fut, [job |-> job, val |-> 0])
        /\ results' = [k \in DOMAIN results \cup {key} |->
                         IF k = key THEN Len(fut) + 1 ELSE results[k]]
        /\ sent' = Append(sent, job)
        /\ pending' = rest
    BY <1>3, Zenon DEF SendOrBuffer
  <2>2. JobsKnown'
    <3>1. \A i \in 1..Len(sent') : KnownIn(sent'[i], submitted')
      <4>1. SUFFICES ASSUME NEW i \in 1..Len(sent')
                     PROVE  KnownIn(sent'[i], submitted')
        OBVIOUS
      <4>2. CASE i \in 1..Len(sent)
        <5>1. sent'[i] = sent[i]
          BY <2>1, <4>2 DEF TypeRest
        <5>. QED
          BY <1>1, <4>2, <5>1
      <4>3. CASE i = Len(sent) + 1
        <5>1. sent'[i] = job
          BY <2>1, <4>3 DEF TypeRest
        <5>. QED
          BY <5>1
      <4>4. Len(sent') = Len(sent) + 1
        BY <2>1 DEF TypeRest
      <4>. QED
        BY <4>2, <4>3, <4>4
    <3>2. \A f \in 1..Len(fut') : KnownIn(fut'[f].job, submitted')
      <4>1. SUFFICES ASSUME NEW f \in 1..Len(fut')
                     PROVE  KnownIn(fut'[f].job, submitted')
        OBVIOUS
      <4>2. CASE f \in 1..Len(fut)
        <5>1. fut'[f] = fut[f]
          BY <2>1, <4>2 DEF TypeRest
        <5>. QED
          BY <1>1, <4>2, <5>1
      <4>3. CASE f = Len(fut) + 1
        <5>1. fut'[f].job = job
          BY <2>1, <4>3 DEF TypeRest
        <5>. QED
          BY <5>1
      <4>4. Len(fut') = Len(fut) + 1
        BY <2>1 DEF TypeRest
      <4>. QED
        BY <4>2, <4>3, <4>4
    <3>. QED
      BY <2>1, <3>1, <3>2 DEF JobsKnown, Known, KnownIn
  <2>3. KeyOwner'
    BY <2>1 DEF KeyOwner, TypeRest
  <2>4. ValSent'
    BY <2>1 DEF ValSent, TypeRest
  <2>5. FutureIntegrity'
    BY <2>1 DEF FutureIntegrity, ValSent, TypeRest
  <2>. QED
    BY <2>2, <2>3, <2>4, <2>5
<1>. QED
  BY <1>2, <1>3

(* Completing a future with the answer to send i completes the future of *)
(* that very job: the key names one job only.                             *)
LEMMA SetResultKeeps ==
    ASSUME TypeRest, SubmittedIds, NamesUnique, JobsKnown, KeyOwner,
           ValSent, FutureIntegrity,
           NEW i \in 1..Len(sent), SetResult(i),
           UNCHANGED <<results, sent, submitted, pending>>
    PROVE  JobsKnown' /\ KeyOwner' /\ ValSent' /\ FutureIntegrity'
<1> DEFINE k == sent[i].name
<1>1. CASE k \notin DOMAIN results \/ fut[results[k]].val # 0
  <2>1. UNCHANGED fut
    BY <1>1, Zenon DEF SetResult
  <2>. QED
    BY <2>1 DEF JobsKnown, Known, KeyOwner, ValSent, FutureIntegrity
<1>2. CASE k \in DOMAIN results /\ fut[results[k]].val = 0
  <2> DEFINE f == results[k]
  <2>1. fut' = [fut EXCEPT ![f].val = i]
    BY <1>2, Zenon DEF SetResult
  <2>2. f \in 1..Len(fut) /\ fut \in Seq(Future)
    BY <1>2 DEF TypeRest
  <2>3. \A g \in 1..Len(fut) : fut'[g].job = fut[g].job
    BY <2>1, <2>2
  <2>4. sent[i].uid = fut[f].job.uid
    <3>1. k # NoName
      <4>1. sent[i] \in Job
        BY DEF TypeRest
      <4>. QED
        BY <4>1 DEF Job
    <3>2. fut[f].job.name = k
      BY <1>2, <3>1 DEF KeyOwner
    <3>3. Known(sent[i]) /\ Known(fut[f].job)
      BY <2>2 DEF JobsKnown
    <3>. QED
      BY <3>2, <3>3 DEF Known, NamesUnique
  <2>4a. Len(fut') = Len(fut)
    BY <2>1, <2>2
  <2>5. JobsKnown'
    BY <2>3, <2>4a DEF JobsKnown, Known
  <2>6. KeyOwner'
    BY <2>3, <2>4a DEF KeyOwner, TypeRest
  <2>7. ValSent'
    BY <2>1, <2>2 DEF ValSent
  <2>8. FutureIntegrity'
    <3>1. SUFFICES ASSUME NEW g \in 1..Len(fut')
                   PROVE  fut'[g].val # 0 =>
                            sent[fut'[g].val].uid = fut'[g].job.uid
      BY DEF FutureIntegrity
    <3>2. CASE g = f
      BY <2>1, <2>2, <2>4, <3>2
    <3>3. CASE g # f
      <4>1. g \in 1..Len(fut) /\ fut'[g] = fut[g]
        BY <2>1, <2>2, <2>4a, <3>3
      <4>. QED
        BY <4>1 DEF FutureIntegrity
    <3>. QED
      BY <3>2, <3>3
  <2>. QED
    BY <2>5, <2>6, <2>7, <2>8
<1>. QED
  BY <1>1, <1>2

(* A caller's schedule or schedule_blocking with a fresh name keeps every *)
(* part of the strengthening: the new job takes the next uuid, its name   *)
(* is fresh, and SendOrBufferKeeps covers the deque, map and futures.     *)
LEMMA SubmitKeeps ==
    ASSUME FreshNames, TypeRest, IntegrityParts,
           NEW arg \in Names, NEW by \in {"schedule", "blocking"},
           Len(submitted) < MaxJobs, arg \in NameArgs,
           submitted' = Append(submitted, MakeJob(arg, by)),
           SendOrBuffer(MakeJob(arg, by), arg, pending)
    PROVE  IntegrityParts'
<1> DEFINE job == MakeJob(arg, by)
           n == Len(submitted) + 1
<1>1. job \in Job
  BY MakeJobType
<1>2. /\ job.uid = n
      /\ arg = NoName => job.name = n
      /\ arg # NoName => job.name = arg
  BY DEF MakeJob
<1>3. arg = NoName \/ \A i \in 1..Len(submitted) : submitted[i].name # arg
  BY Zenon DEF NameArgs
<1>4. /\ Len(submitted') = n
      /\ submitted'[n] = job
      /\ \A i \in 1..Len(submitted) : submitted'[i] = submitted[i]
  BY DEF TypeRest
<1>5. HistoryExtended
  BY <1>4 DEF HistoryExtended
<1>6. /\ KnownIn(job, submitted')
      /\ \A i \in 1..Len(pending) : KnownIn(pending[i], submitted')
  BY <1>2, <1>4, <1>5, KnownKept DEF KnownIn, IntegrityParts, JobsKnown
<1>7. JobsKnown' /\ KeyOwner' /\ ValSent' /\ FutureIntegrity'
  <2>1. arg \in Keys /\ pending \in Seq(Job)
    BY DEF Keys, TypeRest
  <2>. QED
    BY <1>1, <1>2, <1>5, <1>6, <2>1, SendOrBufferKeeps DEF IntegrityParts
<1>8. SubmittedIds'
  BY <1>2, <1>4 DEF SubmittedIds, IntegrityParts
<1>9. UuidNames'
  BY <1>2, <1>4 DEF UuidNames, IntegrityParts
<1>10. NamesUnique'
  <2>1. \A j \in 1..Len(submitted) : submitted[j].name # job.name
    <3>1. CASE arg = NoName
      BY <1>2, <3>1 DEF UuidNames, IntegrityParts
    <3>2. CASE arg # NoName
      BY <1>2, <1>3, <3>2
    <3>. QED
      BY <3>1, <3>2
  <2>. QED
    BY <1>4, <2>1 DEF NamesUnique, IntegrityParts
<1>. QED
  BY <1>7, <1>8, <1>9, <1>10 DEF IntegrityParts

(* One iteration of connect's drain loop keeps the strengthening: the job *)
(* popped was built by a caller and is scheduled again under its own name. *)
LEMMA DrainKeeps ==
    ASSUME TypeRest, IntegrityParts, pending # <<>>,
           SendOrBuffer(pending[Len(pending)], pending[Len(pending)].name,
                        SubSeq(pending, 1, Len(pending) - 1)),
           UNCHANGED submitted
    PROVE  IntegrityParts'
<1> DEFINE job == pending[Len(pending)]
           rest == SubSeq(pending, 1, Len(pending) - 1)
<1>1. job \in Job /\ rest \in Seq(Job) /\ job.name \in Keys
  <2>1. job \in Job /\ rest \in Seq(Job)
    BY DEF TypeRest
  <2>. QED
    BY <2>1 DEF Job, Keys
<1>2. HistoryExtended
  BY DEF HistoryExtended
<1>3. /\ KnownIn(job, submitted')
      /\ \A i \in 1..Len(rest) : KnownIn(rest[i], submitted')
  <2>1. \A i \in 1..Len(pending) : KnownIn(pending[i], submitted')
    BY KnownKept, <1>2 DEF IntegrityParts, JobsKnown
  <2>2. /\ Len(pending) \in 1..Len(pending)
        /\ \A i \in 1..Len(rest) : i \in 1..Len(pending) /\ rest[i] = pending[i]
    BY DEF TypeRest
  <2>. QED
    BY <2>1, <2>2
<1>4. JobsKnown' /\ KeyOwner' /\ ValSent' /\ FutureIntegrity'
  BY <1>1, <1>2, <1>3, SendOrBufferKeeps DEF IntegrityParts
<1>. QED
  BY <1>4 DEF IntegrityParts, SubmittedIds, UuidNames, NamesUnique

(* A step that leaves the history, the deque, the map, the futures and   *)
(* the sends alone keeps the strengthening.                               *)
LEMMA UnchangedKeeps ==
    ASSUME IntegrityParts,
           UNCHANGED <<pending, results, fut, sent, submitted>>
    PROVE  IntegrityParts'
BY DEF IntegrityParts, SubmittedIds, UuidNames, NamesUnique, JobsKnown,
       Known, KeyOwner, ValSent, FutureIntegrity

(* The gathering thread's set_result with the answer to send i keeps the *)
(* strengthening.                                                          *)
LEMMA GatherKeeps ==
    ASSUME TypeRest, IntegrityParts,
           NEW i \in 1..Len(sent), SetResult(i),
           UNCHANGED <<results, sent, submitted, pending>>
    PROVE  IntegrityParts'
<1>1. JobsKnown' /\ KeyOwner' /\ ValSent' /\ FutureIntegrity'
  BY SetResultKeeps DEF IntegrityParts
<1>. QED
  BY <1>1 DEF IntegrityParts, SubmittedIds, UuidNames, NamesUnique

(* Every step keeps the strengthening when callers pass fresh names.      *)
LEMMA NextIntegrity ==
    ASSUME FreshNames, TypeOK, IntegrityParts, [Next]_vars
    PROVE  IntegrityParts'
<1>0. TypeRest
  BY TypeOKParts
<1>1. ASSUME NEW t \in Threads, NEW arg \in Names, Schedule(t, arg)
      PROVE  IntegrityParts'
  <2>1. /\ Len(submitted) < MaxJobs
        /\ arg \in NameArgs
        /\ submitted' = Append(submitted, MakeJob(arg, "schedule"))
        /\ SendOrBuffer(MakeJob(arg, "schedule"), arg, pending)
    BY <1>1 DEF Schedule
  <2>. QED
    BY <1>0, <2>1, SubmitKeeps
<1>2. ASSUME NEW t \in Threads, NEW arg \in Names, ScheduleBlockingSend(t, arg)
      PROVE  IntegrityParts'
  <2>1. /\ Len(submitted) < MaxJobs
        /\ arg \in NameArgs
        /\ submitted' = Append(submitted, MakeJob(arg, "blocking"))
        /\ SendOrBuffer(MakeJob(arg, "blocking"), arg, pending)
    BY <1>2 DEF ScheduleBlockingSend
  <2>. QED
    BY <1>0, <2>1, SubmitKeeps
<1>3. ASSUME NEW t \in Threads, Drain(t)
      PROVE  IntegrityParts'
  <2>1. CASE pending = <<>>
    <3>1. UNCHANGED <<pending, results, fut, sent, submitted>>
      BY <1>3, <2>1 DEF Drain
    <3>. QED
      BY <3>1, UnchangedKeeps
  <2>2. CASE pending # <<>>
    <3>1. /\ SendOrBuffer(pending[Len(pending)], pending[Len(pending)].name,
                          SubSeq(pending, 1, Len(pending) - 1))
          /\ UNCHANGED submitted
      BY <1>3, <2>2 DEF Drain
    <3>. QED
      BY <1>0, <2>2, <3>1, DrainKeeps
  <2>. QED
    BY <2>1, <2>2
<1>4. ASSUME NEW i \in 1..MaxJobs, GatherResults(i)
      PROVE  IntegrityParts'
  <2>1. /\ i \in 1..Len(sent)
        /\ SetResult(i)
        /\ UNCHANGED <<results, sent, submitted, pending>>
    BY <1>4 DEF GatherResults
  <2>. QED
    BY <1>0, <2>1, GatherKeeps
<1>5. ASSUME GatherRecvError
      PROVE  IntegrityParts'
  <2>1. UNCHANGED <<results, sent, submitted, pending>>
    BY <1>5 DEF GatherRecvError
  <2>2. CASE last = 0
    <3>1. UNCHANGED fut
      BY <1>5, <2>2 DEF GatherRecvError
    <3>. QED
      BY <2>1, <3>1, UnchangedKeeps
  <2>3. CASE last # 0
    <3>1. last \in 1..Len(sent) /\ SetResult(last)
      BY <1>0, <1>5, <2>3 DEF GatherRecvError, TypeRest
    <3>. QED
      BY <1>0, <2>1, <3>1, GatherKeeps
  <2>. QED
    BY <2>2, <2>3
<1>6. ASSUME NEW t \in Threads,
             \/ Connect(t) \/ Disconnect(t) \/ Close(t)
             \/ ScheduleBlocking(t) \/ ResultReturns(t) \/ ResultTimeout(t)
             \/ ExitEnter(t) \/ ExitScan(t)
      PROVE  IntegrityParts'
  <2>1. UNCHANGED <<pending, results, fut, sent, submitted>>
    BY <1>6 DEF Connect, Disconnect, Close, ScheduleBlocking, ResultReturns,
                ResultTimeout, ExitEnter, ExitScan
  <2>. QED
    BY <2>1, UnchangedKeeps
<1>7. CASE UNCHANGED vars
  BY <1>7, UnchangedKeeps DEF vars
<1>. QED
  BY <1>1, <1>2, <1>3, <1>4, <1>5, <1>6, <1>7 DEF Next

LEMMA InitIInv == Init => IInv
<1> SUFFICES ASSUME Init PROVE TypeOK /\ IntegrityParts
  BY IInvParts
<1>1. TypeOK
  BY InitTypeOK
<1>2. IntegrityParts
  BY DEF Init, IntegrityParts, SubmittedIds, UuidNames, NamesUnique,
         JobsKnown, KeyOwner, ValSent, FutureIntegrity
<1>. QED
  BY <1>1, <1>2

LEMMA NextIInv ==
    ASSUME FreshNames
    PROVE  IInv /\ [Next]_vars => IInv'
<1> SUFFICES ASSUME IInv, [Next]_vars PROVE IInv'
  OBVIOUS
<1>1. TypeOK /\ IntegrityParts
  BY IInvParts
<1>2. TypeOK'
  BY <1>1, NextTypeOK
<1>3. IntegrityParts'
  BY <1>1, NextIntegrity
<1>. QED
  BY <1>2, <1>3, Zenon DEF IInv, IntegrityParts

(* A future is only ever completed with the result of its own job         *)
(* (FutureIntegrity), for every bound and every set of threads, when      *)
(* callers of schedule and schedule_blocking never reuse a name: the name *)
(* keys self._results and comes back in the job result.                   *)
THEOREM FutureIntegrityHolds ==
    ASSUME FreshNames
    PROVE  Spec => []FutureIntegrity
<1>1. Init => IInv
  BY InitIInv
<1>2. IInv /\ [Next]_vars => IInv'
  BY NextIInv
<1>3. IInv => FutureIntegrity
  BY DEF IInv
<1>. QED
  BY <1>1, <1>2, <1>3, PTL DEF Spec

=============================================================================
