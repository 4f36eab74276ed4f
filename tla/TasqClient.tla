----------------------------- MODULE TasqClient -----------------------------
(***************************************************************************)
(* The client state machine of src/tasq/remote/client.py: BaseTasqClient  *)
(* with the connect / disconnect / _gather_results variants of            *)
(* ZMQTasqClient, RedisTasqClient and RabbitMQTasqClient.                  *)
(*                                                                         *)
(* Actors: a set of caller threads sharing one client, the client's        *)
(* gathering thread (_gatherer), and the remote side, which answers every  *)
(* job sent with one job result, in any order.  A job result is named by  *)
(* the index of the send it answers (a model of the wire), so that         *)
(* properties can tell which job a future was completed with.              *)
(***************************************************************************)
EXTENDS Naturals, Sequences

CONSTANTS
    Threads,     \* caller threads sharing the client
    Names,       \* the name= arguments callers pass (NoName: none given)
    NoName,      \* the default name u'' of schedule
    Transport,   \* "zmq", "redis" or "amqp": which subclass is used
    MaxJobs,     \* bound on the number of schedule calls
    MaxErrors,   \* bound on transient ZMQErrors raised by recv
    FreshNames   \* TRUE: callers never pass a name already used

ASSUME ConstantsAssumption ==
    /\ Threads # {}
    /\ Names \cap Nat = {}
    /\ NoName \notin Nat
    /\ Transport \in {"zmq", "redis", "amqp"}
    /\ MaxJobs \in Nat
    /\ MaxErrors \in Nat
    /\ FreshNames \in BOOLEAN

VARIABLES
    is_connected,  \* self._is_connected
    closed,        \* self._client.close() has been called
    gatherer,      \* state of the self._gatherer Thread object
    last,          \* the gatherer's local job_result (index of a send, 0: unbound)
    errors,        \* transient recv errors raised so far
    pending,       \* self._pending, a deque: index 1 is its left end
    results,       \* self._results: correlation key -> index of a future
    fut,           \* every TasqFuture created, in creation order
    sent,          \* every job passed to self._client.send, in order
    gathered,      \* indices of sends whose job result the gatherer received
    submitted,     \* history: every job built by a caller, in call order
    pc,            \* where each caller thread is
    waiting,       \* the future a thread blocks on in schedule_blocking
    snap           \* the keys of self._results a pending_results() scan began with

vars == <<is_connected, closed, gatherer, last, errors, pending, results,
          fut, sent, gathered, submitted, pc, waiting, snap>>

(* A uuid of Job is modelled by the submission number, a name by itself.  *)
Keys == Names \cup (1..MaxJobs)
Job == [uid : 1..MaxJobs, name : (Names \ {NoName}) \cup (1..MaxJobs),
        by : {"schedule", "blocking"}]
Future == [job : Job, val : Nat]

(* Bug variant: the job id is the name argument even when none is given. *)
MakeJobNameArg(arg, by) ==
    [uid |-> Len(submitted) + 1, name |-> arg, by |-> by]

(* Job(name, func, ...): the job id, and so the name the remote side puts *)
(* in the job result, is the name given or else a fresh uuid.             *)
MakeJob(arg, by) ==
    LET uid == Len(submitted) + 1
    IN  [uid |-> uid, name |-> IF arg = NoName THEN uid ELSE arg, by |-> by]

(* The names a caller may pass now: NoName any number of times, a real   *)
(* name only once when FreshNames holds.                                  *)
NameArgs ==
    {n \in Names : n = NoName \/ ~FreshNames
                   \/ \A i \in 1..Len(submitted) : submitted[i].name # n}

----------------------------------------------------------------------------
Init ==
    /\ is_connected = FALSE
    /\ closed = FALSE
    /\ gatherer = "new"
    /\ last = 0
    /\ errors = 0
    /\ pending = <<>>
    /\ results = [k \in {} |-> 0]
    /\ fut = <<>>
    /\ sent = <<>>
    /\ gathered = {}
    /\ submitted = <<>>
    /\ pc = [t \in Threads |-> "idle"]
    /\ waiting = [t \in Threads |-> 0]
    /\ snap = [t \in Threads |-> {}]

(* Bug variants of SendOrBuffer: the future's index is off by one; the  *)
(* job is sent twice (a retry); the future is keyed by the job's uuid;  *)
(* the job is buffered with append instead of appendleft.                *)
SendOrBufferAppend(job, key, rest) ==
    IF ~is_connected
    THEN /\ pending' = Append(rest, job)
         /\ UNCHANGED <<results, fut, sent>>
    ELSE /\ fut' = Append(fut, [job |-> job, val |-> 0])
         /\ results' = [k \in DOMAIN results \cup {key} |->
                          IF k = key THEN Len(fut) + 1 ELSE results[k]]
         /\ sent' = Append(sent, job)
         /\ pending' = rest

SendOrBufferStaleIndex(job, key, rest) ==
    IF ~is_connected
    THEN /\ pending' = <<job>> \o rest
         /\ UNCHANGED <<results, fut, sent>>
    ELSE /\ fut' = Append(fut, [job |-> job, val |-> 0])
         /\ results' = [k \in DOMAIN results \cup {key} |->
                          IF k = key THEN Len(fut) ELSE results[k]]
         /\ sent' = Append(sent, job)
         /\ pending' = rest

SendOrBufferDoubleSend(job, key, rest) ==
    IF ~is_connected
    THEN /\ pending' = <<job>> \o rest
         /\ UNCHANGED <<results, fut, sent>>
    ELSE /\ fut' = Append(fut, [job |-> job, val |-> 0])
         /\ results' = [k \in DOMAIN results \cup {key} |->
                          IF k = key THEN Len(fut) + 1 ELSE results[k]]
         /\ sent' = sent \o <<job, job>>
         /\ pending' = rest

SendOrBufferKeyByUid(job, key, rest) ==
    IF ~is_connected
    THEN /\ pending' = <<job>> \o rest
         /\ UNCHANGED <<results, fut, sent>>
    ELSE /\ fut' = Append(fut, [job |-> job, val |-> 0])
         /\ results' = [k \in DOMAIN results \cup {job.uid} |->
                          IF k = job.uid THEN Len(fut) + 1 ELSE results[k]]
         /\ sent' = Append(sent, job)
         /\ pending' = rest

(* The body of schedule once the Job is built: buffer it at the left end   *)
(* of the deque when disconnected, else create a future, store it under    *)
(* the key the caller passed and send the job.  rest is the deque the job *)
(* is added to.                                                            *)
SendOrBuffer(job, key, rest) ==
    IF ~is_connected
    THEN /\ pending' = <<job>> \o rest
         /\ UNCHANGED <<results, fut, sent>>
    ELSE /\ fut' = Append(fut, [job |-> job, val |-> 0])
         /\ results' = [k \in DOMAIN results \cup {key} |->
                          IF k = key THEN Len(fut) + 1 ELSE results[k]]
         /\ sent' = Append(sent, job)
         /\ pending' = rest

(* schedule(func, *args, name=arg): called by a thread.                    *)
Schedule(t, arg) ==
    /\ pc[t] = "idle"
    /\ ~closed
    /\ Len(submitted) < MaxJobs
    /\ arg \in NameArgs
    /\ submitted' = Append(submitted, MakeJob(arg, "schedule"))
    /\ SendOrBuffer(MakeJob(arg, "schedule"), arg, pending)
    /\ UNCHANGED <<is_connected, closed, gatherer, last, errors, gathered,
                   pc, waiting, snap>>

(* connect: set the flag, start the gathering thread, then drain the      *)
(* deque one job at a time (Drain).  ZMQTasqClient starts the thread only *)
(* if it is not alive; the other two start it unconditionally.  Starting *)
(* a Thread twice raises RuntimeError, which ends connect before the      *)
(* drain.  ZMQTasqClient also opens the sockets (self._client.connect()). *)
(* Bug variant: ZMQTasqClient starts the thread unconditionally, too.    *)
StartRaisesAlways == gatherer # "new"

StartRaises ==
    IF Transport = "zmq" THEN gatherer = "dead" ELSE gatherer # "new"

Connect(t) ==
    /\ pc[t] = "idle"
    /\ ~closed
    /\ ~is_connected
    /\ is_connected' = TRUE
    /\ gatherer' = IF gatherer = "new" THEN "alive" ELSE gatherer
    /\ pc' = [pc EXCEPT ![t] = IF StartRaises THEN "idle" ELSE "drain"]
    /\ UNCHANGED <<closed, last, errors, pending, results, fut, sent,
                   gathered, submitted, waiting, snap>>

(* Bug variants of Drain: popleft instead of pop; the loop never ends   *)
(* once the deque is empty.                                              *)
DrainPopLeft(t) ==
    /\ pc[t] = "drain"
    /\ IF pending = <<>>
       THEN /\ pc' = [pc EXCEPT ![t] = "idle"]
            /\ UNCHANGED <<pending, results, fut, sent>>
       ELSE /\ SendOrBuffer(pending[1], pending[1].name, Tail(pending))
            /\ UNCHANGED pc
    /\ UNCHANGED <<is_connected, closed, gatherer, last, errors, gathered,
                   submitted, waiting, snap>>

DrainNoExit(t) ==
    /\ pc[t] = "drain"
    /\ IF pending = <<>>
       THEN UNCHANGED <<pending, results, fut, sent, pc>>
       ELSE /\ SendOrBuffer(pending[Len(pending)], pending[Len(pending)].name,
                            SubSeq(pending, 1, Len(pending) - 1))
            /\ UNCHANGED pc
    /\ UNCHANGED <<is_connected, closed, gatherer, last, errors, gathered,
                   submitted, waiting, snap>>

(* One iteration of `while self._pending: job = self._pending.pop();      *)
(* self.schedule(..., name=job.job_id, ...)`: pop the right end and       *)
(* schedule it again under its job id.                                     *)
Drain(t) ==
    /\ pc[t] = "drain"
    /\ IF pending = <<>>
       THEN /\ pc' = [pc EXCEPT ![t] = "idle"]
            /\ UNCHANGED <<pending, results, fut, sent>>
       ELSE /\ SendOrBuffer(pending[Len(pending)], pending[Len(pending)].name,
                            SubSeq(pending, 1, Len(pending) - 1))
            /\ UNCHANGED pc
    /\ UNCHANGED <<is_connected, closed, gatherer, last, errors, gathered,
                   submitted, waiting, snap>>

Disconnect(t) ==
    /\ pc[t] = "idle"
    /\ ~closed
    /\ is_connected
    /\ is_connected' = FALSE
    /\ UNCHANGED <<closed, gatherer, last, errors, pending, results, fut,
                   sent, gathered, submitted, pc, waiting, snap>>

(* close: disconnect if connected, then close the broker connection.  It *)
(* is the client's last call: no caller action is modelled after it.     *)
Close(t) ==
    /\ pc[t] = "idle"
    /\ ~closed
    /\ is_connected' = FALSE
    /\ closed' = TRUE
    /\ UNCHANGED <<gatherer, last, errors, pending, results, fut, sent,
                   gathered, submitted, pc, waiting, snap>>

(* schedule_blocking, first step: raise TasqClientNotConnected when       *)
(* disconnected (no state change, left out), else go on to schedule.      *)
ScheduleBlocking(t) ==
    /\ pc[t] = "idle"
    /\ ~closed
    /\ is_connected
    /\ Len(submitted) < MaxJobs
    /\ pc' = [pc EXCEPT ![t] = "sched"]
    /\ UNCHANGED <<is_connected, closed, gatherer, last, errors, pending,
                   results, fut, sent, gathered, submitted, waiting, snap>>

(* schedule_blocking, second step: self.schedule(...), then wait on the   *)
(* future.  If another thread disconnected in between, schedule buffers  *)
(* the job and returns None, and None.result(timeout) raises.             *)
ScheduleBlockingSend(t, arg) ==
    /\ pc[t] = "sched"
    /\ Len(submitted) < MaxJobs
    /\ arg \in NameArgs
    /\ submitted' = Append(submitted, MakeJob(arg, "blocking"))
    /\ SendOrBuffer(MakeJob(arg, "blocking"), arg, pending)
    /\ pc' = [pc EXCEPT ![t] = IF is_connected THEN "wait" ELSE "idle"]
    /\ waiting' = [waiting EXCEPT ![t] = IF is_connected THEN Len(fut) + 1 ELSE 0]
    /\ UNCHANGED <<is_connected, closed, gatherer, last, errors, gathered, snap>>

(* future.result(timeout) returns once the future is done ...             *)
ResultReturns(t) ==
    /\ pc[t] = "wait"
    /\ fut[waiting[t]].val # 0
    /\ pc' = [pc EXCEPT ![t] = "idle"]
    /\ waiting' = [waiting EXCEPT ![t] = 0]
    /\ UNCHANGED <<is_connected, closed, gatherer, last, errors, pending,
                   results, fut, sent, gathered, submitted, snap>>

(* ... or raises TimeoutError when the caller gave a timeout.             *)
ResultTimeout(t) ==
    /\ pc[t] = "wait"
    /\ fut[waiting[t]].val = 0
    /\ pc' = [pc EXCEPT ![t] = "idle"]
    /\ waiting' = [waiting EXCEPT ![t] = 0]
    /\ UNCHANGED <<is_connected, closed, gatherer, last, errors, pending,
                   results, fut, sent, gathered, submitted, snap>>

(* __exit__ of `with client:` runs `while self.pending_results(): pass`,  *)
(* then self.close().  pending_results iterates self._results.items() in  *)
(* a dict comprehension, which other threads may interleave with: a scan  *)
(* begins (ExitEnter, or the loop's next call) and ends (ExitScan).  The  *)
(* body of the with-statement does not close the client itself.           *)
ExitEnter(t) ==
    /\ pc[t] = "idle"
    /\ ~closed
    /\ pc' = [pc EXCEPT ![t] = "exit"]
    /\ snap' = [snap EXCEPT ![t] = DOMAIN results]
    /\ UNCHANGED <<is_connected, closed, gatherer, last, errors, pending,
                   results, fut, sent, gathered, submitted, waiting>>

\* The keys pending_results returns: those whose future is not done.
PendingResults == {k \in DOMAIN results : fut[results[k]].val = 0}

(* Bug variant of ExitScan: the filter is `v.done() is True`, so the loop *)
(* waits for every future to be undone.                                   *)
ExitScanDoneInverted(t) ==
    /\ pc[t] = "exit"
    /\ \/ /\ DOMAIN results # snap[t]
          /\ pc' = [pc EXCEPT ![t] = "idle"]
          /\ UNCHANGED <<is_connected, closed, snap>>
       \/ /\ DOMAIN results = snap[t]
          /\ DOMAIN results # PendingResults
          /\ snap' = [snap EXCEPT ![t] = DOMAIN results]
          /\ UNCHANGED <<is_connected, closed, pc>>
       \/ /\ DOMAIN results = snap[t]
          /\ DOMAIN results = PendingResults
          /\ is_connected' = FALSE
          /\ closed' = TRUE
          /\ pc' = [pc EXCEPT ![t] = "idle"]
          /\ UNCHANGED snap
    /\ UNCHANGED <<gatherer, last, errors, pending, results, fut, sent,
                   gathered, submitted, waiting>>

(* The end of one pending_results() scan.  Keys are never removed, so a   *)
(* key set that differs from the one the scan began with means the dict   *)
(* changed size during iteration: RuntimeError escapes __exit__ and close *)
(* is never called.  Otherwise a non-empty result starts the next scan,   *)
(* and an empty one closes the client (close: disconnect if connected).   *)
ExitScan(t) ==
    /\ pc[t] = "exit"
    /\ \/ /\ DOMAIN results # snap[t]
          /\ pc' = [pc EXCEPT ![t] = "idle"]
          /\ UNCHANGED <<is_connected, closed, snap>>
       \/ /\ DOMAIN results = snap[t]
          /\ PendingResults # {}
          /\ snap' = [snap EXCEPT ![t] = DOMAIN results]
          /\ UNCHANGED <<is_connected, closed, pc>>
       \/ /\ DOMAIN results = snap[t]
          /\ PendingResults = {}
          /\ is_connected' = FALSE
          /\ closed' = TRUE
          /\ pc' = [pc EXCEPT ![t] = "idle"]
          /\ UNCHANGED snap
    /\ UNCHANGED <<gatherer, last, errors, pending, results, fut, sent,
                   gathered, submitted, waiting>>

----------------------------------------------------------------------------
(* Bug variant of SetResult: the result completes the newest future,    *)
(* not the one stored under its name.                                    *)
SetResultNewest(i) ==
    LET k == sent[i].name IN
    IF k \notin DOMAIN results
    THEN UNCHANGED <<fut, gatherer>>
    ELSE IF fut[Len(fut)].val # 0
         THEN /\ gatherer' = "dead"
              /\ UNCHANGED fut
         ELSE /\ fut' = [fut EXCEPT ![Len(fut)].val = i]
              /\ UNCHANGED gatherer

(* The loop body of _gather_results once a job result (the answer to send *)
(* i) is in hand: self._results[job_result.name].set_result(job_result).  *)
(* A missing key is a KeyError, logged.  set_result on a future already   *)
(* done raises InvalidStateError, which nothing catches: the thread dies. *)
SetResult(i) ==
    LET k == sent[i].name IN
    IF k \notin DOMAIN results
    THEN UNCHANGED <<fut, gatherer>>
    ELSE IF fut[results[k]].val # 0
         THEN /\ gatherer' = "dead"
              /\ UNCHANGED fut
         ELSE /\ fut' = [fut EXCEPT ![results[k]].val = i]
              /\ UNCHANGED gatherer

(* Bug variant of GatherResults: a result already received is delivered *)
(* again (the check that each send is answered once is dropped).         *)
GatherResultsRedeliver(i) ==
    /\ gatherer = "alive"
    /\ ~closed
    /\ i \in 1..Len(sent)
    /\ gathered' = gathered \cup {i}
    /\ last' = i
    /\ SetResult(i)
    /\ UNCHANGED <<is_connected, closed, errors, pending, results, sent,
                   submitted, pc, waiting, snap>>

(* recv returns the job result answering send i.                          *)
GatherResults(i) ==
    /\ gatherer = "alive"
    /\ ~closed
    /\ i \in (1..Len(sent)) \ gathered
    /\ gathered' = gathered \cup {i}
    /\ last' = i
    /\ SetResult(i)
    /\ UNCHANGED <<is_connected, closed, errors, pending, results, sent,
                   submitted, pc, waiting, snap>>

(* ZMQTasqClient only: recv raises ZMQError (transiently, or on every call *)
(* once the context is terminated by close).  The handler logs and falls  *)
(* through with job_result still holding the previous iteration's value: *)
(* unbound (UnboundLocalError kills the thread) or a result set again.    *)
GatherRecvError ==
    /\ Transport = "zmq"
    /\ gatherer = "alive"
    /\ closed \/ errors < MaxErrors
    /\ errors' = IF closed THEN errors ELSE errors + 1
    /\ IF last = 0
       THEN /\ gatherer' = "dead"
            /\ UNCHANGED fut
       ELSE SetResult(last)
    /\ UNCHANGED <<is_connected, closed, last, pending, results, sent,
                   gathered, submitted, pc, waiting, snap>>

----------------------------------------------------------------------------
Next ==
    \/ \E t \in Threads :
          \/ \E arg \in Names : Schedule(t, arg)
          \/ Connect(t)
          \/ Drain(t)
          \/ Disconnect(t)
          \/ Close(t)
          \/ ScheduleBlocking(t)
          \/ \E arg \in Names : ScheduleBlockingSend(t, arg)
          \/ ResultReturns(t)
          \/ ResultTimeout(t)
          \/ ExitEnter(t)
          \/ ExitScan(t)
    \/ \E i \in 1..MaxJobs : GatherResults(i)
    \/ GatherRecvError

(* The gathering thread is a daemon that runs for the client's lifetime, *)
(* and a thread inside connect's drain loop or __exit__'s wait loop keeps *)
(* executing it: all are weakly fair.  Callers' own calls are not.        *)
Fairness ==
    /\ WF_vars(\E i \in 1..MaxJobs : GatherResults(i))
    /\ \A t \in Threads : WF_vars(Drain(t))
    /\ \A t \in Threads : WF_vars(ExitScan(t))

Spec == Init /\ [][Next]_vars /\ Fairness

----------------------------------------------------------------------------
TypeOK ==
    /\ is_connected \in BOOLEAN
    /\ closed \in BOOLEAN
    /\ gatherer \in {"new", "alive", "dead"}
    /\ last \in 0..Len(sent)
    /\ errors \in 0..MaxErrors
    /\ pending \in Seq(Job)
    /\ DOMAIN results \subseteq Keys
    /\ \A k \in DOMAIN results : results[k] \in 1..Len(fut)
    /\ fut \in Seq(Future)
    /\ sent \in Seq(Job)
    /\ gathered \subseteq 1..Len(sent)
    /\ submitted \in Seq(Job)
    /\ pc \in [Threads -> {"idle", "drain", "sched", "wait", "exit"}]
    /\ waiting \in [Threads -> 0..Len(fut)]
    /\ snap \in [Threads -> SUBSET Keys]

(* FIFO release (spec 3, Pending Queue): jobs reach self._client.send in   *)
(* the order callers submitted them, each at most once, whether sent at   *)
(* once by schedule or buffered and replayed by connect's drain loop.     *)
FifoRelease ==
    \A i, j \in 1..Len(sent) : i < j => sent[i].uid < sent[j].uid

(* A future is only ever completed with the job result of the job it was *)
(* created for: the results map, keyed at schedule time, and the name the *)
(* remote side puts in the result never send a result to another caller. *)
FutureIntegrity ==
    \A f \in 1..Len(fut) :
        fut[f].val # 0 => sent[fut[f].val].uid = fut[f].job.uid

(* connect drains the deque (spec 4.4): whenever the client is connected  *)
(* and no thread is inside connect's drain loop, nothing is left buffered. *)
NoStrandedPending ==
    is_connected /\ (\A t \in Threads : pc[t] # "drain") => pending = <<>>

(* The gathering thread never dies before close: set_result is never      *)
(* called twice on one future, and a transient recv error is logged and   *)
(* the loop goes on (spec 4.4, 7).                                         *)
GathererSurvives ==
    ~closed => gatherer # "dead"

(* schedule_blocking never buffers (spec 7, NotConnected): a job it built *)
(* is never left in the pending deque.                                    *)
BlockingNeverBuffers ==
    \A i \in 1..Len(pending) : pending[i].by # "blocking"

(* Every future a caller is handed is eventually completed, unless the    *)
(* client is closed first (spec 2, data flow recv -> set_result).         *)
FuturesResolve ==
    \A f \in 1..MaxJobs :
        (f <= Len(fut)) ~> (closed \/ (f <= Len(fut) /\ fut[f].val # 0))

(* connect returns: a thread that entered the drain loop leaves it.       *)
ConnectReturns ==
    \A t \in Threads : pc[t] = "drain" ~> pc[t] = "idle"

(* The with-statement releases the client on every exit path (spec 6):    *)
(* no step takes a thread out of __exit__ without the client closed.      *)
ExitReleases ==
    [][\A t \in Threads : pc[t] = "exit" /\ pc'[t] # "exit" => closed']_vars

(* __exit__ returns: its wait on pending_results ends, every outstanding  *)
(* future being completed by the gathering thread.                        *)
ExitReturns ==
    \A t \in Threads : pc[t] = "exit" ~> pc[t] = "idle"

----------------------------------------------------------------------------
(* The refinement mapping to ClientSpec.  The deque's right end is its    *)
(* oldest job, the head of the abstract queue; a job is in flight while  *)
(* its future is not done, and done when its future holds the result of  *)
(* a send of the same job.                                                 *)
QueueBar == [i \in 1..Len(pending) |-> pending[Len(pending) + 1 - i].uid]

FlightBar == {fut[f].job.uid : f \in {g \in 1..Len(fut) : fut[g].val = 0}}

DoneBar ==
    {fut[f].job.uid :
        f \in {g \in 1..Len(fut) : fut[g].val # 0
                                  /\ sent[fut[g].val].uid = fut[g].job.uid}}

Abstract == INSTANCE ClientSpec
    WITH queue <- QueueBar, flight <- FlightBar, done <- DoneBar,
         njobs <- Len(submitted)

(* The client keeps the promise of ClientSpec: jobs buffered while        *)
(* disconnected are replayed by connect oldest first and before any new   *)
(* job is sent, and every future completes once, with its own result.     *)
ImplementsClientSpec == Abstract!Spec

----------------------------------------------------------------------------
(* The strengthening of FutureIntegrity that is inductive when callers    *)
(* pass fresh names (TasqClientProofs).                                    *)

(* Submission numbers are the positions in the history, within the bound. *)
SubmittedIds ==
    /\ Len(submitted) <= MaxJobs
    /\ \A i \in 1..Len(submitted) : submitted[i].uid = i

(* A numeric job name is the job's own uuid.                              *)
UuidNames ==
    \A i \in 1..Len(submitted) : submitted[i].name \in Nat => submitted[i].name = i

(* No two jobs built by callers carry the same correlation name.          *)
NamesUnique ==
    \A i, j \in 1..Len(submitted) : submitted[i].name = submitted[j].name => i = j

(* A job is known when it is the job built by the caller with its uuid.   *)
Known(job) == job.uid \in 1..Len(submitted) /\ submitted[job.uid] = job

(* Every job sent, buffered or owning a future was built by a caller.     *)
JobsKnown ==
    /\ \A i \in 1..Len(sent) : Known(sent[i])
    /\ \A i \in 1..Len(pending) : Known(pending[i])
    /\ \A f \in 1..Len(fut) : Known(fut[f].job)

(* The future stored under a real name belongs to the job of that name.   *)
KeyOwner ==
    \A k \in DOMAIN results \ {NoName} : fut[results[k]].job.name = k

(* A future's value, when set, is the index of a send.                    *)
ValSent ==
    \A f \in 1..Len(fut) : fut[f].val \in 0..Len(sent)

IInv ==
    /\ TypeOK
    /\ SubmittedIds
    /\ UuidNames
    /\ NamesUnique
    /\ JobsKnown
    /\ KeyOwner
    /\ ValSent
    /\ FutureIntegrity

----------------------------------------------------------------------------
(* The strengthening of FifoRelease that is inductive for one caller      *)
(* thread (TasqClientFifo).                                                *)

(* The deque is ordered newest (left) to oldest (right).                  *)
PendingDesc ==
    \A i, j \in 1..Len(pending) : i < j => pending[i].uid > pending[j].uid

(* Every job sent or buffered was built already.                          *)
UidsBuilt ==
    /\ \A i \in 1..Len(sent) : sent[i].uid <= Len(submitted)
    /\ \A i \in 1..Len(pending) : pending[i].uid <= Len(submitted)

(* A buffered job no newer than one already sent: connect can then never *)
(* drain again, as every later start() raises.                           *)
OlderBuffered ==
    \E i \in 1..Len(pending), k \in 1..Len(sent) : pending[i].uid <= sent[k].uid

StrandedForGood ==
    OlderBuffered => StartRaises /\ \A t \in Threads : pc[t] # "drain"

(* Connected, outside the drain loop, with jobs buffered: only when the   *)
(* last connect's start() raised.                                          *)
BufferedMeansRaised ==
    is_connected /\ pending # <<>> /\ (\A t \in Threads : pc[t] # "drain")
        => StartRaises

(* The drain loop runs only while connected.                              *)
DrainConnected ==
    \A t \in Threads : pc[t] = "drain" => is_connected

FInv ==
    /\ TypeOK
    /\ FifoRelease
    /\ PendingDesc
    /\ UidsBuilt
    /\ StrandedForGood
    /\ BufferedMeansRaised
    /\ DrainConnected

=============================================================================
