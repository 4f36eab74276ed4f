------------------------------- MODULE Actor -------------------------------
(* The mailbox actor of src/tasq/actor.py: a queue.Queue mailbox shared    *)
(* by any number of senders, close() putting the ActorExit sentinel, one  *)
(* processing thread per start() running _bootstrap -> run, and join()    *)
(* waiting on the _terminated Event.                                       *)
(*                                                                         *)
(* Actor.run itself is `pass`; the actors of the package (ClientWorker)   *)
(* override it with the loop `while True: msg = self.recv(); handle(msg)`.*)
(* That loop is modelled from the spec (4.1): Recv is self.recv() and     *)
(* Handle is the subclass's handling of the message, a separate step of   *)
(* the same thread.                                                        *)
(*                                                                         *)
(* The Result class of the same file, a value cell with an Event, is     *)
(* modelled alongside: one setter thread calling set_result, and reader   *)
(* threads calling result(timeout).  Its steps interleave with the        *)
(* actor's; the two share no state.                                        *)
EXTENDS Naturals, Sequences

CONSTANTS
    Senders,     \* threads calling send(msg)
    Waiters,     \* threads calling join()
    ActorExit,   \* the sentinel class put by close()
    MaxSends,    \* messages per sender
    MaxCloses,   \* calls of close()
    MaxStarts,   \* calls of start()
    Readers,     \* threads calling Result.result(timeout)
    MaxSets      \* calls of Result.set_result

ASSUME ActorAssumption ==
    /\ Senders # {}
    /\ MaxSends \in Nat
    /\ MaxCloses \in Nat
    /\ MaxStarts \in Nat
    /\ MaxSets \in Nat

\* A message: the sender and its position in that sender's calls.
Msg == [from: Senders, seq: 1..MaxSends]

ASSUME ExitAssumption == ActorExit \notin Msg

VARIABLES
    mailbox,     \* self._mailbox, head = next get()
    nsent,       \* send() calls so far, per sender
    ncloses,     \* close() calls so far
    loops,       \* one record per started thread: its state and held msg
    terminated,  \* self._terminated.is_set()
    joined,      \* join() has returned, per waiter
    enq,         \* history: every item ever put, in put order
    handled,     \* history: every message handled, in handling order
    rval,        \* Result._result: 0 is None, v > 0 the v-th value set
    revent,      \* Result._event.is_set()
    rsetter,     \* the setter thread: "idle", or "assigned" inside set_result
    rsets,       \* set_result calls begun
    rd           \* per reader: where it is, whether wait saw the Event, what it got

actorVars == <<mailbox, nsent, ncloses, loops, terminated, joined, enq, handled>>
resultVars == <<rval, revent, rsetter, rsets, rd>>
vars == <<actorVars, resultVars>>

\* A thread blocks in get() ("recv"), holds a message it got ("busy"), or
\* has left _bootstrap ("exited").
LoopState == [st: {"recv", "busy", "exited"}, msg: Msg \cup {ActorExit}]

Init ==
    /\ mailbox = <<>>
    /\ nsent = [s \in Senders |-> 0]
    /\ ncloses = 0
    /\ loops = <<>>
    /\ terminated = FALSE
    /\ joined = [w \in Waiters |-> FALSE]
    /\ enq = <<>>
    /\ handled = <<>>
    /\ rval = 0
    /\ revent = FALSE
    /\ rsetter = "idle"
    /\ rsets = 0
    /\ rd = [r \in Readers |-> [st |-> "idle", woke |-> FALSE, got |-> 0]]

----------------------------------------------------------------------------
(* Bug variant of Send: the message is put at the head (a LIFO queue).  *)
SendFront(s) ==
    /\ nsent[s] < MaxSends
    /\ LET m == [from |-> s, seq |-> nsent[s] + 1]
       IN  /\ mailbox' = <<m>> \o mailbox
           /\ enq' = Append(enq, m)
    /\ nsent' = [nsent EXCEPT ![s] = @ + 1]
    /\ UNCHANGED <<ncloses, loops, terminated, joined, handled, resultVars>>

(* send(msg): self._mailbox.put(msg); the queue is unbounded, put never  *)
(* blocks, and may be called at any time, before start or after exit.    *)
Send(s) ==
    /\ nsent[s] < MaxSends
    /\ LET m == [from |-> s, seq |-> nsent[s] + 1]
       IN  /\ mailbox' = Append(mailbox, m)
           /\ enq' = Append(enq, m)
    /\ nsent' = [nsent EXCEPT ![s] = @ + 1]
    /\ UNCHANGED <<ncloses, loops, terminated, joined, handled, resultVars>>

(* Bug variant of Close: the sentinel jumps the queue.                    *)
CloseFront ==
    /\ ncloses < MaxCloses
    /\ mailbox' = <<ActorExit>> \o mailbox
    /\ enq' = Append(enq, ActorExit)
    /\ ncloses' = ncloses + 1
    /\ UNCHANGED <<nsent, loops, terminated, joined, handled, resultVars>>

(* close(): self.send(ActorExit).                                          *)
Close ==
    /\ ncloses < MaxCloses
    /\ mailbox' = Append(mailbox, ActorExit)
    /\ enq' = Append(enq, ActorExit)
    /\ ncloses' = ncloses + 1
    /\ UNCHANGED <<nsent, loops, terminated, joined, handled, resultVars>>

(* start(): a new daemon Thread(target=self._bootstrap) on every call;   *)
(* nothing stops a second call from starting a second consumer.           *)
Start ==
    /\ Len(loops) < MaxStarts
    /\ loops' = Append(loops, [st |-> "recv", msg |-> ActorExit])
    /\ UNCHANGED <<mailbox, nsent, ncloses, terminated, joined, enq, handled, resultVars>>

(* Bug variant of Recv: the sentinel is not recognised (`msg is ActorExit` *)
(* compared with an instance of it).                                        *)
RecvNoExit(l) ==
    /\ loops[l].st = "recv"
    /\ mailbox # <<>>
    /\ mailbox' = Tail(mailbox)
    /\ loops' = [loops EXCEPT ![l] = [st |-> "busy", msg |-> Head(mailbox)]]
    /\ UNCHANGED <<terminated, nsent, ncloses, joined, enq, handled, resultVars>>

(* Bug variant of Recv: _bootstrap sets the Event only when run returns *)
(* normally, not in a finally clause, so ActorExit never sets it.        *)
RecvNoSet(l) ==
    /\ loops[l].st = "recv"
    /\ mailbox # <<>>
    /\ mailbox' = Tail(mailbox)
    /\ IF Head(mailbox) = ActorExit
       THEN loops' = [loops EXCEPT ![l] = [st |-> "exited", msg |-> ActorExit]]
       ELSE loops' = [loops EXCEPT ![l] = [st |-> "busy", msg |-> Head(mailbox)]]
    /\ UNCHANGED <<terminated, nsent, ncloses, joined, enq, handled, resultVars>>

(* recv(): get() blocks until the mailbox is non-empty and takes its head. *)
(* The sentinel raises ActorExit, which _bootstrap catches; its finally   *)
(* sets _terminated.  Any other message is returned to run.               *)
Recv(l) ==
    /\ loops[l].st = "recv"
    /\ mailbox # <<>>
    /\ mailbox' = Tail(mailbox)
    /\ IF Head(mailbox) = ActorExit
       THEN /\ loops' = [loops EXCEPT ![l] = [st |-> "exited", msg |-> ActorExit]]
            /\ terminated' = TRUE
       ELSE /\ loops' = [loops EXCEPT ![l] = [st |-> "busy", msg |-> Head(mailbox)]]
            /\ UNCHANGED terminated
    /\ UNCHANGED <<nsent, ncloses, joined, enq, handled, resultVars>>

(* run's handling of the message recv returned, then back to recv.  The  *)
(* sentinel is the only way out of the loop.                              *)
Handle(l) ==
    /\ loops[l].st = "busy"
    /\ handled' = Append(handled, [loop |-> l, msg |-> loops[l].msg])
    /\ loops' = [loops EXCEPT ![l] = [st |-> "recv", msg |-> ActorExit]]
    /\ UNCHANGED <<mailbox, nsent, ncloses, terminated, joined, enq, resultVars>>

(* Bug variant of Join: returns without waiting on the Event.             *)
(* join(): self._terminated.wait() returns once the Event is set.          *)
Join(w) ==
    /\ ~joined[w]
    /\ terminated
    /\ joined' = [joined EXCEPT ![w] = TRUE]
    /\ UNCHANGED <<mailbox, nsent, ncloses, loops, terminated, enq, handled, resultVars>>

----------------------------------------------------------------------------
(* Result() : _event = Event(), _result = None (in Init).                 *)

(* Bug variant of ResultSetResult: the Event is set before the value is  *)
(* stored.                                                                 *)
ResultSetEventFirst ==
    \/ /\ rsetter = "idle"
       /\ rsets < MaxSets
       /\ revent' = TRUE
       /\ rsets' = rsets + 1
       /\ rsetter' = "assigned"
       /\ UNCHANGED <<rval, rd>>
    \/ /\ rsetter = "assigned"
       /\ rval' = rsets
       /\ rsetter' = "idle"
       /\ UNCHANGED <<revent, rsets, rd>>

(* set_result(value): `self._result = value`, then `self._event.set()`,  *)
(* two steps a reader may run between.  Nothing stops a second call from *)
(* overwriting the value; the v-th call stores value v.                   *)
ResultSetResult ==
    \/ /\ rsetter = "idle"
       /\ rsets < MaxSets
       /\ rval' = rsets + 1
       /\ rsets' = rsets + 1
       /\ rsetter' = "assigned"
       /\ UNCHANGED <<revent, rd>>
    \/ /\ rsetter = "assigned"
       /\ revent' = TRUE
       /\ rsetter' = "idle"
       /\ UNCHANGED <<rval, rsets, rd>>

(* result(timeout): `self._event.wait(timeout)` returns True once the     *)
(* Event is set, or False when the timeout expires first (the reader may *)
(* give one at any time before the Event is set) ...                      *)
ResultWait(r) ==
    /\ rd[r].st = "idle"
    /\ \/ /\ revent
          /\ rd' = [rd EXCEPT ![r] = [@ EXCEPT !.st = "read", !.woke = TRUE]]
       \/ /\ ~revent
          /\ rd' = [rd EXCEPT ![r] = [@ EXCEPT !.st = "read", !.woke = FALSE]]
    /\ UNCHANGED <<rval, revent, rsetter, rsets>>

(* ... then `return self._result`, read in a step of its own.             *)
ResultRead(r) ==
    /\ rd[r].st = "read"
    /\ rd' = [rd EXCEPT ![r] = [@ EXCEPT !.st = "done", !.got = rval]]
    /\ UNCHANGED <<rval, revent, rsetter, rsets>>

ActorNext ==
    \/ \E s \in Senders : Send(s)
    \/ Close
    \/ Start
    \/ \E l \in 1..Len(loops) : Recv(l) \/ Handle(l)
    \/ \E w \in Waiters : Join(w)

ResultNext ==
    \/ ResultSetResult
    \/ \E r \in Readers : ResultWait(r) \/ ResultRead(r)

Next ==
    \/ ActorNext
    \/ ResultNext /\ UNCHANGED actorVars

(* Each started thread is scheduled by the OS while it can run: weak     *)
(* fairness for its steps.  Callers of send, close, start, join are not.  *)
Fairness ==
    \A l \in 1..MaxStarts :
        WF_vars(l <= Len(loops) /\ (Recv(l) \/ Handle(l)))

Spec == Init /\ [][Next]_vars /\ Fairness

----------------------------------------------------------------------------
TypeOK ==
    /\ mailbox \in Seq(Msg \cup {ActorExit})
    /\ nsent \in [Senders -> 0..MaxSends]
    /\ ncloses \in 0..MaxCloses
    /\ loops \in Seq(LoopState)
    /\ terminated \in BOOLEAN
    /\ joined \in [Waiters -> BOOLEAN]
    /\ enq \in Seq(Msg \cup {ActorExit})
    /\ handled \in Seq([loop: Nat, msg: Msg])
    /\ rval \in 0..MaxSets
    /\ revent \in BOOLEAN
    /\ rsetter \in {"idle", "assigned"}
    /\ rsets \in 0..MaxSets
    /\ rd \in [Readers -> [st: {"idle", "read", "done"}, woke: BOOLEAN,
                            got: 0..MaxSets]]

(* Per-sender FIFO (spec 4.1, 8): the run loop handles the messages of   *)
(* one sender in the order that sender called send.                       *)
PerSenderFifo ==
    \A i, j \in 1..Len(handled) :
        /\ i < j
        /\ handled[i].msg.from = handled[j].msg.from
        => handled[i].msg.seq < handled[j].msg.seq

\* Position of the first sentinel put, or one past the history.
FirstExit ==
    IF \E i \in 1..Len(enq) : enq[i] = ActorExit
    THEN CHOOSE i \in 1..Len(enq) :
            enq[i] = ActorExit /\ \A j \in 1..i - 1 : enq[j] # ActorExit
    ELSE Len(enq) + 1

(* Close drains (spec 4.1, 8): once _terminated is set, every message put *)
(* before the first close() has been handled: the sentinel exits the loop *)
(* only after everything ahead of it.                                      *)
HandledBeforeExit ==
    terminated =>
        \A i \in 1..FirstExit - 1 :
            \E j \in 1..Len(handled) : handled[j].msg = enq[i]

(* A reader whose wait saw the Event set returns a value, never None:    *)
(* set_result stores the value before it sets the Event.                  *)
ResultReadSeesSet ==
    \A r \in Readers : rd[r].st = "done" /\ rd[r].woke => rd[r].got # 0

(* A started actor that is closed terminates, and join then can return:   *)
(* the sentinel reaches the thread whatever was sent before it.           *)
ClosedTerminates ==
    (Len(loops) > 0 /\ ncloses > 0) ~> terminated

=============================================================================
