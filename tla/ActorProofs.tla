---------------------------- MODULE ActorProofs ----------------------------
(* Proofs about the mailbox actor and Result of src/tasq/actor.py.          *)
(*                                                                         *)
(* Two of the run's invariants hold for every actor: the types, and that *)
(* a reader woken by the Event reads a value.  The other three hold for  *)
(* an actor started once (MaxStarts <= 1): with a second start() call a  *)
(* second consumer takes messages from the same Queue, and TLC finds     *)
(* join() returning while it still handles one.  Their strengthening     *)
(* rests on the Queue being FIFO: the mailbox is always the part of the  *)
(* put history not yet taken, and with one consumer everything taken is *)
(* handled or held by it.                                                *)
EXTENDS Actor, TLAPS

\* How many items the consumers have taken from the mailbox.
Taken == Len(enq) - Len(mailbox)

(* A thread holding a message holds one a sender sent.                    *)
BusyHoldsMsg ==
    \A l \in 1..Len(loops) : loops[l].st = "busy" => loops[l].msg \in Msg

TInv == TypeOK /\ BusyHoldsMsg

(* A reader woke only on a set Event, and the Event is set only after a  *)
(* value was stored, which is never reset to None.                        *)
RParts ==
    /\ rsetter = "assigned" => rval # 0
    /\ revent => rval # 0
    /\ \A r \in Readers : rd[r].woke => revent
    /\ ResultReadSeesSet

RInv == TInv /\ RParts

(* The mailbox is the untaken tail of the put history (queue.Queue is     *)
(* FIFO), and every message taken was handled or is held by a thread.     *)
MailboxIsTail ==
    /\ Len(mailbox) <= Len(enq)
    /\ \A k \in 1..Len(mailbox) : mailbox[k] = enq[Taken + k]

TakenHandled ==
    \A i \in 1..Taken :
        enq[i] \in Msg =>
            \/ \E j \in 1..Len(handled) : handled[j].msg = enq[i]
            \/ \E l \in 1..Len(loops) : loops[l].st = "busy" /\ loops[l].msg = enq[i]

(* A first sentinel exists as soon as one was put (this spares the proof *)
(* the least-number principle).                                            *)
FirstExitWitness ==
    (\E i \in 1..Len(enq) : enq[i] = ActorExit) =>
        \E i \in 1..Len(enq) :
            enq[i] = ActorExit /\ \A j \in 1..i - 1 : enq[j] # ActorExit

(* The Event is set only by a thread that took a sentinel, and with one   *)
(* thread that thread has left the loop for good.                         *)
TerminatedParts ==
    /\ Len(loops) <= MaxStarts
    /\ terminated => \E i \in 1..Taken : enq[i] = ActorExit
    /\ terminated => Len(loops) >= 1 /\ \A l \in 1..Len(loops) : loops[l].st = "exited"
    /\ \A w \in Waiters : joined[w] => terminated

(* Each sender's messages stay in send order along handled, the held     *)
(* message and the mailbox, and none is numbered beyond its sender's      *)
(* send() calls.                                                           *)
SameFrom(m1, m2) == m1 \in Msg /\ m2 \in Msg /\ m1.from = m2.from

MailboxOrdered ==
    \A a, b \in 1..Len(mailbox) :
        a < b /\ SameFrom(mailbox[a], mailbox[b]) => mailbox[a].seq < mailbox[b].seq

HandledBeforeMailbox ==
    \A j \in 1..Len(handled), k \in 1..Len(mailbox) :
        SameFrom(handled[j].msg, mailbox[k]) => handled[j].msg.seq < mailbox[k].seq

BusyInOrder ==
    \A l \in 1..Len(loops) :
        loops[l].st = "busy" =>
          /\ \A j \in 1..Len(handled) :
                SameFrom(handled[j].msg, loops[l].msg)
                   => handled[j].msg.seq < loops[l].msg.seq
          /\ \A k \in 1..Len(mailbox) :
                SameFrom(loops[l].msg, mailbox[k]) => loops[l].msg.seq < mailbox[k].seq

SeqBounded ==
    /\ \A k \in 1..Len(mailbox) :
          mailbox[k] \in Msg => mailbox[k].seq <= nsent[mailbox[k].from]
    /\ \A j \in 1..Len(handled) : handled[j].msg.seq <= nsent[handled[j].msg.from]
    /\ \A l \in 1..Len(loops) :
          loops[l].st = "busy" => loops[l].msg.seq <= nsent[loops[l].msg.from]

OrderParts ==
    /\ PerSenderFifo
    /\ MailboxOrdered
    /\ HandledBeforeMailbox
    /\ BusyInOrder
    /\ SeqBounded

SInv ==
    /\ TInv
    /\ MailboxIsTail
    /\ TakenHandled
    /\ FirstExitWitness
    /\ TerminatedParts
    /\ OrderParts

----------------------------------------------------------------------------
LEMMA ActorConstants ==
    /\ Senders # {}
    /\ MaxSends \in Nat /\ MaxCloses \in Nat /\ MaxStarts \in Nat
    /\ MaxSets \in Nat
    /\ ActorExit \notin Msg
BY ActorAssumption, ExitAssumption

\* TypeOK split in two: the provers do best with each part apart.
ReaderRec == [st: {"idle", "read", "done"}, woke: BOOLEAN, got: 0..MaxSets]

TypeBool ==
    /\ terminated \in BOOLEAN
    /\ joined \in [Waiters -> BOOLEAN]
    /\ revent \in BOOLEAN
    /\ rd \in [Readers -> ReaderRec]

HandledRec == [loop: Nat, msg: Msg]

TypeRest ==
    /\ mailbox \in Seq(Msg \cup {ActorExit})
    /\ nsent \in [Senders -> 0..MaxSends]
    /\ ncloses \in 0..MaxCloses
    /\ loops \in Seq(LoopState)
    /\ enq \in Seq(Msg \cup {ActorExit})
    /\ handled \in Seq(HandledRec)
    /\ rval \in 0..MaxSets
    /\ rsetter \in {"idle", "assigned"}
    /\ rsets \in 0..MaxSets

LEMMA TypeOKParts == TypeOK <=> TypeBool /\ TypeRest
BY Zenon DEF TypeOK, TypeBool, TypeRest, ReaderRec, HandledRec

(* A reader's record after result's wait and after its read, as a record *)
(* the SMT backend can take (it does not take EXCEPT on a record).         *)
LEMMA WaitRecord ==
    ASSUME NEW x \in ReaderRec, NEW b \in BOOLEAN
    PROVE  LET y == [x EXCEPT !.st = "read", !.woke = b]
           IN  y \in ReaderRec /\ y.st = "read" /\ y.woke = b /\ y.got = x.got
BY Zenon DEF ReaderRec

LEMMA ReadRecord ==
    ASSUME NEW x \in ReaderRec, NEW v \in 0..MaxSets
    PROVE  LET y == [x EXCEPT !.st = "done", !.got = v]
           IN  y \in ReaderRec /\ y.st = "done" /\ y.woke = x.woke /\ y.got = v
BY Zenon DEF ReaderRec

LEMMA WaitStep ==
    ASSUME TypeBool, NEW r \in Readers, ResultWait(r)
    PROVE  /\ rd[r].st = "idle"
           /\ \E y \in ReaderRec :
                 /\ rd' = [rd EXCEPT ![r] = y]
                 /\ y.st = "read" /\ y.woke = revent /\ y.got = rd[r].got
           /\ UNCHANGED <<rval, revent, rsetter, rsets>>
<1>1. rd[r] \in ReaderRec /\ revent \in BOOLEAN
  BY DEF TypeBool
<1> DEFINE y == [rd[r] EXCEPT !.st = "read", !.woke = revent]
<1>2. rd' = [rd EXCEPT ![r] = y]
  <2>1. CASE revent
    <3>1. revent = TRUE
      BY <2>1
    <3>. QED
      BY <2>1, <3>1, Zenon DEF ResultWait
  <2>2. CASE ~revent
    <3>1. revent = FALSE
      BY <1>1, <2>2
    <3>. QED
      BY <2>2, <3>1, Zenon DEF ResultWait
  <2>. QED
    BY <2>1, <2>2
<1>3. y \in ReaderRec /\ y.st = "read" /\ y.woke = revent /\ y.got = rd[r].got
  BY <1>1, WaitRecord
<1>. QED
  BY <1>2, <1>3, Zenon DEF ResultWait

LEMMA ReadStep ==
    ASSUME TypeBool, TypeRest, NEW r \in Readers, ResultRead(r)
    PROVE  /\ rd[r].st = "read"
           /\ \E y \in ReaderRec :
                 /\ rd' = [rd EXCEPT ![r] = y]
                 /\ y.st = "done" /\ y.woke = rd[r].woke /\ y.got = rval
           /\ UNCHANGED <<rval, revent, rsetter, rsets>>
<1>1. rd[r] \in ReaderRec /\ rval \in 0..MaxSets
  BY DEF TypeBool, TypeRest
<1> DEFINE y == [rd[r] EXCEPT !.st = "done", !.got = rval]
<1>2. rd' = [rd EXCEPT ![r] = y]
  BY Zenon DEF ResultRead
<1>3. y \in ReaderRec /\ y.st = "done" /\ y.woke = rd[r].woke /\ y.got = rval
  BY <1>1, ReadRecord
<1>. QED
  BY <1>2, <1>3, Zenon DEF ResultRead

(* Each actor step keeps the types of the actor's variables, and a busy   *)
(* thread holds a sender's message, never the sentinel.                    *)
LEMMA ActorRest ==
    ASSUME TypeRest, BusyHoldsMsg, ActorNext
    PROVE  TypeRest' /\ BusyHoldsMsg'
<1> USE ActorConstants
<1>1. ASSUME NEW s \in Senders, Send(s) PROVE TypeRest' /\ BusyHoldsMsg'
  <2>1. nsent[s] + 1 \in 1..MaxSends
    BY <1>1 DEF Send, TypeRest
  <2>2. [from |-> s, seq |-> nsent[s] + 1] \in Msg
    BY <2>1 DEF Msg
  <2>. QED
    BY <1>1, <2>1, <2>2 DEF Send, TypeRest, BusyHoldsMsg, resultVars
<1>2. CASE Close
  BY <1>2 DEF Close, TypeRest, BusyHoldsMsg, resultVars
<1>3. CASE Start
  <2>1. [st |-> "recv", msg |-> ActorExit] \in LoopState
    BY DEF LoopState
  <2>2. loops' = Append(loops, [st |-> "recv", msg |-> ActorExit])
        /\ UNCHANGED <<mailbox, nsent, ncloses, enq, handled, rval, rsetter, rsets>>
    BY <1>3 DEF Start, resultVars
  <2>3. loops' \in Seq(LoopState)
    BY <2>1, <2>2 DEF TypeRest
  <2>4. BusyHoldsMsg'
    <3> SUFFICES ASSUME NEW l \in 1..Len(loops'), loops'[l].st = "busy"
                 PROVE  loops'[l].msg \in Msg
      BY DEF BusyHoldsMsg
    <3>1. l \in 1..Len(loops)
      BY <2>2 DEF TypeRest
    <3>. QED
      BY <2>2, <3>1 DEF TypeRest, BusyHoldsMsg
  <2>. QED
    BY <2>2, <2>3, <2>4 DEF TypeRest
<1>4. ASSUME NEW l \in 1..Len(loops), Recv(l) PROVE TypeRest' /\ BusyHoldsMsg'
  <2>1. /\ mailbox # <<>>
        /\ Head(mailbox) \in Msg \cup {ActorExit}
        /\ mailbox' = Tail(mailbox)
        /\ UNCHANGED <<nsent, ncloses, enq, handled, rval, rsetter, rsets>>
    BY <1>4 DEF Recv, TypeRest, resultVars
  <2>2. CASE Head(mailbox) = ActorExit
    <3>1. loops' = [loops EXCEPT ![l] = [st |-> "exited", msg |-> ActorExit]]
      BY <1>4, <2>2, Zenon DEF Recv
    <3>2. [st |-> "exited", msg |-> ActorExit] \in LoopState
      BY DEF LoopState
    <3>. QED
      BY <2>1, <3>1, <3>2 DEF TypeRest, BusyHoldsMsg
  <2>3. CASE Head(mailbox) # ActorExit
    <3>1. loops' = [loops EXCEPT ![l] = [st |-> "busy", msg |-> Head(mailbox)]]
      BY <1>4, <2>3, Zenon DEF Recv
    <3>2. Head(mailbox) \in Msg
      BY <2>1, <2>3
    <3>3. [st |-> "busy", msg |-> Head(mailbox)] \in LoopState
      BY <3>2 DEF LoopState
    <3>. QED
      BY <2>1, <3>1, <3>2, <3>3 DEF TypeRest, BusyHoldsMsg
  <2>. QED
    BY <2>2, <2>3
<1>5. ASSUME NEW l \in 1..Len(loops), Handle(l) PROVE TypeRest' /\ BusyHoldsMsg'
  <2>1. loops[l].msg \in Msg
    BY <1>5 DEF Handle, BusyHoldsMsg
  <2>2. [loop |-> l, msg |-> loops[l].msg] \in HandledRec
    BY <2>1 DEF HandledRec
  <2>3. [st |-> "recv", msg |-> ActorExit] \in LoopState
    BY DEF LoopState
  <2>. QED
    BY <1>5, <2>2, <2>3 DEF Handle, TypeRest, BusyHoldsMsg, resultVars
<1>6. ASSUME NEW w \in Waiters, Join(w) PROVE TypeRest' /\ BusyHoldsMsg'
  BY <1>6 DEF Join, TypeRest, BusyHoldsMsg, resultVars
<1>. QED
  BY <1>1, <1>2, <1>3, <1>4, <1>5, <1>6 DEF ActorNext

LEMMA ActorBool ==
    ASSUME TypeBool, ActorNext
    PROVE  TypeBool'
<1>1. /\ terminated' \in BOOLEAN
      /\ joined' \in [Waiters -> BOOLEAN]
  BY Zenon DEF ActorNext, Send, Close, Start, Recv, Handle, Join, TypeBool
<1>2. UNCHANGED <<revent, rd>>
  BY Zenon DEF ActorNext, Send, Close, Start, Recv, Handle, Join, resultVars
<1>. QED
  BY <1>1, <1>2, Zenon DEF TypeBool

(* Each Result step keeps the types.                                       *)
LEMMA ResultTypes ==
    ASSUME TypeBool, TypeRest, ResultNext, UNCHANGED actorVars
    PROVE  TypeBool' /\ TypeRest'
<1> USE ActorConstants
<1>1. CASE ResultSetResult
  <2>1. TypeRest'
    BY <1>1 DEF ResultSetResult, TypeRest, actorVars
  <2>2. TypeBool'
    BY <1>1, Zenon DEF ResultSetResult, TypeBool, actorVars
  <2>. QED
    BY <2>1, <2>2
<1>2. ASSUME NEW r \in Readers, ResultWait(r) PROVE TypeBool' /\ TypeRest'
  <2>1. PICK y \in ReaderRec : rd' = [rd EXCEPT ![r] = y]
    BY <1>2, WaitStep
  <2>2. UNCHANGED <<rval, revent, rsetter, rsets>>
    BY <1>2, WaitStep
  <2>. QED
    BY <2>1, <2>2 DEF TypeBool, TypeRest, actorVars
<1>3. ASSUME NEW r \in Readers, ResultRead(r) PROVE TypeBool' /\ TypeRest'
  <2>1. PICK y \in ReaderRec : rd' = [rd EXCEPT ![r] = y]
    BY <1>3, ReadStep
  <2>2. UNCHANGED <<rval, revent, rsetter, rsets>>
    BY <1>3, ReadStep
  <2>. QED
    BY <2>1, <2>2 DEF TypeBool, TypeRest, actorVars
<1>. QED
  BY <1>1, <1>2, <1>3 DEF ResultNext

LEMMA InitTInv == Init => TInv
<1> SUFFICES ASSUME Init PROVE TypeBool /\ TypeRest /\ BusyHoldsMsg
  BY TypeOKParts DEF TInv
<1>1. TypeBool
  <2>1. 0 \in 0..MaxSets
    BY ActorConstants
  <2>. QED
    BY <2>1, Zenon DEF Init, TypeBool, ReaderRec
<1>2. TypeRest
  <2>1. nsent \in [Senders -> 0..MaxSends]
    BY ActorConstants DEF Init
  <2>. QED
    BY <2>1, ActorConstants DEF Init, TypeRest
<1>. QED
  BY <1>1, <1>2 DEF Init, BusyHoldsMsg

LEMMA NextTInv == TInv /\ [Next]_vars => TInv'
<1> SUFFICES ASSUME TypeBool, TypeRest, BusyHoldsMsg, [Next]_vars
             PROVE  TypeBool' /\ TypeRest' /\ BusyHoldsMsg'
  BY TypeOKParts, Zenon DEF TInv, TypeOK, TypeBool, TypeRest, ReaderRec,
                            HandledRec
<1>1. CASE ActorNext
  BY <1>1, ActorRest, ActorBool
<1>2. CASE ResultNext /\ UNCHANGED actorVars
  <2>1. BusyHoldsMsg'
    BY <1>2 DEF BusyHoldsMsg, actorVars
  <2>. QED
    BY <1>2, <2>1, ResultTypes
<1>3. CASE UNCHANGED vars
  <2>1. TypeRest' /\ BusyHoldsMsg'
    BY <1>3 DEF vars, actorVars, resultVars, TypeRest, BusyHoldsMsg
  <2>2. TypeBool'
    BY <1>3, Zenon DEF vars, actorVars, resultVars, TypeBool
  <2>. QED
    BY <2>1, <2>2
<1>. QED
  BY <1>1, <1>2, <1>3 DEF Next

(* Every state of the actor and of the Result is well typed: in          *)
(* particular run only ever handles a message a sender sent, never the   *)
(* ActorExit sentinel, which recv turns into the exception that ends     *)
(* _bootstrap.                                                             *)
THEOREM ActorTypeCorrect == Spec => []TypeOK
<1>1. Init => TInv
  BY InitTInv
<1>2. TInv /\ [Next]_vars => TInv'
  BY NextTInv
<1>3. TInv => TypeOK
  BY DEF TInv
<1>. QED
  BY <1>1, <1>2, <1>3, PTL DEF Spec

----------------------------------------------------------------------------
(* Each Result step keeps RParts.                                          *)
LEMMA ResultRParts ==
    ASSUME TypeBool, TypeRest, RParts, ResultNext
    PROVE  RParts'
<1> USE ActorConstants
<1>1. ASSUME ResultSetResult PROVE RParts'
  <2>1. CASE /\ rsetter = "idle"
             /\ rval' = rsets + 1
             /\ UNCHANGED <<revent, rd>>
    <3>1. rval' # 0
      BY <2>1 DEF TypeRest
    <3>. QED
      BY <2>1, <3>1 DEF RParts, ResultReadSeesSet
  <2>2. CASE /\ rsetter = "assigned"
             /\ revent' = TRUE
             /\ UNCHANGED <<rval, rd>>
    <3>1. rval # 0 /\ rval' = rval
      BY <2>2 DEF RParts
    <3>. QED
      BY <2>2, <3>1, Zenon DEF RParts, ResultReadSeesSet
  <2>. QED
    BY <1>1, <2>1, <2>2 DEF ResultSetResult
<1>2. ASSUME NEW r \in Readers, ResultWait(r) PROVE RParts'
  <2>1. PICK y \in ReaderRec :
            /\ rd' = [rd EXCEPT ![r] = y]
            /\ y.st = "read" /\ y.woke = revent /\ y.got = rd[r].got
    BY <1>2, WaitStep
  <2>2. UNCHANGED <<rval, revent, rsetter, rsets>>
    BY <1>2, WaitStep
  <2>3. \A q \in Readers : rd'[q].woke => revent'
    BY <2>1, <2>2 DEF RParts, TypeBool
  <2>4. ResultReadSeesSet'
    BY <2>1, <2>2 DEF RParts, TypeBool, ResultReadSeesSet
  <2>. QED
    BY <2>2, <2>3, <2>4 DEF RParts
<1>3. ASSUME NEW r \in Readers, ResultRead(r) PROVE RParts'
  <2>1. PICK y \in ReaderRec :
            /\ rd' = [rd EXCEPT ![r] = y]
            /\ y.st = "done" /\ y.woke = rd[r].woke /\ y.got = rval
    BY <1>3, ReadStep
  <2>2. UNCHANGED <<rval, revent, rsetter, rsets>>
    BY <1>3, ReadStep
  <2>3. \A q \in Readers : rd'[q].woke => revent'
    BY <2>1, <2>2 DEF RParts, TypeBool
  <2>4. ResultReadSeesSet'
    BY <2>1, <2>2 DEF RParts, TypeBool, ResultReadSeesSet
  <2>. QED
    BY <2>2, <2>3, <2>4 DEF RParts
<1>. QED
  BY <1>1, <1>2, <1>3 DEF ResultNext

LEMMA NextRInv == RInv /\ [Next]_vars => RInv'
<1> SUFFICES ASSUME TInv, RParts, [Next]_vars PROVE TInv' /\ RParts'
  BY DEF RInv
<1>1. TInv'
  BY NextTInv
<1>2. TypeBool /\ TypeRest
  BY TypeOKParts DEF TInv
<1>3. CASE ResultNext /\ UNCHANGED actorVars
  BY <1>1, <1>2, <1>3, ResultRParts
<1>4. CASE ActorNext \/ UNCHANGED vars
  <2>1. UNCHANGED resultVars
    BY <1>4, Zenon DEF ActorNext, Send, Close, Start, Recv, Handle, Join,
                       vars
  <2>. QED
    BY <1>1, <2>1, Zenon DEF resultVars, RParts, ResultReadSeesSet
<1>. QED
  BY <1>1, <1>3, <1>4 DEF Next

(* A reader whose _event.wait(timeout) returned because the Event was set *)
(* reads a value, never None, however the readers interleave with any     *)
(* number of set_result calls: set_result stores the value before it sets *)
(* the Event, and no step ever stores None again.                          *)
THEOREM ResultReadSeesSetHolds == Spec => []ResultReadSeesSet
<1>1. Init => RInv
  <2> SUFFICES ASSUME Init PROVE TInv /\ RParts
    BY DEF RInv
  <2>1. TInv
    BY InitTInv
  <2>. QED
    BY <2>1 DEF Init, RParts, ResultReadSeesSet
<1>2. RInv /\ [Next]_vars => RInv'
  BY NextRInv
<1>3. RInv => ResultReadSeesSet
  BY DEF RInv, RParts
<1>. QED
  BY <1>1, <1>2, <1>3, PTL DEF Spec

----------------------------------------------------------------------------
(* put(x) appends x to the mailbox and to the history alike.              *)
LEMMA PutTail ==
    ASSUME TypeRest, MailboxIsTail, FirstExitWitness,
           NEW x \in Msg \cup {ActorExit},
           mailbox' = Append(mailbox, x), enq' = Append(enq, x)
    PROVE  /\ MailboxIsTail'
           /\ FirstExitWitness'
           /\ Taken' = Taken
           /\ Taken <= Len(enq)
           /\ \A i \in 1..Len(enq) : enq'[i] = enq[i]
<1>1. Taken' = Taken /\ Taken \in 0..Len(enq)
  BY DEF Taken, MailboxIsTail, TypeRest
<1>2. \A i \in 1..Len(enq) : enq'[i] = enq[i]
  BY DEF Taken, TypeRest
<1>3. Len(mailbox') = Len(mailbox) + 1 /\ Len(enq') = Len(enq) + 1
      /\ enq'[Len(enq) + 1] = x
  BY DEF TypeRest
<1>4. MailboxIsTail'
  <2>1. Len(mailbox') <= Len(enq')
    BY DEF Taken, MailboxIsTail, TypeRest
  <2>2. ASSUME NEW k \in 1..Len(mailbox') PROVE mailbox'[k] = enq'[Taken' + k]
    <3>1. CASE k <= Len(mailbox)
      <4>1. mailbox'[k] = mailbox[k]
        BY <2>2, <3>1 DEF TypeRest
      <4>2. enq'[Taken + k] = enq[Taken + k] /\ Taken + k \in 1..Len(enq)
        BY <1>1, <1>2, <2>2, <3>1 DEF Taken, TypeRest
      <4>3. mailbox[k] = enq[Taken + k]
        BY <2>2, <3>1 DEF MailboxIsTail
      <4>. QED
        BY <1>1, <4>1, <4>2, <4>3
    <3>2. CASE k = Len(mailbox) + 1
      <4>1. mailbox'[k] = x
        BY <3>2 DEF TypeRest
      <4>2. Taken + k = Len(enq) + 1
        BY <3>2 DEF Taken, TypeRest
      <4>3. enq'[Len(enq) + 1] = x
        BY DEF TypeRest
      <4>. QED
        BY <1>1, <4>1, <4>2, <4>3
    <3>3. k <= Len(mailbox) \/ k = Len(mailbox) + 1
      BY <1>3, <2>2 DEF TypeRest
    <3>. QED
      BY <3>1, <3>2, <3>3, Zenon
  <2>. QED
    BY <2>1, <2>2 DEF Taken, MailboxIsTail
<1>5. FirstExitWitness'
  <2>1. CASE \E i \in 1..Len(enq) : enq[i] = ActorExit
    <3>1. PICK i \in 1..Len(enq) :
              enq[i] = ActorExit /\ \A j \in 1..i - 1 : enq[j] # ActorExit
      BY <2>1 DEF Taken, FirstExitWitness
    <3>2. i \in 1..Len(enq') /\ enq'[i] = ActorExit
      BY <1>3, <1>2, <3>1
    <3>3. \A j \in 1..i - 1 : enq'[j] # ActorExit
      BY <1>2, <3>1
    <3>. QED
      BY <3>2, <3>3 DEF FirstExitWitness
  <2>2. CASE ~\E i \in 1..Len(enq) : enq[i] = ActorExit
    <3>1. CASE x = ActorExit
      <4>1. enq'[Len(enq) + 1] = ActorExit /\ Len(enq') = Len(enq) + 1
        BY <3>1 DEF Taken, TypeRest
      <4>2. \A j \in 1..Len(enq) : enq'[j] # ActorExit
        BY <1>2, <2>2
      <4>. QED
        BY <4>1, <4>2 DEF Taken, FirstExitWitness, TypeRest
    <3>2. CASE x # ActorExit
      <4>1. \A i \in 1..Len(enq') : enq'[i] # ActorExit
        <5> SUFFICES ASSUME NEW i \in 1..Len(enq') PROVE enq'[i] # ActorExit
          OBVIOUS
        <5>1. CASE i \in 1..Len(enq)
          BY <1>2, <2>2, <5>1
        <5>2. CASE i = Len(enq) + 1
          BY <1>3, <3>2, <5>2
        <5>. QED
          BY <1>3, <5>1, <5>2
      <4>. QED
        BY <4>1 DEF Taken, FirstExitWitness
    <3>. QED
      BY <3>1, <3>2
  <2>. QED
    BY <2>1, <2>2
<1>. QED
  BY <1>1, <1>2, <1>4, <1>5

(* get() takes the head of the mailbox, the first item not yet taken.     *)
LEMMA GetTail ==
    ASSUME TypeRest, MailboxIsTail, mailbox # <<>>,
           mailbox' = Tail(mailbox), enq' = enq
    PROVE  /\ MailboxIsTail'
           /\ Taken' = Taken + 1
           /\ Taken \in Nat
           /\ Taken + 1 \in 1..Len(enq)
           /\ Head(mailbox) = enq[Taken + 1]
<1>1. Taken' = Taken + 1 /\ Taken \in Nat /\ Taken + 1 \in 1..Len(enq)
  BY DEF Taken, MailboxIsTail, TypeRest
<1>2. Head(mailbox) = enq[Taken + 1]
  <2>1. Len(mailbox) >= 1 /\ Head(mailbox) = mailbox[1]
    BY DEF TypeRest
  <2>. QED
    BY <2>1 DEF MailboxIsTail
<1>3. MailboxIsTail'
  <2>1. ASSUME NEW k \in 1..Len(mailbox') PROVE mailbox'[k] = enq'[Taken' + k]
    <3>1. mailbox'[k] = mailbox[k + 1] /\ k + 1 \in 1..Len(mailbox)
      BY <2>1 DEF Taken, TypeRest
    <3>. QED
      BY <1>1, <3>1 DEF Taken, MailboxIsTail, TypeRest
  <2>. QED
    BY <2>1 DEF Taken, MailboxIsTail, TypeRest
<1>. QED
  BY <1>1, <1>2, <1>3

----------------------------------------------------------------------------
(* The queue parts of SInv, kept by every step of an actor started once.  *)
QParts == MailboxIsTail /\ TakenHandled /\ FirstExitWitness /\ TerminatedParts

(* send and close put one item and touch neither the threads nor handled. *)
LEMMA PutQParts ==
    ASSUME TypeRest, QParts,
           NEW x \in Msg \cup {ActorExit},
           mailbox' = Append(mailbox, x), enq' = Append(enq, x),
           UNCHANGED <<loops, terminated, joined, handled>>
    PROVE  QParts'
<1>1. /\ MailboxIsTail' /\ FirstExitWitness' /\ Taken' = Taken
      /\ Taken <= Len(enq) /\ \A i \in 1..Len(enq) : enq'[i] = enq[i]
  BY PutTail DEF QParts
<1>2. TakenHandled'
  <2> SUFFICES ASSUME NEW i \in 1..Taken', enq'[i] \in Msg
               PROVE  \/ \E j \in 1..Len(handled') : handled'[j].msg = enq'[i]
                      \/ \E l \in 1..Len(loops') :
                            loops'[l].st = "busy" /\ loops'[l].msg = enq'[i]
    BY DEF TakenHandled
  <2>1. i \in 1..Taken /\ enq'[i] = enq[i]
    BY <1>1 DEF TypeRest, Taken
  <2>. QED
    BY <2>1 DEF QParts, TakenHandled
<1>3. TerminatedParts'
  <2>1. terminated => \E i \in 1..Taken' : enq'[i] = ActorExit
    <3> SUFFICES ASSUME terminated PROVE \E i \in 1..Taken' : enq'[i] = ActorExit
      OBVIOUS
    <3>1. PICK i \in 1..Taken : enq[i] = ActorExit
      BY DEF QParts, TerminatedParts
    <3>2. i \in 1..Len(enq)
      BY <1>1, <3>1 DEF TypeRest, Taken
    <3>3. enq'[i] = ActorExit
      BY <1>1, <3>1, <3>2
    <3>. QED
      BY <1>1, <3>1, <3>3
  <2>. QED
    BY <2>1 DEF QParts, TerminatedParts
<1>. QED
  BY <1>1, <1>2, <1>3 DEF QParts

(* With at most one start() there is at most one thread, the first.       *)
LEMMA OneLoop ==
    ASSUME MaxStarts <= 1, TypeRest, TerminatedParts, NEW l \in 1..Len(loops)
    PROVE  l = 1 /\ \A k \in 1..Len(loops) : k = 1
<1>1. Len(loops) <= MaxStarts
  BY Zenon DEF TerminatedParts
<1>. QED
  BY <1>1, ActorConstants DEF TypeRest

LEMMA StartQParts ==
    ASSUME MaxStarts <= 1, TypeRest, QParts, Start
    PROVE  QParts'
<1>1. Len(loops) = 0 /\ ~terminated
  BY ActorConstants DEF Start, TypeRest, QParts, TerminatedParts
<1>2. /\ loops' = <<[st |-> "recv", msg |-> ActorExit]>>
      /\ UNCHANGED <<mailbox, enq, handled, terminated, joined>>
  BY <1>1 DEF Start, TypeRest
<1>3. MailboxIsTail' /\ FirstExitWitness'
  BY <1>2 DEF QParts, MailboxIsTail, FirstExitWitness, Taken
<1>4. TakenHandled'
  BY <1>1, <1>2 DEF QParts, TakenHandled, Taken
<1>5. TerminatedParts'
  BY <1>1, <1>2, ActorConstants DEF Start, QParts, TerminatedParts
<1>. QED
  BY <1>3, <1>4, <1>5 DEF QParts

LEMMA RecvQParts ==
    ASSUME MaxStarts <= 1, TypeRest, BusyHoldsMsg, QParts,
           NEW l \in 1..Len(loops), Recv(l)
    PROVE  QParts'
<1>1. /\ l = 1 /\ \A k \in 1..Len(loops) : k = 1
      /\ loops[1].st = "recv"
  BY OneLoop DEF QParts, Recv
<1>2. /\ mailbox # <<>> /\ mailbox' = Tail(mailbox) /\ enq' = enq
      /\ UNCHANGED <<handled, joined>>
  BY DEF Recv
<1>3. /\ MailboxIsTail' /\ Taken' = Taken + 1 /\ Taken \in Nat
      /\ Taken + 1 \in 1..Len(enq) /\ Head(mailbox) = enq[Taken + 1]
  BY <1>2, GetTail DEF QParts
<1>4. FirstExitWitness'
  BY <1>2 DEF QParts, FirstExitWitness
<1>5. ~terminated
  BY <1>1 DEF QParts, TerminatedParts
\* What was taken before this get() is handled: the thread held nothing.
<1>6. \A i \in 1..Taken :
         enq[i] \in Msg => \E j \in 1..Len(handled) : handled[j].msg = enq[i]
  BY <1>1 DEF QParts, TakenHandled
<1>8. CASE Head(mailbox) = ActorExit
  <2>1. /\ loops' = [loops EXCEPT ![1] = [st |-> "exited", msg |-> ActorExit]]
        /\ terminated'
    BY <1>1, <1>8, Zenon DEF Recv
  <2>2. TakenHandled'
    <3> SUFFICES ASSUME NEW i \in 1..Taken', enq'[i] \in Msg
                 PROVE  \E j \in 1..Len(handled') : handled'[j].msg = enq'[i]
      BY DEF TakenHandled
    <3>1. i # Taken + 1
      BY <1>2, <1>3, <1>8, ActorConstants
    <3>2. i \in 1..Taken
      BY <1>3, <3>1
    <3>. QED
      BY <1>2, <1>6, <3>2
  <2>3. TerminatedParts'
    <3>1. enq'[Taken + 1] = ActorExit /\ Taken + 1 \in 1..Taken'
      BY <1>2, <1>3, <1>8
    <3>2. Len(loops') = Len(loops) /\ Len(loops) >= 1
      BY <1>1, <2>1 DEF TypeRest
    <3>3. Len(loops') <= MaxStarts
      BY <3>2 DEF QParts, TerminatedParts
    <3>4. \A k \in 1..Len(loops') : loops'[k].st = "exited"
      BY <1>1, <2>1, <3>2 DEF TypeRest
    <3>5. \E i \in 1..Taken' : enq'[i] = ActorExit
      BY <3>1
    <3>6. \A w \in Waiters : joined'[w] => terminated'
      BY <2>1, Zenon
    <3>. QED
      BY <2>1, <3>2, <3>3, <3>4, <3>5, <3>6, Zenon DEF TerminatedParts
  <2>. QED
    BY <1>3, <1>4, <2>2, <2>3 DEF QParts
<1>9. CASE Head(mailbox) # ActorExit
  <2>1. /\ loops' = [loops EXCEPT ![1] = [st |-> "busy", msg |-> Head(mailbox)]]
        /\ terminated' = terminated
    BY <1>1, <1>9, Zenon DEF Recv
  <2>2. /\ Len(loops') = Len(loops) /\ 1 \in 1..Len(loops')
        /\ loops'[1].st = "busy" /\ loops'[1].msg = Head(mailbox)
    BY <1>1, <2>1 DEF TypeRest
  <2>3. TakenHandled'
    <3> SUFFICES ASSUME NEW i \in 1..Taken', enq'[i] \in Msg
                 PROVE  \/ \E j \in 1..Len(handled') : handled'[j].msg = enq'[i]
                        \/ \E k \in 1..Len(loops') :
                              loops'[k].st = "busy" /\ loops'[k].msg = enq'[i]
      BY DEF TakenHandled
    <3>1. CASE i \in 1..Taken
      BY <1>2, <1>6, <3>1
    <3>2. CASE i = Taken + 1
      BY <1>2, <1>3, <2>2, <3>2
    <3>3. i \in 1..Taken \/ i = Taken + 1
      BY <1>3
    <3>. QED
      BY <3>1, <3>2, <3>3, Zenon
  <2>4. TerminatedParts'
    BY <1>1, <1>2, <1>5, <2>1, <2>2 DEF QParts, TerminatedParts
  <2>. QED
    BY <1>3, <1>4, <2>3, <2>4 DEF QParts
<1>. QED
  BY <1>8, <1>9

LEMMA HandleQParts ==
    ASSUME MaxStarts <= 1, TypeRest, QParts,
           NEW l \in 1..Len(loops), Handle(l)
    PROVE  QParts'
<1>1. l = 1 /\ \A k \in 1..Len(loops) : k = 1
  BY OneLoop DEF QParts
<1>2. /\ loops[1].st = "busy"
      /\ handled' = Append(handled, [loop |-> 1, msg |-> loops[1].msg])
      /\ loops' = [loops EXCEPT ![1] = [st |-> "recv", msg |-> ActorExit]]
      /\ UNCHANGED <<mailbox, enq, terminated, joined>>
  BY <1>1 DEF Handle
<1>3. ~terminated
  BY <1>1, <1>2 DEF QParts, TerminatedParts
<1>4. MailboxIsTail' /\ FirstExitWitness' /\ Taken' = Taken
  BY <1>2 DEF QParts, MailboxIsTail, FirstExitWitness, Taken
<1>5. TakenHandled'
  <2> SUFFICES ASSUME NEW i \in 1..Taken', enq'[i] \in Msg
               PROVE  \E j \in 1..Len(handled') : handled'[j].msg = enq'[i]
    BY DEF TakenHandled
  <2>1. i \in 1..Taken /\ enq'[i] = enq[i]
    BY <1>2, <1>4
  <2>2. \/ \E j \in 1..Len(handled) : handled[j].msg = enq[i]
        \/ loops[1].msg = enq[i]
    BY <1>1, <2>1 DEF QParts, TakenHandled
  <2>3. /\ \A j \in 1..Len(handled) : handled'[j] = handled[j]
        /\ Len(handled') = Len(handled) + 1
        /\ handled'[Len(handled) + 1].msg = loops[1].msg
    BY <1>2 DEF TypeRest
  <2>4. CASE \E j \in 1..Len(handled) : handled[j].msg = enq[i]
    <3>1. PICK j \in 1..Len(handled) : handled[j].msg = enq[i]
      BY <2>4
    <3>. QED
      BY <2>1, <2>3, <3>1 DEF TypeRest
  <2>5. CASE loops[1].msg = enq[i]
    <3>1. Len(handled) + 1 \in 1..Len(handled')
      BY <2>3 DEF TypeRest
    <3>. QED
      BY <2>1, <2>3, <2>5, <3>1
  <2>. QED
    BY <2>2, <2>4, <2>5
<1>6. TerminatedParts'
  <2>1. Len(loops') = Len(loops)
    BY <1>2 DEF TypeRest
  <2>. QED
    BY <1>2, <1>3, <2>1 DEF QParts, TerminatedParts
<1>. QED
  BY <1>4, <1>5, <1>6 DEF QParts

LEMMA JoinQParts ==
    ASSUME TypeBool, QParts, NEW w \in Waiters, Join(w)
    PROVE  QParts'
<1>1. /\ terminated /\ joined' = [joined EXCEPT ![w] = TRUE]
      /\ UNCHANGED <<mailbox, enq, loops, handled, terminated>>
  BY DEF Join
<1>2. \A v \in Waiters : joined'[v] => terminated'
  BY <1>1 DEF TypeBool
<1>3. MailboxIsTail' /\ TakenHandled' /\ FirstExitWitness'
  BY <1>1 DEF QParts, MailboxIsTail, TakenHandled, FirstExitWitness, Taken
<1>. QED
  BY <1>1, <1>2, <1>3 DEF QParts, TerminatedParts, Taken

----------------------------------------------------------------------------
LEMMA MsgFields ==
    ASSUME NEW m \in Msg
    PROVE  m.from \in Senders /\ m.seq \in Nat /\ m.seq >= 1
BY ActorConstants DEF Msg

(* send(msg) appends a message numbered past all of its sender's others. *)
LEMMA SendOrder ==
    ASSUME TypeRest, BusyHoldsMsg, OrderParts, NEW s \in Senders, Send(s)
    PROVE  OrderParts'
<1> DEFINE m == [from |-> s, seq |-> nsent[s] + 1]
<1>1. /\ mailbox' = Append(mailbox, m)
      /\ nsent' = [nsent EXCEPT ![s] = @ + 1]
      /\ UNCHANGED <<loops, handled>>
  BY DEF Send
<1>2. /\ m \in Msg /\ m.from = s /\ m.seq = nsent[s] + 1
      /\ \A q \in Senders : /\ nsent[q] \in Nat /\ nsent'[q] \in Nat
                            /\ nsent[q] <= nsent'[q]
      /\ nsent'[s] = m.seq
  BY <1>1, ActorConstants DEF Send, TypeRest, Msg
<1>3. /\ Len(mailbox') = Len(mailbox) + 1
      /\ \A k \in 1..Len(mailbox) : mailbox'[k] = mailbox[k]
      /\ mailbox'[Len(mailbox) + 1] = m
  BY <1>1 DEF TypeRest
<1>4. \A k \in 1..Len(mailbox) : mailbox[k] \in Msg =>
         mailbox[k].from \in Senders /\ mailbox[k].seq <= nsent[mailbox[k].from]
  BY MsgFields DEF OrderParts, SeqBounded
<1>5. \A j \in 1..Len(handled) :
         handled[j].msg \in Msg /\ handled[j].msg.seq <= nsent[handled[j].msg.from]
  <2> SUFFICES ASSUME NEW j \in 1..Len(handled)
               PROVE  handled[j].msg \in Msg /\ handled[j].msg.seq <= nsent[handled[j].msg.from]
    OBVIOUS
  <2>1. handled[j] \in HandledRec
    BY DEF TypeRest
  <2>2. handled[j].msg \in Msg
    BY <2>1 DEF HandledRec
  <2>. QED
    BY <2>2 DEF OrderParts, SeqBounded
<1>6. \A l \in 1..Len(loops) : loops[l].st = "busy" =>
         loops[l].msg \in Msg /\ loops[l].msg.seq <= nsent[loops[l].msg.from]
  BY DEF OrderParts, SeqBounded, BusyHoldsMsg
\* The new message comes after every other of its sender.
<1>7. ASSUME NEW x \in Msg, SameFrom(x, m), x.seq <= nsent[x.from]
      PROVE  x.seq < m.seq
  BY <1>2, <1>7, MsgFields DEF SameFrom
<1>8. PerSenderFifo'
  BY <1>1 DEF OrderParts, PerSenderFifo
<1>9. MailboxOrdered'
  <2> SUFFICES ASSUME NEW a \in 1..Len(mailbox'), NEW b \in 1..Len(mailbox'),
                      a < b, SameFrom(mailbox'[a], mailbox'[b])
               PROVE  mailbox'[a].seq < mailbox'[b].seq
    BY DEF MailboxOrdered
  <2>1. a \in 1..Len(mailbox)
    BY <1>3 DEF TypeRest
  <2>2. CASE b \in 1..Len(mailbox)
    BY <1>3, <2>1, <2>2 DEF OrderParts, MailboxOrdered
  <2>3. CASE b = Len(mailbox) + 1
    BY <1>3, <1>4, <1>7, <2>1, <2>3 DEF SameFrom
  <2>4. b \in 1..Len(mailbox) \/ b = Len(mailbox) + 1
    <3>1. Len(mailbox) \in Nat
      BY DEF TypeRest
    <3>. QED
      BY <1>3, <3>1
  <2>. QED
    BY <2>2, <2>3, <2>4, Zenon
<1>10. HandledBeforeMailbox'
  <2> SUFFICES ASSUME NEW j \in 1..Len(handled), NEW k \in 1..Len(mailbox'),
                      SameFrom(handled[j].msg, mailbox'[k])
               PROVE  handled[j].msg.seq < mailbox'[k].seq
    BY <1>1 DEF HandledBeforeMailbox
  <2>1. CASE k \in 1..Len(mailbox)
    BY <1>3, <2>1 DEF OrderParts, HandledBeforeMailbox
  <2>2. CASE k = Len(mailbox) + 1
    BY <1>3, <1>5, <1>7, <2>2
  <2>3. k \in 1..Len(mailbox) \/ k = Len(mailbox) + 1
    BY <1>3 DEF TypeRest
  <2>. QED
    BY <2>1, <2>2, <2>3, Zenon
<1>11. BusyInOrder'
  <2> SUFFICES ASSUME NEW l \in 1..Len(loops), loops[l].st = "busy",
                      NEW k \in 1..Len(mailbox'), SameFrom(loops[l].msg, mailbox'[k])
               PROVE  loops[l].msg.seq < mailbox'[k].seq
    BY <1>1 DEF BusyInOrder, OrderParts
  <2>1. CASE k \in 1..Len(mailbox)
    BY <1>3, <2>1 DEF OrderParts, BusyInOrder
  <2>2. CASE k = Len(mailbox) + 1
    BY <1>3, <1>6, <1>7, <2>2
  <2>3. k \in 1..Len(mailbox) \/ k = Len(mailbox) + 1
    BY <1>3 DEF TypeRest
  <2>. QED
    BY <2>1, <2>2, <2>3, Zenon
<1>12. SeqBounded'
  <2>1. ASSUME NEW k \in 1..Len(mailbox'), mailbox'[k] \in Msg
        PROVE  mailbox'[k].seq <= nsent'[mailbox'[k].from]
    <3>1. CASE k \in 1..Len(mailbox)
      <4>1. mailbox[k].seq <= nsent[mailbox[k].from] /\ mailbox[k].from \in Senders
        BY <1>3, <1>4, <2>1, <3>1
      <4>2. mailbox[k].seq \in Nat
        BY <1>3, <2>1, <3>1, MsgFields
      <4>3. nsent[mailbox[k].from] <= nsent'[mailbox[k].from]
            /\ nsent[mailbox[k].from] \in Nat /\ nsent'[mailbox[k].from] \in Nat
        BY <1>2, <4>1
      <4>4. mailbox'[k] = mailbox[k]
        BY <1>3, <3>1
      <4>. QED
        BY <4>1, <4>2, <4>3, <4>4
    <3>2. CASE k = Len(mailbox) + 1
      BY <1>2, <1>3, <3>2
    <3>3. k \in 1..Len(mailbox) \/ k = Len(mailbox) + 1
      BY <1>3 DEF TypeRest
    <3>. QED
      BY <3>1, <3>2, <3>3, Zenon
  <2>2. ASSUME NEW j \in 1..Len(handled)
        PROVE  handled[j].msg.seq <= nsent'[handled[j].msg.from]
    <3>1. handled[j].msg.from \in Senders /\ handled[j].msg.seq \in Nat
      BY <1>5, MsgFields
    <3>2. nsent[handled[j].msg.from] <= nsent'[handled[j].msg.from]
          /\ nsent[handled[j].msg.from] \in Nat /\ nsent'[handled[j].msg.from] \in Nat
      BY <1>2, <3>1
    <3>. QED
      BY <1>1, <1>5, <3>1, <3>2
  <2>3. ASSUME NEW l \in 1..Len(loops), loops[l].st = "busy"
        PROVE  loops[l].msg.seq <= nsent'[loops[l].msg.from]
    <3>1. loops[l].msg.from \in Senders /\ loops[l].msg.seq \in Nat
      BY <1>6, <2>3, MsgFields
    <3>2. nsent[loops[l].msg.from] <= nsent'[loops[l].msg.from]
          /\ nsent[loops[l].msg.from] \in Nat /\ nsent'[loops[l].msg.from] \in Nat
      BY <1>2, <3>1
    <3>. QED
      BY <1>1, <1>6, <2>3, <3>1, <3>2
  <2>. QED
    BY <1>1, <2>1, <2>2, <2>3 DEF SeqBounded
<1>. QED
  BY <1>8, <1>9, <1>10, <1>11, <1>12 DEF OrderParts

(* close() appends the sentinel, which belongs to no sender.              *)
LEMMA CloseOrder ==
    ASSUME TypeRest, OrderParts, Close
    PROVE  OrderParts'
<1>1. /\ mailbox' = Append(mailbox, ActorExit)
      /\ UNCHANGED <<nsent, loops, handled>>
  BY DEF Close
<1>2. /\ Len(mailbox') = Len(mailbox) + 1
      /\ \A k \in 1..Len(mailbox) : mailbox'[k] = mailbox[k]
      /\ mailbox'[Len(mailbox) + 1] = ActorExit
      /\ \A k \in 1..Len(mailbox') : k \in 1..Len(mailbox) \/ k = Len(mailbox) + 1
  BY <1>1 DEF TypeRest
<1>3. \A x : ~SameFrom(x, ActorExit) /\ ~SameFrom(ActorExit, x)
  BY ActorConstants DEF SameFrom
<1>4. MailboxOrdered'
  BY <1>2, <1>3 DEF OrderParts, MailboxOrdered
<1>5. HandledBeforeMailbox'
  BY <1>1, <1>2, <1>3 DEF OrderParts, HandledBeforeMailbox
<1>6. BusyInOrder'
  BY <1>1, <1>2, <1>3 DEF OrderParts, BusyInOrder
<1>7. SeqBounded'
  BY <1>1, <1>2, ActorConstants DEF OrderParts, SeqBounded
<1>. QED
  BY <1>1, <1>4, <1>5, <1>6, <1>7 DEF OrderParts, PerSenderFifo

(* start() adds a thread blocked in get(), holding nothing.               *)
LEMMA StartOrder ==
    ASSUME TypeRest, OrderParts, Start
    PROVE  OrderParts'
<1>1. /\ loops' = Append(loops, [st |-> "recv", msg |-> ActorExit])
      /\ UNCHANGED <<mailbox, nsent, handled>>
  BY DEF Start
<1>2. /\ \A l \in 1..Len(loops) : loops'[l] = loops[l]
      /\ \A l \in 1..Len(loops') : l \in 1..Len(loops) \/ loops'[l].st = "recv"
  BY <1>1 DEF TypeRest
<1>. QED
  BY <1>1, <1>2 DEF OrderParts, PerSenderFifo, MailboxOrdered,
                    HandledBeforeMailbox, BusyInOrder, SeqBounded

(* get() takes the head of the mailbox; with one thread nothing else is   *)
(* held, so the head joins the order between handled and the mailbox.    *)
LEMMA RecvOrder ==
    ASSUME MaxStarts <= 1, TypeRest, QParts, OrderParts,
           NEW l \in 1..Len(loops), Recv(l)
    PROVE  OrderParts'
<1> DEFINE H == Head(mailbox)
<1>1. /\ l = 1 /\ \A k \in 1..Len(loops) : k = 1
      /\ loops[1].st = "recv"
  BY OneLoop DEF QParts, Recv
<1>2. /\ mailbox # <<>> /\ mailbox' = Tail(mailbox)
      /\ UNCHANGED <<nsent, handled>>
  BY DEF Recv
<1>3. /\ Len(mailbox') = Len(mailbox) - 1
      /\ \A k \in 1..Len(mailbox') : k + 1 \in 1..Len(mailbox) /\ mailbox'[k] = mailbox[k + 1]
      /\ 1 \in 1..Len(mailbox) /\ H = mailbox[1]
  BY <1>2 DEF TypeRest
<1>4. \/ /\ H = ActorExit
         /\ loops' = [loops EXCEPT ![1] = [st |-> "exited", msg |-> ActorExit]]
      \/ /\ H # ActorExit
         /\ loops' = [loops EXCEPT ![1] = [st |-> "busy", msg |-> H]]
  BY <1>1, Zenon DEF Recv
<1>5. /\ Len(loops') = Len(loops)
      /\ \A k \in 1..Len(loops') : k = 1
      /\ loops'[1].st = "busy" => H # ActorExit /\ loops'[1].msg = H
  BY <1>1, <1>4 DEF TypeRest
<1>6. PerSenderFifo'
  BY <1>2 DEF OrderParts, PerSenderFifo
<1>7. MailboxOrdered'
  <2> SUFFICES ASSUME NEW a \in 1..Len(mailbox'), NEW b \in 1..Len(mailbox'),
                      a < b, SameFrom(mailbox'[a], mailbox'[b])
               PROVE  mailbox'[a].seq < mailbox'[b].seq
    BY DEF MailboxOrdered
  <2>1. /\ a + 1 \in 1..Len(mailbox) /\ mailbox'[a] = mailbox[a + 1]
        /\ b + 1 \in 1..Len(mailbox) /\ mailbox'[b] = mailbox[b + 1]
        /\ a + 1 < b + 1
    BY <1>3
  <2>. QED
    BY <2>1 DEF OrderParts, MailboxOrdered
<1>8. HandledBeforeMailbox'
  <2> SUFFICES ASSUME NEW j \in 1..Len(handled), NEW k \in 1..Len(mailbox'),
                      SameFrom(handled[j].msg, mailbox'[k])
               PROVE  handled[j].msg.seq < mailbox'[k].seq
    BY <1>2 DEF HandledBeforeMailbox
  <2>. QED
    BY <1>3 DEF OrderParts, HandledBeforeMailbox
<1>9. BusyInOrder'
  <2> SUFFICES ASSUME NEW i \in 1..Len(loops'), loops'[i].st = "busy"
               PROVE  /\ \A j \in 1..Len(handled) :
                            SameFrom(handled[j].msg, H) => handled[j].msg.seq < H.seq
                      /\ \A k \in 1..Len(mailbox') :
                            SameFrom(H, mailbox'[k]) => H.seq < mailbox'[k].seq
    BY <1>2, <1>5 DEF BusyInOrder
  <2>1. ASSUME NEW j \in 1..Len(handled), SameFrom(handled[j].msg, H)
        PROVE  handled[j].msg.seq < H.seq
    BY <1>3, <2>1 DEF OrderParts, HandledBeforeMailbox
  <2>2. ASSUME NEW k \in 1..Len(mailbox'), SameFrom(H, mailbox'[k])
        PROVE  H.seq < mailbox'[k].seq
    <3>1. 1 < k + 1 /\ k + 1 \in 1..Len(mailbox) /\ mailbox'[k] = mailbox[k + 1]
      BY <1>3
    <3>. QED
      BY <1>3, <2>2, <3>1 DEF OrderParts, MailboxOrdered
  <2>. QED
    BY <2>1, <2>2
<1>10. SeqBounded'
  <2>1. \A k \in 1..Len(mailbox') :
           mailbox'[k] \in Msg => mailbox'[k].seq <= nsent'[mailbox'[k].from]
    BY <1>2, <1>3 DEF OrderParts, SeqBounded
  <2>2. \A j \in 1..Len(handled') : handled'[j].msg.seq <= nsent'[handled'[j].msg.from]
    BY <1>2 DEF OrderParts, SeqBounded
  <2>3. \A i \in 1..Len(loops') :
           loops'[i].st = "busy" => loops'[i].msg.seq <= nsent'[loops'[i].msg.from]
    <3> SUFFICES ASSUME NEW i \in 1..Len(loops'), loops'[i].st = "busy"
                 PROVE  H.seq <= nsent[H.from]
      BY <1>2, <1>5
    <3>1. H \in Msg
      BY <1>3, <1>5 DEF TypeRest
    <3>. QED
      BY <1>3, <3>1 DEF OrderParts, SeqBounded
  <2>. QED
    BY <2>1, <2>2, <2>3 DEF SeqBounded
<1>. QED
  BY <1>6, <1>7, <1>8, <1>9, <1>10 DEF OrderParts

(* The held message is handled, after every earlier one of its sender and *)
(* before every later one still in the mailbox.                           *)
LEMMA HandleOrder ==
    ASSUME MaxStarts <= 1, TypeRest, BusyHoldsMsg, QParts, OrderParts,
           NEW l \in 1..Len(loops), Handle(l)
    PROVE  OrderParts'
<1> DEFINE M == loops[1].msg
<1>1. l = 1 /\ \A k \in 1..Len(loops) : k = 1
  BY OneLoop DEF QParts
<1>2. /\ loops[1].st = "busy"
      /\ handled' = Append(handled, [loop |-> 1, msg |-> M])
      /\ loops' = [loops EXCEPT ![1] = [st |-> "recv", msg |-> ActorExit]]
      /\ UNCHANGED <<mailbox, nsent>>
  BY <1>1 DEF Handle
<1>3. /\ Len(handled') = Len(handled) + 1
      /\ \A j \in 1..Len(handled) : handled'[j] = handled[j]
      /\ handled'[Len(handled) + 1].msg = M
      /\ \A j \in 1..Len(handled') : j \in 1..Len(handled) \/ j = Len(handled) + 1
      /\ \A i \in 1..Len(loops') : loops'[i].st = "recv"
  BY <1>1, <1>2 DEF TypeRest
<1>4. /\ \A j \in 1..Len(handled) :
            SameFrom(handled[j].msg, M) => handled[j].msg.seq < M.seq
      /\ \A k \in 1..Len(mailbox) : SameFrom(M, mailbox[k]) => M.seq < mailbox[k].seq
      /\ M.seq <= nsent[M.from]
  BY <1>1, <1>2 DEF OrderParts, BusyInOrder, SeqBounded
<1>5. PerSenderFifo'
  <2> SUFFICES ASSUME NEW i \in 1..Len(handled'), NEW j \in 1..Len(handled'),
                      i < j, handled'[i].msg.from = handled'[j].msg.from
               PROVE  handled'[i].msg.seq < handled'[j].msg.seq
    BY DEF PerSenderFifo
  <2>1. i \in 1..Len(handled)
    BY <1>3 DEF TypeRest
  <2>2. handled[i].msg \in Msg /\ M \in Msg
    <3>1. handled[i] \in HandledRec /\ 1 \in 1..Len(loops)
      BY <1>1, <2>1 DEF TypeRest
    <3>2. handled[i].msg \in Msg
      BY <3>1 DEF HandledRec
    <3>. QED
      BY <1>2, <3>1, <3>2 DEF BusyHoldsMsg
  <2>3. CASE j \in 1..Len(handled)
    BY <1>3, <2>1, <2>3 DEF OrderParts, PerSenderFifo
  <2>4. CASE j = Len(handled) + 1
    BY <1>3, <1>4, <2>1, <2>2, <2>4 DEF SameFrom
  <2>. QED
    BY <1>3, <2>3, <2>4, Zenon
<1>6. HandledBeforeMailbox'
  <2> SUFFICES ASSUME NEW j \in 1..Len(handled'), NEW k \in 1..Len(mailbox),
                      SameFrom(handled'[j].msg, mailbox[k])
               PROVE  handled'[j].msg.seq < mailbox[k].seq
    BY <1>2 DEF HandledBeforeMailbox
  <2>1. CASE j \in 1..Len(handled)
    BY <1>3, <2>1 DEF OrderParts, HandledBeforeMailbox
  <2>2. CASE j = Len(handled) + 1
    BY <1>3, <1>4, <2>2
  <2>. QED
    BY <1>3, <2>1, <2>2, Zenon
<1>7. BusyInOrder'
  BY <1>3 DEF BusyInOrder
<1>8. SeqBounded'
  <2>1. \A j \in 1..Len(handled') : handled'[j].msg.seq <= nsent'[handled'[j].msg.from]
    <3> SUFFICES ASSUME NEW j \in 1..Len(handled')
                 PROVE  handled'[j].msg.seq <= nsent'[handled'[j].msg.from]
      OBVIOUS
    <3>1. CASE j \in 1..Len(handled)
      BY <1>2, <1>3, <3>1 DEF OrderParts, SeqBounded
    <3>2. CASE j = Len(handled) + 1
      BY <1>2, <1>3, <1>4, <3>2
    <3>. QED
      BY <1>3, <3>1, <3>2, Zenon
  <2>2. \A k \in 1..Len(mailbox') :
           mailbox'[k] \in Msg => mailbox'[k].seq <= nsent'[mailbox'[k].from]
    BY <1>2 DEF OrderParts, SeqBounded
  <2>3. \A i \in 1..Len(loops') :
           loops'[i].st = "busy" => loops'[i].msg.seq <= nsent'[loops'[i].msg.from]
    BY <1>3
  <2>. QED
    BY <2>1, <2>2, <2>3 DEF SeqBounded
<1>9. MailboxOrdered'
  BY <1>2 DEF OrderParts, MailboxOrdered
<1>. QED
  BY <1>5, <1>6, <1>7, <1>8, <1>9 DEF OrderParts

----------------------------------------------------------------------------
LEMMA SInvParts == SInv <=> TInv /\ QParts /\ OrderParts
BY Zenon DEF SInv, QParts

LEMMA InitSInv == Init => SInv
<1> SUFFICES ASSUME Init PROVE TInv /\ QParts /\ OrderParts
  BY SInvParts
<1>1. TInv
  BY InitTInv
<1>2. QParts
  BY ActorConstants DEF Init, QParts, MailboxIsTail, TakenHandled, FirstExitWitness,
                        TerminatedParts, Taken
<1>3. OrderParts
  BY DEF Init, OrderParts, PerSenderFifo, MailboxOrdered, HandledBeforeMailbox,
         BusyInOrder, SeqBounded
<1>. QED
  BY <1>1, <1>2, <1>3

(* A step that leaves the actor's variables alone keeps its parts.       *)
LEMMA ActorQuiet ==
    ASSUME QParts, OrderParts, UNCHANGED actorVars
    PROVE  QParts' /\ OrderParts'
BY DEF actorVars, QParts, MailboxIsTail, TakenHandled, FirstExitWitness,
       TerminatedParts, Taken, OrderParts, PerSenderFifo, MailboxOrdered,
       HandledBeforeMailbox, BusyInOrder, SeqBounded, SameFrom

LEMMA NextSInv ==
    ASSUME MaxStarts <= 1
    PROVE  SInv /\ [Next]_vars => SInv'
<1> SUFFICES ASSUME TInv, QParts, OrderParts, [Next]_vars
             PROVE  TInv' /\ QParts' /\ OrderParts'
  BY SInvParts, Zenon DEF SInv, QParts
<1>1. TInv'
  BY NextTInv
<1>2. TypeBool /\ TypeRest /\ BusyHoldsMsg
  BY TypeOKParts DEF TInv
<1>3. ASSUME NEW s \in Senders, Send(s) PROVE QParts' /\ OrderParts'
  <2>1. [from |-> s, seq |-> nsent[s] + 1] \in Msg \cup {ActorExit}
    BY <1>2, <1>3, ActorConstants DEF Send, TypeRest, Msg
  <2>2. /\ mailbox' = Append(mailbox, [from |-> s, seq |-> nsent[s] + 1])
        /\ enq' = Append(enq, [from |-> s, seq |-> nsent[s] + 1])
        /\ UNCHANGED <<loops, terminated, joined, handled>>
    BY <1>3 DEF Send
  <2>. QED
    BY <1>2, <1>3, <2>1, <2>2, PutQParts, SendOrder
<1>4. ASSUME Close PROVE QParts' /\ OrderParts'
  <2>1. /\ mailbox' = Append(mailbox, ActorExit) /\ enq' = Append(enq, ActorExit)
        /\ UNCHANGED <<loops, terminated, joined, handled>>
    BY <1>4 DEF Close
  <2>. QED
    BY <1>2, <1>4, <2>1, PutQParts, CloseOrder
<1>5. ASSUME Start PROVE QParts' /\ OrderParts'
  BY <1>2, <1>5, StartQParts, StartOrder
<1>6. ASSUME NEW l \in 1..Len(loops), Recv(l) PROVE QParts' /\ OrderParts'
  BY <1>2, <1>6, RecvQParts, RecvOrder
<1>7. ASSUME NEW l \in 1..Len(loops), Handle(l) PROVE QParts' /\ OrderParts'
  BY <1>2, <1>7, HandleQParts, HandleOrder
<1>8. ASSUME NEW w \in Waiters, Join(w) PROVE QParts' /\ OrderParts'
  <2>1. UNCHANGED <<mailbox, nsent, loops, handled>>
    BY <1>8 DEF Join
  <2>. QED
    BY <1>2, <1>8, <2>1, JoinQParts DEF OrderParts, PerSenderFifo, MailboxOrdered,
       HandledBeforeMailbox, BusyInOrder, SeqBounded
<1>9. ASSUME (ResultNext /\ UNCHANGED actorVars) \/ UNCHANGED vars
      PROVE  QParts' /\ OrderParts'
  <2>1. UNCHANGED actorVars
    BY <1>9 DEF vars
  <2>. QED
    BY <2>1, ActorQuiet
<1>10. QParts' /\ OrderParts'
  BY <1>3, <1>4, <1>5, <1>6, <1>7, <1>8, <1>9 DEF Next, ActorNext
<1>. QED
  BY <1>1, <1>10

(* The run loop of an actor started once handles each sender's messages  *)
(* in the order that sender called send(), however senders, close() and  *)
(* the loop interleave: queue.Queue is FIFO and one thread takes from it. *)
THEOREM PerSenderFifoOnce ==
    ASSUME MaxStarts <= 1
    PROVE  Spec => []PerSenderFifo
<1>1. Init => SInv
  BY InitSInv
<1>2. SInv /\ [Next]_vars => SInv'
  BY NextSInv
<1>3. SInv => PerSenderFifo
  BY DEF SInv, OrderParts
<1>. QED
  BY <1>1, <1>2, <1>3, PTL DEF Spec

(* The first sentinel: FirstExit is an index of enq that holds ActorExit *)
(* with none before it, whenever enq holds one.                          *)
LEMMA FirstExitIsFirst ==
    ASSUME TypeRest, FirstExitWitness, NEW e \in 1..Len(enq), enq[e] = ActorExit
    PROVE  /\ FirstExit \in 1..e
           /\ \A j \in 1..FirstExit - 1 : enq[j] # ActorExit
<1> DEFINE P(i) == enq[i] = ActorExit /\ \A j \in 1..i - 1 : enq[j] # ActorExit
<1>1. \E i \in 1..Len(enq) : P(i)
  BY DEF FirstExitWitness
<1>2. FirstExit = CHOOSE i \in 1..Len(enq) : P(i)
  BY DEF FirstExit
<1>3. FirstExit \in 1..Len(enq) /\ P(FirstExit)
  BY <1>1, <1>2, Zenon
<1>4. FirstExit <= e
  BY <1>3
<1>. QED
  BY <1>3, <1>4

(* Under a single start, SInv yields HandledBeforeExit.                  *)
LEMMA SInvHandledBeforeExit ==
    ASSUME SInv PROVE HandledBeforeExit
<1> SUFFICES ASSUME terminated, NEW i \in 1..FirstExit - 1
             PROVE  \E j \in 1..Len(handled) : handled[j].msg = enq[i]
  BY DEF HandledBeforeExit
<1>1. TypeRest
  BY TypeOKParts DEF SInv, TInv
<1>2. Taken \in 0..Len(enq)
  BY <1>1 DEF SInv, MailboxIsTail, Taken, TypeRest
<1>3. PICK e \in 1..Taken : enq[e] = ActorExit
  BY DEF SInv, TerminatedParts
<1>4. e \in 1..Len(enq)
  BY <1>2, <1>3
<1>5. FirstExit \in 1..e /\ \A j \in 1..FirstExit - 1 : enq[j] # ActorExit
  BY <1>1, <1>3, <1>4, FirstExitIsFirst DEF SInv
<1>6. i \in 1..Taken /\ enq[i] \in Msg
  BY <1>1, <1>2, <1>3, <1>5 DEF TypeRest
<1>7. \A l \in 1..Len(loops) : loops[l].st # "busy"
  BY DEF SInv, TerminatedParts
<1>. QED
  BY <1>6, <1>7 DEF SInv, TakenHandled

(* For an actor started once, when _terminated is set every message put  *)
(* before the first close() has been handled: the run loop takes the      *)
(* queue in order and leaves only on the sentinel, so close() drains.     *)
THEOREM HandledBeforeExitOnce ==
    ASSUME MaxStarts <= 1
    PROVE  Spec => []HandledBeforeExit
<1>1. Init => SInv
  BY InitSInv
<1>2. SInv /\ [Next]_vars => SInv'
  BY NextSInv
<1>3. SInv => HandledBeforeExit
  BY SInvHandledBeforeExit
<1>. QED
  BY <1>1, <1>2, <1>3, PTL DEF Spec

=============================================================================
