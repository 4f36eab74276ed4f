----------------------------- MODULE ClientSpec -----------------------------
(***************************************************************************)
(* What a tasq client promises its callers (spec 3, 4.4 and 8), with no    *)
(* threads, transports or sockets in sight.  Jobs are numbered in the     *)
(* order they are submitted.  A job submitted while the client cannot     *)
(* send waits in a FIFO queue; a job is sent at once only when nothing    *)
(* waits; waiting jobs leave the queue oldest first; a job that was sent  *)
(* completes at most once, and only with its own result.                  *)
(*                                                                         *)
(* TasqClient implements this specification under the refinement mapping *)
(* it defines (ImplementsClientSpec); client_zmq checks it.               *)
(***************************************************************************)
EXTENDS Naturals, Sequences

CONSTANT MaxJobs   \* jobs submitted in all

VARIABLES
    queue,    \* jobs waiting to be sent, oldest first
    flight,   \* jobs sent whose result has not arrived
    done,     \* jobs completed with their own result
    njobs     \* jobs submitted so far

vars == <<queue, flight, done, njobs>>

Init ==
    /\ queue = <<>>
    /\ flight = {}
    /\ done = {}
    /\ njobs = 0

(* A job submitted while the client cannot send joins the queue's tail.   *)
Buffer ==
    /\ njobs < MaxJobs
    /\ queue' = Append(queue, njobs + 1)
    /\ njobs' = njobs + 1
    /\ UNCHANGED <<flight, done>>

(* A job is sent as it is submitted only when no older job waits.         *)
SendNow ==
    /\ njobs < MaxJobs
    /\ queue = <<>>
    /\ flight' = flight \cup {njobs + 1}
    /\ njobs' = njobs + 1
    /\ UNCHANGED <<queue, done>>

(* The oldest waiting job is sent.                                         *)
Release ==
    /\ queue # <<>>
    /\ queue' = Tail(queue)
    /\ flight' = flight \cup {Head(queue)}
    /\ UNCHANGED <<done, njobs>>

(* A job in flight completes with its own result.                          *)
Complete(j) ==
    /\ j \in flight
    /\ flight' = flight \ {j}
    /\ done' = done \cup {j}
    /\ UNCHANGED <<queue, njobs>>

Next ==
    \/ Buffer
    \/ SendNow
    \/ Release
    \/ \E j \in 1..MaxJobs : Complete(j)

Spec == Init /\ [][Next]_vars

=============================================================================
