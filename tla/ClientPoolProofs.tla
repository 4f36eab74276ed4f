-------------------------- MODULE ClientPoolProofs --------------------------
(* Proofs about TasqClientPool (ClientPool): type correctness for every  *)
(* number of clients, callers and map items.                              *)
EXTENDS ClientPool, TLAPS

(* The constant facts the proofs use.                                      *)
LEMMA PoolFacts == NClients \in Nat \ {0} /\ MaxItems \in Nat
BY PoolAssumption

USE PoolFacts

----------------------------------------------------------------------------
(* Type correctness, split as for the client: the Boolean-valued parts   *)
(* for Zenon, the rest for SMT.                                           *)
TypeBool == connected \in [Clients -> BOOLEAN] /\ down \in BOOLEAN

TypeRest ==
    /\ idx \in Clients
    /\ left \in 0..MaxItems
    /\ mapTo \in Seq(Clients)
    /\ cursor \in Clients
    /\ routed \in Seq(Clients)
    /\ nresults \in Nat

LEMMA TypeOKParts == TypeOK <=> TypeBool /\ TypeRest
BY Zenon DEF TypeOK, TypeBool, TypeRest

LEMMA InitTypeOK == Init => TypeOK
<1> SUFFICES ASSUME Init PROVE TypeBool /\ TypeRest
  BY TypeOKParts
<1>1. TypeBool
  BY Zenon DEF Init, TypeBool
<1>2. TypeRest
  BY DEF Init, TypeRest, Clients
<1>. QED
  BY <1>1, <1>2

(* connected only ever receives TRUE or a fresh all-FALSE map, down TRUE. *)
LEMMA NextTypeBool == TypeBool /\ [Next]_vars => TypeBool'
<1> SUFFICES ASSUME TypeBool, [Next]_vars PROVE TypeBool'
  OBVIOUS
<1>1. CASE MapStep
  <2>1. LET i == IF idx = NClients - 1 THEN 0 ELSE idx
        IN  connected' = [connected EXCEPT ![i] = TRUE]
    BY <1>1, Zenon DEF MapStep
  <2>. QED
    BY <1>1, <2>1, Zenon DEF MapStep, TypeBool
<1>2. CASE \E c \in Callers : Route(c)
  BY <1>2, Zenon DEF Route, TypeBool
<1>3. CASE Shutdown
  BY <1>3, Zenon DEF Shutdown, TypeBool
<1>4. CASE UNCHANGED vars
  BY <1>4, Zenon DEF vars, TypeBool
<1>. QED
  BY <1>1, <1>2, <1>3, <1>4 DEF Next

LEMMA NextTypeRest == TypeRest /\ [Next]_vars => TypeRest'
<1> SUFFICES ASSUME TypeRest, [Next]_vars PROVE TypeRest'
  OBVIOUS
<1>1. CASE MapStep
  BY <1>1 DEF MapStep, TypeRest, Clients
<1>2. ASSUME NEW c \in Callers, Route(c)
      PROVE  TypeRest'
  BY <1>2 DEF Route, TypeRest, Clients
<1>3. CASE Shutdown
  BY <1>3 DEF Shutdown, TypeRest
<1>4. CASE UNCHANGED vars
  BY <1>4 DEF vars, TypeRest
<1>. QED
  BY <1>1, <1>2, <1>3, <1>4 DEF Next

LEMMA NextTypeOK == TypeOK /\ [Next]_vars => TypeOK'
BY NextTypeBool, NextTypeRest, Zenon DEF TypeOK, TypeBool, TypeRest

(* Every reachable state of the pool is well typed.                        *)
THEOREM PoolTypeCorrect == Spec => []TypeOK
BY InitTypeOK, NextTypeOK, PTL DEF Spec

====
