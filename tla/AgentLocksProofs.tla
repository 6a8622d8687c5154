-------------------------- MODULE AgentLocksProofs ---------------------------
(***************************************************************************)
(* Leases exclude each other, for any number of clients and keys, any Ttl  *)
(* and any assignment of owner ids.                                        *)
(***************************************************************************)
EXTENDS AgentLocks, TLAPS

USE DEF Ops, Rows, Calls, Until, Holds

-----------------------------------------------------------------------------

LEMMA InitInv == Init => LocksInv
  BY LocksAssumption DEF Init, LocksInv, TypeOK, LeaseBacked, CallsInOrder,
     LeasesBounded, AnswerBacked

(***************************************************************************)
(* Each kind of step keeps the invariant.                                  *)
(***************************************************************************)
LEMMA SendInv ==
  ASSUME LocksInv, NEW c \in Clients, NEW op \in Ops, NEW k \in Keys, Send(c, op, k)
  PROVE  LocksInv'
  <1> USE LocksAssumption, NoneApart DEF Send, LocksInv
  <1>1. TypeOK'
    BY DEF TypeOK
  <1>2. LeaseBacked'
    BY DEF TypeOK, LeaseBacked, Unshared
  <1>3. CallsInOrder'
    BY DEF TypeOK, CallsInOrder, LeasesBounded
  <1>4. LeasesBounded'
    BY DEF TypeOK, LeasesBounded
  <1>5. AnswerBacked'
    BY DEF TypeOK, AnswerBacked, Unshared
  <1> QED BY <1>1, <1>2, <1>3, <1>4, <1>5

(***************************************************************************)
(* A granted statement of d writes its key only.  If c has a lease or an   *)
(* answer on that key that is still running and an id of its own, then the *)
(* row is not expired at the time of the statement, so d is c.             *)
(***************************************************************************)
LEMMA GrantedToOwner ==
  ASSUME LocksInv, NEW c \in Clients, NEW d \in Clients, Unshared(c),
         call[d] # None, Granted(call[d], OwnerId[d]),
         locks[call[d].key] # None, locks[call[d].key].owner = OwnerId[c],
         now < locks[call[d].key].until
  PROVE  d = c
  BY LocksAssumption, NoneApart
     DEF LocksInv, TypeOK, CallsInOrder, Granted, Acquirable, Renewable, Owned, Unshared

LEMMA ExecuteInv ==
  ASSUME LocksInv, NEW d \in Clients, Execute(d)
  PROVE  LocksInv'
  <1> USE LocksAssumption, NoneApart DEF LocksInv
  <1>1. CASE ~Granted(call[d], OwnerId[d])
    <2> USE <1>1 DEF Execute, TypeOK
    <2>1. TypeOK'
      OBVIOUS
    <2>2. LeaseBacked'
      BY DEF LeaseBacked, Unshared
    <2>3. CallsInOrder' /\ LeasesBounded'
      BY DEF CallsInOrder, LeasesBounded
    <2>4. AnswerBacked'
      BY DEF AnswerBacked, Unshared
    <2> QED BY <2>1, <2>2, <2>3, <2>4
  <1>2. CASE Granted(call[d], OwnerId[d])
    <2> DEFINE key == call[d].key
    <2>1. /\ call[d] \in Calls /\ key \in Keys
          /\ locks' = [locks EXCEPT ![key] = RowAfter(call[d], OwnerId[d])]
          /\ call' = [call EXCEPT ![d].answer = "granted"]
          /\ UNCHANGED <<lease, now>>
      BY <1>2 DEF Execute, TypeOK
    <2>2. TypeOK'
      BY <2>1 DEF TypeOK, RowAfter
    <2>3. LeaseBacked'
      <3> SUFFICES ASSUME NEW c \in Clients, NEW k \in Keys, Unshared(c), Holds(c, k)
                   PROVE  /\ locks'[k] # None
                          /\ locks'[k].owner = OwnerId[c]
                          /\ lease[c][k] <= locks'[k].until
        BY <2>1 DEF LeaseBacked, Unshared
      <3>1. /\ locks[k] # None /\ locks[k].owner = OwnerId[c]
            /\ lease[c][k] <= locks[k].until
        BY DEF LeaseBacked
      <3>2. CASE k # key
        BY <2>1, <3>1, <3>2 DEF TypeOK
      <3>3. CASE k = key
        <4>1. locks[key] \in Rows /\ now < locks[key].until
          BY <3>1, <3>3 DEF TypeOK
        <4>2. d = c
          BY <1>2, <2>1, <3>1, <3>3, <4>1, GrantedToOwner DEF Execute
        <4>3. call[d].op # "release"
          BY <2>1, <3>3, <4>2 DEF CallsInOrder, TypeOK
        <4>4. locks'[key] = [owner |-> OwnerId[d], until |-> Until(call[d])]
          BY <2>1, <4>3 DEF RowAfter, TypeOK
        <4>5. lease[d][key] <= Until(call[d])
          BY <2>1 DEF CallsInOrder
        <4>6. [owner |-> OwnerId[d], until |-> Until(call[d])] \in Rows
          BY <2>1
        <4> QED BY <3>3, <4>2, <4>4, <4>5, <4>6
      <3> QED BY <3>2, <3>3
    <2>4. CallsInOrder' /\ LeasesBounded'
      BY <2>1 DEF CallsInOrder, LeasesBounded, TypeOK
    <2>5. AnswerBacked'
      <3> SUFFICES ASSUME NEW c \in Clients, call'[c] # None, call'[c].answer = "granted",
                          call'[c].op # "release", Unshared(c), now < Until(call'[c])
                   PROVE  /\ locks'[call'[c].key] # None
                          /\ locks'[call'[c].key].owner = OwnerId[c]
                          /\ Until(call'[c]) <= locks'[call'[c].key].until
        BY <2>1 DEF AnswerBacked, Unshared
      <3>1. CASE c = d
        <4>1. /\ call'[d].key = key /\ call'[d].at = call[d].at /\ call'[d].op = call[d].op
          BY <2>1 DEF TypeOK
        <4>2. locks'[key] = [owner |-> OwnerId[d], until |-> Until(call[d])]
          BY <2>1, <3>1, <4>1 DEF RowAfter, TypeOK
        <4> QED BY <2>1, <3>1, <4>1, <4>2
      <3>2. CASE c # d
        <4>1. call'[c] = call[c]
          BY <2>1, <3>2 DEF TypeOK
        <4>2. /\ locks[call[c].key] # None
              /\ locks[call[c].key].owner = OwnerId[c]
              /\ Until(call[c]) <= locks[call[c].key].until
          BY <4>1 DEF AnswerBacked
        <4>3. locks[call[c].key] \in Rows /\ now < locks[call[c].key].until
          BY <4>1, <4>2 DEF TypeOK
        <4>4. call[c].key # key
          BY <1>2, <2>1, <3>2, <4>2, <4>3, GrantedToOwner DEF Execute
        <4> QED BY <2>1, <4>1, <4>2, <4>4 DEF TypeOK
      <3> QED BY <3>1, <3>2
    <2> QED BY <2>2, <2>3, <2>4, <2>5
  <1> QED BY <1>1, <1>2

LEMMA ReceiveInv ==
  ASSUME LocksInv, NEW c \in Clients, Receive(c)
  PROVE  LocksInv'
  <1> USE LocksAssumption, NoneApart DEF LocksInv, Receive
  <1> DEFINE q == call[c]
  <1>1. /\ q \in Calls /\ LeaseAfter(c, q) \in Nat
        /\ lease' = [lease EXCEPT ![c][q.key] = LeaseAfter(c, q)]
    BY DEF TypeOK, LeaseAfter
  <1>2. TypeOK'
    BY <1>1 DEF TypeOK
  <1>3. LeaseBacked'
    <2> SUFFICES ASSUME NEW d \in Clients, NEW k \in Keys, Unshared(d), now < lease'[d][k]
                 PROVE  /\ locks[k] # None /\ locks[k].owner = OwnerId[d]
                        /\ lease'[d][k] <= locks[k].until
      BY DEF LeaseBacked, Unshared
    <2>1. CASE d = c /\ k = q.key /\ q.op # "release"
      BY <1>1, <2>1 DEF TypeOK, LeaseAfter, AnswerBacked
    <2>2. CASE ~(d = c /\ k = q.key /\ q.op # "release")
      <3>1. lease'[d][k] = lease[d][k]
        BY <1>1, <2>2 DEF TypeOK, LeaseAfter
      <3> QED BY <3>1 DEF LeaseBacked
    <2> QED BY <2>1, <2>2
  <1>4. CallsInOrder'
    BY <1>1 DEF TypeOK, CallsInOrder
  <1>5. LeasesBounded'
    BY <1>1 DEF TypeOK, LeasesBounded, CallsInOrder, LeaseAfter
  <1>6. AnswerBacked'
    BY DEF TypeOK, AnswerBacked, Unshared
  <1> QED BY <1>2, <1>3, <1>4, <1>5, <1>6

LEMMA OtherInv ==
  ASSUME LocksInv,
         \/ \E c \in Clients : CallFails(c) \/ Restart(c)
         \/ Tick
         \/ UNCHANGED vars
  PROVE  LocksInv'
  <1> USE LocksAssumption, NoneApart DEF LocksInv
  <1>1. ASSUME NEW c \in Clients, CallFails(c) PROVE LocksInv'
    BY <1>1 DEF CallFails, TypeOK, LeaseBacked, CallsInOrder, LeasesBounded, AnswerBacked,
       Unshared
  <1>2. ASSUME NEW c \in Clients, Restart(c) PROVE LocksInv'
    <2> USE <1>2 DEF Restart, TypeOK
    <2>1. TypeOK'
      OBVIOUS
    <2>2. LeaseBacked'
      BY DEF LeaseBacked, Unshared
    <2>3. CallsInOrder' /\ LeasesBounded'
      BY DEF CallsInOrder, LeasesBounded
    <2>4. AnswerBacked'
      BY DEF AnswerBacked, Unshared
    <2> QED BY <2>1, <2>2, <2>3, <2>4
  <1>3. CASE Tick
    <2> USE <1>3 DEF Tick, TypeOK
    <2>1. TypeOK' /\ CallsInOrder' /\ LeasesBounded'
      BY DEF CallsInOrder, LeasesBounded
    <2>2. LeaseBacked'
      BY DEF LeaseBacked, Unshared
    <2>3. AnswerBacked'
      BY DEF AnswerBacked, Unshared
    <2> QED BY <2>1, <2>2, <2>3
  <1>4. CASE UNCHANGED vars
    BY <1>4 DEF vars, TypeOK, LeaseBacked, CallsInOrder, LeasesBounded, AnswerBacked, Unshared
  <1> QED BY <1>1, <1>2, <1>3, <1>4

LEMMA StepInv == LocksInv /\ [Next]_vars => LocksInv'
  <1> SUFFICES ASSUME LocksInv, [Next]_vars PROVE LocksInv'
    OBVIOUS
  <1> QED BY SendInv, ExecuteInv, ReceiveInv, OtherInv DEF Next

-----------------------------------------------------------------------------

(***************************************************************************)
(* The table, the leases and the statements keep their types.              *)
(***************************************************************************)
THEOREM LocksTyped == Spec => []TypeOK
  <1>1. LocksInv => TypeOK
    BY DEF LocksInv
  <1> QED BY <1>1, InitInv, StepInv, PTL DEF Spec

(***************************************************************************)
(* However late statements run and whatever answers are lost, two clients  *)
(* with owner ids of their own never hold one key together.                *)
(***************************************************************************)
THEOREM LocksExclude == Spec => []MutualExclusion
  <1>1. LocksInv => MutualExclusion
    BY DEF LocksInv, LeaseBacked, MutualExclusion, Unshared
  <1> QED BY <1>1, InitInv, StepInv, PTL DEF Spec
=============================================================================
