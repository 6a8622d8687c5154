----------------------------- MODULE AgentLocks ------------------------------
(***************************************************************************)
(* The agent_locks table as a lease service (PostgresAgentLockRepository): *)
(* a client acquires a key for a while, renews it, releases it.            *)
(*                                                                         *)
(* The times in a statement are the caller's, read before the statement    *)
(* runs; the callers' clocks agree and each asks for Ttl.  A client waits  *)
(* for the answer of a statement before it sends the next one.  The answer *)
(* may be lost, and then the statement has run or never will; a client may *)
(* die and start again under its owner id.  getLock only reads.            *)
(***************************************************************************)
EXTENDS Integers

CONSTANTS
  Clients,  \* processes
  OwnerId,  \* OwnerId[c]: the owner_id that c passes
  Keys,     \* lock keys
  Ttl,      \* how long a lock is asked for
  MaxTime,  \* bound: the last instant
  None      \* no row, no statement

ASSUME LocksAssumption ==
  /\ Ttl \in Nat \ {0}
  /\ MaxTime \in Nat

VARIABLES
  locks,   \* agent_locks: owner and locked_until of each key
  lease,   \* lease[c][k]: until when c takes itself for the holder of k
  call,    \* call[c]: the statement of c under way
  now      \* the time

vars == <<locks, lease, call, now>>

Ops == {"acquire", "renew", "release"}
Rows == [owner : {OwnerId[c] : c \in Clients}, until : Nat]
Calls == [op : Ops, key : Keys, at : Nat, answer : {"none", "granted", "refused"}]

ASSUME NoneApart == None \notin Rows /\ None \notin Calls

Until(q) == q.at + Ttl

-----------------------------------------------------------------------------
(* The statements *)

Owned(q, owner) == locks[q.key] # None /\ locks[q.key].owner = owner

(* on conflict do update ... where locked_until <= excluded.locked_at or owner *)
AcquirableAnyTime(q, owner) == \* mutant: the expiry of the row is not compared
  locks[q.key] # None => (locks[q.key].until <= Until(q) \/ locks[q.key].owner = owner)
Acquirable(q, owner) ==
  locks[q.key] # None => (locks[q.key].until <= q.at \/ locks[q.key].owner = owner)

Renewable(q, owner) == Owned(q, owner) /\ locks[q.key].until > q.at

Granted(q, owner) ==
  \/ q.op = "acquire" /\ Acquirable(q, owner)
  \/ q.op = "renew" /\ Renewable(q, owner)
  \/ q.op = "release" /\ Owned(q, owner)

RowAfter(q, owner) ==
  IF q.op = "release" THEN None ELSE [owner |-> owner, until |-> Until(q)]

-----------------------------------------------------------------------------

Init ==
  /\ locks = [k \in Keys |-> None]
  /\ lease = [c \in Clients |-> [k \in Keys |-> 0]]
  /\ call = [c \in Clients |-> None]
  /\ now = 0

(* A client that releases a key stops using it first. *)
Send(c, op, k) ==
  /\ call[c] = None
  /\ call' = [call EXCEPT ![c] = [op |-> op, key |-> k, at |-> now, answer |-> "none"]]
  /\ lease' = IF op = "release" THEN [lease EXCEPT ![c][k] = 0] ELSE lease
  /\ UNCHANGED <<locks, now>>

Execute(c) ==
  /\ call[c] # None
  /\ call[c].answer = "none"
  /\ \/ /\ Granted(call[c], OwnerId[c])
        /\ locks' = [locks EXCEPT ![call[c].key] = RowAfter(call[c], OwnerId[c])]
        /\ call' = [call EXCEPT ![c].answer = "granted"]
     \/ /\ ~Granted(call[c], OwnerId[c])
        /\ call' = [call EXCEPT ![c].answer = "refused"]
        /\ UNCHANGED locks
  /\ UNCHANGED <<lease, now>>

(* The row that comes back tells until when; null tells that the lock is not ours. *)
LeaseAfter(c, q) ==
  CASE q.op = "release" -> lease[c][q.key]
    [] q.op # "release" /\ q.answer = "granted" -> Until(q)
    [] q.op # "release" /\ q.answer # "granted" -> 0

Receive(c) ==
  /\ call[c] # None
  /\ call[c].answer # "none"
  /\ lease' = [lease EXCEPT ![c][call[c].key] = LeaseAfter(c, call[c])]
  /\ call' = [call EXCEPT ![c] = None]
  /\ UNCHANGED <<locks, now>>

(* The statement fails before it runs, or its answer is lost. *)
CallFails(c) ==
  /\ call[c] # None
  /\ call' = [call EXCEPT ![c] = None]
  /\ UNCHANGED <<locks, lease, now>>

Restart(c) ==
  /\ call' = [call EXCEPT ![c] = None]
  /\ lease' = [lease EXCEPT ![c] = [k \in Keys |-> 0]]
  /\ UNCHANGED <<locks, now>>

Tick ==
  /\ now < MaxTime
  /\ now' = now + 1
  /\ UNCHANGED <<locks, lease, call>>

Next ==
  \/ \E c \in Clients :
       \/ \E op \in Ops, k \in Keys : Send(c, op, k)
       \/ Execute(c)
       \/ Receive(c)
       \/ CallFails(c)
       \/ Restart(c)
  \/ Tick

Spec == Init /\ [][Next]_vars

-----------------------------------------------------------------------------
(* Properties *)

TypeOK ==
  /\ locks \in [Keys -> Rows \union {None}]
  /\ lease \in [Clients -> [Keys -> Nat]]
  /\ call \in [Clients -> Calls \union {None}]
  /\ now \in Nat

Holds(c, k) == now < lease[c][k]

Unshared(c) == \A d \in Clients : OwnerId[d] = OwnerId[c] => d = c

(***************************************************************************)
(* A lease of a client that shares its owner id with nobody is backed by   *)
(* the row: nobody else has it, and it does not end before the lease.      *)
(***************************************************************************)
LeaseBacked ==
  \A c \in Clients, k \in Keys :
    Unshared(c) /\ Holds(c, k) =>
      /\ locks[k] # None
      /\ locks[k].owner = OwnerId[c]
      /\ lease[c][k] <= locks[k].until

(***************************************************************************)
(* No two clients with owner ids of their own hold a key at once, although *)
(* statements run later than the times in them, answers are lost and       *)
(* processes die and come back; clients that share an id share the lock.   *)
(***************************************************************************)
MutualExclusion ==
  \A c, d \in Clients, k \in Keys :
    Unshared(c) /\ Unshared(d) /\ Holds(c, k) /\ Holds(d, k) => c = d

(***************************************************************************)
(* The inductive invariant: leases and statements do not reach beyond Ttl  *)
(* from now, a statement under way reaches as far as the lease it extends, *)
(* a release under way has none, and a granted answer is backed as a lease *)
(* is.                                                                     *)
(***************************************************************************)
CallsInOrder ==
  \A c \in Clients : call[c] # None =>
    /\ call[c].at <= now
    /\ call[c].op = "release" => lease[c][call[c].key] = 0
    /\ lease[c][call[c].key] <= Until(call[c])

LeasesBounded == \A c \in Clients, k \in Keys : lease[c][k] <= now + Ttl

AnswerBacked ==
  \A c \in Clients :
    ( /\ call[c] # None
      /\ call[c].answer = "granted"
      /\ call[c].op # "release"
      /\ Unshared(c)
      /\ now < Until(call[c]) ) =>
        /\ locks[call[c].key] # None
        /\ locks[call[c].key].owner = OwnerId[c]
        /\ Until(call[c]) <= locks[call[c].key].until

LocksInv == TypeOK /\ LeaseBacked /\ CallsInOrder /\ LeasesBounded /\ AnswerBacked
=============================================================================
