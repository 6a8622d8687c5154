-------------------------- MODULE PlanLedgerProofs --------------------------
(***************************************************************************)
(* However many workers race on the signals of a market, and whenever they *)
(* die, the versions of its plans stay numbered, explained and paid for,   *)
(* and attempts that plan one after the other share one plan.              *)
(*                                                                         *)
(* The parts of LedgerInv are proved in layers, each from the layers       *)
(* before it: the types and references, the version numbers, the audit     *)
(* trail, the charged attempts and the one thesis.                         *)
(***************************************************************************)
EXTENDS PlanLedger, FiniteSetTheorems, WellFoundedInduction, TLAPS

USE DEF Rows

-----------------------------------------------------------------------------
(* Rows of a table *)

LEMMA AppendRow ==
  ASSUME NEW R, NEW t \in Seq(R), NEW x \in R
  PROVE  /\ Append(t, x) \in Seq(R)
         /\ Rows(Append(t, x)) = Rows(t) \union {Len(t) + 1}
         /\ Len(t) + 1 \notin Rows(t)
         /\ \A i \in Rows(t) : i < Len(t) + 1 /\ Append(t, x)[i] = t[i]
         /\ Append(t, x)[Len(t) + 1] = x
         /\ Len(t) \in Nat
OBVIOUS

LEMMA LeastOf ==
  ASSUME NEW S \in SUBSET Nat, S # {}
  PROVE  \E m \in S : \A k \in S : m <= k
<1> DEFINE Less == {p \in Nat \X Nat : p[1] < p[2]}
<1>1. Less = OpToRel(<, Nat)
  BY DEF OpToRel
<1>2. PICK m \in S : \A k \in S : <<k, m>> \notin Less
  <2>1. IsWellFoundedOn(Less, Nat)
    BY <1>1, NatLessThanWellFounded
  <2> HIDE DEF Less
  <2> QED
    BY <2>1, WFMin
<1>3. ASSUME NEW k \in S PROVE m <= k
  <2>1. <<k, m>> \in Nat \X Nat
    OBVIOUS
  <2> QED
    BY <1>2, <2>1
<1> QED
  BY <1>3

LEMMA GreatestOf ==
  ASSUME NEW n \in Nat, NEW S \in SUBSET Nat, S # {}, \A k \in S : k <= n
  PROVE  \E m \in S : \A k \in S : k <= m
<1> DEFINE T == {m \in Nat : m <= n /\ n - m \in S}
<1>1. \A k \in S : n - k \in T
  <2> SUFFICES ASSUME NEW k \in S PROVE n - k \in T
    OBVIOUS
  <2>1. n - k \in Nat /\ n - (n - k) = k /\ n - k <= n
    OBVIOUS
  <2> QED
    BY <2>1
<1>2. T # {}
  BY <1>1
<1>3. PICK m \in T : \A k \in T : m <= k
  BY <1>2, LeastOf
<1>4. ASSUME NEW k \in S PROVE k <= n - m
  <2>1. m <= n - k
    BY <1>1, <1>3
  <2> QED
    BY <2>1
<1> QED
  BY <1>4

-----------------------------------------------------------------------------
(* Version numbers and queries *)

LEMMA RowTyped ==
  ASSUME TypeOK, NEW v \in Rows(versions)
  PROVE  /\ versions[v] \in VersionRow
         /\ versions[v].plan \in 1..plans /\ plans \in Nat
         /\ versions[v].version \in Nat \ {0}
         /\ versions[v].signal \in Jobs
         /\ versions[v].state \in PlanState
         /\ versions[v].createdAt \in 0..clock /\ clock \in Nat
         /\ v \in Nat \ {0} /\ v <= Len(versions) /\ Len(versions) \in Nat
<1>1. versions[v] \in VersionRow
  BY DEF TypeOK
<1>2. versions[v].plan <= plans /\ versions[v].createdAt <= clock
  BY DEF TypeOK, RowsRefer
<1>3. plans \in Nat /\ clock \in Nat
  BY DEF TypeOK
<1>4. v \in Nat \ {0} /\ v <= Len(versions) /\ Len(versions) \in Nat
  BY DEF TypeOK
<1>5. /\ versions[v].plan \in Nat \ {0} /\ versions[v].version \in Nat \ {0}
      /\ versions[v].signal \in Jobs /\ versions[v].state \in PlanState
      /\ versions[v].createdAt \in Nat
  BY <1>1 DEF VersionRow
<1> QED
  BY <1>1, <1>2, <1>3, <1>4, <1>5

LEMMA RowsFinite ==
  ASSUME TypeOK, NEW p
  PROVE  /\ Rows(versions) \subseteq Nat /\ IsFiniteSet(Rows(versions))
         /\ IsFiniteSet(RowsOf(p)) /\ RowsOf(p) \subseteq Nat
         /\ \A v : IsFiniteSet(RowsUpTo(p, v))
<1>1. Rows(versions) = 1..Len(versions) /\ Len(versions) \in Nat
  BY DEF TypeOK
<1>2. IsFiniteSet(Rows(versions))
  BY <1>1, FS_Interval
<1>3. RowsOf(p) \subseteq Rows(versions) /\ \A v : RowsUpTo(p, v) \subseteq Rows(versions)
  BY DEF RowsOf, RowsUpTo
<1> QED
  BY <1>1, <1>2, <1>3, FS_Subset

(***************************************************************************)
(* A later row of a plan has a higher version number, so that the query    *)
(* for the highest one returns the last row.                               *)
(***************************************************************************)
LEMMA VersionsAscend ==
  ASSUME TypeOK, VersionsContiguous, NEW p, NEW u \in RowsOf(p), NEW v \in RowsOf(p), u < v
  PROVE  versions[u].version < versions[v].version
<1>1. IsFiniteSet(RowsUpTo(p, u)) /\ IsFiniteSet(RowsUpTo(p, v)) /\ u \in Nat /\ v \in Nat
  BY RowsFinite
<1>2. v \notin RowsUpTo(p, u) /\ RowsUpTo(p, u) \union {v} \subseteq RowsUpTo(p, v)
  <2>1. RowsUpTo(p, u) \subseteq Nat
    BY RowsFinite DEF RowsUpTo
  <2> QED
    BY <1>1, <2>1, RowsFinite DEF RowsUpTo
<1>3. /\ Cardinality(RowsUpTo(p, u) \union {v}) = Cardinality(RowsUpTo(p, u)) + 1
      /\ Cardinality(RowsUpTo(p, u) \union {v}) <= Cardinality(RowsUpTo(p, v))
      /\ Cardinality(RowsUpTo(p, u)) \in Nat /\ Cardinality(RowsUpTo(p, v)) \in Nat
  BY <1>1, <1>2, FS_AddElement, FS_Subset, FS_CardinalityType
<1>4. /\ versions[u].version = Cardinality(RowsUpTo(p, u))
      /\ versions[v].version = Cardinality(RowsUpTo(p, v))
  BY DEF VersionsContiguous, RowsOf
<1> QED
  BY <1>3, <1>4

LEMMA VersionBounded ==
  ASSUME TypeOK, VersionsContiguous, NEW p, NEW v \in RowsOf(p)
  PROVE  versions[v].version <= Cardinality(RowsOf(p))
<1>1. RowsUpTo(p, v) \subseteq RowsOf(p)
  BY DEF RowsUpTo
<1>2. Cardinality(RowsUpTo(p, v)) <= Cardinality(RowsOf(p))
  BY <1>1, RowsFinite, FS_Subset
<1> QED
  BY <1>2 DEF VersionsContiguous, RowsOf

(***************************************************************************)
(* If the number after the one that was read is free, nothing was inserted *)
(* since: a row in between would have taken it.                            *)
(***************************************************************************)
LEMMA NextVersion ==
  ASSUME TypeOK, VersionsContiguous, NEW p, NEW k, k = 0 \/ k \in RowsOf(p),
         \A v \in RowsOf(p) : versions[v].version # VersionOf(k) + 1
  PROVE  VersionOf(k) = Cardinality(RowsOf(p))
<1>f. /\ RowsOf(p) \subseteq Nat /\ IsFiniteSet(RowsOf(p))
      /\ \A v : IsFiniteSet(RowsUpTo(p, v))
      /\ 0 \notin RowsOf(p)
  <2>1. 0 \notin Rows(versions)
    BY DEF TypeOK
  <2> QED
    BY <2>1, RowsFinite DEF RowsOf
<1>1. VersionOf(k) = Cardinality(RowsUpTo(p, k))
  <2>1. CASE k = 0
    <3>1. RowsUpTo(p, 0) = {}
      BY <1>f DEF RowsUpTo
    <3> QED
      BY <2>1, <3>1, FS_EmptySet DEF VersionOf
  <2>2. CASE k \in RowsOf(p)
    BY <2>2, <1>f DEF VersionOf, VersionsContiguous, RowsOf
  <2> QED
    BY <2>1, <2>2
<1>2. RowsUpTo(p, k) = RowsOf(p)
  <2> DEFINE Later == {v \in RowsOf(p) : v > k}
  <2>1. ASSUME Later # {} PROVE FALSE
    <3>1. PICK u \in Later : \A v \in Later : u <= v
      BY <1>f, <2>1, LeastOf
    <3>2. RowsUpTo(p, u) = RowsUpTo(p, k) \union {u} /\ u \notin RowsUpTo(p, k)
      BY <1>f, <3>1 DEF RowsUpTo
    <3>3. Cardinality(RowsUpTo(p, u)) = Cardinality(RowsUpTo(p, k)) + 1
      BY <1>f, <3>2, FS_AddElement
    <3>4. versions[u].version = Cardinality(RowsUpTo(p, u))
      BY <3>1 DEF VersionsContiguous, RowsOf
    <3> QED
      BY <1>1, <3>1, <3>3, <3>4
  <2> QED
    BY <1>f, <2>1 DEF RowsUpTo
<1> QED
  BY <1>1, <1>2

(***************************************************************************)
(* A query that orders by a number and takes the first row finds one, if   *)
(* there is any.                                                           *)
(***************************************************************************)
LEMMA LatestOfPlanRow ==
  ASSUME TypeOK, VersionsContiguous, NEW p, RowsOf(p) # {}
  PROVE  /\ LatestOfPlan(p) \in RowsOf(p)
         /\ \A u \in RowsOf(p) : u <= LatestOfPlan(p)
<1>f. RowsOf(p) \subseteq Nat /\ Len(versions) \in Nat /\ \A u \in RowsOf(p) : u <= Len(versions)
  BY RowsFinite DEF RowsOf, TypeOK
<1>1. PICK m \in RowsOf(p) : \A u \in RowsOf(p) : u <= m
  BY <1>f, GreatestOf
<1>t. \A u \in RowsOf(p) : versions[u].version \in Nat
  BY RowTyped DEF RowsOf
<1>2. \A u \in RowsOf(p) : versions[u].version <= versions[m].version
  <2> SUFFICES ASSUME NEW u \in RowsOf(p) PROVE versions[u].version <= versions[m].version
    OBVIOUS
  <2>1. u < m \/ u = m
    BY <1>f, <1>1
  <2> QED
    BY <1>t, <2>1, VersionsAscend
<1>3. /\ LatestOfPlan(p) \in RowsOf(p)
      /\ \A u \in RowsOf(p) : versions[u].version <= versions[LatestOfPlan(p)].version
  BY <1>2 DEF LatestOfPlan
<1>4. ASSUME NEW u \in RowsOf(p) PROVE u <= LatestOfPlan(p)
  <2>1. CASE LatestOfPlan(p) < u
    <3>1. versions[LatestOfPlan(p)].version < versions[u].version
      BY <1>3, <2>1, VersionsAscend
    <3> QED
      BY <1>3, <1>t, <3>1
  <2> QED
    BY <1>f, <1>3, <2>1
<1> QED
  BY <1>3, <1>4

LEMMA LatestOfMarketRow ==
  ASSUME TypeOK, versions # << >>
  PROVE  /\ LatestOfMarket \in Rows(versions)
         /\ \A u \in Rows(versions) :
              versions[u].createdAt <= versions[LatestOfMarket].createdAt
<1> DEFINE S == {versions[u].createdAt : u \in Rows(versions)}
<1>1. S \in SUBSET Nat /\ \A k \in S : k <= clock
  BY RowTyped
<1>2. S # {} /\ clock \in Nat
  <2>1. 1 \in Rows(versions)
    BY DEF TypeOK
  <2>2. versions[1].createdAt \in S
    BY <2>1
  <2> QED
    BY <2>2 DEF TypeOK
<1>3. PICK m \in S : \A k \in S : k <= m
  <2> HIDE DEF S
  <2> QED
    BY <1>1, <1>2, GreatestOf
<1>4. \E v \in Rows(versions) :
        \A u \in Rows(versions) : versions[u].createdAt <= versions[v].createdAt
  BY <1>3
<1> QED
  BY <1>4 DEF LatestOfMarket

LEMMA ActivePlanType == TypeOK => ActivePlan \in 0..plans
<1> SUFFICES ASSUME TypeOK PROVE ActivePlan \in 0..plans
  OBVIOUS
<1>1. plans \in Nat /\ \A v \in Rows(versions) : versions[v].plan \in 0..plans
  BY RowTyped DEF TypeOK
<1>2. LatestOfMarket = 0 \/ LatestOfMarket \in Rows(versions)
  BY LatestOfMarketRow DEF LatestOfMarket
<1> QED
  BY <1>1, <1>2 DEF ActivePlan

-----------------------------------------------------------------------------
(* Types and references *)

TypedInv == TypeOK /\ AttemptsRefer

LEMMA IdleType ==
  Idle \in AttemptState /\ Idle.step = "idle" /\ Idle.row = 0
BY DEF Idle, AttemptState, Steps, Action, PlanState

(***************************************************************************)
(* What an attempt refers to stays true while others insert rows and draw  *)
(* numbers.                                                                *)
(***************************************************************************)
LEMMA OthersRefer ==
  ASSUME TypedInv, NEW w \in Holders, NEW x \in AttemptState,
         planner' = [planner EXCEPT ![w] = x],
         \A v \in Rows(versions) : v \in Rows(versions') /\ versions'[v] = versions[v],
         plans \in Nat, plans' \in Nat, clock \in Nat, clock' \in Nat,
         plans <= plans', clock <= clock',
         Refers(w)'
  PROVE  planner' \in [Holders -> AttemptState] /\ AttemptsRefer'
<1>t. planner \in [Holders -> AttemptState]
  BY DEF TypedInv, TypeOK
<1>1. planner' \in [Holders -> AttemptState] /\ planner'[w] = x
  BY <1>t
<1>2. ASSUME NEW u \in Holders, u # w PROVE Refers(u)'
  <2>1. planner'[u] = planner[u] /\ planner[u] \in AttemptState
    BY <1>t, <1>2
  <2>2. Refers(u)
    BY DEF TypedInv, AttemptsRefer
  <2>3. \A p, v : v \in RowsOf(p) => v \in RowsOf(p)'
    BY DEF RowsOf
  <2>4. planner[u].plan \in Nat /\ planner[u].createdAt \in Nat
    BY <2>1 DEF AttemptState
  <2> QED
    BY <2>1, <2>2, <2>3, <2>4 DEF Refers
<1> QED
  BY <1>1, <1>2 DEF AttemptsRefer

(* A step of one attempt that moves neither rows nor numbers. *)
LEMMA OwnStep ==
  ASSUME TypedInv, NEW w \in Holders, NEW x \in AttemptState,
         planner' = [planner EXCEPT ![w] = x],
         UNCHANGED <<versions, plans, clock>>,
         Refers(w)'
  PROVE  planner' \in [Holders -> AttemptState] /\ AttemptsRefer'
<1>1. plans \in Nat /\ clock \in Nat
  BY DEF TypedInv, TypeOK
<1>2. /\ plans' \in Nat /\ clock' \in Nat
      /\ plans <= plans' /\ clock <= clock'
  BY <1>1
<1> QED
  BY <1>1, <1>2, OthersRefer

LEMMA FinishRefers ==
  ASSUME TypedInv, NEW w \in Holders, Finish(w), UNCHANGED <<versions, plans, clock>>
  PROVE  planner' \in [Holders -> AttemptState] /\ AttemptsRefer'
<1>1. planner'[w] = Idle
  BY DEF Finish, TypedInv, TypeOK
<1>2. Refers(w)'
  BY <1>1, IdleType DEF Refers, BeforeInsert, Pipeline
<1> QED
  BY <1>2, IdleType, OwnStep DEF Finish

(***************************************************************************)
(* A job fails an attempt.                                                 *)
(***************************************************************************)
LEMMA FailAttemptsType ==
  ASSUME TypeOK, NEW s \in Jobs, FailAttempts({s})
  PROVE  /\ status' \in [Jobs -> JobStatus]
         /\ attempts' \in [Jobs -> Nat]
         /\ holder' \in [Jobs -> Holders \union {None}]
BY DEF TypeOK, FailAttempts, JobStatus

LEMMA ReportFailureType ==
  ASSUME TypedInv, NEW w \in Holders, planner[w].step # "idle", ReportFailure(w)
  PROVE  /\ status' \in [Jobs -> JobStatus]
         /\ attempts' \in [Jobs -> Nat]
         /\ holder' \in [Jobs -> Holders \union {None}]
<1>1. planner[w].signal \in Jobs
  BY DEF TypedInv, AttemptsRefer, Refers
<1>2. CASE holder[planner[w].signal] = w
  BY <1>1, <1>2, FailAttemptsType DEF ReportFailure, TypedInv
<1>3. CASE holder[planner[w].signal] # w
  BY <1>3 DEF ReportFailure, jvars, TypedInv, TypeOK
<1> QED
  BY <1>2, <1>3

LEMMA TypedInit == Init => TypedInv
<1> SUFFICES ASSUME Init PROVE TypedInv
  OBVIOUS
<1>1. planner \in [Holders -> AttemptState]
  BY IdleType DEF Init
<1>2. \A w \in Holders : planner[w] = Idle
  BY DEF Init
<1>3. AttemptsRefer
  BY <1>2, IdleType DEF AttemptsRefer, Refers, BeforeInsert, Pipeline
<1>4. RowsRefer
  BY DEF Init, RowsRefer
<1>5. /\ versions \in Seq(VersionRow) /\ transitions \in Seq(TransitionRow)
      /\ orders \in Seq([row : Nat, clientId : Nat])
  BY DEF Init
<1>6. agentRuns \in [success : SUBSET Nat, failed : Nat]
  BY DEF Init
<1>7. /\ status \in [Jobs -> JobStatus] /\ attempts \in [Jobs -> Nat]
      /\ holder \in [Jobs -> Holders \union {None}]
  BY DEF Init, JInit, JobStatus
<1>8. /\ plans \in Nat /\ clock \in Nat /\ crashes \in Nat /\ overlapped \in BOOLEAN
  BY DEF Init
<1> QED
  BY <1>1, <1>3, <1>4, <1>5, <1>6, <1>7, <1>8 DEF TypedInv, TypeOK

(***************************************************************************)
(* The steps that move neither rows nor numbers.                           *)
(***************************************************************************)
LEMMA StartTyped ==
  ASSUME TypedInv, NEW w \in Holders, NEW s \in Jobs, StartAttempt(w, s)
  PROVE  TypedInv'
<1>t. planner \in [Holders -> AttemptState]
  BY DEF TypedInv, TypeOK
<1> DEFINE x == [Idle EXCEPT !.step = "readActive", !.signal = s]
<1>1. /\ x \in AttemptState /\ x.step = "readActive" /\ x.signal = s /\ x.row = 0
  BY DEF Idle, AttemptState, Steps, InTry, Action, PlanState
<1>2. planner' = [planner EXCEPT ![w] = x] /\ UNCHANGED <<versions, plans, clock>>
  BY DEF StartAttempt, ledger
<1>3. Refers(w)'
  <2>1. planner'[w] = x
    BY <1>t, <1>2
  <2> HIDE DEF x
  <2> QED
    BY <1>1, <2>1 DEF Refers, BeforeInsert, Pipeline
<1>4. planner' \in [Holders -> AttemptState] /\ AttemptsRefer'
  <2> HIDE DEF x
  <2> QED
    BY <1>1, <1>2, <1>3, OwnStep
<1>5. /\ status' \in [Jobs -> JobStatus] /\ attempts' \in [Jobs -> Nat]
      /\ holder' \in [Jobs -> Holders \union {None}]
  BY DEF StartAttempt, Start, TypedInv, TypeOK, JobStatus
<1> QED
  BY <1>4, <1>5 DEF StartAttempt, ledger, TypedInv, TypeOK, RowsRefer

LEMMA ReadActiveTyped ==
  ASSUME TypedInv, NEW w \in Holders, ReadActivePlan(w)
  PROVE  TypedInv'
<1>t. planner[w] \in AttemptState /\ planner \in [Holders -> AttemptState]
  BY DEF TypedInv, TypeOK
<1> DEFINE x == [planner[w] EXCEPT !.step = "generate", !.plan = ActivePlan]
<1>a. ActivePlan \in Nat /\ ActivePlan <= plans
  BY ActivePlanType DEF TypedInv, TypeOK
<1>1. /\ x \in AttemptState /\ x.step = "generate" /\ x.plan = ActivePlan
      /\ x.signal = planner[w].signal /\ x.row = planner[w].row
  BY <1>t, <1>a DEF AttemptState, Steps, InTry
<1>2. planner' = [planner EXCEPT ![w] = x] /\ UNCHANGED <<versions, plans, clock>>
  BY DEF ReadActivePlan, ledger
<1>3. Refers(w)'
  <2>1. planner'[w] = x
    BY <1>t, <1>2
  <2>2. Refers(w) /\ planner[w].step = "readActive"
    BY DEF TypedInv, AttemptsRefer, ReadActivePlan
  <2> HIDE DEF x
  <2> QED
    BY <1>a, <1>1, <1>2, <2>1, <2>2 DEF Refers, BeforeInsert, Pipeline
<1>4. planner' \in [Holders -> AttemptState] /\ AttemptsRefer'
  <2> HIDE DEF x
  <2> QED
    BY <1>1, <1>2, <1>3, OwnStep
<1>5. overlapped' \in BOOLEAN
  BY DEF ReadActivePlan, TypedInv, TypeOK
<1> QED
  BY <1>4, <1>5 DEF ReadActivePlan, ledger, jvars, TypedInv, TypeOK, RowsRefer

LEMMA ReadLatestTyped ==
  ASSUME TypedInv, VersionsContiguous, NEW w \in Holders, ReadLatestVersion(w)
  PROVE  TypedInv'
<1>t. planner[w] \in AttemptState /\ planner \in [Holders -> AttemptState]
  BY DEF TypedInv, TypeOK
<1> DEFINE l == LatestOfPlan(planner[w].plan)
<1> DEFINE x == [planner[w] EXCEPT !.step = "recordVersion", !.latest = l]
<1>a. l = 0 \/ l \in RowsOf(planner[w].plan)
  BY LatestOfPlanRow DEF TypedInv, LatestOfPlan
<1>b. l \in Nat
  BY <1>a, RowTyped DEF TypedInv, RowsOf
<1>1. /\ x \in AttemptState /\ x.step = "recordVersion" /\ x.plan = planner[w].plan
      /\ x.signal = planner[w].signal /\ x.row = planner[w].row /\ x.latest = l
      /\ x.createdAt = planner[w].createdAt
  <2> HIDE DEF l
  <2> QED
    BY <1>t, <1>b DEF AttemptState, Steps, InTry
<1>2. planner' = [planner EXCEPT ![w] = x] /\ UNCHANGED <<versions, plans, clock>>
  BY DEF ReadLatestVersion, ledger
<1>3. Refers(w)'
  <2>1. planner'[w] = x
    BY <1>t, <1>2
  <2>2. Refers(w) /\ planner[w].step = "readLatest"
    BY DEF TypedInv, AttemptsRefer, ReadLatestVersion
  <2>3. RowsOf(planner[w].plan)' = RowsOf(planner'[w].plan)
    BY <1>2 DEF RowsOf
  <2>4. \A q : RowsOf(q)' = RowsOf(q)
    BY <1>2 DEF RowsOf
  <2> HIDE DEF x, l
  <2> QED
    BY <1>a, <1>1, <1>2, <2>1, <2>2, <2>4 DEF Refers, BeforeInsert, Pipeline
<1>4. planner' \in [Holders -> AttemptState] /\ AttemptsRefer'
  <2> HIDE DEF x
  <2> QED
    BY <1>1, <1>2, <1>3, OwnStep
<1> QED
  BY <1>4 DEF ReadLatestVersion, ledger, jvars, TypedInv, TypeOK, RowsRefer

(* The steps after the insert, and the jump to the catch block. *)
LEMMA GotoRefers ==
  ASSUME TypedInv, NEW w \in Holders, NEW step, Goto(w, step),
         UNCHANGED <<versions, plans, clock>>,
         planner[w].step # "idle",
         \/ step = "recordFailedRun"
         \/ /\ step \in Pipeline \union {"recordRun"}
            /\ planner[w].step \in Pipeline \union {"recordTransition", "recordRun"}
  PROVE  planner' \in [Holders -> AttemptState] /\ AttemptsRefer'
<1>t. planner[w] \in AttemptState /\ planner \in [Holders -> AttemptState]
  BY DEF TypedInv, TypeOK
<1> DEFINE x == [planner[w] EXCEPT !.step = step]
<1>a. step \in Steps
  BY DEF Steps, Pipeline, InTry
<1>1. /\ x \in AttemptState /\ x.step = step /\ x.plan = planner[w].plan
      /\ x.signal = planner[w].signal /\ x.row = planner[w].row
  BY <1>t, <1>a DEF AttemptState
<1>2. planner' = [planner EXCEPT ![w] = x]
  BY DEF Goto
<1>3. Refers(w)'
  <2>1. planner'[w] = x
    BY <1>t, <1>2
  <2>2. Refers(w)
    BY DEF TypedInv, AttemptsRefer
  <2> HIDE DEF x
  <2> QED
    BY <1>1, <1>2, <2>1, <2>2 DEF Refers, BeforeInsert, Pipeline
<1> QED
  BY <1>1, <1>2, <1>3, OwnStep

LEMMA ThrowsTyped ==
  ASSUME TypedInv, NEW w \in Holders, AttemptThrows(w)
  PROVE  TypedInv'
<1>1. planner' \in [Holders -> AttemptState] /\ AttemptsRefer'
  BY GotoRefers DEF AttemptThrows, Catch, Goto, InTry, ledger
<1> QED
  BY <1>1 DEF AttemptThrows, ledger, jvars, TypedInv, TypeOK, RowsRefer

LEMMA FailedRunTyped ==
  ASSUME TypedInv, NEW w \in Holders, RecordFailedRun(w)
  PROVE  TypedInv'
<1>1. planner' \in [Holders -> AttemptState] /\ AttemptsRefer'
  BY FinishRefers DEF RecordFailedRun
<1>2. /\ status' \in [Jobs -> JobStatus] /\ attempts' \in [Jobs -> Nat]
      /\ holder' \in [Jobs -> Holders \union {None}]
  BY ReportFailureType DEF RecordFailedRun
<1>3. /\ agentRuns' \in [success : SUBSET Nat, failed : Nat]
      /\ agentRuns'.success = agentRuns.success
  <2>1. agentRuns \in [success : SUBSET Nat, failed : Nat]
    BY DEF TypedInv, TypeOK
  <2>2. agentRuns' = [agentRuns EXCEPT !.failed = agentRuns.failed + 1]
    BY DEF RecordFailedRun
  <2>3. agentRuns.failed + 1 \in Nat
    BY <2>1
  <2> QED
    BY <2>1, <2>2, <2>3
<1> QED
  BY <1>1, <1>2, <1>3 DEF RecordFailedRun, TypedInv, TypeOK, RowsRefer

LEMMA VerdictTyped ==
  ASSUME TypedInv, NEW w \in Holders, RecordVerdictAndIntent(w)
  PROVE  TypedInv'
<1>1. Goto(w, "submit") \/ Goto(w, "updateStatus")
  BY DEF RecordVerdictAndIntent
<1>2. planner' \in [Holders -> AttemptState] /\ AttemptsRefer'
  BY <1>1, GotoRefers DEF RecordVerdictAndIntent, Pipeline, ledger
<1> QED
  BY <1>2 DEF RecordVerdictAndIntent, ledger, jvars, TypedInv, TypeOK, RowsRefer

LEMMA SubmitTyped ==
  ASSUME TypedInv, NEW w \in Holders, SubmitOrder(w)
  PROVE  TypedInv'
<1> DEFINE row == planner[w].row
<1> DEFINE o == [row |-> row, clientId |-> ClientOrderId(row)]
<1>1. planner' \in [Holders -> AttemptState] /\ AttemptsRefer'
  BY GotoRefers DEF SubmitOrder, Pipeline, ledger
<1>2. row \in Rows(versions) /\ row \in Nat
  BY RowTyped DEF TypedInv, AttemptsRefer, Refers, SubmitOrder, Pipeline
<1>3. o \in [row : Nat, clientId : Nat] /\ o.row = row
  BY <1>2, RowTyped DEF ClientOrderId, TypedInv
<1>4. orders' = Append(orders, o) /\ orders \in Seq([row : Nat, clientId : Nat])
  BY DEF SubmitOrder, TypedInv, TypeOK
<1>5. /\ orders' \in Seq([row : Nat, clientId : Nat])
      /\ \A i \in Rows(orders') : orders'[i].row \in Rows(versions)
  <2> HIDE DEF o, row
  <2>1. /\ orders' \in Seq([row : Nat, clientId : Nat])
        /\ Rows(orders') = Rows(orders) \union {Len(orders) + 1}
        /\ \A i \in Rows(orders) : orders'[i] = orders[i]
        /\ orders'[Len(orders) + 1] = o
    BY <1>3, <1>4, AppendRow
  <2> QED
    BY <1>2, <1>3, <2>1 DEF TypedInv, TypeOK, RowsRefer
<1> QED
  BY <1>1, <1>5 DEF SubmitOrder, ledger, jvars, TypedInv, TypeOK, RowsRefer

LEMMA EndTyped ==
  ASSUME TypedInv, NEW w \in Holders, CompleteJob(w) \/ PipelineThrows(w) \/ Crash(w)
  PROVE  TypedInv'
<1>1. Finish(w) /\ UNCHANGED <<ledger, orders, overlapped>>
  BY DEF CompleteJob, PipelineThrows, Crash
<1>2. planner' \in [Holders -> AttemptState] /\ AttemptsRefer'
  BY <1>1, FinishRefers DEF ledger
<1>3. /\ status' \in [Jobs -> JobStatus] /\ attempts' \in [Jobs -> Nat]
      /\ holder' \in [Jobs -> Holders \union {None}]
  <2>1. CASE CompleteJob(w)
    BY <2>1 DEF CompleteJob, Succeed, jvars, TypedInv, TypeOK, JobStatus
  <2>2. CASE PipelineThrows(w)
    BY <2>2, ReportFailureType DEF PipelineThrows, Pipeline
  <2>3. CASE Crash(w)
    BY <2>3 DEF Crash, jvars, TypedInv, TypeOK
  <2> QED
    BY <2>1, <2>2, <2>3
<1>4. crashes' \in Nat
  BY DEF CompleteJob, PipelineThrows, Crash, TypedInv, TypeOK
<1> QED
  BY <1>1, <1>2, <1>3, <1>4 DEF ledger, TypedInv, TypeOK, RowsRefer

LEMMA QueueTyped ==
  ASSUME TypedInv, NEW s \in Jobs, EnqueueSignal(s) \/ LockExpires(s)
  PROVE  TypedInv'
<1>1. UNCHANGED <<ledger, orders, planner, crashes, overlapped>>
  BY DEF EnqueueSignal, LockExpires
<1>2. /\ status' \in [Jobs -> JobStatus] /\ attempts' \in [Jobs -> Nat]
      /\ holder' \in [Jobs -> Holders \union {None}]
  <2>1. CASE EnqueueSignal(s)
    BY <2>1 DEF EnqueueSignal, Create, TypedInv, TypeOK, JobStatus
  <2>2. CASE LockExpires(s)
    BY <2>2, FailAttemptsType DEF LockExpires, TypedInv
  <2> QED
    BY <2>1, <2>2
<1>3. AttemptsRefer'
  BY <1>1 DEF TypedInv, AttemptsRefer, Refers, RowsOf, ledger
<1> QED
  BY <1>1, <1>2, <1>3 DEF ledger, TypedInv, TypeOK, RowsRefer

(***************************************************************************)
(* The steps that draw numbers or insert rows.                             *)
(***************************************************************************)
LEMMA ProposalType ==
  ASSUME NEW s, NEW a, NEW p \in Proposals(s, a)
  PROVE  p.action \in Action /\ p.state \in PlanState
<1>1. CASE Planner = "openai"
  BY <1>1, LedgerAssumption DEF Proposals
<1>2. CASE Planner # "openai" /\ s \in Strong
  BY <1>2 DEF Proposals, Action, PlanState
<1>3. CASE Planner # "openai" /\ s \notin Strong
  BY <1>3 DEF Proposals, Action, PlanState
<1> QED
  BY <1>1, <1>2, <1>3

LEMMA GenerateTyped ==
  ASSUME TypedInv, NEW w \in Holders, GeneratePlan(w)
  PROVE  TypedInv'
<1>t. planner[w] \in AttemptState /\ planner \in [Holders -> AttemptState]
  BY DEF TypedInv, TypeOK
<1>n. plans \in Nat /\ clock \in Nat
  BY DEF TypedInv, TypeOK
<1>r. Refers(w) /\ planner[w].step = "generate"
  BY DEF TypedInv, AttemptsRefer, GeneratePlan
<1> PICK p \in Proposals(planner[w].signal, planner[w].plan) :
      planner' = [planner EXCEPT ![w] =
         [@ EXCEPT !.step = "readLatest", !.plan = PlanId(w), !.action = p.action,
                   !.state = p.state, !.createdAt = clock + 1]]
  BY DEF GeneratePlan
<1> DEFINE x == [planner[w] EXCEPT !.step = "readLatest", !.plan = PlanId(w),
                   !.action = p.action, !.state = p.state, !.createdAt = clock + 1]
<1>a. /\ PlanId(w) \in Nat \ {0} /\ PlanId(w) <= plans'
      /\ plans' \in Nat /\ plans <= plans' /\ clock' = clock + 1
  BY <1>t, <1>n, <1>r DEF PlanId, GeneratePlan, AttemptState
<1>1. /\ x \in AttemptState /\ x.step = "readLatest" /\ x.plan = PlanId(w)
      /\ x.signal = planner[w].signal /\ x.row = planner[w].row
      /\ x.createdAt = clock + 1
  <2>1. p.action \in Action /\ p.state \in PlanState
    BY ProposalType
  <2>2. clock + 1 \in Nat
    BY <1>n
  <2> QED
    BY <1>t, <1>a, <2>1, <2>2 DEF AttemptState, Steps, InTry
<1>2. planner' = [planner EXCEPT ![w] = x] /\ UNCHANGED versions
  BY DEF GeneratePlan
<1>3. Refers(w)'
  <2>1. planner'[w] = x
    BY <1>t, <1>2
  <2> HIDE DEF x
  <2> QED
    BY <1>n, <1>a, <1>r, <1>1, <1>2, <2>1 DEF Refers, BeforeInsert, Pipeline
<1>4. planner' \in [Holders -> AttemptState] /\ AttemptsRefer'
  <2>1. clock' \in Nat /\ clock <= clock'
    BY <1>n, <1>a
  <2> HIDE DEF x
  <2> QED
    BY <1>n, <1>a, <1>1, <1>2, <1>3, <2>1, OthersRefer
<1>5. RowsRefer'
  <2>1. \A v \in Rows(versions) : versions[v].plan <= plans' /\ versions[v].createdAt <= clock'
    BY <1>n, <1>a, RowTyped DEF TypedInv
  <2> QED
    BY <2>1 DEF GeneratePlan, TypedInv, TypeOK, RowsRefer
<1> QED
  BY <1>n, <1>a, <1>4, <1>5 DEF GeneratePlan, jvars, TypedInv, TypeOK

(* The insert of a version, as the later layers use it. *)
LEMMA RecordVersionEffect ==
  ASSUME TypedInv, NEW w \in Holders, RecordVersion(w)
  PROVE  /\ NewRow(w) \in VersionRow
         /\ NewRow(w).plan = planner[w].plan /\ NewRow(w).signal = planner[w].signal
         /\ NewRow(w).action = planner[w].action /\ NewRow(w).state = planner[w].state
         /\ NewRow(w).version = VersionOf(planner[w].latest) + 1
         /\ NewRow(w).createdAt = planner[w].createdAt
         /\ versions' \in Seq(VersionRow)
         /\ Rows(versions') = Rows(versions) \union {Len(versions) + 1}
         /\ Len(versions) + 1 \notin Rows(versions)
         /\ \A v \in Rows(versions) : v < Len(versions) + 1 /\ versions'[v] = versions[v]
         /\ versions'[Len(versions) + 1] = NewRow(w)
         /\ Len(versions) \in Nat
<1>t. planner[w] \in AttemptState
  BY DEF TypedInv, TypeOK
<1>1. Refers(w) /\ planner[w].step = "recordVersion"
  BY DEF TypedInv, AttemptsRefer, RecordVersion
<1>2. VersionOf(planner[w].latest) \in Nat
  <2>1. planner[w].latest = 0 \/ planner[w].latest \in Rows(versions)
    BY <1>1 DEF Refers, RowsOf
  <2> QED
    BY <2>1, RowTyped DEF VersionOf, TypedInv
<1>3. planner[w].plan \in Nat \ {0} /\ planner[w].signal \in Jobs
  BY <1>t, <1>1 DEF Refers, AttemptState
<1>4. VersionOf(planner[w].latest) + 1 \in Nat \ {0}
  BY <1>2
<1>5. /\ NewRow(w) \in VersionRow
      /\ NewRow(w).plan = planner[w].plan /\ NewRow(w).signal = planner[w].signal
      /\ NewRow(w).action = planner[w].action /\ NewRow(w).state = planner[w].state
      /\ NewRow(w).version = VersionOf(planner[w].latest) + 1
      /\ NewRow(w).createdAt = planner[w].createdAt
  BY <1>t, <1>3, <1>4 DEF NewRow, VersionRow, AttemptState
<1>6. versions' = Append(versions, NewRow(w)) /\ versions \in Seq(VersionRow)
  BY DEF RecordVersion, TypedInv, TypeOK
<1> QED
  BY <1>5, <1>6, AppendRow

LEMMA RecordVersionTyped ==
  ASSUME TypedInv, NEW w \in Holders, RecordVersion(w)
  PROVE  TypedInv'
<1>t. planner[w] \in AttemptState /\ planner \in [Holders -> AttemptState]
  BY DEF TypedInv, TypeOK
<1>n. plans \in Nat /\ clock \in Nat
  BY DEF TypedInv, TypeOK
<1>r. Refers(w) /\ planner[w].step = "recordVersion"
  BY DEF TypedInv, AttemptsRefer, RecordVersion
<1> DEFINE n == Len(versions) + 1
<1> DEFINE x == [planner[w] EXCEPT !.step = "recordTransition", !.row = n]
<1>1. /\ x \in AttemptState /\ x.step = "recordTransition" /\ x.plan = planner[w].plan
      /\ x.signal = planner[w].signal /\ x.row = n
      /\ x.action = planner[w].action /\ x.state = planner[w].state
      /\ x.latest = planner[w].latest
  <2>1. n \in Nat
    BY RecordVersionEffect
  <2> HIDE DEF n
  <2> QED
    BY <1>t, <2>1 DEF AttemptState, Steps, InTry
<1>2. planner' = [planner EXCEPT ![w] = x] /\ UNCHANGED <<plans, clock>>
  BY DEF RecordVersion
<1>e. /\ versions' \in Seq(VersionRow)
      /\ Rows(versions') = Rows(versions) \union {n}
      /\ \A v \in Rows(versions) : versions'[v] = versions[v]
      /\ versions'[n] = NewRow(w)
      /\ NewRow(w).signal = planner[w].signal /\ NewRow(w).plan = planner[w].plan
      /\ NewRow(w).action = planner[w].action /\ NewRow(w).state = planner[w].state
      /\ NewRow(w).createdAt = planner[w].createdAt
  BY RecordVersionEffect
<1>z. n # 0
  BY RecordVersionEffect
<1>3. Refers(w)'
  <2>1. planner'[w] = x
    BY <1>t, <1>2
  <2>2. planner[w].latest = 0 \/ planner[w].latest \in Rows(versions')
    BY <1>e, <1>r DEF Refers, RowsOf
  <2> HIDE DEF x, n
  <2> QED
    BY <1>e, <1>r, <1>z, <1>1, <1>2, <2>1, <2>2 DEF Refers, BeforeInsert, Pipeline
<1>4. planner' \in [Holders -> AttemptState] /\ AttemptsRefer'
  <2>1. plans' \in Nat /\ clock' \in Nat /\ clock <= clock' /\ plans <= plans'
    BY <1>n, <1>2
  <2> HIDE DEF x, n
  <2> QED
    BY <1>n, <1>e, <1>1, <1>2, <1>3, <2>1, OthersRefer
<1>5. RowsRefer'
  <2>1. planner[w].plan <= plans /\ planner[w].createdAt <= clock
    BY <1>n, <1>r DEF Refers
  <2> HIDE DEF n
  <2> QED
    BY <1>e, <2>1 DEF RecordVersion, TypedInv, TypeOK, RowsRefer
<1> QED
  BY <1>e, <1>4, <1>5 DEF RecordVersion, jvars, TypedInv, TypeOK

LEMMA RecordTransitionTyped ==
  ASSUME TypedInv, NEW w \in Holders, RecordTransition(w)
  PROVE  TypedInv'
<1>t. planner[w] \in AttemptState
  BY DEF TypedInv, TypeOK
<1>1. planner' \in [Holders -> AttemptState] /\ AttemptsRefer'
  BY GotoRefers DEF RecordTransition
<1>r. Refers(w) /\ planner[w].step = "recordTransition"
  BY DEF TypedInv, AttemptsRefer, RecordTransition
<1> DEFINE x == [row |-> planner[w].row, from |-> PreviousState(w), to |-> planner[w].state]
<1>2. x \in TransitionRow /\ x.row \in Rows(versions)
  <2>1. planner[w].row \in Rows(versions) /\ planner[w].row \in Nat
    BY <1>t, <1>r DEF Refers, AttemptState
  <2>2. PreviousState(w) \in PlanState \union {"none"}
    BY <1>r, RowTyped DEF PreviousState, Refers, TypedInv
  <2>3. planner[w].state \in PlanState
    BY <1>t DEF AttemptState
  <2> QED
    BY <2>1, <2>2, <2>3 DEF TransitionRow
<1>3. transitions' = transitions \/ transitions' = Append(transitions, x)
  BY DEF RecordTransition
<1>4. /\ transitions' \in Seq(TransitionRow)
      /\ \A t \in Rows(transitions') : transitions'[t].row \in Rows(versions)
  <2> HIDE DEF x
  <2>1. transitions \in Seq(TransitionRow)
        /\ \A t \in Rows(transitions) : transitions[t].row \in Rows(versions)
    BY DEF TypedInv, TypeOK, RowsRefer
  <2> QED
    BY <1>2, <1>3, <2>1, AppendRow
<1> QED
  BY <1>1, <1>4 DEF RecordTransition, jvars, TypedInv, TypeOK, RowsRefer

LEMMA RecordRunTyped ==
  ASSUME TypedInv, NEW w \in Holders, RecordAgentRun(w)
  PROVE  TypedInv'
<1>1. planner' \in [Holders -> AttemptState] /\ AttemptsRefer'
  BY GotoRefers DEF RecordAgentRun, Pipeline
<1>2. planner[w].row \in Rows(versions) /\ planner[w].row \in Nat
  BY RowTyped DEF TypedInv, AttemptsRefer, Refers, RecordAgentRun
<1>3. /\ agentRuns' \in [success : SUBSET Nat, failed : Nat]
      /\ agentRuns'.success = agentRuns.success \union {planner[w].row}
  <2>1. agentRuns \in [success : SUBSET Nat, failed : Nat]
    BY DEF TypedInv, TypeOK
  <2>2. agentRuns' = [agentRuns EXCEPT !.success = agentRuns.success \union {planner[w].row}]
    BY DEF RecordAgentRun
  <2>3. agentRuns.success \union {planner[w].row} \in SUBSET Nat
    BY <1>2, <2>1
  <2> QED
    BY <2>1, <2>2, <2>3
<1> QED
  BY <1>1, <1>2, <1>3 DEF RecordAgentRun, jvars, TypedInv, TypeOK, RowsRefer

LEMMA TypedStep == TypedInv /\ VersionsContiguous /\ [Next]_vars => TypedInv'
<1> SUFFICES ASSUME TypedInv, VersionsContiguous, [Next]_vars PROVE TypedInv'
  OBVIOUS
<1>1. ASSUME NEW w \in Holders, NEW s \in Jobs, StartAttempt(w, s) PROVE TypedInv'
  BY <1>1, StartTyped
<1>2. ASSUME NEW w \in Holders, ReadActivePlan(w) PROVE TypedInv'
  BY <1>2, ReadActiveTyped
<1>3. ASSUME NEW w \in Holders, GeneratePlan(w) PROVE TypedInv'
  BY <1>3, GenerateTyped
<1>4. ASSUME NEW w \in Holders, ReadLatestVersion(w) PROVE TypedInv'
  BY <1>4, ReadLatestTyped
<1>5. ASSUME NEW w \in Holders, RecordVersion(w) PROVE TypedInv'
  BY <1>5, RecordVersionTyped
<1>6. ASSUME NEW w \in Holders, RecordTransition(w) PROVE TypedInv'
  BY <1>6, RecordTransitionTyped
<1>7. ASSUME NEW w \in Holders, RecordAgentRun(w) PROVE TypedInv'
  BY <1>7, RecordRunTyped
<1>8. ASSUME NEW w \in Holders, AttemptThrows(w) PROVE TypedInv'
  BY <1>8, ThrowsTyped
<1>9. ASSUME NEW w \in Holders, RecordFailedRun(w) PROVE TypedInv'
  BY <1>9, FailedRunTyped
<1>10. ASSUME NEW w \in Holders, RecordVerdictAndIntent(w) PROVE TypedInv'
  BY <1>10, VerdictTyped
<1>11. ASSUME NEW w \in Holders, SubmitOrder(w) PROVE TypedInv'
  BY <1>11, SubmitTyped
<1>12. ASSUME NEW w \in Holders, CompleteJob(w) \/ PipelineThrows(w) \/ Crash(w)
       PROVE TypedInv'
  BY <1>12, EndTyped
<1>13. ASSUME NEW s \in Jobs, EnqueueSignal(s) \/ LockExpires(s) PROVE TypedInv'
  BY <1>13, QueueTyped
<1>14. CASE UNCHANGED vars
  BY <1>14
   DEF vars, ledger, jvars, TypedInv, TypeOK, RowsRefer, AttemptsRefer, Refers, RowsOf
<1> QED
  BY <1>1, <1>2, <1>3, <1>4, <1>5, <1>6, <1>7, <1>8, <1>9, <1>10, <1>11, <1>12, <1>13,
     <1>14
     DEF Next, Attempt

-----------------------------------------------------------------------------
(* Version numbers *)

LEMMA VersionsChange ==
  ASSUME [Next]_vars
  PROVE  UNCHANGED versions \/ \E w \in Holders : RecordVersion(w)
BY DEF Next, Attempt, vars, ledger, StartAttempt, ReadActivePlan, GeneratePlan,
       ReadLatestVersion, RecordTransition, RecordAgentRun, AttemptThrows, RecordFailedRun,
       RecordVerdictAndIntent, SubmitOrder, CompleteJob, PipelineThrows, Crash,
       EnqueueSignal, LockExpires

LEMMA RowsOfAfter ==
  ASSUME TypedInv, NEW w \in Holders, RecordVersion(w), NEW p
  PROVE  RowsOf(p)' = RowsOf(p) \union
           (IF p = planner[w].plan THEN {Len(versions) + 1} ELSE {})
<1> DEFINE n == Len(versions) + 1
<1>1. /\ Rows(versions') = Rows(versions) \union {n}
      /\ \A v \in Rows(versions) : versions'[v] = versions[v]
      /\ versions'[n] = NewRow(w) /\ NewRow(w).plan = planner[w].plan
  BY RecordVersionEffect
<1> HIDE DEF n
<1>2. RowsOf(p)' = RowsOf(p) \union (IF p = planner[w].plan THEN {n} ELSE {})
  BY <1>1 DEF RowsOf
<1> QED
  BY <1>2 DEF n

(***************************************************************************)
(* The version that is inserted has the next number of its plan.           *)
(***************************************************************************)
LEMMA InsertedVersion ==
  ASSUME TypedInv, VersionsContiguous, NEW w \in Holders, RecordVersion(w)
  PROVE  NewRow(w).version = Cardinality(RowsOf(planner[w].plan)) + 1
<1>1. planner[w].latest = 0 \/ planner[w].latest \in RowsOf(planner[w].plan)
  BY DEF TypedInv, AttemptsRefer, Refers, RecordVersion
<1>2. /\ NewRow(w).version = VersionOf(planner[w].latest) + 1
      /\ NewRow(w).plan = planner[w].plan
  BY RecordVersionEffect
<1>3. \A v \in RowsOf(planner[w].plan) :
        versions[v].version # VersionOf(planner[w].latest) + 1
  BY <1>2 DEF RecordVersion, VersionFree
<1>4. VersionOf(planner[w].latest) = Cardinality(RowsOf(planner[w].plan))
  BY <1>1, <1>3, NextVersion DEF TypedInv
<1> QED
  BY <1>2, <1>4

LEMMA ContiguousStep ==
  TypedInv /\ VersionsContiguous /\ [Next]_vars => VersionsContiguous'
<1> SUFFICES ASSUME TypedInv, VersionsContiguous, [Next]_vars PROVE VersionsContiguous'
  OBVIOUS
<1>1. CASE UNCHANGED versions
  BY <1>1 DEF VersionsContiguous, RowsUpTo, RowsOf
<1>2. ASSUME NEW w \in Holders, RecordVersion(w) PROVE VersionsContiguous'
  <2>n. Len(versions) + 1 \in Nat
    BY <1>2, RecordVersionEffect
  <2> PICK n \in Nat : n = Len(versions) + 1
    BY <2>n
  <2> PICK p : p = planner[w].plan
    OBVIOUS
  <2>1. /\ Rows(versions') = Rows(versions) \union {n} /\ n \notin Rows(versions)
        /\ \A v \in Rows(versions) : versions'[v] = versions[v]
        /\ versions'[n] = NewRow(w) /\ NewRow(w).plan = p
    BY <1>2, RecordVersionEffect
  <2>2. \A v \in Rows(versions) : v < n /\ v \in Nat
    BY <1>2, RecordVersionEffect DEF TypedInv, TypeOK
  <2>3. \A q : RowsOf(q)' = RowsOf(q) \union (IF q = p THEN {n} ELSE {})
    BY <1>2, RowsOfAfter
  <2>4. \A q : RowsOf(q) \subseteq Rows(versions)
    BY DEF RowsOf
  <2>5. ASSUME NEW v \in Rows(versions)
        PROVE  (versions[v].version = Cardinality(RowsUpTo(versions[v].plan, v)))'
    <3> PICK q : q = versions[v].plan
      OBVIOUS
    <3>1. RowsUpTo(q, v)' = RowsUpTo(q, v)
      BY <2>2, <2>3, <2>4 DEF RowsUpTo
    <3>2. versions[v].version = Cardinality(RowsUpTo(q, v)) /\ versions'[v].plan = q
      BY <2>1 DEF VersionsContiguous
    <3>3. RowsUpTo(versions[v].plan, v)' = RowsUpTo(q, v)'
      BY <3>2 DEF RowsUpTo, RowsOf
    <3> QED
      BY <2>1, <3>1, <3>2, <3>3
  <2>6. (versions[n].version = Cardinality(RowsUpTo(versions[n].plan, n)))'
    <3>1. RowsUpTo(p, n)' = RowsOf(p) \union {n} /\ n \notin RowsOf(p)
      BY <2>1, <2>2, <2>3, <2>4 DEF RowsUpTo
    <3>2. Cardinality(RowsOf(p) \union {n}) = Cardinality(RowsOf(p)) + 1
      BY <3>1, RowsFinite, FS_AddElement DEF TypedInv
    <3>3. NewRow(w).version = Cardinality(RowsOf(p)) + 1
      BY <1>2, InsertedVersion
    <3>4. RowsUpTo(versions[n].plan, n)' = RowsUpTo(p, n)'
      BY <2>1 DEF RowsUpTo, RowsOf
    <3> QED
      BY <2>1, <3>1, <3>2, <3>3, <3>4
  <2> QED
    BY <2>1, <2>5, <2>6 DEF VersionsContiguous
<1> QED
  BY <1>1, <1>2, VersionsChange

-----------------------------------------------------------------------------
(* The audit trail *)

(***************************************************************************)
(* A new version has the highest number of its plan, and so comes before   *)
(* no other.                                                               *)
(***************************************************************************)
LEMMA BeforeKept ==
  ASSUME TypedInv, VersionsContiguous, NEW w \in Holders, RecordVersion(w),
         NEW v \in Rows(versions)
  PROVE  StateBefore(v)' = StateBefore(v)
<1>n. Len(versions) + 1 \in Nat
  BY RecordVersionEffect
<1> PICK n \in Nat : n = Len(versions) + 1
  BY <1>n
<1> PICK p : p = planner[w].plan
  OBVIOUS
<1>1. /\ n \notin Rows(versions) /\ v \in Rows(versions')
      /\ \A u \in Rows(versions) : versions'[u] = versions[u]
      /\ versions'[n] = NewRow(w)
  BY RecordVersionEffect
<1>2. \A q : RowsOf(q)' = RowsOf(q) \union (IF q = p THEN {n} ELSE {})
  BY RowsOfAfter
<1>3. \A q : RowsOf(q) \subseteq Rows(versions)
  BY DEF RowsOf
<1>4. versions[v].plan = p => NewRow(w).version # versions[v].version - 1
  <2> SUFFICES ASSUME versions[v].plan = p
               PROVE  NewRow(w).version # versions[v].version - 1
    OBVIOUS
  <2>1. v \in RowsOf(p)
    BY DEF RowsOf
  <2>2. versions[v].version <= Cardinality(RowsOf(p)) /\ versions[v].version \in Nat
    BY <2>1, VersionBounded, RowTyped DEF TypedInv
  <2>3. NewRow(w).version = Cardinality(RowsOf(p)) + 1 /\ Cardinality(RowsOf(p)) \in Nat
    BY InsertedVersion, RowsFinite, FS_CardinalityType DEF TypedInv
  <2> QED
    BY <2>2, <2>3
<1>5. Before(v)' = Before(v)
  <2> PICK q : q = versions[v].plan
    OBVIOUS
  <2>1. versions'[v] = versions[v]
    BY <1>1
  <2>2. Before(v)' = {u \in RowsOf(q)' : versions'[u].version = versions[v].version - 1}
    BY <2>1 DEF Before, RowsOf
  <2>3. Before(v) = {u \in RowsOf(q) : versions[u].version = versions[v].version - 1}
    BY DEF Before
  <2>4. n \in RowsOf(q)' => versions'[n].version # versions[v].version - 1
    BY <1>1, <1>2, <1>3, <1>4
  <2>5. \A u : u \in RowsOf(q)' /\ u # n => u \in RowsOf(q)
    BY <1>2
  <2>6. \A u \in RowsOf(q) : u \in RowsOf(q)' /\ u # n /\ versions'[u] = versions[u]
    BY <1>1, <1>2, <1>3
  <2> QED
    BY <2>2, <2>3, <2>4, <2>5, <2>6
<1>6. \A S : S = Before(v) /\ S # {} => (CHOOSE u \in S : TRUE) \in Rows(versions)
  BY DEF Before, RowsOf
<1> QED
  BY <1>1, <1>5, <1>6 DEF StateBefore

(* The state before a new version is that of the version which was read. *)
LEMMA BeforeInserted ==
  ASSUME TypedInv, VersionsContiguous, NEW w \in Holders, RecordVersion(w),
         NEW n, n = Len(versions) + 1
  PROVE  StateBefore(n)' = PreviousState(w)'
<1>t. planner \in [Holders -> AttemptState]
  BY DEF TypedInv, TypeOK
<1> PICK p : p = planner[w].plan
  OBVIOUS
<1> PICK l : l = planner[w].latest
  OBVIOUS
<1>1. /\ n \notin Rows(versions)
      /\ \A u \in Rows(versions) : versions'[u] = versions[u]
      /\ versions'[n] = NewRow(w)
      /\ NewRow(w).plan = p /\ NewRow(w).version = VersionOf(l) + 1
  BY RecordVersionEffect
<1>2. RowsOf(p)' = RowsOf(p) \union {n} /\ RowsOf(p) \subseteq Rows(versions)
  BY RowsOfAfter DEF RowsOf
<1>3. planner'[w].row = n /\ planner'[w].latest = l
  BY <1>t DEF RecordVersion
<1>4. l = 0 \/ l \in RowsOf(p)
  BY DEF TypedInv, AttemptsRefer, Refers, RecordVersion
<1>5. VersionOf(l) \in Nat
  BY <1>2, <1>4, RowTyped DEF VersionOf, TypedInv
<1>6. Before(n)' = {u \in RowsOf(p) : versions[u].version = VersionOf(l)}
  <2>1. Before(n)' = {u \in RowsOf(p)' : versions'[u].version = NewRow(w).version - 1}
    BY <1>1 DEF Before, RowsOf
  <2>2. NewRow(w).version - 1 = VersionOf(l) /\ NewRow(w).version # VersionOf(l)
    BY <1>1, <1>5
  <2> QED
    BY <1>1, <1>2, <2>1, <2>2
<1>7. CASE l = 0
  <2>1. \A u \in RowsOf(p) : versions[u].version # 0
    BY <1>2, RowTyped DEF TypedInv
  <2>2. Before(n)' = {}
    BY <1>6, <1>7, <2>1 DEF VersionOf
  <2>3. StateBefore(n)' = "none"
    BY <2>2 DEF StateBefore
  <2> QED
    BY <1>3, <1>7, <2>3 DEF PreviousState
<1>8. CASE l # 0
  <2>1. l \in RowsOf(p) /\ l \in Rows(versions) /\ VersionOf(l) = versions[l].version
    BY <1>2, <1>4, <1>8 DEF VersionOf
  <2>2. ASSUME NEW u \in RowsOf(p), versions[u].version = VersionOf(l) PROVE u = l
    <3>1. u \in Nat /\ l \in Nat
      BY <2>1, RowsFinite DEF TypedInv
    <3>2. versions[u].version \in Nat
      BY <1>2, RowTyped DEF TypedInv
    <3>3. ~(u < l) /\ ~(l < u)
      BY <2>1, <2>2, <3>2, VersionsAscend DEF TypedInv
    <3> QED
      BY <3>1, <3>3
  <2>3. Before(n)' = {l}
    BY <1>6, <2>1, <2>2
  <2>4. StateBefore(n)' = versions'[l].state
    BY <2>3 DEF StateBefore
  <2> QED
    BY <1>3, <1>8, <2>4 DEF PreviousState
<1> QED
  BY <1>7, <1>8

(***************************************************************************)
(* The steps that leave the audit trail alone: no attempt comes to record  *)
(* a row by them.                                                          *)
(***************************************************************************)
Quiet ==
  /\ UNCHANGED <<versions, transitions, agentRuns.success>>
  /\ \A u \in Holders :
       /\ Recording(u)' /\ planner'[u].row # 0 =>
            Recording(u) /\ planner'[u].row = planner[u].row
       /\ planner'[u].step \in {"recordTransition", "recordRun"} => planner'[u] = planner[u]

(* The steps of one attempt, seen from the others. *)
LEMMA OthersStay ==
  ASSUME TypedInv, NEW w \in Holders, Attempt(w) \/ Crash(w)
  PROVE  \A u \in Holders \ {w} : planner'[u] = planner[u]
BY DEF TypedInv, TypeOK, Attempt, StartAttempt, ReadActivePlan, GeneratePlan,
       ReadLatestVersion, RecordVersion, RecordTransition, RecordAgentRun, AttemptThrows,
       RecordFailedRun, RecordVerdictAndIntent, SubmitOrder, CompleteJob, PipelineThrows,
       Crash, Goto, Finish, Catch

LEMMA QuietSteps ==
  ASSUME TypedInv, [Next]_vars
  PROVE  \/ Quiet
         \/ \E w \in Holders :
              RecordVersion(w) \/ RecordTransition(w) \/ RecordAgentRun(w)
<1>t. planner \in [Holders -> AttemptState]
  BY DEF TypedInv, TypeOK
<1>1. ASSUME NEW w \in Holders, Attempt(w) \/ Crash(w),
             UNCHANGED <<versions, transitions, agentRuns.success>>,
             planner'[w].step \notin {"recordTransition", "recordRun"},
             \/ planner'[w].step # "recordFailedRun"
             \/ planner'[w].row = planner[w].row /\ planner[w].step \in InTry
      PROVE  Quiet
  <2>1. ASSUME NEW u \in Holders, Recording(u)', planner'[u].row # 0
        PROVE  Recording(u) /\ planner'[u].row = planner[u].row
    <3>1. CASE u # w
      BY <1>1, <2>1, <3>1, OthersStay DEF Recording
    <3>2. CASE u = w
      <4>1. planner[w].step \in InTry /\ planner'[w].row = planner[w].row
        BY <1>1, <2>1, <3>2 DEF Recording
      <4>2. planner[w].step \notin BeforeInsert
        BY <2>1, <3>2, <4>1 DEF TypedInv, AttemptsRefer, Refers
      <4> QED
        BY <3>2, <4>1, <4>2 DEF InTry, BeforeInsert, Recording
    <3> QED
      BY <3>1, <3>2
  <2>2. ASSUME NEW u \in Holders, planner'[u].step \in {"recordTransition", "recordRun"}
        PROVE  planner'[u] = planner[u]
    BY <1>1, <2>2, OthersStay
  <2> QED
    BY <1>1, <2>1, <2>2 DEF Quiet
<1>2. ASSUME NEW w \in Holders, NEW s \in Jobs, StartAttempt(w, s) PROVE Quiet
  <2>1. planner'[w].step = "readActive"
    BY <1>t, <1>2 DEF StartAttempt, Idle
  <2> QED
    BY <1>1, <1>2, <2>1 DEF Attempt, StartAttempt, ledger
<1>3. ASSUME NEW w \in Holders, ReadActivePlan(w) PROVE Quiet
  <2>1. planner'[w].step = "generate"
    BY <1>t, <1>3 DEF ReadActivePlan, AttemptState
  <2> QED
    BY <1>1, <1>3, <2>1 DEF Attempt, ReadActivePlan, ledger
<1>4. ASSUME NEW w \in Holders, GeneratePlan(w) PROVE Quiet
  <2>1. planner'[w].step = "readLatest"
    BY <1>t, <1>4 DEF GeneratePlan, AttemptState
  <2> QED
    BY <1>1, <1>4, <2>1 DEF Attempt, GeneratePlan
<1>5. ASSUME NEW w \in Holders, ReadLatestVersion(w) PROVE Quiet
  <2>1. planner'[w].step = "recordVersion"
    BY <1>t, <1>5 DEF ReadLatestVersion, AttemptState
  <2> QED
    BY <1>1, <1>5, <2>1 DEF Attempt, ReadLatestVersion, ledger
<1>6. ASSUME NEW w \in Holders, AttemptThrows(w) PROVE Quiet
  <2>1. planner'[w].step = "recordFailedRun" /\ planner'[w].row = planner[w].row
    BY <1>t, <1>6 DEF AttemptThrows, Catch, AttemptState
  <2> QED
    BY <1>1, <1>6, <2>1 DEF Attempt, AttemptThrows, ledger
<1>7. ASSUME NEW w \in Holders, Finish(w), Attempt(w) \/ Crash(w),
             UNCHANGED <<versions, transitions, agentRuns.success>>
      PROVE  Quiet
  <2>1. planner'[w].step = "idle"
    BY <1>t, <1>7 DEF Finish, Idle
  <2> QED
    BY <1>1, <1>7, <2>1
<1>8. ASSUME NEW w \in Holders, RecordFailedRun(w) PROVE Quiet
  <2>1. agentRuns'.success = agentRuns.success
    <3>1. agentRuns \in [success : SUBSET Nat, failed : Nat]
      BY DEF TypedInv, TypeOK
    <3> QED
      BY <1>8, <3>1 DEF RecordFailedRun
  <2> QED
    BY <1>7, <1>8, <2>1 DEF Attempt, RecordFailedRun
<1>9. ASSUME NEW w \in Holders, RecordVerdictAndIntent(w) \/ SubmitOrder(w) PROVE Quiet
  <2>1. Goto(w, "submit") \/ Goto(w, "updateStatus")
    BY <1>9 DEF RecordVerdictAndIntent, SubmitOrder
  <2>2. planner'[w].step \in {"submit", "updateStatus"}
    BY <1>t, <2>1 DEF Goto, AttemptState
  <2> QED
    BY <1>1, <1>9, <2>2 DEF Attempt, RecordVerdictAndIntent, SubmitOrder, ledger
<1>10. ASSUME NEW w \in Holders, CompleteJob(w) \/ PipelineThrows(w) \/ Crash(w)
       PROVE Quiet
  BY <1>7, <1>10 DEF Attempt, CompleteJob, PipelineThrows, Crash, ledger
<1>11. ASSUME NEW s \in Jobs, EnqueueSignal(s) \/ LockExpires(s) PROVE Quiet
  BY <1>11 DEF EnqueueSignal, LockExpires, ledger, Quiet, Recording
<1>12. CASE UNCHANGED vars
  BY <1>12 DEF vars, ledger, Quiet, Recording
<1> QED
  BY <1>2, <1>3, <1>4, <1>5, <1>6, <1>8, <1>9, <1>10, <1>11, <1>12 DEF Next, Attempt

TrailInv == RowsApart /\ RecordingExplained /\ SuccessExplained

LEMMA ExplainedKept ==
  ASSUME NEW v, Explained(v), versions'[v] = versions[v],
         StateBefore(v)' = StateBefore(v), RecordedFor(v)' = RecordedFor(v)
  PROVE  Explained(v)'
BY DEF Explained, Change

LEMMA RecordedAppend ==
  ASSUME TypedInv, NEW x \in TransitionRow, transitions' = Append(transitions, x), NEW v
  PROVE  RecordedFor(v)' = RecordedFor(v) \union (IF x.row = v THEN {x} ELSE {})
<1>n. transitions \in Seq(TransitionRow)
  BY DEF TypedInv, TypeOK
<1>1. PICK n : n = Len(transitions) + 1
  OBVIOUS
<1>2. /\ Rows(transitions') = Rows(transitions) \union {n} /\ n \notin Rows(transitions)
      /\ \A i \in Rows(transitions) : transitions'[i] = transitions[i]
      /\ transitions'[n] = x
  BY <1>n, <1>1, AppendRow
<1>3. ASSUME NEW t, t \in RecordedFor(v)'
      PROVE  t \in RecordedFor(v) \union (IF x.row = v THEN {x} ELSE {})
  BY <1>2, <1>3 DEF RecordedFor
<1>4. ASSUME NEW t, t \in RecordedFor(v) PROVE t \in RecordedFor(v)'
  <2>1. PICK k \in Rows(transitions) : transitions[k].row = v /\ transitions[k] = t
    BY <1>4 DEF RecordedFor
  <2>2. k \in Rows(transitions') /\ transitions'[k] = t /\ transitions'[k].row = v
    BY <1>2, <2>1
  <2> QED
    BY <2>2 DEF RecordedFor
<1>5. x.row = v => x \in RecordedFor(v)'
  BY <1>2 DEF RecordedFor
<1> QED
  BY <1>3, <1>4, <1>5

LEMMA QuietTrail ==
  ASSUME TypedInv, TrailInv, Quiet
  PROVE  TrailInv'
<1>1. RowsApart'
  BY DEF TrailInv, RowsApart, Quiet
<1>2. \A v : /\ StateBefore(v)' = StateBefore(v)
             /\ RecordedFor(v)' = RecordedFor(v)
             /\ Explained(v)' <=> Explained(v)
  BY DEF Quiet, StateBefore, Before, RowsOf, RecordedFor, Explained, Change
<1>3. RecordingExplained'
  BY <1>2 DEF TrailInv, RecordingExplained, PreviousState, Quiet
<1>4. SuccessExplained'
  BY <1>2 DEF TrailInv, SuccessExplained, Quiet
<1> QED
  BY <1>1, <1>3, <1>4 DEF TrailInv

LEMMA RecordVersionTrail ==
  ASSUME TypedInv, VersionsContiguous, TrailInv, NEW w \in Holders, RecordVersion(w)
  PROVE  TrailInv'
<1>t. planner \in [Holders -> AttemptState]
  BY DEF TypedInv, TypeOK
<1>n. Len(versions) + 1 \in Nat
  BY RecordVersionEffect
<1> PICK n \in Nat : n = Len(versions) + 1
  BY <1>n
<1>1. /\ Rows(versions') = Rows(versions) \union {n} /\ n \notin Rows(versions)
      /\ \A u \in Rows(versions) : versions'[u] = versions[u]
  BY RecordVersionEffect
<1>2. planner'[w].row = n /\ planner'[w].step = "recordTransition"
  BY <1>t DEF RecordVersion
<1>3. \A u \in Holders \ {w} : planner'[u] = planner[u]
  BY OthersStay DEF Attempt
<1>4. /\ \A u \in Holders : planner[u].row = 0 \/ planner[u].row \in Rows(versions)
      /\ agentRuns.success \subseteq Rows(versions)
      /\ \A t \in Rows(transitions) : transitions[t].row \in Rows(versions)
  BY DEF TypedInv, AttemptsRefer, Refers, TypeOK, RowsRefer
<1>5. UNCHANGED <<transitions, agentRuns>> /\ planner[w].step = "recordVersion"
  BY DEF RecordVersion
<1>6. \A v : RecordedFor(v)' = RecordedFor(v)
  BY <1>5 DEF RecordedFor
<1>7. n # 0
  BY RecordVersionEffect
<1>8. RowsApart'
  <2>1. ASSUME NEW u \in Holders, Recording(u)', planner'[u].row # 0
        PROVE  planner'[u].row \notin agentRuns'.success
    BY <1>1, <1>2, <1>3, <1>4, <1>5, <2>1 DEF TrailInv, RowsApart, Recording
  <2>2. ASSUME NEW u \in Holders, NEW v \in Holders, u # v,
               Recording(u)', Recording(v)', planner'[u].row # 0
        PROVE  planner'[v].row # planner'[u].row
    <3>1. CASE u = w
      BY <1>1, <1>2, <1>3, <1>4, <1>7, <2>2, <3>1
    <3>2. CASE v = w
      BY <1>1, <1>2, <1>3, <1>4, <1>7, <2>2, <3>2
    <3>3. CASE u # w /\ v # w
      BY <1>3, <2>2, <3>3 DEF TrailInv, RowsApart, Recording
    <3> QED
      BY <3>1, <3>2, <3>3
  <2> QED
    BY <2>1, <2>2 DEF RowsApart
<1>9. RecordingExplained'
  <2>1. PreviousState(w)' = StateBefore(n)' /\ RecordedFor(n)' = {}
    <3>1. RecordedFor(n) = {}
      BY <1>1, <1>4 DEF RecordedFor
    <3> QED
      BY <1>6, <3>1, BeforeInserted
  <2>2. ASSUME NEW u \in Holders \ {w}, NEW v \in Rows(versions), planner[u].row = v,
               planner[u].step = "recordTransition"
        PROVE  PreviousState(u)' = StateBefore(v)' /\ RecordedFor(v)' = {}
    <3>1. planner[u].latest = 0 \/ planner[u].latest \in Rows(versions)
      BY <2>2 DEF TypedInv, AttemptsRefer, Refers
    <3>2. PreviousState(u)' = PreviousState(u)
      BY <1>1, <1>3, <3>1 DEF PreviousState
    <3> QED
      BY <1>6, <2>2, <3>2, BeforeKept DEF TrailInv, RecordingExplained
  <2>3. ASSUME NEW u \in Holders \ {w}, NEW v \in Rows(versions), planner[u].row = v,
               planner[u].step = "recordRun"
        PROVE  Explained(v)'
    BY <1>1, <1>6, <2>3, BeforeKept, ExplainedKept DEF TrailInv, RecordingExplained
  <2>4. \A u \in Holders \ {w} : planner[u].step \in {"recordTransition", "recordRun"} =>
          planner[u].row \in Rows(versions)
    BY DEF TypedInv, AttemptsRefer, Refers
  <2> QED
    BY <1>2, <1>3, <2>1, <2>2, <2>3, <2>4 DEF RecordingExplained
<1>10. SuccessExplained'
  <2>1. ASSUME NEW v \in agentRuns.success PROVE Explained(v)'
    BY <1>1, <1>4, <1>6, BeforeKept, ExplainedKept DEF TrailInv, SuccessExplained
  <2> QED
    BY <1>5, <2>1 DEF SuccessExplained
<1> QED
  BY <1>8, <1>9, <1>10 DEF TrailInv

LEMMA RecordTransitionTrail ==
  ASSUME TypedInv, TrailInv, NEW w \in Holders, RecordTransition(w)
  PROVE  TrailInv'
<1>t. planner \in [Holders -> AttemptState]
  BY DEF TypedInv, TypeOK
<1>1. /\ planner'[w].row = planner[w].row /\ planner'[w].step = "recordRun"
      /\ planner[w].step = "recordTransition"
  BY <1>t DEF RecordTransition, Goto, AttemptState
<1>2. \A u \in Holders \ {w} : planner'[u] = planner[u]
  BY OthersStay DEF Attempt
<1>3. UNCHANGED <<versions, agentRuns>>
  BY DEF RecordTransition
<1> PICK v : v = planner[w].row
  OBVIOUS
<1>4. /\ v \in Rows(versions) /\ v # 0
      /\ versions[v].action = planner[w].action /\ versions[v].state = planner[w].state
  BY <1>1 DEF TypedInv, AttemptsRefer, Refers
<1>5. v \notin agentRuns.success /\ \A u \in Holders \ {w} : Recording(u) => planner[u].row # v
  BY <1>1, <1>4 DEF TrailInv, RowsApart, Recording
<1>6. StateBefore(v) = PreviousState(w) /\ RecordedFor(v) = {}
  BY <1>1, <1>4 DEF TrailInv, RecordingExplained
<1> DEFINE x == [row |-> v, from |-> PreviousState(w), to |-> planner[w].state]
<1>7. x \in TransitionRow /\ x = Change(v) /\ x.row = v
  <2>1. v \in Nat
    BY <1>4, RowTyped DEF TypedInv
  <2>2. PreviousState(w) \in PlanState \union {"none"}
    BY <1>1, RowTyped DEF PreviousState, TypedInv, AttemptsRefer, Refers
  <2>3. planner[w].state \in PlanState
    BY <1>t DEF AttemptState
  <2> QED
    BY <1>4, <1>6, <2>1, <2>2, <2>3 DEF TransitionRow, Change
<1>8. /\ transitions' = IF NeedsTransition(w) THEN Append(transitions, x) ELSE transitions
      /\ NeedsTransition(w) => Legal(w)
  BY DEF RecordTransition
<1>9. \A r : r # v => RecordedFor(r)' = RecordedFor(r)
  <2> HIDE DEF x
  <2>1. ASSUME NEW r, r # v, NeedsTransition(w) PROVE RecordedFor(r)' = RecordedFor(r)
    <3>1. RecordedFor(r)' = RecordedFor(r) \union (IF x.row = r THEN {x} ELSE {})
      BY <1>7, <1>8, <2>1, RecordedAppend
    <3> QED
      BY <1>7, <2>1, <3>1
  <2>2. CASE ~NeedsTransition(w)
    BY <1>8, <2>2 DEF RecordedFor
  <2> QED
    BY <2>1, <2>2
<1>10. \A r : StateBefore(r)' = StateBefore(r)
  BY <1>3 DEF StateBefore, Before, RowsOf
<1>11. Explained(v)'
  <2> HIDE DEF x
  <2>1. CASE NeedsTransition(w)
    <3>1. RecordedFor(v)' = {x}
      BY <1>6, <1>7, <1>8, <2>1, RecordedAppend
    <3>2. /\ ~(versions[v].action = "skip" \/ StateBefore(v) = versions[v].state)
          /\ CanTransition(StateBefore(v), versions[v].state)
      BY <1>4, <1>6, <1>8, <2>1 DEF NeedsTransition, Legal
    <3> QED
      BY <1>3, <1>7, <1>10, <3>1, <3>2 DEF Explained, Change
  <2>2. CASE ~NeedsTransition(w)
    <3>1. RecordedFor(v)' = {}
      BY <1>6, <1>8, <2>2 DEF RecordedFor
    <3>2. versions[v].action = "skip" \/ StateBefore(v) = versions[v].state
      BY <1>4, <1>6, <2>2 DEF NeedsTransition
    <3> QED
      BY <1>3, <1>10, <3>1, <3>2 DEF Explained
  <2> QED
    BY <2>1, <2>2
<1>12. RowsApart'
  <2>1. \A u \in Holders : /\ planner'[u].row = planner[u].row
                           /\ Recording(u)' => Recording(u)
    BY <1>1, <1>2 DEF Recording
  <2> QED
    BY <1>3, <2>1 DEF TrailInv, RowsApart
<1>13. RecordingExplained'
  <2>1. ASSUME NEW u \in Holders \ {w}, NEW r \in Rows(versions), planner[u].row = r
        PROVE  /\ planner[u].step = "recordTransition" =>
                    PreviousState(u)' = StateBefore(r)' /\ RecordedFor(r)' = {}
               /\ planner[u].step = "recordRun" => Explained(r)'
    <3>1. CASE planner[u].step \in {"recordTransition", "recordRun"}
      <4>1. r # v
        BY <1>5, <2>1, <3>1 DEF Recording
      <4>2. PreviousState(u)' = PreviousState(u)
        BY <1>2, <1>3 DEF PreviousState
      <4> QED
        BY <1>3, <1>9, <1>10, <2>1, <4>1, <4>2, ExplainedKept
         DEF TrailInv, RecordingExplained
    <3> QED
      BY <3>1
  <2> QED
    BY <1>1, <1>2, <1>3, <1>11, <2>1 DEF RecordingExplained
<1>14. SuccessExplained'
  BY <1>3, <1>5, <1>9, <1>10, ExplainedKept DEF TrailInv, SuccessExplained
<1> QED
  BY <1>12, <1>13, <1>14 DEF TrailInv

LEMMA RecordRunTrail ==
  ASSUME TypedInv, TrailInv, NEW w \in Holders, RecordAgentRun(w)
  PROVE  TrailInv'
<1>t. planner \in [Holders -> AttemptState]
  BY DEF TypedInv, TypeOK
<1>1. planner'[w].step = "recordVerdict" /\ planner[w].step = "recordRun"
  BY <1>t DEF RecordAgentRun, Goto, AttemptState
<1>2. \A u \in Holders \ {w} : planner'[u] = planner[u]
  BY OthersStay DEF Attempt
<1>3. UNCHANGED <<versions, transitions>>
  BY DEF RecordAgentRun
<1>4. agentRuns'.success = agentRuns.success \union {planner[w].row}
  <2>1. agentRuns \in [success : SUBSET Nat, failed : Nat]
    BY DEF TypedInv, TypeOK
  <2> QED
    BY <2>1 DEF RecordAgentRun
<1>5. planner[w].row \in Rows(versions) /\ planner[w].row # 0
  BY <1>1 DEF TypedInv, AttemptsRefer, Refers
<1>6. \A v : /\ StateBefore(v)' = StateBefore(v)
             /\ RecordedFor(v)' = RecordedFor(v)
             /\ Explained(v)' <=> Explained(v)
  BY <1>3 DEF StateBefore, Before, RowsOf, RecordedFor, Explained, Change
<1>7. RowsApart'
  <2>1. \A u \in Holders : Recording(u)' => u # w /\ Recording(u)
    BY <1>1, <1>2 DEF Recording
  <2>2. Recording(w)
    BY <1>1 DEF Recording
  <2> QED
    BY <1>2, <1>4, <1>5, <2>1, <2>2 DEF TrailInv, RowsApart
<1>8. RecordingExplained'
  BY <1>1, <1>2, <1>3, <1>6 DEF TrailInv, RecordingExplained, PreviousState
<1>9. SuccessExplained'
  <2>1. Explained(planner[w].row)
    BY <1>1, <1>5 DEF TrailInv, RecordingExplained
  <2> QED
    BY <1>4, <1>6, <2>1 DEF TrailInv, SuccessExplained
<1> QED
  BY <1>7, <1>8, <1>9 DEF TrailInv

LEMMA TrailStep ==
  TypedInv /\ VersionsContiguous /\ TrailInv /\ [Next]_vars => TrailInv'
BY QuietSteps, QuietTrail, RecordVersionTrail, RecordTransitionTrail, RecordRunTrail

-----------------------------------------------------------------------------
(* No version is lost to the audit *)

LEMMA AuditKept ==
  ASSUME TypedInv, AuditComplete, Unaudited' \subseteq Unaudited,
         agentRuns'.failed = agentRuns.failed, crashes' = crashes
  PROVE  AuditComplete'
<1>1. IsFiniteSet(Unaudited)
  <2>1. Unaudited \subseteq Rows(versions)
    BY DEF Unaudited
  <2> QED
    BY <2>1, RowsFinite, FS_Subset DEF TypedInv
<1>2. /\ Cardinality(Unaudited') <= Cardinality(Unaudited)
      /\ Cardinality(Unaudited') \in Nat /\ Cardinality(Unaudited) \in Nat
  BY <1>1, FS_Subset, FS_CardinalityType
<1>3. agentRuns.failed \in Nat /\ crashes \in Nat
  BY DEF TypedInv, TypeOK
<1>4. Cardinality(Unaudited) <= agentRuns.failed + crashes
  BY DEF AuditComplete
<1>5. Cardinality(Unaudited') <= agentRuns'.failed + crashes'
  BY <1>2, <1>3, <1>4
<1> QED
  BY <1>5 DEF AuditComplete

LEMMA AuditCharged ==
  ASSUME TypedInv, AuditComplete, NEW v, Unaudited' \subseteq Unaudited \union {v},
         agentRuns'.failed + crashes' = agentRuns.failed + crashes + 1
  PROVE  AuditComplete'
<1>1. IsFiniteSet(Unaudited)
  <2>1. Unaudited \subseteq Rows(versions)
    BY DEF Unaudited
  <2> QED
    BY <2>1, RowsFinite, FS_Subset DEF TypedInv
<1>2. /\ IsFiniteSet(Unaudited \union {v})
      /\ Cardinality(Unaudited \union {v}) <= Cardinality(Unaudited) + 1
  <2>1. Cardinality(Unaudited) \in Nat
    BY <1>1, FS_CardinalityType
  <2>2. /\ IsFiniteSet(Unaudited \union {v})
        /\ \/ Cardinality(Unaudited \union {v}) = Cardinality(Unaudited)
           \/ Cardinality(Unaudited \union {v}) = Cardinality(Unaudited) + 1
    BY <1>1, FS_AddElement
  <2> QED
    BY <2>1, <2>2
<1>3. /\ Cardinality(Unaudited') <= Cardinality(Unaudited \union {v})
      /\ Cardinality(Unaudited') \in Nat /\ Cardinality(Unaudited) \in Nat
      /\ Cardinality(Unaudited \union {v}) \in Nat
  BY <1>1, <1>2, FS_Subset, FS_CardinalityType
<1>4. agentRuns.failed \in Nat /\ crashes \in Nat
  BY DEF TypedInv, TypeOK
<1>5. Cardinality(Unaudited) <= agentRuns.failed + crashes
  BY DEF AuditComplete
<1>6. Cardinality(Unaudited') <= agentRuns'.failed + crashes'
  BY <1>2, <1>3, <1>4, <1>5
<1> QED
  BY <1>6 DEF AuditComplete

(* An attempt that goes on with its row, or has it in a successful run. *)
LEMMA AuditGoesOn ==
  ASSUME TypedInv, AuditComplete,
         versions' = versions, agentRuns.success \subseteq agentRuns'.success,
         \A u \in Holders : Recording(u) =>
           \/ Recording(u)' /\ planner'[u].row = planner[u].row
           \/ planner[u].row \in agentRuns'.success,
         agentRuns'.failed = agentRuns.failed, crashes' = crashes
  PROVE  AuditComplete'
<1>1. Unaudited' \subseteq Unaudited
  BY DEF Unaudited
<1> QED
  BY <1>1, AuditKept

LEMMA AuditStep == TypedInv /\ AuditComplete /\ [Next]_vars => AuditComplete'
<1> SUFFICES ASSUME TypedInv, AuditComplete, [Next]_vars PROVE AuditComplete'
  OBVIOUS
<1>t. planner \in [Holders -> AttemptState]
  BY DEF TypedInv, TypeOK
<1>a. agentRuns \in [success : SUBSET Nat, failed : Nat] /\ crashes \in Nat
  BY DEF TypedInv, TypeOK
<1>1. ASSUME NEW w \in Holders, Attempt(w), ~Recording(w),
             UNCHANGED <<versions, agentRuns, crashes>>
      PROVE  AuditComplete'
  <2>1. \A u \in Holders : Recording(u) => planner'[u] = planner[u]
    BY <1>1, OthersStay
  <2>2. \A u \in Holders : Recording(u) => Recording(u)' /\ planner'[u].row = planner[u].row
    BY <2>1 DEF Recording
  <2> QED
    BY <1>1, <2>2, AuditGoesOn
<1>2. ASSUME NEW w \in Holders, Attempt(w) \/ Crash(w), Finish(w),
             UNCHANGED <<versions, agentRuns.success>>,
             agentRuns'.failed + crashes' = agentRuns.failed + crashes + 1
      PROVE  AuditComplete'
  <2>1. \A u \in Holders \ {w} : planner'[u] = planner[u]
    BY <1>2, OthersStay
  <2> PICK r : r = planner[w].row
    OBVIOUS
  <2>2. Unaudited' \subseteq Unaudited \union {r}
    BY <1>2, <2>1 DEF Unaudited, Recording
  <2> QED
    BY <1>2, <2>2, AuditCharged
<1>3. ASSUME NEW w \in Holders, RecordVersion(w) PROVE AuditComplete'
  <2> PICK n : n = Len(versions) + 1
    OBVIOUS
  <2>1. Rows(versions') = Rows(versions) \union {n}
    BY <1>3, RecordVersionEffect
  <2>2. planner'[w].row = n /\ planner'[w].step = "recordTransition"
    BY <1>t, <1>3 DEF RecordVersion
  <2>3. \A u \in Holders : Recording(u) => planner'[u] = planner[u]
    BY <1>3, OthersStay DEF Attempt, Recording, RecordVersion
  <2>4. agentRuns' = agentRuns /\ crashes' = crashes
    BY <1>3 DEF RecordVersion
  <2>5. Unaudited' \subseteq Unaudited
    BY <2>1, <2>2, <2>3, <2>4 DEF Unaudited, Recording
  <2> QED
    BY <2>4, <2>5, AuditKept
<1>4. ASSUME NEW w \in Holders, RecordTransition(w) \/ AttemptThrows(w)
      PROVE AuditComplete'
  <2>1. /\ planner'[w].row = planner[w].row
        /\ planner'[w].step \in {"recordRun", "recordFailedRun"}
    BY <1>t, <1>4 DEF RecordTransition, AttemptThrows, Catch, Goto, AttemptState
  <2>2. \A u \in Holders : Recording(u) => Recording(u)' /\ planner'[u].row = planner[u].row
    BY <1>4, <2>1, OthersStay DEF Attempt, Recording
  <2> QED
    BY <1>4, <2>2, AuditGoesOn DEF RecordTransition, AttemptThrows, ledger
<1>5. ASSUME NEW w \in Holders, RecordAgentRun(w) PROVE AuditComplete'
  <2>1. /\ agentRuns'.success = agentRuns.success \union {planner[w].row}
        /\ agentRuns'.failed = agentRuns.failed
    BY <1>a, <1>5 DEF RecordAgentRun
  <2>2. \A u \in Holders \ {w} : planner'[u] = planner[u]
    BY <1>5, OthersStay DEF Attempt
  <2>3. \A u \in Holders : Recording(u) =>
          \/ Recording(u)' /\ planner'[u].row = planner[u].row
          \/ planner[u].row \in agentRuns'.success
    BY <2>1, <2>2 DEF Recording
  <2> QED
    BY <1>5, <2>1, <2>3, AuditGoesOn DEF RecordAgentRun
<1>6. ASSUME NEW w \in Holders, RecordFailedRun(w) PROVE AuditComplete'
  <2>1. /\ agentRuns'.success = agentRuns.success
        /\ agentRuns'.failed = agentRuns.failed + 1
    BY <1>a, <1>6 DEF RecordFailedRun
  <2>2. agentRuns'.failed + crashes' = agentRuns.failed + crashes + 1
    BY <1>a, <1>6, <2>1 DEF RecordFailedRun
  <2> QED
    BY <1>2, <1>6, <2>1, <2>2 DEF Attempt, RecordFailedRun
<1>7. ASSUME NEW w \in Holders, Crash(w) PROVE AuditComplete'
  <2>1. agentRuns'.failed + crashes' = agentRuns.failed + crashes + 1
    BY <1>a, <1>7 DEF Crash, ledger
  <2> QED
    BY <1>2, <1>7, <2>1 DEF Crash, ledger
<1>8. ASSUME NEW w \in Holders, NEW s \in Jobs, StartAttempt(w, s) PROVE AuditComplete'
  BY <1>1, <1>8 DEF Attempt, StartAttempt, Recording, ledger
<1>9. ASSUME NEW w \in Holders, ReadActivePlan(w) PROVE AuditComplete'
  BY <1>1, <1>9 DEF Attempt, ReadActivePlan, Recording, ledger
<1>10. ASSUME NEW w \in Holders, GeneratePlan(w) PROVE AuditComplete'
  BY <1>1, <1>10 DEF Attempt, GeneratePlan, Recording
<1>11. ASSUME NEW w \in Holders, ReadLatestVersion(w) PROVE AuditComplete'
  BY <1>1, <1>11 DEF Attempt, ReadLatestVersion, Recording, ledger
<1>12. ASSUME NEW w \in Holders, RecordVerdictAndIntent(w) PROVE AuditComplete'
  BY <1>1, <1>12 DEF Attempt, RecordVerdictAndIntent, Recording, ledger
<1>13. ASSUME NEW w \in Holders, SubmitOrder(w) PROVE AuditComplete'
  BY <1>1, <1>13 DEF Attempt, SubmitOrder, Recording, ledger
<1>14. ASSUME NEW w \in Holders, CompleteJob(w) \/ PipelineThrows(w) PROVE AuditComplete'
  BY <1>1, <1>14 DEF Attempt, CompleteJob, PipelineThrows, Pipeline, Recording, ledger
<1>15. ASSUME NEW s \in Jobs, EnqueueSignal(s) \/ LockExpires(s) PROVE AuditComplete'
  BY <1>15, AuditGoesOn DEF EnqueueSignal, LockExpires, Recording, ledger
<1>16. CASE UNCHANGED vars
  BY <1>16, AuditGoesOn DEF vars, ledger, Recording
<1> QED
  BY <1>3, <1>4, <1>5, <1>6, <1>7, <1>8, <1>9, <1>10, <1>11, <1>12, <1>13, <1>14,
     <1>15, <1>16
     DEF Next, Attempt

-----------------------------------------------------------------------------
(* Every version and every order is paid for with an attempt *)

LEMMA CardFalls ==
  ASSUME NEW V, IsFiniteSet(V), NEW U \in SUBSET V
  PROVE  /\ Cardinality(U) \in Nat /\ Cardinality(V) \in Nat
         /\ Cardinality(U) <= Cardinality(V)
BY FS_Subset, FS_CardinalityType

LEMMA CardAdds ==
  ASSUME NEW V, IsFiniteSet(V), NEW x, NEW U \in SUBSET (V \union {x})
  PROVE  /\ Cardinality(U) \in Nat /\ Cardinality(V) \in Nat
         /\ Cardinality(U) <= Cardinality(V) + 1
<1>1. Cardinality(V) \in Nat
  BY FS_CardinalityType
<1>2. /\ IsFiniteSet(V \union {x})
      /\ \/ Cardinality(V \union {x}) = Cardinality(V)
         \/ Cardinality(V \union {x}) = Cardinality(V) + 1
  BY FS_AddElement
<1>3. Cardinality(U) \in Nat /\ Cardinality(U) <= Cardinality(V \union {x})
  BY <1>2, CardFalls
<1> QED
  BY <1>1, <1>2, <1>3

LEMMA CardLoses ==
  ASSUME NEW V, IsFiniteSet(V), NEW x \in V, NEW U \in SUBSET (V \ {x})
  PROVE  /\ Cardinality(U) \in Nat /\ Cardinality(V) \in Nat
         /\ Cardinality(U) + 1 <= Cardinality(V)
<1>1. Cardinality(V) \in Nat
  BY FS_CardinalityType
<1>2. IsFiniteSet(V \ {x}) /\ Cardinality(V \ {x}) = Cardinality(V) - 1
  BY FS_RemoveElement
<1>3. Cardinality(U) \in Nat /\ Cardinality(U) <= Cardinality(V \ {x})
  BY <1>2, CardFalls
<1> QED
  BY <1>1, <1>2, <1>3

LEMMA SumsKept ==
  ASSUME NEW V, NEW W, IsFiniteSet(V), IsFiniteSet(W),
         NEW V2 \in SUBSET V, NEW W2 \in SUBSET W,
         NEW n \in Nat, Cardinality(V) + Cardinality(W) <= n
  PROVE  Cardinality(V2) + Cardinality(W2) <= n
<1>1. /\ Cardinality(V) \in Nat /\ Cardinality(W) \in Nat
      /\ Cardinality(V2) \in Nat /\ Cardinality(W2) \in Nat
      /\ Cardinality(V2) <= Cardinality(V) /\ Cardinality(W2) <= Cardinality(W)
  BY CardFalls
<1> QED
  BY <1>1

LEMMA ChargedFinite ==
  ASSUME TypedInv, NEW s
  PROVE  /\ IsFiniteSet(VersionsFor(s)) /\ IsFiniteSet(OrdersFor(s))
         /\ IsFiniteSet(Writing(s)) /\ IsFiniteSet(Trading(s))
<1>1. IsFiniteSet(Rows(versions)) /\ IsFiniteSet(Holders)
  BY RowsFinite, LedgerAssumption DEF TypedInv
<1>2. IsFiniteSet(Rows(orders))
  <2>1. Rows(orders) = 1..Len(orders) /\ Len(orders) \in Nat
    BY DEF TypedInv, TypeOK
  <2> QED
    BY <2>1, FS_Interval
<1>3. /\ VersionsFor(s) \subseteq Rows(versions) /\ OrdersFor(s) \subseteq Rows(orders)
      /\ Writing(s) \subseteq Holders /\ Trading(s) \subseteq Holders
  BY DEF VersionsFor, OrdersFor, Writing, Trading
<1> QED
  BY <1>1, <1>2, <1>3, FS_Subset

(***************************************************************************)
(* What a job has started changes by a start only: an attempt that ends    *)
(* is charged, or stays the last one of a completed job.                   *)
(***************************************************************************)
StartedKept ==
  \A r \in Jobs :
    /\ Started(r)' = Started(r)
    /\ attempts'[r] = MaxAttempts[r] => status'[r] = "failed"

LEMMA FailAttemptsStarted ==
  ASSUME TypedInv, AttemptsCharged, NEW s \in Jobs, FailAttempts({s})
  PROVE  StartedKept
<1>1. ASSUME NEW r \in Jobs, r # s
      PROVE  status'[r] = status[r] /\ attempts'[r] = attempts[r]
  BY <1>1 DEF FailAttempts
<1>2. /\ status[s] = "running" /\ attempts'[s] = attempts[s] + 1
      /\ status'[s] = IF attempts[s] + 1 >= MaxAttempts[s] THEN "failed" ELSE "pending"
  BY DEF FailAttempts
<1>3. attempts[s] \in Nat /\ MaxAttempts[s] \in Nat
  BY LedgerAssumption DEF TypedInv, TypeOK
<1> QED
  BY <1>1, <1>2, <1>3 DEF StartedKept, Started, AttemptsCharged

LEMMA StatusStarted ==
  ASSUME TypedInv, AttemptsCharged, NEW s \in Jobs, attempts' = attempts,
         \A r \in Jobs : r # s => status'[r] = status[r],
         \/ status[s] = "running" /\ status'[s] = "completed"
         \/ status[s] = "absent" /\ status'[s] = "pending"
  PROVE  StartedKept
<1>1. attempts[s] # MaxAttempts[s]
  BY DEF AttemptsCharged
<1>2. Started(s)' = Started(s)
  BY DEF Started
<1>3. \A r \in Jobs : r # s => Started(r)' = Started(r)
  BY DEF Started
<1> QED
  BY <1>1, <1>2, <1>3 DEF StartedKept, AttemptsCharged

LEMMA JobSteps ==
  ASSUME TypedInv, AttemptsCharged, [Next]_vars
  PROVE  StartedKept \/ \E w \in Holders, s \in Jobs : StartAttempt(w, s)
<1>1. ASSUME UNCHANGED jvars PROVE StartedKept
  BY <1>1 DEF jvars, StartedKept, Started, AttemptsCharged
<1>2. ASSUME NEW w \in Holders, planner[w].step # "idle", ReportFailure(w)
      PROVE StartedKept
  <2>1. planner[w].signal \in Jobs
    BY <1>2 DEF TypedInv, AttemptsRefer, Refers
  <2>2. CASE holder[planner[w].signal] = w
    BY <1>2, <2>1, <2>2, FailAttemptsStarted DEF ReportFailure
  <2>3. CASE holder[planner[w].signal] # w
    BY <1>1, <1>2, <2>3 DEF ReportFailure
  <2> QED
    BY <2>2, <2>3
<1>3. ASSUME NEW w \in Holders, CompleteJob(w) PROVE StartedKept
  <2> PICK s : s = planner[w].signal
    OBVIOUS
  <2>1. s \in Jobs
    BY <1>3 DEF TypedInv, AttemptsRefer, Refers, CompleteJob
  <2>2. CASE holder[s] = w
    <3>1. /\ \A r \in Jobs : r # s => status'[r] = status[r]
          /\ status[s] = "running" /\ status'[s] = "completed" /\ attempts' = attempts
      BY <1>3, <2>1, <2>2 DEF CompleteJob, Succeed, TypedInv, TypeOK
    <3> QED
      BY <2>1, <3>1, StatusStarted
  <2>3. CASE holder[s] # w
    BY <1>1, <1>3, <2>3 DEF CompleteJob
  <2> QED
    BY <2>2, <2>3
<1>4. ASSUME NEW s \in Jobs, EnqueueSignal(s) PROVE StartedKept
  <2>1. /\ \A r \in Jobs : r # s => status'[r] = status[r]
        /\ status[s] = "absent" /\ status'[s] = "pending" /\ attempts' = attempts
    BY <1>4 DEF EnqueueSignal, Create, TypedInv, TypeOK
  <2> QED
    BY <2>1, StatusStarted
<1>5. ASSUME NEW s \in Jobs, LockExpires(s) PROVE StartedKept
  BY <1>5, FailAttemptsStarted DEF LockExpires
<1>6. ASSUME NEW w \in Holders, RecordFailedRun(w) \/ PipelineThrows(w) PROVE StartedKept
  BY <1>2, <1>6 DEF RecordFailedRun, PipelineThrows, Pipeline
<1>7. ASSUME NEW w \in Holders,
             ReadActivePlan(w) \/ GeneratePlan(w) \/ ReadLatestVersion(w) \/ RecordVersion(w)
             \/ RecordTransition(w) \/ RecordAgentRun(w) \/ AttemptThrows(w)
             \/ RecordVerdictAndIntent(w) \/ SubmitOrder(w) \/ Crash(w)
      PROVE  UNCHANGED jvars
  BY <1>7 DEF ReadActivePlan, GeneratePlan, ReadLatestVersion, RecordVersion,
       RecordTransition, RecordAgentRun, AttemptThrows, RecordVerdictAndIntent, SubmitOrder,
       Crash
<1>8. CASE UNCHANGED vars
  BY <1>1, <1>8 DEF vars
<1> QED
  BY <1>1, <1>3, <1>4, <1>5, <1>6, <1>7, <1>8 DEF Next, Attempt

(***************************************************************************)
(* An attempt goes its way once: no step but a start brings it back before *)
(* its version or its order.                                               *)
(***************************************************************************)
TradingSteps == InTry \union {"recordVerdict", "submit"}

Onwards ==
  \A u \in Holders :
    /\ planner'[u].step \in BeforeInsert =>
         planner[u].step \in BeforeInsert /\ planner'[u].signal = planner[u].signal
    /\ planner'[u].step \in TradingSteps =>
         planner[u].step \in TradingSteps /\ planner'[u].signal = planner[u].signal

LEMMA OnwardsOne ==
  ASSUME TypedInv, NEW w \in Holders, Attempt(w) \/ Crash(w),
         \/ planner'[w].step \notin BeforeInsert
         \/ planner[w].step \in BeforeInsert /\ planner'[w].signal = planner[w].signal,
         \/ planner'[w].step \notin TradingSteps
         \/ planner[w].step \in TradingSteps /\ planner'[w].signal = planner[w].signal
  PROVE  Onwards
<1>1. ASSUME NEW u \in Holders, u # w PROVE planner'[u] = planner[u]
  BY <1>1, OthersStay
<1> QED
  BY <1>1 DEF Onwards

LEMMA OnwardsSteps ==
  ASSUME TypedInv, [Next]_vars
  PROVE  Onwards \/ \E w \in Holders, s \in Jobs : StartAttempt(w, s)
<1>t. planner \in [Holders -> AttemptState]
  BY DEF TypedInv, TypeOK
<1> USE DEF BeforeInsert, TradingSteps, InTry
<1>1. ASSUME NEW w \in Holders,
             ReadActivePlan(w) \/ GeneratePlan(w) \/ ReadLatestVersion(w)
      PROVE  Onwards
  <2>1. /\ planner[w].step \in BeforeInsert /\ planner'[w].signal = planner[w].signal
        /\ planner[w].step \in TradingSteps
    BY <1>t, <1>1 DEF ReadActivePlan, GeneratePlan, ReadLatestVersion, AttemptState
  <2> QED
    BY <1>1, <2>1, OnwardsOne DEF Attempt
<1>2. ASSUME NEW w \in Holders,
             RecordVersion(w) \/ RecordTransition(w) \/ RecordAgentRun(w)
      PROVE  Onwards
  <2>1. planner'[w].step \in {"recordTransition", "recordRun", "recordVerdict"}
    BY <1>t, <1>2 DEF RecordVersion, RecordTransition, RecordAgentRun, Goto, AttemptState
  <2>2. planner[w].step \in TradingSteps /\ planner'[w].signal = planner[w].signal
    BY <1>t, <1>2 DEF RecordVersion, RecordTransition, RecordAgentRun, Goto, AttemptState
  <2> QED
    BY <1>2, <2>1, <2>2, OnwardsOne DEF Attempt
<1>3. ASSUME NEW w \in Holders, RecordVerdictAndIntent(w) \/ SubmitOrder(w)
      PROVE  Onwards
  <2>1. Goto(w, "submit") \/ Goto(w, "updateStatus")
    BY <1>3 DEF RecordVerdictAndIntent, SubmitOrder
  <2>2. /\ planner'[w].step \in {"submit", "updateStatus"}
        /\ planner'[w].signal = planner[w].signal
    BY <1>t, <2>1 DEF Goto, AttemptState
  <2>3. planner[w].step \in TradingSteps
    BY <1>3 DEF RecordVerdictAndIntent, SubmitOrder
  <2> QED
    BY <1>3, <2>2, <2>3, OnwardsOne DEF Attempt
<1>4. ASSUME NEW w \in Holders,
             AttemptThrows(w) \/ RecordFailedRun(w) \/ CompleteJob(w) \/ PipelineThrows(w)
             \/ Crash(w)
      PROVE  Onwards
  <2>1. Catch(w) \/ Finish(w)
    BY <1>4 DEF AttemptThrows, RecordFailedRun, CompleteJob, PipelineThrows, Crash
  <2>2. planner'[w].step \in {"idle", "recordFailedRun"}
    BY <1>t, <2>1, IdleType DEF Catch, Finish, AttemptState
  <2> QED
    BY <1>4, <2>2, OnwardsOne DEF Attempt
<1>5. ASSUME NEW s \in Jobs, EnqueueSignal(s) \/ LockExpires(s) PROVE Onwards
  BY <1>5 DEF EnqueueSignal, LockExpires, Onwards
<1>6. CASE UNCHANGED vars
  BY <1>6 DEF vars, Onwards
<1> QED
  BY <1>1, <1>2, <1>3, <1>4, <1>5, <1>6 DEF Next, Attempt

LEMMA RowSteps ==
  ASSUME [Next]_vars
  PROVE  \/ UNCHANGED <<versions, orders>>
         \/ \E w \in Holders : RecordVersion(w) \/ SubmitOrder(w)
BY DEF Next, Attempt, vars, ledger, StartAttempt, ReadActivePlan, GeneratePlan,
       ReadLatestVersion, RecordTransition, RecordAgentRun, AttemptThrows, RecordFailedRun,
       RecordVerdictAndIntent, CompleteJob, PipelineThrows, Crash,
       EnqueueSignal, LockExpires

LEMMA ChargedInit == Init => AttemptsCharged
<1> SUFFICES ASSUME Init, NEW s \in Jobs
             PROVE  /\ Cardinality(VersionsFor(s)) + Cardinality(Writing(s)) <= Started(s)
                    /\ Cardinality(OrdersFor(s)) + Cardinality(Trading(s)) <= Started(s)
                    /\ attempts[s] = MaxAttempts[s] => status[s] = "failed"
  BY DEF AttemptsCharged
<1>1. /\ VersionsFor(s) = {} /\ OrdersFor(s) = {} /\ Writing(s) = {} /\ Trading(s) = {}
  BY DEF Init, VersionsFor, OrdersFor, Writing, Trading, Idle, BeforeInsert, InTry
<1>2. Started(s) = 0 /\ attempts[s] # MaxAttempts[s]
  BY LedgerAssumption DEF Init, JInit, Started
<1> QED
  BY <1>1, <1>2, FS_EmptySet

LEMMA ChargedStep ==
  TypedInv /\ AttemptsCharged /\ [Next]_vars => AttemptsCharged'
<1> SUFFICES ASSUME TypedInv, AttemptsCharged, [Next]_vars, NEW s \in Jobs
             PROVE  (/\ Cardinality(VersionsFor(s)) + Cardinality(Writing(s)) <= Started(s)
                     /\ Cardinality(OrdersFor(s)) + Cardinality(Trading(s)) <= Started(s)
                     /\ attempts[s] = MaxAttempts[s] => status[s] = "failed")'
  BY DEF AttemptsCharged
<1>t. planner \in [Holders -> AttemptState]
  BY DEF TypedInv, TypeOK
<1>f. /\ IsFiniteSet(VersionsFor(s)) /\ IsFiniteSet(OrdersFor(s))
      /\ IsFiniteSet(Writing(s)) /\ IsFiniteSet(Trading(s))
  BY ChargedFinite
<1>i. /\ Cardinality(VersionsFor(s)) + Cardinality(Writing(s)) <= Started(s)
      /\ Cardinality(OrdersFor(s)) + Cardinality(Trading(s)) <= Started(s)
      /\ Started(s) \in Nat
  BY DEF AttemptsCharged, Started, TypedInv, TypeOK
<1>1. ASSUME NEW w \in Holders, NEW j \in Jobs, StartAttempt(w, j)
      PROVE  (/\ Cardinality(VersionsFor(s)) + Cardinality(Writing(s)) <= Started(s)
              /\ Cardinality(OrdersFor(s)) + Cardinality(Trading(s)) <= Started(s)
              /\ attempts[s] = MaxAttempts[s] => status[s] = "failed")'
  <2>1. \A u \in Holders \ {w} : planner'[u] = planner[u]
    BY <1>1, OthersStay DEF Attempt
  <2>2. planner'[w].signal = j
    BY <1>t, <1>1 DEF StartAttempt, Idle
  <2>3. VersionsFor(s)' = VersionsFor(s) /\ OrdersFor(s)' = OrdersFor(s)
    BY <1>1 DEF StartAttempt, ledger, VersionsFor, OrdersFor
  <2>4. CASE s = j
    <3>1. /\ Writing(s)' \subseteq Writing(s) \union {w}
          /\ Trading(s)' \subseteq Trading(s) \union {w}
      BY <2>1 DEF Writing, Trading
    <3>2. /\ status[s] = "pending" /\ status'[s] = "running" /\ attempts'[s] = attempts[s]
      BY <1>1, <2>4 DEF StartAttempt, Start, TypedInv, TypeOK
    <3>3. Started(s)' = Started(s) + 1
      BY <3>2 DEF Started, TypedInv, TypeOK
    <3>4. attempts'[s] # MaxAttempts[s]
      BY <3>2 DEF AttemptsCharged
    <3>5. /\ Cardinality(Writing(s)') <= Cardinality(Writing(s)) + 1
          /\ Cardinality(Trading(s)') <= Cardinality(Trading(s)) + 1
          /\ Cardinality(Writing(s)) \in Nat /\ Cardinality(Trading(s)) \in Nat
          /\ Cardinality(Writing(s)') \in Nat /\ Cardinality(Trading(s)') \in Nat
      BY <1>f, <3>1, CardAdds
    <3>6. Cardinality(VersionsFor(s)) \in Nat /\ Cardinality(OrdersFor(s)) \in Nat
      BY <1>f, FS_CardinalityType
    <3> QED
      BY <1>i, <2>3, <3>3, <3>4, <3>5, <3>6
  <2>5. CASE s # j
    <3>1. Writing(s)' \subseteq Writing(s) /\ Trading(s)' \subseteq Trading(s)
      BY <2>1, <2>2, <2>5 DEF Writing, Trading
    <3>2. status'[s] = status[s] /\ attempts'[s] = attempts[s]
      BY <1>1, <2>5 DEF StartAttempt, Start, TypedInv, TypeOK
    <3>3. /\ Started(s)' = Started(s)
          /\ attempts'[s] = MaxAttempts[s] => status'[s] = "failed"
      BY <3>2 DEF Started, AttemptsCharged
    <3> QED
      BY <1>f, <1>i, <2>3, <3>1, <3>3, SumsKept
  <2> QED
    BY <2>4, <2>5
<1>2. CASE Onwards /\ StartedKept
  <2>1. /\ Started(s)' = Started(s)
        /\ attempts'[s] = MaxAttempts[s] => status'[s] = "failed"
    BY <1>2 DEF StartedKept
  <2>2. Writing(s)' \subseteq Writing(s) /\ Trading(s)' \subseteq Trading(s)
    BY <1>2 DEF Onwards, TradingSteps, Writing, Trading
  <2>3. CASE UNCHANGED <<versions, orders>>
    <3>1. VersionsFor(s)' = VersionsFor(s) /\ OrdersFor(s)' = OrdersFor(s)
      BY <2>3 DEF VersionsFor, OrdersFor
    <3> QED
      BY <1>f, <1>i, <2>1, <2>2, <3>1, SumsKept
  <2>4. ASSUME NEW w \in Holders, RecordVersion(w)
        PROVE  /\ Cardinality(VersionsFor(s)') + Cardinality(Writing(s)') <= Started(s)
               /\ Cardinality(OrdersFor(s)') + Cardinality(Trading(s)') <= Started(s)
    <3> PICK n : n = Len(versions) + 1
      OBVIOUS
    <3>1. /\ Rows(versions') = Rows(versions) \union {n} /\ n \notin Rows(versions)
          /\ \A v \in Rows(versions) : versions'[v] = versions[v]
          /\ versions'[n].signal = planner[w].signal
      BY <2>4, RecordVersionEffect
    <3>2. OrdersFor(s)' = OrdersFor(s)
      <4>1. orders' = orders /\ \A o \in Rows(orders) : orders[o].row \in Rows(versions)
        BY <2>4 DEF RecordVersion, TypedInv, TypeOK, RowsRefer
      <4> QED
        BY <3>1, <4>1 DEF OrdersFor
    <3>3. CASE planner[w].signal = s
      <4>1. VersionsFor(s)' \subseteq VersionsFor(s) \union {n}
        BY <3>1 DEF VersionsFor
      <4>2. w \in Writing(s)
        BY <2>4, <3>3 DEF Writing, RecordVersion, BeforeInsert
      <4>3. w \notin Writing(s)'
        BY <1>t, <2>4 DEF Writing, RecordVersion, BeforeInsert, AttemptState
      <4>4. Writing(s)' \subseteq Writing(s) \ {w}
        BY <2>2, <4>3
      <4>5. Cardinality(VersionsFor(s)') + Cardinality(Writing(s)') <= Started(s)
        <5>1. /\ Cardinality(VersionsFor(s)') <= Cardinality(VersionsFor(s)) + 1
              /\ Cardinality(VersionsFor(s)') \in Nat
              /\ Cardinality(VersionsFor(s)) \in Nat
          BY <1>f, <4>1, CardAdds
        <5>2. /\ Cardinality(Writing(s)') + 1 <= Cardinality(Writing(s))
              /\ Cardinality(Writing(s)') \in Nat /\ Cardinality(Writing(s)) \in Nat
          BY <1>f, <4>2, <4>4, CardLoses
        <5> QED
          BY <1>i, <5>1, <5>2
      <4>6. Cardinality(OrdersFor(s)) + Cardinality(Trading(s)') <= Started(s)
        BY <1>f, <1>i, <2>2, SumsKept
      <4> QED
        BY <3>2, <4>5, <4>6
    <3>4. CASE planner[w].signal # s
      <4>1. VersionsFor(s)' = VersionsFor(s)
        BY <3>1, <3>4 DEF VersionsFor
      <4> QED
        BY <1>f, <1>i, <2>2, <3>2, <4>1, SumsKept
    <3> QED
      BY <3>3, <3>4
  <2>5. ASSUME NEW w \in Holders, SubmitOrder(w)
        PROVE  /\ Cardinality(VersionsFor(s)') + Cardinality(Writing(s)') <= Started(s)
               /\ Cardinality(OrdersFor(s)') + Cardinality(Trading(s)') <= Started(s)
    <3> PICK n : n = Len(orders) + 1
      OBVIOUS
    <3> PICK r : r = planner[w].row
      OBVIOUS
    <3>1. /\ Rows(orders') = Rows(orders) \union {n} /\ n \notin Rows(orders)
          /\ \A o \in Rows(orders) : orders'[o] = orders[o]
          /\ orders'[n].row = r
      <4>1. r \in Nat /\ r \in Rows(versions)
        BY <2>5, RowTyped DEF TypedInv, AttemptsRefer, Refers, SubmitOrder, Pipeline
      <4>2. [row |-> r, clientId |-> ClientOrderId(r)] \in [row : Nat, clientId : Nat]
        BY <4>1, RowTyped DEF ClientOrderId, TypedInv
      <4>3. /\ orders \in Seq([row : Nat, clientId : Nat])
            /\ orders' = Append(orders, [row |-> r, clientId |-> ClientOrderId(r)])
        BY <2>5 DEF TypedInv, TypeOK, SubmitOrder
      <4> QED
        BY <4>2, <4>3, AppendRow
    <3>2. versions' = versions /\ versions[r].signal = planner[w].signal
      BY <2>5 DEF SubmitOrder, ledger, TypedInv, AttemptsRefer, Refers, Pipeline
    <3>3. VersionsFor(s)' = VersionsFor(s)
      BY <3>2 DEF VersionsFor
    <3>4. Cardinality(VersionsFor(s)) + Cardinality(Writing(s)') <= Started(s)
      BY <1>f, <1>i, <2>2, SumsKept
    <3>5. CASE planner[w].signal = s
      <4>1. OrdersFor(s)' \subseteq OrdersFor(s) \union {n}
        BY <3>1, <3>2 DEF OrdersFor
      <4>2. w \in Trading(s)
        BY <2>5, <3>5 DEF Trading, SubmitOrder
      <4>3. w \notin Trading(s)'
        BY <1>t, <2>5 DEF Trading, SubmitOrder, Goto, InTry, AttemptState
      <4>4. Trading(s)' \subseteq Trading(s) \ {w}
        BY <2>2, <4>3
      <4>5. Cardinality(OrdersFor(s)') + Cardinality(Trading(s)') <= Started(s)
        <5>1. /\ Cardinality(OrdersFor(s)') <= Cardinality(OrdersFor(s)) + 1
              /\ Cardinality(OrdersFor(s)') \in Nat /\ Cardinality(OrdersFor(s)) \in Nat
          BY <1>f, <4>1, CardAdds
        <5>2. /\ Cardinality(Trading(s)') + 1 <= Cardinality(Trading(s))
              /\ Cardinality(Trading(s)') \in Nat /\ Cardinality(Trading(s)) \in Nat
          BY <1>f, <4>2, <4>4, CardLoses
        <5> QED
          BY <1>i, <5>1, <5>2
      <4> QED
        BY <3>3, <3>4, <4>5
    <3>6. CASE planner[w].signal # s
      <4>1. OrdersFor(s)' = OrdersFor(s)
        BY <3>1, <3>2, <3>6 DEF OrdersFor
      <4> QED
        BY <1>f, <1>i, <2>2, <3>3, <4>1, SumsKept
    <3> QED
      BY <3>5, <3>6
  <2> QED
    BY <2>1, <2>3, <2>4, <2>5, RowSteps
<1> QED
  BY <1>1, <1>2, JobSteps, OnwardsSteps
-----------------------------------------------------------------------------
(* One plan at a time *)

LEMMA OneByOneInit == Init => OneByOne
BY DEF Init, OneByOne, Planning, PlanningRefers, Idle, Open, LatestOfPlan, RowsOf

(***************************************************************************)
(* The steps that neither begin to plan nor write: the queries have the    *)
(* same results, and an attempt that plans keeps its plan.                 *)
(***************************************************************************)
ThesisQuiet ==
  /\ UNCHANGED <<versions, plans>>
  /\ overlapped => overlapped'
  /\ \A u \in Holders :
       /\ planner'[u].step = "generate" => planner'[u] = planner[u]
       /\ planner'[u].step \in {"readLatest", "recordVersion"} =>
            /\ planner[u].step \in {"readLatest", "recordVersion"}
            /\ planner'[u].plan = planner[u].plan
            /\ planner'[u].createdAt = planner[u].createdAt

LEMMA QueriesKept ==
  ASSUME UNCHANGED versions
  PROVE  /\ ActivePlan' = ActivePlan
         /\ \A p : RowsOf(p)' = RowsOf(p) /\ (Open(p)' <=> Open(p))
BY DEF ActivePlan, LatestOfMarket, RowsOf, Open, LatestOfPlan

LEMMA QuietThesis ==
  ASSUME OneByOne, ThesisQuiet
  PROVE  OneByOne'
<1> SUFFICES ASSUME ~overlapped'
             PROVE  (/\ \A w, u \in Holders : Planning(w) /\ Planning(u) => w = u
                     /\ \A u, v \in Rows(versions) :
                          u < v => versions[u].createdAt < versions[v].createdAt
                     /\ \A p \in 1..plans : Open(p) => p = ActivePlan
                     /\ \A w \in Holders : PlanningRefers(w))'
  BY DEF OneByOne
<1>o. ~overlapped /\ UNCHANGED <<versions, plans>>
  BY DEF ThesisQuiet
<1>q. /\ ActivePlan' = ActivePlan
      /\ \A p : RowsOf(p)' = RowsOf(p) /\ (Open(p)' <=> Open(p))
  BY <1>o, QueriesKept
<1>1. \A u \in Holders : Planning(u)' => Planning(u)
  BY DEF ThesisQuiet, Planning
<1>2. ASSUME NEW w \in Holders PROVE PlanningRefers(w)'
  <2>1. PlanningRefers(w)
    BY <1>o DEF OneByOne
  <2>2. planner'[w].step = "generate" => planner'[w].plan = ActivePlan'
    BY <1>q, <2>1 DEF ThesisQuiet, PlanningRefers
  <2>3. ASSUME planner'[w].step \in {"readLatest", "recordVersion"}
        PROVE  (/\ planner[w].plan = ActivePlan \/ (ActivePlan = 0 /\ RowsOf(planner[w].plan) = {})
                /\ \A v \in Rows(versions) : versions[v].createdAt < planner[w].createdAt)'
    <3>1. /\ planner[w].step \in {"readLatest", "recordVersion"}
          /\ planner'[w].plan = planner[w].plan
          /\ planner'[w].createdAt = planner[w].createdAt
      BY <2>3 DEF ThesisQuiet
    <3>2. RowsOf(planner[w].plan)' = RowsOf(planner[w].plan)
      BY <1>o, <3>1 DEF RowsOf
    <3> QED
      BY <1>o, <1>q, <2>1, <3>1, <3>2 DEF PlanningRefers
  <2> QED
    BY <2>2, <2>3 DEF PlanningRefers
<1> QED
  BY <1>o, <1>q, <1>1, <1>2 DEF OneByOne

LEMMA ThesisQuietSteps ==
  ASSUME TypedInv, [Next]_vars
  PROVE  \/ ThesisQuiet
         \/ \E w \in Holders : ReadActivePlan(w) \/ GeneratePlan(w) \/ RecordVersion(w)
<1>t. planner \in [Holders -> AttemptState]
  BY DEF TypedInv, TypeOK
<1>1. ASSUME NEW w \in Holders, Attempt(w) \/ Crash(w),
             UNCHANGED <<versions, plans, overlapped>>, ~Planning(w)'
      PROVE  ThesisQuiet
  BY <1>1, OthersStay DEF ThesisQuiet, Planning
<1>2. ASSUME NEW w \in Holders, NEW s \in Jobs, StartAttempt(w, s) PROVE ThesisQuiet
  <2>1. planner'[w].step = "readActive"
    BY <1>t, <1>2 DEF StartAttempt, Idle
  <2> QED
    BY <1>1, <1>2, <2>1 DEF Attempt, StartAttempt, ledger, Planning
<1>3. ASSUME NEW w \in Holders, ReadLatestVersion(w) PROVE ThesisQuiet
  <2>1. /\ planner'[w].step = "recordVersion" /\ planner[w].step = "readLatest"
        /\ planner'[w].plan = planner[w].plan
        /\ planner'[w].createdAt = planner[w].createdAt
    BY <1>t, <1>3 DEF ReadLatestVersion, AttemptState
  <2>2. \A u \in Holders \ {w} : planner'[u] = planner[u]
    BY <1>3, OthersStay DEF Attempt
  <2> QED
    BY <1>3, <2>1, <2>2 DEF ThesisQuiet, ReadLatestVersion, ledger
<1>4. ASSUME NEW w \in Holders, NEW step \in {"recordRun", "recordVerdict", "submit", "updateStatus"},
             Goto(w, step), Attempt(w), UNCHANGED <<versions, plans, overlapped>>
      PROVE  ThesisQuiet
  <2>1. planner'[w].step = step
    BY <1>t, <1>4 DEF Goto, AttemptState
  <2> QED
    BY <1>1, <1>4, <2>1 DEF Planning
<1>5. ASSUME NEW w \in Holders, RecordTransition(w) \/ RecordAgentRun(w) PROVE ThesisQuiet
  BY <1>4, <1>5 DEF Attempt, RecordTransition, RecordAgentRun
<1>6. ASSUME NEW w \in Holders, RecordVerdictAndIntent(w) \/ SubmitOrder(w)
      PROVE ThesisQuiet
  <2>1. Goto(w, "submit") \/ Goto(w, "updateStatus")
    BY <1>6 DEF RecordVerdictAndIntent, SubmitOrder
  <2> QED
    BY <1>4, <1>6, <2>1 DEF Attempt, RecordVerdictAndIntent, SubmitOrder, ledger
<1>7. ASSUME NEW w \in Holders,
             AttemptThrows(w) \/ RecordFailedRun(w) \/ CompleteJob(w) \/ PipelineThrows(w)
             \/ Crash(w)
      PROVE  ThesisQuiet
  <2>1. Catch(w) \/ Finish(w)
    BY <1>7 DEF AttemptThrows, RecordFailedRun, CompleteJob, PipelineThrows, Crash
  <2>2. planner'[w].step \in {"idle", "recordFailedRun"}
    BY <1>t, <2>1, IdleType DEF Catch, Finish, AttemptState
  <2>3. UNCHANGED <<versions, plans, overlapped>>
    BY <1>7 DEF AttemptThrows, RecordFailedRun, CompleteJob, PipelineThrows, Crash, ledger
  <2> QED
    BY <1>1, <1>7, <2>2, <2>3 DEF Attempt, Planning
<1>8. ASSUME NEW s \in Jobs, EnqueueSignal(s) \/ LockExpires(s) PROVE ThesisQuiet
  BY <1>8 DEF EnqueueSignal, LockExpires, ledger, ThesisQuiet
<1>9. CASE UNCHANGED vars
  BY <1>9 DEF vars, ledger, ThesisQuiet
<1> QED
  BY <1>2, <1>3, <1>5, <1>6, <1>7, <1>8, <1>9 DEF Next, Attempt

LEMMA ReadActiveThesis ==
  ASSUME TypedInv, OneByOne, NEW w \in Holders, ReadActivePlan(w)
  PROVE  OneByOne'
<1> SUFFICES ASSUME ~overlapped'
             PROVE  (/\ \A v, u \in Holders : Planning(v) /\ Planning(u) => v = u
                     /\ \A u, v \in Rows(versions) :
                          u < v => versions[u].createdAt < versions[v].createdAt
                     /\ \A p \in 1..plans : Open(p) => p = ActivePlan
                     /\ \A u \in Holders : PlanningRefers(u))'
  BY DEF OneByOne
<1>o. /\ ~overlapped /\ UNCHANGED <<versions, plans>>
      /\ \A u \in Holders \ {w} : ~Planning(u)
  BY DEF ReadActivePlan, ledger
<1>q. ActivePlan' = ActivePlan /\ \A p : Open(p)' <=> Open(p)
  BY <1>o, QueriesKept
<1>1. planner'[w].step = "generate" /\ planner'[w].plan = ActivePlan
  BY DEF ReadActivePlan, TypedInv, TypeOK, AttemptState
<1>2. \A u \in Holders \ {w} : ~Planning(u)'
  BY <1>o, OthersStay DEF Attempt, Planning
<1>3. \A u \in Holders : PlanningRefers(u)'
  <2>1. PlanningRefers(w)'
    BY <1>q, <1>1 DEF PlanningRefers
  <2>2. \A u \in Holders \ {w} : PlanningRefers(u)'
    BY <1>2 DEF PlanningRefers, Planning
  <2> QED
    BY <2>1, <2>2
<1> QED
  BY <1>o, <1>q, <1>2, <1>3 DEF OneByOne

LEMMA GenerateThesis ==
  ASSUME TypedInv, OneByOne, NEW w \in Holders, GeneratePlan(w)
  PROVE  OneByOne'
<1> SUFFICES ASSUME ~overlapped'
             PROVE  (/\ \A v, u \in Holders : Planning(v) /\ Planning(u) => v = u
                     /\ \A u, v \in Rows(versions) :
                          u < v => versions[u].createdAt < versions[v].createdAt
                     /\ \A p \in 1..plans : Open(p) => p = ActivePlan
                     /\ \A u \in Holders : PlanningRefers(u))'
  BY DEF OneByOne
<1>o. ~overlapped /\ UNCHANGED versions /\ planner[w].step = "generate"
  BY DEF GeneratePlan
<1>n. plans \in Nat /\ clock \in Nat
  BY DEF TypedInv, TypeOK
<1>q. /\ ActivePlan' = ActivePlan
      /\ \A p : RowsOf(p)' = RowsOf(p) /\ (Open(p)' <=> Open(p))
  BY <1>o, QueriesKept
<1> PICK p : p = PlanId(w)
  OBVIOUS
<1>1. /\ planner'[w].step = "readLatest" /\ planner'[w].plan = p
      /\ planner'[w].createdAt = clock + 1
  BY DEF GeneratePlan, TypedInv, TypeOK, AttemptState
<1>2. \A u \in Holders \ {w} : planner'[u] = planner[u] /\ ~Planning(u)
  BY <1>o, OthersStay DEF Attempt, OneByOne, Planning
<1>3. RowsOf(plans + 1) = {}
  <2>1. \A v \in Rows(versions) : versions[v].plan # plans + 1
    BY <1>n, RowTyped DEF TypedInv
  <2> QED
    BY <2>1 DEF RowsOf
<1>4. p = ActivePlan \/ (ActivePlan = 0 /\ RowsOf(p) = {})
  BY <1>o, <1>3 DEF OneByOne, PlanningRefers, PlanId
<1>5. \A v \in Rows(versions) : versions[v].createdAt < clock + 1
  BY <1>n, RowTyped DEF TypedInv
<1>6. PlanningRefers(w)'
  <2>1. RowsOf(planner[w].plan)' = RowsOf(p)'
    BY <1>1 DEF RowsOf
  <2> QED
    BY <1>o, <1>q, <1>1, <1>4, <1>5, <2>1 DEF PlanningRefers
<1>7. \A u \in Holders \ {w} : PlanningRefers(u)' /\ ~Planning(u)'
  BY <1>2 DEF PlanningRefers, Planning
<1>8. ASSUME NEW r \in 1..plans', Open(r) PROVE r = ActivePlan
  <2>1. plans' <= plans \/ plans' = plans + 1
    <3>1. planner[w].plan <= plans
      BY <1>o DEF TypedInv, AttemptsRefer, Refers
    <3> QED
      BY <1>n, <3>1 DEF GeneratePlan, PlanId
  <2>2. plans' \in Nat
    BY <1>n, GenerateTyped DEF TypedInv, TypeOK
  <2>3. r # plans + 1
    BY <1>3, <1>8 DEF Open, LatestOfPlan
  <2>4. r \in 1..plans
    BY <1>n, <2>1, <2>2, <2>3
  <2> QED
    BY <1>o, <1>8, <2>4 DEF OneByOne
<1> QED
  BY <1>o, <1>q, <1>6, <1>7, <1>8 DEF OneByOne

LEMMA RecordVersionThesis ==
  ASSUME TypedInv, VersionsContiguous, OneByOne, NEW w \in Holders, RecordVersion(w)
  PROVE  OneByOne'
<1> SUFFICES ASSUME ~overlapped'
             PROVE  (/\ \A v, u \in Holders : Planning(v) /\ Planning(u) => v = u
                     /\ \A u, v \in Rows(versions) :
                          u < v => versions[u].createdAt < versions[v].createdAt
                     /\ \A p \in 1..plans : Open(p) => p = ActivePlan
                     /\ \A u \in Holders : PlanningRefers(u))'
  BY DEF OneByOne
<1>o. ~overlapped /\ plans' = plans /\ planner[w].step = "recordVersion"
  BY DEF RecordVersion
<1>n. Len(versions) + 1 \in Nat
  BY RecordVersionEffect
<1> PICK n \in Nat : n = Len(versions) + 1
  BY <1>n
<1> PICK p : p = planner[w].plan
  OBVIOUS
<1>1. /\ Rows(versions') = Rows(versions) \union {n} /\ n \notin Rows(versions)
      /\ \A v \in Rows(versions) : v < n /\ versions'[v] = versions[v]
      /\ versions'[n] = NewRow(w)
      /\ NewRow(w).plan = p /\ NewRow(w).createdAt = planner[w].createdAt
  BY RecordVersionEffect
<1>2. \A q : RowsOf(q)' = RowsOf(q) \union (IF q = p THEN {n} ELSE {})
  BY RowsOfAfter
<1>3. \A q : RowsOf(q) \subseteq Rows(versions)
  BY DEF RowsOf
<1>4. /\ p = ActivePlan \/ (ActivePlan = 0 /\ RowsOf(p) = {})
      /\ \A v \in Rows(versions) : versions[v].createdAt < planner[w].createdAt
  BY <1>o DEF OneByOne, PlanningRefers
<1>5. \A u \in Holders : ~Planning(u)'
  <2>1. planner'[w].step = "recordTransition"
    BY DEF RecordVersion, TypedInv, TypeOK, AttemptState
  <2>2. \A u \in Holders \ {w} : planner'[u] = planner[u] /\ ~Planning(u)
    BY <1>o, OthersStay DEF Attempt, OneByOne, Planning
  <2> QED
    BY <2>1, <2>2 DEF Planning
<1>6. \A u, v \in Rows(versions') : u < v => versions'[u].createdAt < versions'[v].createdAt
  <2>1. \A v \in Rows(versions) : v \in Nat
    BY RowTyped DEF TypedInv
  <2>2. \A u, v \in Rows(versions) : u < v => versions[u].createdAt < versions[v].createdAt
    BY <1>o DEF OneByOne
  <2> QED
    BY <1>1, <1>4, <2>1, <2>2
<1>7. LatestOfMarket' = n
  <2>1. /\ \A v \in Rows(versions) : versions'[v].createdAt \in Nat
        /\ versions'[n].createdAt \in Nat
    BY <1>1, RowTyped, RecordVersionEffect DEF TypedInv, VersionRow
  <2>2. n \in Rows(versions') /\ versions' # << >>
    BY <1>1
  <2>3. \A u \in Rows(versions') : versions'[u].createdAt <= versions'[n].createdAt
    BY <1>1, <1>4, <2>1
  <2>4. \A v \in Rows(versions') :
          (\A u \in Rows(versions') : versions'[u].createdAt <= versions'[v].createdAt) => v = n
    BY <1>1, <1>4, <2>1, <2>2
  <2> QED
    BY <2>2, <2>3, <2>4 DEF LatestOfMarket
<1>8. LatestOfPlan(p)' = n
  <2>1. \A u \in RowsOf(p) : versions[u].version < NewRow(w).version
    <3> SUFFICES ASSUME NEW u \in RowsOf(p) PROVE versions[u].version < NewRow(w).version
      OBVIOUS
    <3>1. versions[u].version <= Cardinality(RowsOf(p)) /\ versions[u].version \in Nat
      BY <1>3, VersionBounded, RowTyped DEF TypedInv
    <3>2. NewRow(w).version = Cardinality(RowsOf(p)) + 1 /\ Cardinality(RowsOf(p)) \in Nat
      BY InsertedVersion, RowsFinite, FS_CardinalityType DEF TypedInv
    <3> QED
      BY <3>1, <3>2
  <2>2. RowsOf(p)' = RowsOf(p) \union {n} /\ n \notin RowsOf(p)
    BY <1>1, <1>2, <1>3
  <2>3. /\ \A u \in RowsOf(p) : versions'[u].version \in Nat
        /\ versions'[n].version \in Nat
    BY <1>1, <1>3, RowTyped, RecordVersionEffect DEF TypedInv, VersionRow
  <2>4. \A u \in RowsOf(p)' : versions'[u].version <= versions'[n].version
    BY <1>1, <1>3, <2>1, <2>2, <2>3
  <2>5. \A v \in RowsOf(p)' :
          (\A u \in RowsOf(p)' : versions'[u].version <= versions'[v].version) => v = n
    BY <1>1, <1>3, <2>1, <2>2, <2>3
  <2> QED
    BY <2>2, <2>4, <2>5 DEF LatestOfPlan
<1>9. ASSUME NEW q \in 1..plans, Open(q)' PROVE q = ActivePlan'
  <2>1. CASE q = p
    <3>1. ~Terminal(versions'[n].state)
      BY <1>8, <1>9, <2>1 DEF Open
    <3>2. n # 0
      BY RecordVersionEffect
    <3> QED
      BY <1>1, <1>7, <2>1, <3>1, <3>2 DEF ActivePlan
  <2>2. CASE q # p
    <3>1. RowsOf(q)' = RowsOf(q) /\ \A u \in RowsOf(q) : versions'[u] = versions[u]
      BY <1>1, <1>2, <1>3, <2>2
    <3>2. RowsOf(q) # {}
      BY <1>9, <3>1 DEF Open, LatestOfPlan
    <3> PICK l : l = LatestOfPlan(q)
      OBVIOUS
    <3>3. l \in RowsOf(q) /\ \A u \in RowsOf(q) : u <= l
      BY <3>2, LatestOfPlanRow DEF TypedInv
    <3>4. \A u \in RowsOf(q) : u # l => versions[u].version < versions[l].version
      <4> SUFFICES ASSUME NEW u \in RowsOf(q), u # l
                   PROVE  versions[u].version < versions[l].version
        OBVIOUS
      <4>1. u \in Nat /\ l \in Nat /\ u < l
        BY <1>3, <3>3, RowTyped DEF TypedInv
      <4> QED
        BY <3>3, <4>1, VersionsAscend DEF TypedInv
    <3>5. \A u \in RowsOf(q) : versions[u].version \in Nat
      BY <1>3, RowTyped DEF TypedInv
    <3>6. LatestOfPlan(q)' = l
      <4>1. \A u \in RowsOf(q)' : versions'[u].version <= versions'[l].version
        BY <3>1, <3>3, <3>4, <3>5
      <4>2. \A v \in RowsOf(q)' :
              (\A u \in RowsOf(q)' : versions'[u].version <= versions'[v].version) => v = l
        BY <3>1, <3>3, <3>4, <3>5
      <4> QED
        BY <3>1, <3>3, <4>1, <4>2 DEF LatestOfPlan
    <3>7. Open(q)
      BY <1>9, <3>1, <3>3, <3>6 DEF Open
    <3>8. q = ActivePlan /\ ActivePlan # 0
      BY <1>o, <3>7 DEF OneByOne
    <3> QED
      BY <1>4, <2>2, <3>8
  <2> QED
    BY <2>1, <2>2
<1>10. \A u \in Holders : PlanningRefers(u)'
  BY <1>5 DEF PlanningRefers, Planning
<1> QED
  BY <1>o, <1>5, <1>6, <1>9, <1>10

LEMMA ThesisStep ==
  TypedInv /\ VersionsContiguous /\ OneByOne /\ [Next]_vars => OneByOne'
BY ThesisQuietSteps, QuietThesis, ReadActiveThesis, GenerateThesis, RecordVersionThesis

-----------------------------------------------------------------------------
(* The theorems *)

LEMMA LedgerInit == Init => LedgerInv
<1> SUFFICES ASSUME Init PROVE LedgerInv
  OBVIOUS
<1>1. VersionsContiguous /\ SuccessExplained /\ RowsApart /\ RecordingExplained
  BY DEF Init, VersionsContiguous, SuccessExplained, RowsApart, RecordingExplained,
         Recording, Idle
<1>2. AuditComplete
  <2>1. Unaudited = {}
    BY DEF Init, Unaudited
  <2> QED
    BY <2>1, FS_EmptySet DEF Init, AuditComplete
<1> QED
  BY <1>1, <1>2, TypedInit, ChargedInit, OneByOneInit DEF LedgerInv, TypedInv

LEMMA LedgerStep == LedgerInv /\ [Next]_vars => LedgerInv'
BY TypedStep, ContiguousStep, TrailStep, AuditStep, ChargedStep, ThesisStep
   DEF LedgerInv, TypedInv, TrailInv

LEMMA LedgerSafe == Spec => []LedgerInv
BY LedgerInit, LedgerStep, PTL DEF Spec

(***************************************************************************)
(* The tables of a market stay well formed and refer to each other, under  *)
(* any number of workers, retries, crashes and expired locks.              *)
(***************************************************************************)
THEOREM LedgerTyped == Spec => []TypeOK
<1>1. LedgerInv => TypeOK
  BY DEF LedgerInv
<1> QED
  BY <1>1, LedgerSafe, PTL

(***************************************************************************)
(* recordGeneratedTradePlan reads the latest version and inserts the next; *)
(* however the reads and inserts of workers interleave, the unique index   *)
(* keeps the versions of a plan at 1, 2, 3, ... in the order of the rows.  *)
(***************************************************************************)
THEOREM VersionsStayContiguous == Spec => []VersionsContiguous
<1>1. LedgerInv => VersionsContiguous
  BY DEF LedgerInv
<1> QED
  BY <1>1, LedgerSafe, PTL

(***************************************************************************)
(* A version with a successful agent run has the transition that its state *)
(* asks for, from the state of the version before it, and no other.        *)
(***************************************************************************)
THEOREM SuccessStaysExplained == Spec => []SuccessExplained
<1>1. LedgerInv => SuccessExplained
  BY DEF LedgerInv
<1> QED
  BY <1>1, LedgerSafe, PTL

(***************************************************************************)
(* Every version without a successful run is being recorded, or is charged *)
(* to a failed run or to a worker that died.                               *)
(***************************************************************************)
THEOREM AuditStaysComplete == Spec => []AuditComplete
<1>1. LedgerInv => AuditComplete
  BY DEF LedgerInv
<1> QED
  BY <1>1, LedgerSafe, PTL

(***************************************************************************)
(* Every version and every order of a signal was paid for with an attempt  *)
(* of its job, late workers included.                                      *)
(***************************************************************************)
THEOREM RepeatsAreCharged == Spec => []RepeatsCharged
<1>1. LedgerInv => RepeatsCharged
  <2> SUFFICES ASSUME LedgerInv, NEW s \in Jobs
               PROVE  /\ Cardinality(VersionsFor(s)) <= attempts[s] + 1
                      /\ Cardinality(OrdersFor(s)) <= attempts[s] + 1
                      /\ attempts[s] = MaxAttempts[s] =>
                           Cardinality(VersionsFor(s)) <= MaxAttempts[s]
    BY DEF RepeatsCharged
  <2>1. /\ Cardinality(VersionsFor(s)) \in Nat /\ Cardinality(OrdersFor(s)) \in Nat
        /\ Cardinality(Writing(s)) \in Nat /\ Cardinality(Trading(s)) \in Nat
    BY ChargedFinite, FS_CardinalityType DEF LedgerInv, TypedInv
  <2>2. /\ Cardinality(VersionsFor(s)) + Cardinality(Writing(s)) <= Started(s)
        /\ Cardinality(OrdersFor(s)) + Cardinality(Trading(s)) <= Started(s)
        /\ attempts[s] = MaxAttempts[s] => status[s] = "failed"
    BY DEF LedgerInv, AttemptsCharged
  <2>3. /\ attempts[s] \in Nat /\ Started(s) \in Nat /\ Started(s) <= attempts[s] + 1
        /\ status[s] = "failed" => Started(s) = attempts[s]
    BY DEF LedgerInv, TypeOK, Started
  <2> QED
    BY <2>1, <2>2, <2>3
<1> QED
  BY <1>1, LedgerSafe, PTL

(***************************************************************************)
(* As long as the attempts of a market plan one after the other, it has at *)
(* most one open plan; a second one takes two attempts side by side.       *)
(***************************************************************************)
THEOREM OneThesisHolds == Spec => []OneThesis
<1>1. LedgerInv => OneThesis
  BY DEF LedgerInv, OneByOne, OneThesis
<1> QED
  BY <1>1, LedgerSafe, PTL

=============================================================================
