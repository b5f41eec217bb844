------------------------ MODULE OrderWorkflow_proofs ------------------------
(***************************************************************************)
(* Theorems about OrderWorkflow, for every workflow, set of garments, of   *)
(* people and of parts that its assumptions admit.                         *)
(***************************************************************************)
EXTENDS OrderWorkflow, TLAPS

-----------------------------------------------------------------------------
(* Rows *)

\* A row the order has is at one of its steps, and for one of its garments
\* exactly when its stage is a garment's and the order has any.
LEMMA LiveRows ==
  ASSUME NEW r \in Live
  PROVE  /\ r \in AllRows /\ r[1] \in Steps /\ r[1] \in Nat
         /\ Path[r[1]] \in PerGarment /\ garments # {} => r[2] \in garments
         /\ ~(Path[r[1]] \in PerGarment /\ garments # {}) => r[2] = NoGarment
  BY DEF Live, RowsFor, AllRows, Steps

\* Later and Earlier are each other's converse.
LEMMA LaterIsConverse ==
  ASSUME NEW r \in Live, NEW s \in Live
  PROVE  s \in Earlier(r) <=> r \in Later(s)
  BY DEF Earlier, Later, Concerns

\* No order-level row stands between two rows of different garments.
LEMMA NoOrderRowBetween ==
  ASSUME garments \subseteq Garments,
         NEW r \in Live, NEW s \in Live, r[1] < s[1], r[2] # NoGarment
  PROVE  s[2] # NoGarment
<1>1. Path[r[1]] \in PerGarment /\ garments # {}
  BY LiveRows
<1>2. Path[s[1]] \in PerGarment
  BY <1>1, LiveRows, OrderLevelFirst
<1> QED
  BY <1>1, <1>2, LiveRows, GarmentAssumption

-----------------------------------------------------------------------------
(* No stage has begun ahead of its prerequisites *)

\* Only an optional or a waived stage is ever recorded as skipped.
SkippedMayBe == \A r \in Live : st[r] = "SKIPPED" => KeyOf(r) \in Optional \cup Waived

\* The inductive invariant: PrerequisitesSettled by itself is not inductive, since
\* a SKIPPED row pressed Done is submitted again, which only optional stages allow.
IInv == /\ garments \subseteq Garments
        /\ st \in [AllRows -> Statuses]
        /\ SkippedMayBe
        /\ PrerequisitesSettled

LEMMA InitIInv == Init => IInv
<1> SUFFICES ASSUME Init PROVE IInv
  OBVIOUS
<1>1. garments \subseteq Garments
  BY GarmentAssumption DEF Init
<1>2. st \in [AllRows -> Statuses]
  BY DEF Init, Statuses
<1>3. \A r \in Live : st[r] \in {"NOT_STARTED", "COMPLETED", "SKIPPED"}
  BY LiveRows DEF Init
<1>4. SkippedMayBe
  BY LiveRows DEF Init, SkippedMayBe
<1>5. PrerequisitesSettled
  <2> SUFFICES ASSUME NEW r \in Live, st[r] # "NOT_STARTED", KeyOf(r) \notin Waived
               PROVE  Outstanding(r) = {}
    BY DEF PrerequisitesSettled
  <2>1. KeyOf(r) = "created"
    BY LiveRows DEF Init
  <2>2. r[1] = 1
    BY <2>1, LiveRows, OrderLevelFirst DEF KeyOf
  <2>3. Earlier(r) = {}
    BY <2>2, LiveRows DEF Earlier, Steps
  <2> QED
    BY <2>3 DEF Outstanding
<1> QED
  BY <1>1, <1>2, <1>4, <1>5 DEF IInv

\* One row moved, its prerequisites settled, its own settlement kept: the
\* invariant stands.  Every forward handler is an instance.
LEMMA OneRowMoves ==
  ASSUME IInv, NEW r \in Live, NEW e \in Statuses,
         st' = [st EXCEPT ![r] = e], garments' = garments,
         e # "NOT_STARTED" /\ KeyOf(r) \notin Waived => Outstanding(r) = {},
         st[r] \in Settled /\ KeyOf(r) \notin Optional => e \in Settled,
         e = "SKIPPED" => KeyOf(r) \in Optional \cup Waived
  PROVE  IInv'
<1>1. Live' = Live
  BY DEF Live, RowsFor
<1>2. st' \in [AllRows -> Statuses] /\ garments' \subseteq Garments
  BY DEF IInv
<1>3. \A s \in Live : st'[s] = IF s = r THEN e ELSE st[s]
  BY LiveRows DEF IInv
<1>4. SkippedMayBe'
  BY <1>1, <1>3 DEF IInv, SkippedMayBe, KeyOf
<1>5. PrerequisitesSettled'
  <2> SUFFICES ASSUME NEW u \in Live, st'[u] # "NOT_STARTED", KeyOf(u) \notin Waived,
                      NEW s \in Earlier(u), KeyOf(s) \notin Optional, st'[s] \notin Settled
               PROVE  FALSE
    BY <1>1 DEF PrerequisitesSettled, Outstanding, Earlier, Concerns, KeyOf
  <2>1. s \in Live /\ s[1] < u[1]
    BY DEF Earlier
  <2>2. s # u
    BY <2>1, LiveRows
  <2>3. CASE u = r
    BY <1>3, <2>1, <2>2, <2>3 DEF Outstanding
  <2>4. CASE u # r
    <3>1. st[s] \in Settled
      BY <1>3, <2>1, <2>4 DEF IInv, PrerequisitesSettled, Outstanding
    <3> QED
      BY <1>3, <2>1, <3>1
  <2> QED
    BY <2>3, <2>4
<1> QED
  BY <1>2, <1>4, <1>5 DEF IInv

\* A waived stage is desk work, which nobody who may touch it submits.
LEMMA WaivedIsNotSubmitted ==
  ASSUME NEW p \in People, NEW q \in Staff \cup {Nobody}, NEW r \in Live,
         KeyOf(r) \in Waived, st[r] # "PENDING_VERIFICATION", RoleGate(p, r)
  PROVE  ~Submits(p, q, KeyOf(r))
<1>1. Allowed[KeyOf(r)] # {} /\ Allowed[KeyOf(r)] \subseteq {"Owner", "Designer", "Master"}
  BY LiveRows, RequiredStages DEF KeyOf
<1>2. ~HandsOn(KeyOf(r))
  BY <1>1 DEF HandsOn
<1>3. RoleOf[p] \in {"Owner", "Designer", "Master"}
  BY <1>1 DEF RoleGate, HoldsRole
<1> QED
  BY <1>2, <1>3 DEF Submits, LeadRoles

LEMMA TransitionKeepsIInv ==
  ASSUME IInv, NEW p \in People, NEW r \in Live, NEW n \in Statuses, Transition(p, r, n)
  PROVE  IInv'
<1>1. PICK q \in Staff \cup {Nobody} : MoveStep(p, r, Written(p, r, n, q), q)
  BY DEF Transition
<1> DEFINE e == Written(p, r, n, q)
<1>2. CheckTransition(p, r, n) /\ ~(st[r] = "COMPLETED" /\ n = "COMPLETED")
  BY DEF Transition
<1>3. e \in Statuses /\ (e = n \/ (e = "PENDING_VERIFICATION" /\ n = "COMPLETED"))
  BY DEF Written, Statuses
<1>4. e # "NOT_STARTED" => Outstanding(r) = {}
  BY <1>2, <1>3 DEF CheckTransition
<1>5. e = "SKIPPED" => KeyOf(r) \in Optional
  BY <1>2, <1>3 DEF CheckTransition
<1>6. ASSUME st[r] \in Settled, KeyOf(r) \notin Optional PROVE e \in Settled
  <2>1. n \in Settled
    BY <1>2, <1>6 DEF CheckTransition
  <2>2. CASE e = n
    BY <2>1, <2>2
  <2>3. CASE e # n
    <3>1. n = "COMPLETED" /\ Submits(p, q, KeyOf(r))
      BY <1>3, <2>3 DEF Written
    <3>2. st[r] = "SKIPPED"
      BY <1>2, <1>6, <3>1 DEF Settled
    <3>3. KeyOf(r) \in Waived
      BY <1>6, <3>2 DEF IInv, SkippedMayBe
    <3> QED
      BY <1>2, <3>1, <3>2, <3>3, WaivedIsNotSubmitted DEF CheckTransition
  <2> QED
    BY <2>2, <2>3
<1>7. st' = [st EXCEPT ![r] = e] /\ garments' = garments
  BY <1>1 DEF MoveStep, WriteStage
<1> HIDE DEF e
<1> QED
  BY <1>3, <1>4, <1>5, <1>6, <1>7, OneRowMoves

LEMMA ReopenKeepsIInv ==
  ASSUME IInv, NEW p \in People, NEW r \in Live, Reopen(p, r)
  PROVE  IInv'
<1> DEFINE back == IF st[r] = "COMPLETED" THEN "IN_PROGRESS" ELSE "NOT_STARTED"
<1>1. /\ Live' = Live /\ garments' = garments
      /\ st' = [s \in AllRows |-> IF s = r THEN back
                                  ELSE IF s \in Undone(r) THEN "NOT_STARTED" ELSE st[s]]
  BY DEF Reopen, Live, RowsFor
<1>2. st' \in [AllRows -> Statuses] /\ garments' \subseteq Garments
  BY <1>1 DEF IInv, Statuses
<1>3. SkippedMayBe'
  BY <1>1, LiveRows DEF IInv, SkippedMayBe, KeyOf
<1>4. PrerequisitesSettled'
  <2> SUFFICES ASSUME NEW u \in Live, st'[u] # "NOT_STARTED", KeyOf(u) \notin Waived,
                      NEW s \in Earlier(u), KeyOf(s) \notin Optional, st'[s] \notin Settled
               PROVE  FALSE
    BY <1>1 DEF PrerequisitesSettled, Outstanding, Earlier, Concerns, KeyOf
  <2>1. s \in Live /\ s[1] < u[1] /\ s \in AllRows /\ u \in AllRows
    BY LiveRows DEF Earlier
  <2>2. st[u] # "NOT_STARTED"
    <3>1. CASE u = r
      BY <3>1 DEF Reopen, Settled
    <3>2. CASE u # r
      BY <1>1, <2>1, <3>2
    <3> QED
      BY <3>1, <3>2
  <2>3. st[s] \in Settled
    BY <2>1, <2>2 DEF IInv, PrerequisitesSettled, Outstanding
  <2>4. u \notin Later(r)
    <3>1. SUFFICES ASSUME u \in Later(r) PROVE FALSE
      OBVIOUS
    <3>2. u # r /\ u \in Undone(r)
      BY <2>2, <3>1, LiveRows DEF Undone, Later
    <3> QED
      BY <1>1, <2>1, <3>2
  <2>5. CASE s = r
    BY <2>4, <2>5, LaterIsConverse
  <2>6. CASE s # r
    <3>1. s \in Later(r)
      BY <1>1, <2>1, <2>3, <2>6 DEF Undone
    <3>2. r[1] < s[1] /\ r[1] < u[1] /\ Concerns(r, s) /\ Concerns(u, s)
      BY <2>1, <3>1, LiveRows DEF Later, Earlier
    <3>3. ~Concerns(r, u)
      BY <2>4, <3>2 DEF Later
    <3>4. s[2] = NoGarment /\ r[2] # NoGarment
      BY <3>2, <3>3 DEF Concerns
    <3> QED
      BY <2>1, <3>2, <3>4, NoOrderRowBetween DEF IInv
  <2> QED
    BY <2>5, <2>6
<1> QED
  BY <1>2, <1>3, <1>4 DEF IInv

\* The quality check is neither optional nor waived: with it unsettled, nothing
\* after it has begun, and a failed check needs to look at no later row.
LEMMA FailQCKeepsIInv ==
  ASSUME IInv, NEW p \in People, NEW qc \in Live, FailQC(p, qc)
  PROVE  IInv'
<1> DEFINE rework == {s \in Band(qc) : st[s] # "NOT_STARTED"}
<1>1. /\ Live' = Live /\ garments' = garments
      /\ st' = [s \in AllRows |->
                  IF s \in rework /\ KeyOf(s) = "stitching_in_progress" THEN "IN_PROGRESS"
                  ELSE IF s \in rework \cup {qc} THEN "NOT_STARTED" ELSE st[s]]
  BY DEF FailQC, Live, RowsFor
<1>2. st' \in [AllRows -> Statuses] /\ garments' \subseteq Garments
  BY <1>1 DEF IInv, Statuses
<1>3. SkippedMayBe'
  BY <1>1, LiveRows DEF IInv, SkippedMayBe, KeyOf
<1>4. KeyOf(qc) \notin Optional /\ st[qc] \notin Settled
  BY RequiredStages DEF FailQC, IInv, SkippedMayBe, Settled
<1>5. PrerequisitesSettled'
  <2> SUFFICES ASSUME NEW u \in Live, st'[u] # "NOT_STARTED", KeyOf(u) \notin Waived,
                      NEW s \in Earlier(u), KeyOf(s) \notin Optional, st'[s] \notin Settled
               PROVE  FALSE
    BY <1>1 DEF PrerequisitesSettled, Outstanding, Earlier, Concerns, KeyOf
  <2>1. /\ s \in Live /\ s[1] < u[1] /\ s \in AllRows /\ u \in AllRows /\ Concerns(u, s)
        /\ u[1] \in Nat /\ s[1] \in Nat /\ qc[1] \in Nat /\ s[1] \in Steps /\ u[1] \in Steps
    BY LiveRows DEF Earlier
  <2>2. st[u] # "NOT_STARTED" /\ u # qc
    BY <1>1, <2>1 DEF Band
  <2>3. st[s] \in Settled
    BY <2>1, <2>2 DEF IInv, PrerequisitesSettled, Outstanding
  <2>4. s \in rework
    BY <1>1, <1>4, <2>1, <2>3
  <2>5. PICK i \in Steps : Path[i] = "stitching_in_progress" /\ i <= s[1]
    BY <2>4 DEF Band
  <2>6. s[2] = qc[2] /\ s[1] < qc[1]
    BY <2>4 DEF Band
  <2>7. ~(u[2] = qc[2] /\ u[1] < qc[1])
    <3>1. SUFFICES ASSUME u[2] = qc[2], u[1] < qc[1] PROVE FALSE
      OBVIOUS
    <3>2. i <= u[1]
      BY <2>1, <2>5 DEF Steps
    <3>3. u \in rework
      BY <2>2, <2>5, <3>1, <3>2 DEF Band
    <3>4. KeyOf(u) = "stitching_in_progress"
      BY <1>1, <2>1, <3>3
    <3>5. i = u[1]
      BY <2>1, <2>5, <3>4, PathAssumption DEF KeyOf
    <3> QED
      BY <2>1, <2>5, <3>5 DEF Steps
  <2>8. qc \notin Earlier(u)
    BY <1>4, <2>2 DEF IInv, PrerequisitesSettled, Outstanding
  <2>9. u[2] # qc[2] => /\ s[2] = NoGarment => u[2] # NoGarment
                        /\ u[2] = NoGarment => s[2] # NoGarment
    BY <2>6
  <2>10. u[2] = NoGarment => s[2] = NoGarment
    BY <2>1, NoOrderRowBetween DEF IInv
  <2>11. u[2] # NoGarment /\ u[2] # qc[2] => s[2] = NoGarment
    BY <2>1, <2>6 DEF Concerns
  <2>12. CASE u[2] = qc[2]
    <3>1. qc[1] <= u[1]
      BY <2>1, <2>7, <2>12
    <3>2. qc = <<qc[1], qc[2]>> /\ u = <<u[1], u[2]>>
      BY LiveRows DEF AllRows
    <3>3. qc[1] # u[1]
      BY <2>2, <2>12, <3>2
    <3> QED
      BY <2>1, <2>8, <2>12, <3>1, <3>3 DEF Earlier, Concerns
  <2>13. CASE u[2] # qc[2]
    <3>1. qc[2] = NoGarment /\ u[2] # NoGarment
      BY <2>6, <2>10, <2>11, <2>13
    <3>2. qc[1] >= u[1]
      BY <2>1, <2>8, <3>1 DEF Earlier, Concerns
    <3>3. qc[1] # u[1]
      BY <3>1, LiveRows, GarmentAssumption DEF IInv
    <3> QED
      BY <2>1, <3>1, <3>2, <3>3, NoOrderRowBetween DEF IInv
  <2> QED
    BY <2>12, <2>13
<1> QED
  BY <1>2, <1>3, <1>5 DEF IInv

\* A part started, sent or sent back moves its step only when the step is open.
LEMMA PartsKeepIInv ==
  ASSUME IInv, NEW p \in People, NEW r \in Live, NEW x \in PartIds,
         NEW done \in BOOLEAN, NEW photo \in BOOLEAN,
         SendBackPart(p, r, x) \/ StartPart(p, r, x) \/ SendPart(p, r, x, done, photo)
  PROVE  IInv'
<1>1. st[r] \notin Settled
  BY DEF SendBackPart, StartPart, SendPart, MayMovePart
<1>2. CASE UNCHANGED <<garments, st>>
  BY <1>2 DEF IInv, SkippedMayBe, PrerequisitesSettled, Outstanding, Earlier, Concerns, KeyOf,
              Live, RowsFor
<1>3. CASE /\ garments' = garments
           /\ st[r] # "NOT_STARTED"
           /\ \E e \in {"IN_PROGRESS", "PENDING_VERIFICATION"} : st' = [st EXCEPT ![r] = e]
  <2>1. PICK e \in {"IN_PROGRESS", "PENDING_VERIFICATION"} : st' = [st EXCEPT ![r] = e]
    BY <1>3
  <2>2. e \in Statuses /\ e # "SKIPPED"
    BY DEF Statuses
  <2>3. KeyOf(r) \notin Waived => Outstanding(r) = {}
    BY <1>3 DEF IInv, PrerequisitesSettled
  <2> QED
    BY <1>1, <1>3, <2>1, <2>2, <2>3, OneRowMoves
<1>4. CASE /\ garments' = garments
           /\ Outstanding(r) = {}
           /\ \E e \in Statuses \ {"SKIPPED"} : st' = [st EXCEPT ![r] = e]
  BY <1>1, <1>4, OneRowMoves
<1>5. CASE SendBackPart(p, r, x)
  BY <1>2, <1>3, <1>5 DEF SendBackPart, WriteStage
<1>6. CASE StartPart(p, r, x)
  BY <1>2, <1>4, <1>6 DEF StartPart, CheckTransition, MoveStep, WriteStage, Statuses
<1>7. CASE SendPart(p, r, x, done, photo)
  <2> DEFINE e == Written(p, r, "COMPLETED", Nobody)
  <2>1. e \in Statuses \ {"SKIPPED"}
    BY DEF Written, Statuses
  <2>2. CASE CheckTransition(p, r, "COMPLETED") /\ MoveStep(p, r, e, Nobody)
    BY <1>4, <2>1, <2>2 DEF CheckTransition, MoveStep, WriteStage
  <2>3. CASE garments' = garments /\ st[r] = "IN_PROGRESS" /\ WriteStage(r, "PENDING_VERIFICATION")
    BY <1>3, <2>3 DEF WriteStage
  <2> HIDE DEF e
  <2> QED
    BY <1>2, <1>7, <2>2, <2>3 DEF SendPart, e
<1> QED
  BY <1>5, <1>6, <1>7

\* Rows laid for a new garment start afresh, or say what the single rows said.
LEMMA AddGarmentKeepsIInv ==
  ASSUME IInv, NEW g \in Garments, AddGarment(g)
  PROVE  IInv'
<1> DEFINE Placeholder(r) == <<r[1], NoGarment>>
<1>1. /\ g \notin garments /\ g # NoGarment /\ NoGarment \notin garments
      /\ garments' = garments \cup {g} /\ Live' = RowsFor(garments \cup {g})
      /\ st' = RowsLaid(g, st, "NOT_STARTED")
  BY GarmentAssumption DEF AddGarment, Live, RowsFor, IInv
<1>2. \A r \in Live' : r[2] # g => r \in Live /\ st'[r] = st[r]
  BY <1>1 DEF RowsLaid, Live, RowsFor, AllRows
<1>3. \A r \in Live' : r[2] = g /\ garments # {} => st'[r] = "NOT_STARTED"
  BY <1>1 DEF RowsLaid, RowsFor
<1>4. \A r \in Live' : r[2] = g /\ garments = {} =>
        Placeholder(r) \in Live /\ st'[r] = st[Placeholder(r)]
  BY <1>1 DEF RowsLaid, Live, RowsFor, AllRows
<1>5. st' \in [AllRows -> Statuses]
  <2> SUFFICES ASSUME NEW r \in AllRows PROVE RowsLaid(g, st, "NOT_STARTED")[r] \in Statuses
    BY <1>1 DEF RowsLaid
  <2>1. Placeholder(r) \in AllRows
    BY DEF AllRows
  <2> QED
    BY <2>1 DEF RowsLaid, IInv, Statuses
<1>6. SkippedMayBe'
  BY <1>2, <1>3, <1>4 DEF IInv, SkippedMayBe, KeyOf
<1>7. PrerequisitesSettled'
  <2> SUFFICES ASSUME NEW u \in Live', st'[u] # "NOT_STARTED", KeyOf(u) \notin Waived,
                      NEW s \in Live', s[1] < u[1], Concerns(u, s),
                      KeyOf(s) \notin Optional
               PROVE  st'[s] \in Settled
    BY DEF PrerequisitesSettled, Outstanding, Earlier, Concerns, KeyOf
  <2>1. CASE u[2] = g
    <3>1. garments = {}
      BY <1>3, <2>1
    <3>2. Placeholder(u) \in Live /\ st[Placeholder(u)] # "NOT_STARTED"
          /\ KeyOf(Placeholder(u)) \notin Waived
      BY <1>4, <2>1, <3>1 DEF KeyOf
    <3>3. \A v \in Live : v[1] < u[1] /\ KeyOf(v) \notin Optional => st[v] \in Settled
      BY <3>2 DEF IInv, PrerequisitesSettled, Outstanding, Earlier, Concerns
    <3>4. CASE s[2] = g
      BY <1>4, <3>1, <3>3, <3>4 DEF KeyOf
    <3>5. CASE s[2] # g
      BY <1>2, <3>3, <3>5
    <3> QED
      BY <3>4, <3>5
  <2>2. CASE u[2] # g /\ s[2] # g
    BY <1>2, <2>2 DEF IInv, PrerequisitesSettled, Outstanding, Earlier
  <2>3. CASE u[2] # g /\ s[2] = g
    <3>1. u[2] = NoGarment
      BY <1>1, <2>3 DEF Concerns
    <3>2. Path[u[1]] \notin PerGarment
      BY <1>1, <3>1 DEF RowsFor
    <3>3. Path[s[1]] \in PerGarment
      BY <1>1, <2>3 DEF RowsFor
    <3>4. s[1] \in Steps /\ u[1] \in Steps
      BY <1>1 DEF RowsFor, AllRows
    <3> QED
      BY <3>2, <3>3, <3>4, OrderLevelFirst
  <2> QED
    BY <2>1, <2>2, <2>3
<1> QED
  BY <1>1, <1>5, <1>6, <1>7 DEF IInv

\* A step that touches neither the garments nor the statuses keeps the invariant.
LEMMA OthersKeepIInv == ASSUME IInv, UNCHANGED <<garments, st>> PROVE IInv'
  BY DEF IInv, SkippedMayBe, PrerequisitesSettled, Outstanding, Earlier, Concerns, KeyOf, Live, RowsFor

LEMMA NextKeepsIInv == IInv /\ [Next]_vars => IInv'
<1> SUFFICES ASSUME IInv, [Next]_vars PROVE IInv'
  OBVIOUS
<1>1. ASSUME NEW p \in People, NEW r \in Live, Request(p, r) PROVE IInv'
  <2>1. CASE \E n \in Statuses : Transition(p, r, n)
    BY <2>1, TransitionKeepsIInv
  <2>2. CASE Reopen(p, r)
    BY <2>2, ReopenKeepsIInv
  <2>3. CASE FailQC(p, r)
    BY <2>3, FailQCKeepsIInv
  <2>4. CASE \E S \in SUBSET PartIds : \E h \in [S -> Staff] : Split(p, r, h)
    BY <2>4, OthersKeepIInv DEF Split
  <2>5. CASE Unsplit(p, r)
    BY <2>5, OthersKeepIInv DEF Unsplit
  <2>6. CASE \E x \in PartIds, q \in Staff : AssignPart(p, r, x, q)
    BY <2>6, OthersKeepIInv DEF AssignPart
  <2>7. CASE \E x \in PartIds : SendBackPart(p, r, x) \/ StartPart(p, r, x)
    BY <2>7, PartsKeepIInv
  <2>8. CASE \E x \in PartIds, done, photo \in BOOLEAN : SendPart(p, r, x, done, photo)
    BY <2>8, PartsKeepIInv
  <2> QED
    BY <1>1, <2>1, <2>2, <2>3, <2>4, <2>5, <2>6, <2>7, <2>8 DEF Request
<1>2. CASE \E d \in DataItems : ProvideData(d)
  BY <1>2, OthersKeepIInv DEF ProvideData
<1>3. CASE \E g \in Garments : AddGarment(g)
  BY <1>3, AddGarmentKeepsIInv
<1>4. CASE UNCHANGED vars
  BY <1>4, OthersKeepIInv DEF vars
<1> QED
  BY <1>1, <1>2, <1>3, <1>4 DEF Next

\* No stage is ever begun, worked on, submitted or settled ahead of a required
\* stage of its garment or of the order: whatever the workflow's stages, roles and
\* optional ones, and in whatever order requests, reopenings, failed checks and new
\* garments come (workflow.check_transition, check_reopen, fail_quality_check).
THEOREM PrerequisitesAlwaysSettled == Spec => []PrerequisitesSettled
<1>1. Init => IInv
  BY InitIInv
<1>2. IInv /\ [Next]_vars => IInv'
  BY NextKeepsIInv
<1>3. IInv => PrerequisitesSettled
  BY DEF IInv
<1> QED
  BY <1>1, <1>2, <1>3, PTL DEF Spec

-----------------------------------------------------------------------------
(* Tasks and parts keep up with their stage *)

\* The order's tables keep their shape, and what they say of a live row is what
\* its stage says.
KeptUp == /\ performer \in [AllRows -> Staff \cup {Nobody}]
          /\ task \in [AllRows -> TaskStatuses]
          /\ parts \in [AllRows -> PartTables]
          /\ TasksTellTheirStage
          /\ SettledStepsHaveDoneParts

LEMMA TaskForType == ASSUME NEW s \in Statuses PROVE TaskFor[s] \in TaskStatuses
  BY DEF TaskFor, Statuses, TaskStatuses

\* The tables of parts, and what the handlers make of one.
LEMMA TableHasParts ==
  ASSUME NEW ps \in PartTables
  PROVE  DOMAIN ps \in SUBSET PartIds /\ ps \in [DOMAIN ps -> PartRecords]
  BY DEF PartTables

LEMMA PartsMakeTable ==
  ASSUME NEW S \in SUBSET PartIds, NEW ps \in [S -> PartRecords]
  PROVE  ps \in PartTables
  BY DEF PartTables

LEMMA NoPartsIsTable == <<>> \in PartTables /\ DOMAIN <<>> = {}
<1>1. DOMAIN <<>> = {} /\ <<>> \in [{} -> PartRecords]
  OBVIOUS
<1> QED
  BY <1>1, PartsMakeTable

LEMMA PartMoved ==
  ASSUME NEW ps \in PartTables, NEW x \in DOMAIN ps, NEW s \in PartStatuses
  PROVE  [ps EXCEPT ![x].status = s] \in PartTables
<1>1. [ps[x] EXCEPT !.status = s] \in PartRecords
  BY TableHasParts DEF PartRecords
<1>2. [ps EXCEPT ![x].status = s] \in [DOMAIN ps -> PartRecords]
  BY <1>1, TableHasParts
<1> QED
  BY <1>2, TableHasParts, PartsMakeTable

\* Parts that follow their step are parts still, and done if it is settled.
LEMMA PartsFollow ==
  ASSUME NEW ps \in PartTables, NEW old, NEW new
  PROVE  /\ FollowStep(ps, old, new) \in PartTables
         /\ new \in Settled => AllParts(FollowStep(ps, old, new), {"COMPLETED"})
<1>1. ps \in [DOMAIN ps -> PartRecords]
  BY TableHasParts
<1>2. \A x \in DOMAIN ps : /\ [ps[x] EXCEPT !.status = "COMPLETED"] \in PartRecords
                           /\ [ps[x] EXCEPT !.status = "COMPLETED"].status = "COMPLETED"
                           /\ [ps[x] EXCEPT !.status = "IN_PROGRESS"] \in PartRecords
  BY <1>1 DEF PartRecords, PartStatuses
<1>3. FollowStep(ps, old, new) \in [DOMAIN ps -> PartRecords]
  BY <1>1, <1>2 DEF FollowStep
<1>4. new \in Settled => AllParts(FollowStep(ps, old, new), {"COMPLETED"})
  BY <1>2 DEF FollowStep, AllParts
<1> QED
  BY <1>3, <1>4, TableHasParts, PartsMakeTable

\* One row takes a status with its task, and its parts with them.
LEMMA OneRowKeptUp ==
  ASSUME IInv, KeptUp, NEW r \in Live, NEW e \in Statuses, WriteStage(r, e),
         NEW ps \in PartTables, parts' = [parts EXCEPT ![r] = ps],
         e \in Settled => AllParts(ps, {"COMPLETED"}),
         garments' = garments, performer' \in [AllRows -> Staff \cup {Nobody}]
  PROVE  KeptUp'
<1>1. Live' = Live /\ \A s \in Live : s \in AllRows
  BY DEF Live, RowsFor
<1>2. \A s \in Live : /\ st'[s] = IF s = r THEN e ELSE st[s]
                      /\ parts'[s] = IF s = r THEN ps ELSE parts[s]
                      /\ HasTask(s) => task'[s] = IF s = r THEN TaskFor[e] ELSE task[s]
  BY <1>1 DEF WriteStage, IInv, KeptUp
<1>3. task' \in [AllRows -> TaskStatuses] /\ parts' \in [AllRows -> PartTables]
  BY <1>1, TaskForType DEF WriteStage, KeptUp
<1>4. TasksTellTheirStage'
  BY <1>1, <1>2 DEF KeptUp, TasksTellTheirStage, HasTask, KeyOf
<1>5. SettledStepsHaveDoneParts'
  BY <1>1, <1>2 DEF KeptUp, SettledStepsHaveDoneParts, AllParts
<1> QED
  BY <1>3, <1>4, <1>5 DEF KeptUp

\* An open step's parts are moved, or handed out, and nothing else.
LEMMA OpenPartsKeptUp ==
  ASSUME KeptUp, NEW r \in Live, st[r] \notin Settled,
         NEW ps \in PartTables, parts' = [parts EXCEPT ![r] = ps],
         UNCHANGED <<garments, st, performer, task>>
  PROVE  KeptUp'
<1>1. Live' = Live /\ \A s \in Live : s \in AllRows
  BY DEF Live, RowsFor
<1>2. parts' \in [AllRows -> PartTables] /\ \A s \in Live : s # r => parts'[s] = parts[s]
  BY <1>1 DEF KeptUp
<1>3. TasksTellTheirStage'
  BY <1>1 DEF KeptUp, TasksTellTheirStage, HasTask, KeyOf
<1>4. SettledStepsHaveDoneParts'
  BY <1>1, <1>2 DEF KeptUp, SettledStepsHaveDoneParts, AllParts
<1> QED
  BY <1>2, <1>3, <1>4 DEF KeptUp

LEMMA OthersKeepUp ==
  ASSUME KeptUp, UNCHANGED <<garments, st, performer, task, parts>>
  PROVE  KeptUp'
  BY DEF KeptUp, TasksTellTheirStage, SettledStepsHaveDoneParts, AllParts, HasTask, KeyOf, Live, RowsFor

LEMMA InitKeptUp == Init => KeptUp
<1> SUFFICES ASSUME Init PROVE KeptUp
  OBVIOUS
<1>1. performer \in [AllRows -> Staff \cup {Nobody}] /\ parts \in [AllRows -> PartTables]
  BY NoPartsIsTable DEF Init
<1>2. \A r \in AllRows : st[r] \in Statuses
  BY DEF Init, Statuses
<1>3. task \in [AllRows -> TaskStatuses]
  BY <1>2, TaskForType DEF Init, TaskStatuses
<1>4. TasksTellTheirStage
  BY LiveRows DEF Init, TasksTellTheirStage
<1>5. SettledStepsHaveDoneParts
  BY LiveRows, NoPartsIsTable DEF Init, SettledStepsHaveDoneParts, AllParts
<1> QED
  BY <1>1, <1>3, <1>4, <1>5 DEF KeptUp

\* Naming a performer names somebody with a staff profile, or leaves who it was.
LEMMA PerformerNamed ==
  ASSUME KeptUp, NEW p, NEW r \in Live, NEW q \in Staff \cup {Nobody}, NEW e, MoveStep(p, r, e, q)
  PROVE  performer' \in [AllRows -> Staff \cup {Nobody}]
<1>1. PerformerAfter(p, r, q) \in Staff \cup {Nobody}
  BY LiveRows DEF PerformerAfter, KeptUp
<1> QED
  BY <1>1 DEF MoveStep, KeptUp

LEMMA TransitionKeepsUp ==
  ASSUME IInv, KeptUp, NEW p \in People, NEW r \in Live, NEW n \in Statuses, Transition(p, r, n)
  PROVE  KeptUp'
<1>1. PICK q \in Staff \cup {Nobody} :
        /\ MoveStep(p, r, Written(p, r, n, q), q)
        /\ parts' = [parts EXCEPT ![r] = FollowStep(@, st[r], Written(p, r, n, q))]
  BY DEF Transition
<1> DEFINE e == Written(p, r, n, q)
           ps == FollowStep(parts[r], st[r], e)
<1>2. e \in Statuses
  BY DEF Written, Statuses
<1>3. parts[r] \in PartTables /\ parts' = [parts EXCEPT ![r] = ps]
  BY <1>1, LiveRows DEF KeptUp
<1>4. ps \in PartTables /\ (e \in Settled => AllParts(ps, {"COMPLETED"}))
  BY <1>3, PartsFollow
<1>5. WriteStage(r, e) /\ garments' = garments
  BY <1>1 DEF MoveStep
<1>6. performer' \in [AllRows -> Staff \cup {Nobody}]
  BY <1>1, PerformerNamed
<1> HIDE DEF e, ps
<1> QED
  BY <1>2, <1>3, <1>4, <1>5, <1>6, OneRowKeptUp

LEMMA ReopenKeepsUp ==
  ASSUME IInv, KeptUp, NEW p \in People, NEW r \in Live, Reopen(p, r)
  PROVE  KeptUp'
<1> DEFINE back == IF st[r] = "COMPLETED" THEN "IN_PROGRESS" ELSE "NOT_STARTED"
           moved == Undone(r) \cup {r}
<1>1. /\ Live' = Live /\ garments' = garments /\ performer' = performer
      /\ st' = [s \in AllRows |-> IF s = r THEN back
                                  ELSE IF s \in Undone(r) THEN "NOT_STARTED" ELSE st[s]]
      /\ task' = [s \in AllRows |-> IF s \in moved /\ HasTask(s) THEN TaskFor[st'[s]] ELSE task[s]]
      /\ parts' = [s \in AllRows |->
                     IF s \in moved
                     THEN [x \in DOMAIN parts[s] |-> [parts[s][x] EXCEPT !.status = st'[s]]]
                     ELSE parts[s]]
  BY DEF Reopen, Live, RowsFor
<1>2. \A s \in AllRows : /\ st'[s] \in Statuses
                         /\ s \in moved => st'[s] \in {"NOT_STARTED", "IN_PROGRESS"}
                         /\ s \notin moved => st'[s] = st[s]
  BY <1>1 DEF IInv, Statuses
<1>3. task' \in [AllRows -> TaskStatuses]
  BY <1>1, <1>2, TaskForType DEF KeptUp
<1>4. parts' \in [AllRows -> PartTables]
  <2> SUFFICES ASSUME NEW s \in AllRows, s \in moved
               PROVE  [x \in DOMAIN parts[s] |-> [parts[s][x] EXCEPT !.status = st'[s]]] \in PartTables
    BY <1>1 DEF KeptUp
  <2>1. parts[s] \in PartTables /\ st'[s] \in PartStatuses
    BY <1>2 DEF KeptUp, PartStatuses
  <2>2. \A x \in DOMAIN parts[s] : [parts[s][x] EXCEPT !.status = st'[s]] \in PartRecords
    BY <2>1, TableHasParts DEF PartRecords
  <2> QED
    BY <2>1, <2>2, TableHasParts, PartsMakeTable
<1>5. TasksTellTheirStage'
  BY <1>1, <1>2, LiveRows DEF KeptUp, TasksTellTheirStage, HasTask, KeyOf
<1>6. SettledStepsHaveDoneParts'
  <2> SUFFICES ASSUME NEW s \in Live, st'[s] \in Settled PROVE AllParts(parts[s], {"COMPLETED"}) /\ parts'[s] = parts[s]
    BY <1>1 DEF SettledStepsHaveDoneParts, AllParts
  <2>1. s \in AllRows /\ s \notin moved
    BY <1>2, LiveRows DEF Settled
  <2> QED
    BY <1>1, <1>2, <2>1 DEF KeptUp, SettledStepsHaveDoneParts
<1> QED
  BY <1>1, <1>3, <1>4, <1>5, <1>6 DEF KeptUp

LEMMA FailQCKeepsUp ==
  ASSUME IInv, KeptUp, NEW p \in People, NEW qc \in Live, FailQC(p, qc)
  PROVE  KeptUp'
<1> DEFINE rework == {s \in Band(qc) : st[s] # "NOT_STARTED"}
<1>1. /\ Live' = Live /\ garments' = garments /\ performer' = performer /\ parts' = parts
      /\ st' = [s \in AllRows |->
                  IF s \in rework /\ KeyOf(s) = "stitching_in_progress" THEN "IN_PROGRESS"
                  ELSE IF s \in rework \cup {qc} THEN "NOT_STARTED" ELSE st[s]]
      /\ task' = [s \in AllRows |-> IF s \in rework \cup {qc} /\ HasTask(s)
                                    THEN TaskFor[st'[s]] ELSE task[s]]
  BY DEF FailQC, Live, RowsFor
<1>2. \A s \in AllRows : /\ st'[s] \in Statuses
                         /\ st'[s] \in Settled => st'[s] = st[s]
                         /\ s \notin rework \cup {qc} => st'[s] = st[s]
  BY <1>1 DEF IInv, Statuses, Settled
<1>3. task' \in [AllRows -> TaskStatuses]
  BY <1>1, <1>2, TaskForType DEF KeptUp
<1>4. TasksTellTheirStage'
  BY <1>1, <1>2, LiveRows DEF KeptUp, TasksTellTheirStage, HasTask, KeyOf
<1>5. SettledStepsHaveDoneParts'
  BY <1>1, <1>2, LiveRows DEF KeptUp, SettledStepsHaveDoneParts, AllParts
<1> QED
  BY <1>1, <1>3, <1>4, <1>5 DEF KeptUp

\* A step is split, joined again or handed over while it is open: a settled one's
\* parts are all done.
LEMMA HandingOutKeepsUp ==
  ASSUME IInv, KeptUp, NEW p \in People, NEW r \in Live,
         \/ \E S \in SUBSET PartIds : \E h \in [S -> Staff] : Split(p, r, h)
         \/ Unsplit(p, r)
         \/ \E x \in PartIds, q \in Staff : AssignPart(p, r, x, q)
  PROVE  KeptUp'
<1>1. r \in AllRows /\ parts[r] \in PartTables /\ parts[r] \in [DOMAIN parts[r] -> PartRecords]
  BY LiveRows, TableHasParts DEF KeptUp
<1>2. CASE \E S \in SUBSET PartIds : \E h \in [S -> Staff] : Split(p, r, h)
  <2>1. PICK S \in SUBSET PartIds : \E h \in [S -> Staff] : Split(p, r, h)
    BY <1>2
  <2>2. PICK h \in [S -> Staff] : Split(p, r, h)
    BY <2>1
  <2> DEFINE ps == [x \in DOMAIN h |-> [status |-> "NOT_STARTED", holder |-> h[x]]]
  <2>3. ps \in [S -> PartRecords]
    BY DEF PartRecords, PartStatuses
  <2>4. ps \in PartTables
    BY <2>3, PartsMakeTable
  <2>5. st[r] \notin Settled /\ parts' = [parts EXCEPT ![r] = ps]
        /\ UNCHANGED <<garments, st, performer, task>>
    BY <2>2 DEF Split, Splittable, Settled
  <2> HIDE DEF ps
  <2> QED
    BY <2>4, <2>5, OpenPartsKeptUp
<1>3. CASE Unsplit(p, r)
  <2>1. st[r] \notin Settled
    BY <1>3 DEF Unsplit, KeptUp, SettledStepsHaveDoneParts, AllParts
  <2> QED
    BY <1>3, <2>1, NoPartsIsTable, OpenPartsKeptUp DEF Unsplit
<1>4. CASE \E x \in PartIds, q \in Staff : AssignPart(p, r, x, q)
  <2>1. PICK x \in PartIds, q \in Staff : AssignPart(p, r, x, q)
    BY <1>4
  <2> DEFINE ps == [parts[r] EXCEPT ![x].holder = q]
  <2>2. x \in DOMAIN parts[r] /\ parts[r][x].status \notin Sent
    BY <2>1 DEF AssignPart
  <2>3. st[r] \notin Settled
    BY <2>2 DEF KeptUp, SettledStepsHaveDoneParts, AllParts, Sent
  <2>4. [parts[r][x] EXCEPT !.holder = q] \in PartRecords
    BY <1>1, <2>2 DEF PartRecords
  <2>5. ps \in [DOMAIN parts[r] -> PartRecords]
    BY <1>1, <2>4
  <2>6. ps \in PartTables
    BY <1>1, <2>5, TableHasParts, PartsMakeTable
  <2>7. parts' = [parts EXCEPT ![r] = ps] /\ UNCHANGED <<garments, st, performer, task>>
    BY <1>1, <2>1 DEF AssignPart
  <2> HIDE DEF ps
  <2> QED
    BY <2>3, <2>6, <2>7, OpenPartsKeptUp
<1> QED
  BY <1>2, <1>3, <1>4

LEMMA PartsKeepUp ==
  ASSUME IInv, KeptUp, NEW p \in People, NEW r \in Live, NEW x \in PartIds,
         NEW done \in BOOLEAN, NEW photo \in BOOLEAN,
         SendBackPart(p, r, x) \/ StartPart(p, r, x) \/ SendPart(p, r, x, done, photo)
  PROVE  KeptUp'
<1>1. r \in AllRows /\ parts[r] \in PartTables /\ x \in DOMAIN parts[r] /\ st[r] \notin Settled
  BY LiveRows DEF KeptUp, SendBackPart, StartPart, SendPart, MayMovePart
<1> DEFINE At(s) == [parts[r] EXCEPT ![x].status = s]
<1>2. \A s \in PartStatuses : At(s) \in PartTables
  BY <1>1, PartMoved
<1>3. "IN_PROGRESS" \in Statuses \ Settled /\ "IN_PROGRESS" \in PartStatuses
      /\ "PENDING_VERIFICATION" \in Statuses \ Settled /\ "PENDING_VERIFICATION" \in PartStatuses
      /\ "COMPLETED" \in PartStatuses
  BY DEF Statuses, Settled, PartStatuses
<1>4. CASE SendBackPart(p, r, x)
  <2>1. parts' = [parts EXCEPT ![r] = At("IN_PROGRESS")] /\ UNCHANGED <<garments, performer>>
    BY <1>1, <1>4 DEF SendBackPart
  <2>2. At("IN_PROGRESS") \in PartTables
    BY <1>2, <1>3
  <2>3. UNCHANGED <<st, task>> \/ WriteStage(r, "IN_PROGRESS")
    BY <1>4 DEF SendBackPart
  <2>4. performer' \in [AllRows -> Staff \cup {Nobody}]
    BY <2>1 DEF KeptUp
  <2> HIDE DEF At
  <2> QED
    BY <1>1, <1>3, <2>1, <2>2, <2>3, <2>4, OneRowKeptUp, OpenPartsKeptUp
<1>5. CASE StartPart(p, r, x)
  <2>1. parts' = [parts EXCEPT ![r] = At("IN_PROGRESS")]
    BY <1>1, <1>5 DEF StartPart
  <2>2. At("IN_PROGRESS") \in PartTables
    BY <1>2, <1>3
  <2>3. \/ UNCHANGED <<garments, st, performer, task>>
        \/ /\ garments' = garments /\ WriteStage(r, "IN_PROGRESS")
           /\ performer' \in [AllRows -> Staff \cup {Nobody}]
    BY <1>5, PerformerNamed DEF StartPart, MoveStep
  <2> HIDE DEF At
  <2> QED
    BY <1>1, <1>3, <2>1, <2>2, <2>3, OneRowKeptUp, OpenPartsKeptUp
<1>6. CASE SendPart(p, r, x, done, photo)
  <2> DEFINE e == Written(p, r, "COMPLETED", Nobody)
             s == IF done /\ Supervisor(p) THEN "COMPLETED" ELSE "PENDING_VERIFICATION"
             now == At(s)
             after == FollowStep(now, st[r], e)
  <2>1. now \in PartTables
    BY <1>2, <1>3
  <2>2. e \in Statuses
    BY DEF Written, Statuses
  <2>3. after \in PartTables /\ (e \in Settled => AllParts(after, {"COMPLETED"}))
    <3> HIDE DEF now
    <3> QED
      BY <2>1, PartsFollow
  <2>4. \/ MoveStep(p, r, e, Nobody) /\ parts' = [parts EXCEPT ![r] = after]
        \/ /\ parts' = [parts EXCEPT ![r] = now]
           /\ UNCHANGED <<garments, performer>>
           /\ UNCHANGED <<st, task>> \/ WriteStage(r, "PENDING_VERIFICATION")
    BY <1>6 DEF SendPart
  <2> HIDE DEF e, now, after
  <2>5. CASE MoveStep(p, r, e, Nobody) /\ parts' = [parts EXCEPT ![r] = after]
    <3>1. performer' \in [AllRows -> Staff \cup {Nobody}]
      BY <2>5, PerformerNamed
    <3>2. WriteStage(r, e) /\ garments' = garments
      BY <2>5 DEF MoveStep
    <3> QED
      BY <2>2, <2>3, <2>5, <3>1, <3>2, OneRowKeptUp
  <2>6. CASE /\ parts' = [parts EXCEPT ![r] = now]
             /\ UNCHANGED <<garments, performer>>
             /\ UNCHANGED <<st, task>> \/ WriteStage(r, "PENDING_VERIFICATION")
    <3>1. performer' \in [AllRows -> Staff \cup {Nobody}]
      BY <2>6 DEF KeptUp
    <3> QED
      BY <1>1, <1>3, <2>1, <2>6, <3>1, OneRowKeptUp, OpenPartsKeptUp
  <2> QED
    BY <2>4, <2>5, <2>6
<1> QED
  BY <1>4, <1>5, <1>6

\* A new garment's rows are blank, tasks and parts with them, or the single rows'.
LEMMA AddGarmentKeepsUp ==
  ASSUME IInv, KeptUp, NEW g \in Garments, AddGarment(g)
  PROVE  KeptUp'
<1> DEFINE Placeholder(r) == <<r[1], NoGarment>>
<1>1. /\ g \notin garments /\ g # NoGarment
      /\ garments' = garments \cup {g} /\ Live' = RowsFor(garments \cup {g})
      /\ st' = RowsLaid(g, st, "NOT_STARTED")
      /\ task' = RowsLaid(g, task, "PENDING")
      /\ performer' = RowsLaid(g, performer, Nobody)
      /\ parts' = [r \in AllRows |-> IF r \in Live' /\ r[2] # g THEN parts[r] ELSE <<>>]
  BY GarmentAssumption DEF AddGarment, Live, RowsFor, IInv, TasksLaid
<1>2. \A r \in AllRows : Placeholder(r) \in AllRows
  BY DEF AllRows
<1>3. /\ task' \in [AllRows -> TaskStatuses]
      /\ performer' \in [AllRows -> Staff \cup {Nobody}]
      /\ parts' \in [AllRows -> PartTables]
  <2>1. task' \in [AllRows -> TaskStatuses]
    BY <1>1, <1>2 DEF RowsLaid, KeptUp, TaskStatuses
  <2>2. performer' \in [AllRows -> Staff \cup {Nobody}]
    BY <1>1, <1>2 DEF RowsLaid, KeptUp
  <2>3. parts' \in [AllRows -> PartTables]
    BY <1>1, NoPartsIsTable DEF KeptUp
  <2> QED
    BY <2>1, <2>2, <2>3
<1>4. ASSUME NEW r \in Live', r[2] # g
      PROVE  r \in Live /\ st'[r] = st[r] /\ task'[r] = task[r] /\ parts'[r] = parts[r]
  BY <1>1, <1>4 DEF RowsLaid, Live, RowsFor, AllRows
<1>5. ASSUME NEW r \in Live', r[2] = g, garments # {}
      PROVE  st'[r] = "NOT_STARTED" /\ task'[r] = "PENDING"
  BY <1>1, <1>5 DEF RowsLaid, RowsFor
<1>6. ASSUME NEW r \in Live', r[2] = g, garments = {}
      PROVE  /\ Placeholder(r) \in Live
             /\ st'[r] = st[Placeholder(r)] /\ task'[r] = task[Placeholder(r)]
  BY <1>1, <1>6 DEF RowsLaid, Live, RowsFor, AllRows
<1>7. \A r \in Live' : r[2] = g => parts'[r] = <<>>
  BY <1>1 DEF RowsFor
<1>8. TaskFor["NOT_STARTED"] = "PENDING"
  BY DEF TaskFor, Statuses
<1>9. TasksTellTheirStage'
  <2> SUFFICES ASSUME NEW r \in Live', HasTask(r) PROVE task'[r] = TaskFor[st'[r]]
    BY DEF TasksTellTheirStage, HasTask, KeyOf
  <2>1. \A s \in Live : HasTask(s) => task[s] = TaskFor[st[s]]
    BY DEF KeptUp, TasksTellTheirStage
  <2>2. HasTask(Placeholder(r))
    BY DEF HasTask, KeyOf
  <2>3. CASE r[2] # g
    BY <1>4, <2>1, <2>3
  <2>4. CASE r[2] = g /\ garments # {}
    BY <1>5, <1>8, <2>4
  <2>5. CASE r[2] = g /\ garments = {}
    BY <1>6, <2>1, <2>2, <2>5
  <2> QED
    BY <2>3, <2>4, <2>5
<1>10. SettledStepsHaveDoneParts'
  BY <1>4, <1>7, NoPartsIsTable DEF KeptUp, SettledStepsHaveDoneParts, AllParts
<1> QED
  BY <1>3, <1>9, <1>10 DEF KeptUp

LEMMA NextKeepsUp == IInv /\ KeptUp /\ [Next]_vars => KeptUp'
<1> SUFFICES ASSUME IInv, KeptUp, [Next]_vars PROVE KeptUp'
  OBVIOUS
<1>1. ASSUME NEW p \in People, NEW r \in Live, Request(p, r) PROVE KeptUp'
  <2>1. CASE \E n \in Statuses : Transition(p, r, n)
    BY <2>1, TransitionKeepsUp
  <2>2. CASE Reopen(p, r)
    BY <2>2, ReopenKeepsUp
  <2>3. CASE FailQC(p, r)
    BY <2>3, FailQCKeepsUp
  <2>4. CASE \/ \E S \in SUBSET PartIds : \E h \in [S -> Staff] : Split(p, r, h)
             \/ Unsplit(p, r)
             \/ \E x \in PartIds, q \in Staff : AssignPart(p, r, x, q)
    BY <2>4, HandingOutKeepsUp
  <2>5. CASE \E x \in PartIds : SendBackPart(p, r, x) \/ StartPart(p, r, x)
    BY <2>5, PartsKeepUp
  <2>6. CASE \E x \in PartIds, done, photo \in BOOLEAN : SendPart(p, r, x, done, photo)
    BY <2>6, PartsKeepUp
  <2> QED
    BY <1>1, <2>1, <2>2, <2>3, <2>4, <2>5, <2>6 DEF Request
<1>2. CASE \E d \in DataItems : ProvideData(d)
  BY <1>2, OthersKeepUp DEF ProvideData
<1>3. CASE \E g \in Garments : AddGarment(g)
  BY <1>3, AddGarmentKeepsUp
<1>4. CASE UNCHANGED vars
  BY <1>4, OthersKeepUp DEF vars
<1> QED
  BY <1>1, <1>2, <1>3, <1>4 DEF Next

\* What every reachable state satisfies.
Kept == IInv /\ KeptUp

LEMMA KeptAlways == Spec => []Kept
<1>1. Init => Kept
  BY InitIInv, InitKeptUp DEF Kept
<1>2. Kept /\ [Next]_vars => Kept'
  BY NextKeepsIInv, NextKeepsUp DEF Kept
<1> QED
  BY <1>1, <1>2, PTL DEF Spec

\* Every production task tells the story of its stage row, after every transition,
\* submission, part move, reopening, failed check and laying of rows.
THEOREM TasksAreTrue == Spec => []TasksTellTheirStage
<1>1. Kept => TasksTellTheirStage
  BY DEF Kept, KeptUp
<1> QED
  BY <1>1, KeptAlways, PTL

\* However a split step comes to be settled -- as a whole by a supervisor, or by its
\* last part -- none of its parts is left open.
THEOREM SettledMeansDone == Spec => []SettledStepsHaveDoneParts
<1>1. Kept => SettledStepsHaveDoneParts
  BY DEF Kept, KeptUp
<1> QED
  BY <1>1, KeptAlways, PTL

-----------------------------------------------------------------------------
(* Signing off, and going back *)

\* Whoever moves a row to COMPLETED may: the rules of a sign-off, or of work whose
\* Done is no submission.
LEMMA WrittenCompleted ==
  ASSUME NEW p, NEW q, NEW r \in Live, NEW n, NEW photo, NEW note, st[r] # "COMPLETED",
         Written(p, r, n, q) = "COMPLETED", SignOffRules(p, r, n, q, photo, note)
  PROVE  LET worker == IF st[r] = "PENDING_VERIFICATION" THEN performer[r]
                       ELSE PerformerAfter(p, r, q)
         IN  \/ RoleOf[p] \in LeadRoles
             \/ RoleOf[p] = "Master" /\ (HandsOn(KeyOf(r)) => ~ByMaster(worker))
<1>1. n = "COMPLETED" /\ (st[r] = "PENDING_VERIFICATION" \/ ~Submits(p, q, KeyOf(r)))
  BY DEF Written
<1>2. CASE st[r] = "PENDING_VERIFICATION"
  BY <1>2 DEF SignOffRules, MaySignOff
<1>3. CASE st[r] # "PENDING_VERIFICATION" /\ ~Submits(p, q, KeyOf(r)) /\ RoleOf[p] \notin LeadRoles
  <2>1. RoleOf[p] = "Master"
    BY <1>3 DEF Submits
  <2>2. CASE ~HandsOn(KeyOf(r))
    BY <1>3, <2>1, <2>2
  <2>3. CASE q # Nobody /\ Supervisor(p) /\ RoleOf[q] # "Master"
    BY <1>3, <2>1, <2>3 DEF PerformerAfter, ByMaster
  <2> QED
    BY <1>3, <2>1, <2>2, <2>3 DEF Submits
<1> QED
  BY <1>1, <1>2, <1>3

SignedOff(r) ==
  LET p == audit'.by
      worker == IF st[r] = "PENDING_VERIFICATION" THEN performer[r] ELSE performer'[r]
  IN  \/ RoleOf[p] \in LeadRoles
      \/ RoleOf[p] = "Master" /\ (HandsOn(KeyOf(r)) => ~ByMaster(worker))

\* A row written as moved is the one asked for, signed off by who asked.
LEMMA MovedIsSignedOff ==
  ASSUME Kept, NEW p, NEW r \in Live, NEW q, NEW n, NEW photo, NEW note, NEW event,
         SignOffRules(p, r, n, q, photo, note), MoveStep(p, r, Written(p, r, n, q), q),
         Logged(p, event), NEW s \in Live, st[s] # "COMPLETED", st'[s] = "COMPLETED"
  PROVE  SignedOff(s)
<1> DEFINE e == Written(p, r, n, q)
<1>1. st' = [st EXCEPT ![r] = e] /\ performer' = [performer EXCEPT ![r] = PerformerAfter(p, r, q)]
  BY DEF MoveStep, WriteStage
<1>2. r \in AllRows /\ s \in AllRows /\ audit'.by = p
  BY LiveRows DEF Logged
<1>3. s = r /\ e = "COMPLETED" /\ performer'[r] = PerformerAfter(p, r, q)
  BY <1>1, <1>2 DEF Kept, IInv, KeptUp
<1> HIDE DEF e
<1> QED
  BY <1>2, <1>3, WrittenCompleted DEF e, SignedOff

LEMMA CompletedOnlySigned ==
  ASSUME Kept, [Next]_vars, NEW s \in Live, st[s] # "COMPLETED", st'[s] = "COMPLETED"
  PROVE  SignedOff(s)
<1>1. s \in AllRows /\ st \in [AllRows -> Statuses] /\ garments \subseteq Garments
  BY LiveRows DEF Kept, IInv
<1>2. ASSUME NEW p \in People, NEW r \in Live, Request(p, r) PROVE SignedOff(s)
  <2>1. CASE \E n \in Statuses : Transition(p, r, n)
    <3>1. PICK n \in Statuses : Transition(p, r, n)
      BY <2>1
    <3>2. PICK q \in Staff \cup {Nobody}, photo \in BOOLEAN, note \in BOOLEAN :
            SignOffRules(p, r, n, q, photo, note) /\ MoveStep(p, r, Written(p, r, n, q), q)
      BY <3>1 DEF Transition
    <3>3. Logged(p, "STAGE_TRANSITION")
      BY <3>1 DEF Transition
    <3> QED
      BY <3>2, <3>3, MovedIsSignedOff
  <2>2. CASE Reopen(p, r)
    BY <1>1, <2>2 DEF Reopen
  <2>3. CASE FailQC(p, r)
    BY <1>1, <2>3 DEF FailQC
  <2>4. CASE UNCHANGED st
    BY <2>4
  <2>5. CASE \E x \in PartIds : SendBackPart(p, r, x) \/ StartPart(p, r, x)
    BY <1>1, <2>5 DEF SendBackPart, StartPart, MoveStep, WriteStage
  <2>6. CASE \E x \in PartIds, done, photo \in BOOLEAN : SendPart(p, r, x, done, photo)
    <3>1. PICK x \in PartIds, done \in BOOLEAN, photo \in BOOLEAN : SendPart(p, r, x, done, photo)
      BY <2>6
    <3>2. /\ SignOffRules(p, r, "COMPLETED", Nobody, FALSE, FALSE)
          /\ MoveStep(p, r, Written(p, r, "COMPLETED", Nobody), Nobody)
      BY <1>1, <3>1 DEF SendPart, WriteStage
    <3>3. Logged(p, "PART_SENT")
      BY <3>1 DEF SendPart
    <3> QED
      BY <3>2, <3>3, MovedIsSignedOff
  <2> QED
    BY <1>2, <2>1, <2>2, <2>3, <2>4, <2>5, <2>6 DEF Request, Split, Unsplit, AssignPart
<1>3. CASE \E g \in Garments : AddGarment(g)
  <2>1. PICK g \in Garments : AddGarment(g)
    BY <1>3
  <2>2. st' = RowsLaid(g, st, "NOT_STARTED") /\ g \notin garments /\ g # NoGarment
    BY <2>1, GarmentAssumption DEF AddGarment
  <2>3. s[2] # g
    BY <2>2, LiveRows
  <2> QED
    BY <1>1, <2>2, <2>3 DEF RowsLaid
<1>4. CASE UNCHANGED st
  BY <1>4
<1> QED
  BY <1>2, <1>3, <1>4 DEF Next, ProvideData, vars

\* However a stage comes to be completed -- pressed Done, verified, or by its last
\* part -- whoever did it is a lead approver, or a Master who does not thereby sign
\* off a Master's hands-on work (stage_verification.py).
THEOREM OnlyApproversComplete == Spec => CompletionIsSignedOff
<1>1. Kept /\ [Next]_vars =>
        [\A r \in Live : st[r] # "COMPLETED" /\ st'[r] = "COMPLETED" =>
           LET p == audit'.by
               worker == IF st[r] = "PENDING_VERIFICATION" THEN performer[r] ELSE performer'[r]
           IN  \/ RoleOf[p] \in LeadRoles
               \/ RoleOf[p] = "Master" /\ (HandsOn(KeyOf(r)) => ~ByMaster(worker))]_vars
  BY CompletedOnlySigned DEF SignedOff
<1> QED
  BY <1>1, KeptAlways, PTL DEF Spec, CompletionIsSignedOff

-----------------------------------------------------------------------------
(* Going back *)

\* Every stage that may be skipped is desk work, as every waived one is.  A skipped
\* stage that a worker may touch can be pressed Done, and is then submitted: it goes
\* from SKIPPED to PENDING_VERIFICATION by an ordinary transition.
OptionalIsDeskWork == \A i \in Steps : Path[i] \in Optional =>
  Allowed[Path[i]] # {} /\ Allowed[Path[i]] \subseteq {"Owner", "Designer", "Master"}

\* A skipped row is never submitted.
LEMMA SkippedIsNotSubmitted ==
  ASSUME OptionalIsDeskWork, IInv, NEW p \in People, NEW q \in Staff \cup {Nobody}, NEW r \in Live,
         st[r] = "SKIPPED", RoleGate(p, r)
  PROVE  ~Submits(p, q, KeyOf(r))
<1>1. KeyOf(r) \in Optional \cup Waived
  BY DEF IInv, SkippedMayBe
<1>2. Allowed[KeyOf(r)] # {} /\ Allowed[KeyOf(r)] \subseteq {"Owner", "Designer", "Master"}
  BY <1>1, LiveRows, RequiredStages DEF OptionalIsDeskWork, KeyOf
<1>3. ~HandsOn(KeyOf(r))
  BY <1>2 DEF HandsOn
<1>4. RoleOf[p] \in {"Owner", "Designer", "Master"}
  BY <1>2 DEF RoleGate, HoldsRole
<1> QED
  BY <1>3, <1>4 DEF Submits, LeadRoles

\* What unsettles a row is a reopening or a failed check.
LEMMA OnlyReversals ==
  ASSUME OptionalIsDeskWork, IInv, [Next]_vars, garments' = garments,
         NEW s \in Live, st[s] \in Settled, st'[s] \notin Settled
  PROVE  \E p \in People, r \in Live : Reopen(p, r) \/ FailQC(p, r)
<1>1. s \in AllRows /\ st \in [AllRows -> Statuses]
  BY LiveRows DEF IInv
<1>2. ASSUME NEW p \in People, NEW r \in Live, Request(p, r) PROVE Reopen(p, r) \/ FailQC(p, r)
  <2>1. CASE \E n \in Statuses : Transition(p, r, n)
    <3>1. PICK n \in Statuses : Transition(p, r, n)
      BY <2>1
    <3>2. PICK q \in Staff \cup {Nobody} : st' = [st EXCEPT ![r] = Written(p, r, n, q)]
      BY <3>1 DEF Transition, MoveStep, WriteStage
    <3>3. s = r /\ Written(p, r, n, q) \notin Settled
      BY <1>1, <3>2
    <3>4. RoleGate(p, r) /\ n \in Settled /\ ~(st[r] = "COMPLETED" /\ n = "COMPLETED")
      BY <3>1, <3>3 DEF Transition, CheckTransition
    <3>5. n = "COMPLETED" /\ Submits(p, q, KeyOf(r))
      BY <3>3, <3>4 DEF Written
    <3>6. st[r] = "SKIPPED"
      BY <3>3, <3>4, <3>5 DEF Settled
    <3> QED
      BY <3>4, <3>5, <3>6, SkippedIsNotSubmitted
  <2>2. CASE UNCHANGED st
    BY <2>2
  <2>3. CASE \E x \in PartIds : SendBackPart(p, r, x) \/ StartPart(p, r, x)
    <3>1. st[r] \notin Settled /\ (UNCHANGED st \/ \E e \in Statuses : st' = [st EXCEPT ![r] = e])
      BY <2>3 DEF SendBackPart, StartPart, MayMovePart, MoveStep, WriteStage, Statuses
    <3> QED
      BY <1>1, <3>1
  <2>4. CASE \E x \in PartIds, done, photo \in BOOLEAN : SendPart(p, r, x, done, photo)
    <3>1. PICK x \in PartIds, done \in BOOLEAN, photo \in BOOLEAN : SendPart(p, r, x, done, photo)
      BY <2>4
    <3>2. st[r] \notin Settled /\ (UNCHANGED st \/ \E e : st' = [st EXCEPT ![r] = e])
      BY <3>1 DEF SendPart, MayMovePart, MoveStep, WriteStage
    <3> QED
      BY <1>1, <3>2
  <2> QED
    BY <1>2, <2>1, <2>2, <2>3, <2>4 DEF Request, Split, Unsplit, AssignPart
<1>3. CASE \E g \in Garments : AddGarment(g)
  BY <1>3 DEF AddGarment
<1>4. CASE UNCHANGED st
  BY <1>4
<1> QED
  BY <1>2, <1>3, <1>4 DEF Next, ProvideData, vars

\* A settled stage is unsettled by a reopening or a failed quality check and by
\* nothing else, whoever presses what (workflow.check_transition, check_reopen).
THEOREM SettledStaysSettled ==
  ASSUME OptionalIsDeskWork PROVE Spec => OnlyReversalsUnsettle
<1>1. Kept /\ [Next]_vars =>
        [\A r \in Live : garments' = garments /\ st[r] \in Settled /\ st'[r] \notin Settled =>
           audit'.event \in {"STAGE_REOPENED", "QC_FAILED"}]_vars
  <2>1. ASSUME Kept, [Next]_vars, NEW r \in Live,
               garments' = garments, st[r] \in Settled, st'[r] \notin Settled
        PROVE  audit'.event \in {"STAGE_REOPENED", "QC_FAILED"}
    <3>1. PICK p \in People, q \in Live : Reopen(p, q) \/ FailQC(p, q)
      BY <2>1, OnlyReversals DEF Kept
    <3>2. Logged(p, "STAGE_REOPENED") \/ Logged(p, "QC_FAILED")
      BY <3>1 DEF Reopen, FailQC
    <3> QED
      BY <3>2 DEF Logged
  <2> QED
    BY <2>1
<1> QED
  BY <1>1, KeptAlways, PTL DEF Spec, OnlyReversalsUnsettle

\* A reopening takes back every later stage that has begun.
LEMMA ReopenLeavesNothing ==
  ASSUME IInv, NEW p \in People, NEW o \in Live, Reopen(p, o),
         NEW r \in Live, st[r] \in Settled, st'[r] \notin Settled, NEW s \in Later(r)
  PROVE  st'[s] = "NOT_STARTED"
<1>1. /\ r \in AllRows /\ s \in Live /\ s \in AllRows /\ r[1] < s[1] /\ Concerns(r, s)
      /\ o[1] \in Nat /\ r[1] \in Nat /\ s[1] \in Nat
  BY LiveRows DEF Later
<1>2. \A u \in AllRows : st'[u] = IF u = o THEN IF st[o] = "COMPLETED" THEN "IN_PROGRESS" ELSE "NOT_STARTED"
                                  ELSE IF u \in Undone(o) THEN "NOT_STARTED" ELSE st[u]
  BY DEF Reopen
<1>3. r = o \/ r \in Later(o)
  BY <1>1, <1>2 DEF Undone
<1>4. s \in Later(o)
  <2>1. CASE r = o
    BY <2>1
  <2>2. CASE r \in Later(o)
    <3>1. o[1] < r[1] /\ Concerns(o, r)
      BY <2>2 DEF Later
    <3>2. Concerns(o, s)
      BY <1>1, <3>1, NoOrderRowBetween DEF Concerns, IInv
    <3>3. o[1] < s[1]
      BY <1>1, <3>1
    <3> QED
      BY <1>1, <3>2, <3>3 DEF Later
  <2> QED
    BY <1>3, <2>1, <2>2
<1>5. s # o
  BY <1>4, LiveRows DEF Later
<1> QED
  BY <1>1, <1>2, <1>4, <1>5 DEF Undone

\* A failed check takes back the band before it; with the check unsettled nothing
\* after it has begun.
LEMMA FailQCLeavesNothing ==
  ASSUME Waived = {}, IInv, NEW p \in People, NEW qc \in Live, FailQC(p, qc),
         NEW r \in Live, st[r] \in Settled, st'[r] \notin Settled, NEW s \in Later(r)
  PROVE  st'[s] = "NOT_STARTED"
<1> DEFINE rework == {u \in Band(qc) : st[u] # "NOT_STARTED"}
<1>1. /\ r \in AllRows /\ s \in Live /\ s \in AllRows /\ r[1] < s[1] /\ Concerns(r, s)
      /\ qc[1] \in Nat /\ r[1] \in Nat /\ s[1] \in Nat /\ s[1] \in Steps
  BY LiveRows DEF Later
<1>2. \A u \in AllRows :
        st'[u] = IF u \in rework /\ KeyOf(u) = "stitching_in_progress" THEN "IN_PROGRESS"
                 ELSE IF u \in rework \cup {qc} THEN "NOT_STARTED" ELSE st[u]
  BY DEF FailQC
<1>3. KeyOf(qc) \notin Optional /\ st[qc] \notin Settled
  BY RequiredStages DEF FailQC, IInv, SkippedMayBe, Settled
<1>4. r \in Band(qc)
  BY <1>1, <1>2, <1>3
<1>5. PICK i \in Steps : Path[i] = "stitching_in_progress" /\ i <= r[1]
  BY <1>4 DEF Band
<1>6. r[2] = qc[2] /\ r[1] < qc[1]
  BY <1>4 DEF Band
<1> SUFFICES ASSUME st'[s] # "NOT_STARTED" PROVE FALSE
  OBVIOUS
<1>7. s # qc
  BY <1>1, <1>2 DEF Band
<1>8. s \notin rework
  <2> SUFFICES ASSUME s \in rework PROVE FALSE
    OBVIOUS
  <2>1. KeyOf(s) = "stitching_in_progress"
    BY <1>1, <1>2
  <2>2. i = s[1]
    BY <1>1, <1>5, <2>1, PathAssumption DEF KeyOf
  <2> QED
    BY <1>1, <1>5, <2>2 DEF Steps
<1>9. st[s] # "NOT_STARTED"
  BY <1>1, <1>2, <1>7, <1>8
<1>10. qc \notin Earlier(s)
  BY <1>1, <1>3, <1>9 DEF IInv, PrerequisitesSettled, Outstanding
<1>11. CASE s[2] = qc[2]
  <2>1. s[1] >= qc[1]
    <3> SUFFICES ASSUME s[1] < qc[1] PROVE FALSE
      BY <1>1
    <3>1. i <= s[1]
      BY <1>1, <1>5 DEF Steps
    <3> QED
      BY <1>1, <1>5, <1>8, <1>9, <1>11, <3>1 DEF Band
  <2>2. qc = <<qc[1], qc[2]>> /\ s = <<s[1], s[2]>>
    BY LiveRows, <1>1 DEF AllRows
  <2>3. qc[1] # s[1]
    BY <1>7, <1>11, <2>2
  <2> QED
    BY <1>1, <1>10, <1>11, <2>1, <2>3 DEF Earlier, Concerns
<1>12. CASE s[2] # qc[2]
  <2>1. qc[2] = NoGarment /\ s[2] # NoGarment
    BY <1>1, <1>6, <1>12, NoOrderRowBetween DEF Concerns, IInv
  <2>2. qc[1] >= s[1]
    BY <1>1, <1>10, <2>1 DEF Earlier, Concerns
  <2>3. qc[1] # s[1]
    BY <1>1, <2>1, LiveRows, GarmentAssumption DEF IInv
  <2> QED
    BY <1>1, <2>1, <2>2, <2>3, NoOrderRowBetween DEF IInv
<1> QED
  BY <1>11, <1>12

\* When a settled stage goes back, by either way, no later stage of its garment or of
\* the order is left begun (reopen_order_stage, fail_quality_check) -- in an order with
\* nothing waived: a waived row is laid settled and not put back by a failed check.
THEOREM NothingStandsAhead ==
  ASSUME OptionalIsDeskWork, Waived = {} PROVE Spec => ReversalLeavesNothingAhead
<1>1. Kept /\ [Next]_vars =>
        [\A r \in Live : garments' = garments /\ st[r] \in Settled /\ st'[r] \notin Settled =>
           \A s \in Later(r) : st'[s] = "NOT_STARTED"]_vars
  <2>1. ASSUME Kept, [Next]_vars, NEW r \in Live, NEW s \in Later(r),
               garments' = garments, st[r] \in Settled, st'[r] \notin Settled
        PROVE  st'[s] = "NOT_STARTED"
    <3>1. PICK p \in People, q \in Live : Reopen(p, q) \/ FailQC(p, q)
      BY <2>1, OnlyReversals DEF Kept
    <3> QED
      BY <2>1, <3>1, ReopenLeavesNothing, FailQCLeavesNothing DEF Kept
  <2> QED
    BY <2>1
<1> QED
  BY <1>1, KeptAlways, PTL DEF Spec, ReversalLeavesNothingAhead

-----------------------------------------------------------------------------
(* What the order says of its rows *)

\* As in the default workflow: every stage has a word for the customer, and the last
\* thing done to a garment is to hand it over, after its quality check.
CheckedThenHandedOver ==
  /\ \A i \in Steps : Path[i] \in ClaimedKeys \cup {"alteration_work"}
  /\ \A i, j \in Steps : Path[i] = "delivered" => j <= i
  /\ \A i \in Steps : Path[i] = "delivered" => \E j \in Steps :
       /\ j < i /\ Path[j] = "master_quality_check"
       /\ Path[i] \in PerGarment =>
            Path[j] \in PerGarment /\ \A g \in Garments : {Path[i], Path[j]} \subseteq Carries[g]

\* Nothing was done yet for garment g, which joined the order late.
Untouched(g) == g # NoGarment /\ \A s \in Live : s[2] = g => st[s] = "NOT_STARTED"

Handovers == {d \in Live : KeyOf(d) = "delivered"}

\* Only work that workers do is split.
SplitIsHandsOn == \A r \in Live : DOMAIN parts[r] # {} => PartRoles(KeyOf(r)) # {}

\* An order said to be finished has nothing under way.
NothingUnderWay == production = "COMPLETED" => \A r \in Live : st[r] \in Settled \cup {"NOT_STARTED"}

\* An order said to be delivered was, but for garments that joined it since.
DeliveredBefore ==
  orderStatus = "Delivered" =>
    /\ \A d \in Handovers : st[d] \in Settled \/ Untouched(d[2])
    /\ Handovers # {} => \E d \in Handovers : st[d] \in Settled

AllHandedOver == \A d \in Handovers : st[d] \in Settled

Told == SplitIsHandsOn /\ NothingUnderWay /\ DeliveredBefore

\* The words for what is not a handover.
LEMMA OnlyHandoversDeliver ==
  ASSUME CheckedThenHandedOver, NEW r \in Live, NEW e, NEW s1, StatusAfter(r, e, s1) = "Delivered"
  PROVE  /\ r \in Handovers
         /\ \/ \A d \in Handovers : s1[d] \in Settled
            \/ orderStatus = "Delivered"
<1>1. KeyOf(r) \in ClaimedKeys \cup {"alteration_work"}
  BY LiveRows DEF CheckedThenHandedOver, KeyOf
<1>2. KeyOf(r) = "delivered"
  BY <1>1 DEF StatusAfter, ClaimedKeys, CuttingKeys, DispatchKeys
<1>3. \/ \A d \in Live : KeyOf(d) = "delivered" => s1[d] \in Settled
      \/ orderStatus = "Delivered"
  BY <1>2 DEF StatusAfter, CuttingKeys, DispatchKeys
<1> QED
  BY <1>2, <1>3 DEF Handovers

\* The words after a reversal: only settled handovers still claim delivery.
LEMMA RecomputedIsTrue ==
  ASSUME NEW s1, RecomputedStatus(s1) = "Delivered"
  PROVE  Handovers # {} /\ \A d \in Handovers : s1[d] \in Settled
<1> DEFINE standing == {i \in Steps : /\ Path[i] \in ClaimedKeys
                                      /\ \E r \in Live : r[1] = i
                                      /\ \A r \in Live : r[1] = i => s1[r] \in Settled}
           last == {i \in standing : \A j \in standing : j <= i}
<1>1. last # {} /\ SettledClaim(Path[CHOOSE i \in last : TRUE]) = "Delivered"
  BY DEF RecomputedStatus
<1>2. PICK i \in last : SettledClaim(Path[i]) = "Delivered"
  BY <1>1
<1>3. Path[i] = "delivered"
  BY <1>2 DEF SettledClaim, ClaimedKeys, CuttingKeys, DispatchKeys
<1>4. i \in Steps /\ (\E r \in Live : r[1] = i) /\ \A r \in Live : r[1] = i => s1[r] \in Settled
  OBVIOUS
<1>5. \A d \in Handovers : d \in Live /\ d[1] = i
  BY <1>3, <1>4, LiveRows, PathAssumption DEF Handovers, KeyOf
<1>6. \E d \in Handovers : TRUE
  BY <1>3, <1>4 DEF Handovers, KeyOf
<1> QED
  BY <1>4, <1>5, <1>6

\* A handover that is settled or of a garment nothing was done for cannot be moved.
LEMMA HandoverStands ==
  ASSUME CheckedThenHandedOver, IInv, DeliveredBefore, orderStatus = "Delivered",
         NEW r \in Handovers, NEW p, NEW n \in Statuses, n # "NOT_STARTED",
         CheckTransition(p, r, n), ~(st[r] = "COMPLETED" /\ n = "COMPLETED")
  PROVE  FALSE
<1>1. r \in Live /\ Path[r[1]] = "delivered" /\ r[1] \in Steps
  BY LiveRows DEF Handovers, KeyOf
<1>2. CASE st[r] \in Settled
  <2>1. n \in Settled /\ (n = "SKIPPED" => KeyOf(r) \in Optional)
    BY <1>2 DEF CheckTransition
  <2>2. st[r] = "SKIPPED" \/ n = "SKIPPED"
    BY <1>2, <2>1 DEF Settled
  <2>3. KeyOf(r) \in Optional \cup Waived
    BY <1>1, <2>1, <2>2 DEF IInv, SkippedMayBe
  <2> QED
    BY <1>1, <2>3, RequiredStages DEF KeyOf
<1>3. CASE st[r] \notin Settled
  <2>1. Untouched(r[2])
    BY <1>3 DEF DeliveredBefore
  <2>2. Path[r[1]] \in PerGarment /\ garments # {} /\ r[2] \in garments /\ r[2] \in Garments
    BY <1>1, <2>1, LiveRows DEF Untouched, IInv
  <2>3. PICK j \in Steps : /\ j < r[1] /\ Path[j] = "master_quality_check" /\ Path[j] \in PerGarment
                           /\ Path[j] \in Carries[r[2]]
    BY <1>1, <2>2 DEF CheckedThenHandedOver
  <2> DEFINE c == <<j, r[2]>>
  <2>4. c \in Live /\ c[1] = j /\ c[2] = r[2]
    BY <2>2, <2>3 DEF Live, RowsFor, AllRows
  <2>5. st[c] = "NOT_STARTED"
    BY <2>1, <2>4 DEF Untouched
  <2>6. c \in Outstanding(r)
    BY <2>3, <2>4, <2>5, RequiredStages DEF Outstanding, Earlier, Concerns, KeyOf, Settled
  <2> QED
    BY <2>6 DEF CheckTransition
<1> QED
  BY <1>2, <1>3

\* A step that may be split, and is under way, has no settled handover to answer for.
LEMMA UnderWayIsUndelivered ==
  ASSUME CheckedThenHandedOver, OptionalIsDeskWork, IInv, Told, orderStatus = "Delivered",
         NEW r \in Live, DOMAIN parts[r] # {}, st[r] \notin Settled \cup {"NOT_STARTED"}
  PROVE  Handovers = {}
<1> SUFFICES ASSUME Handovers # {} PROVE FALSE
  OBVIOUS
<1>1. KeyOf(r) \notin Optional \cup Waived
  <2>1. PartRoles(KeyOf(r)) # {}
    BY DEF Told, SplitIsHandsOn
  <2> QED
    BY <2>1, LiveRows, RequiredStages DEF OptionalIsDeskWork, PartRoles, KeyOf
<1>2. \A d \in Handovers : st[d] \in Settled => ~Concerns(d, r)
  <2> SUFFICES ASSUME NEW d \in Handovers, st[d] \in Settled, Concerns(d, r) PROVE FALSE
    OBVIOUS
  <2>1. d \in Live /\ KeyOf(d) = "delivered" /\ d # r /\ r[1] \in Steps /\ d[1] \in Steps
    BY LiveRows DEF Handovers
  <2>2. r[1] # d[1]
    <3> SUFFICES ASSUME r[1] = d[1] PROVE FALSE
      OBVIOUS
    <3>1. r[2] = d[2]
      BY <2>1, LiveRows, GarmentAssumption DEF Concerns, IInv
    <3> QED
      BY <2>1, <3>1, LiveRows DEF AllRows
  <2>3. r[1] < d[1]
    BY <2>1, <2>2 DEF CheckedThenHandedOver, KeyOf, Steps
  <2>4. Outstanding(d) = {}
    BY <2>1, RequiredStages DEF IInv, PrerequisitesSettled, Settled, KeyOf
  <2>5. r \in Outstanding(d)
    BY <1>1, <2>1, <2>3 DEF Outstanding, Earlier
  <2> QED
    BY <2>4, <2>5
<1>3. PICK d \in Handovers : st[d] \in Settled
  BY DEF Told, DeliveredBefore
<1>4. r[2] # NoGarment /\ d[2] # NoGarment
  BY <1>2, <1>3 DEF Concerns
<1>5. Path[d[1]] = "delivered" /\ d[1] \in Steps /\ Path[d[1]] \in PerGarment /\ garments # {}
      /\ r[2] \in garments /\ r[2] \in Garments
  BY <1>4, LiveRows DEF Handovers, KeyOf, IInv
<1> DEFINE mine == <<d[1], r[2]>>
<1>6. mine \in Handovers /\ mine[2] = r[2]
  BY <1>5 DEF Handovers, Live, RowsFor, AllRows, KeyOf, CheckedThenHandedOver
<1>7. st[mine] \notin Settled
  BY <1>2, <1>6 DEF Concerns
<1>8. Untouched(r[2])
  BY <1>6, <1>7 DEF Told, DeliveredBefore
<1> QED
  BY <1>8 DEF Untouched

\* What OrderTellsItsRows asks of the order after a move.
Says == /\ orderStatus = "Delivered" => AllHandedOver
        /\ production = "COMPLETED" <=> \A r \in Live : st[r] \in Settled

LEMMA SaysIsTold == ASSUME Says', SplitIsHandsOn' PROVE Told'
  BY DEF Says, AllHandedOver, Told, NothingUnderWay, DeliveredBefore, Handovers

\* Parts are moved or handed out; nobody else's work is split.
LEMMA SameParts ==
  ASSUME SplitIsHandsOn, garments' = garments, \A r \in Live : DOMAIN parts'[r] = DOMAIN parts[r]
  PROVE  SplitIsHandsOn'
  BY DEF SplitIsHandsOn, KeyOf, Live, RowsFor

LEMMA OthersTell ==
  ASSUME Told, UNCHANGED <<garments, st, orderStatus, production>>, SplitIsHandsOn'
  PROVE  Told'
  BY DEF Told, NothingUnderWay, DeliveredBefore, Untouched, Handovers, KeyOf, Live, RowsFor

\* A step moved by the rules of a transition leaves the order saying what its rows say.
LEMMA MoveSays ==
  ASSUME CheckedThenHandedOver, IInv, DeliveredBefore, NEW p, NEW r \in Live, NEW e, NEW q,
         MoveStep(p, r, e, q), NEW n \in Statuses, n # "NOT_STARTED",
         CheckTransition(p, r, n), ~(st[r] = "COMPLETED" /\ n = "COMPLETED")
  PROVE  Says'
<1>1. Live' = Live /\ Handovers' = Handovers
  BY DEF MoveStep, Live, RowsFor, Handovers, KeyOf
<1>2. production' = "COMPLETED" <=> \A s \in Live : st'[s] \in Settled
  BY DEF MoveStep, ProductionAfter
<1>3. ASSUME orderStatus' = "Delivered" PROVE \A d \in Handovers : st'[d] \in Settled
  <2>1. /\ r \in Handovers
        /\ (\A d \in Handovers : st'[d] \in Settled) \/ orderStatus = "Delivered"
    BY <1>3, OnlyHandoversDeliver DEF MoveStep
  <2> QED
    BY <2>1, HandoverStands
<1> QED
  BY <1>1, <1>2, <1>3 DEF Says, AllHandedOver

LEMMA TransitionTells ==
  ASSUME CheckedThenHandedOver, IInv, KeptUp, Told, NEW p, NEW r \in Live, NEW n \in Statuses,
         Transition(p, r, n)
  PROVE  Told' /\ (st' # st => Says')
<1>1. PICK q \in Staff \cup {Nobody} :
        /\ MoveStep(p, r, Written(p, r, n, q), q)
        /\ parts' = [parts EXCEPT ![r] = FollowStep(@, st[r], Written(p, r, n, q))]
  BY DEF Transition
<1>2. CheckTransition(p, r, n) /\ ~(st[r] = "COMPLETED" /\ n = "COMPLETED")
  BY DEF Transition
<1>3. SplitIsHandsOn'
  <2>1. \A s \in Live : DOMAIN parts'[s] = DOMAIN parts[s]
    BY <1>1, LiveRows DEF FollowStep, KeptUp
  <2> QED
    BY <1>1, <2>1, SameParts DEF Told, MoveStep
<1>4. CASE n # "NOT_STARTED"
  BY <1>1, <1>2, <1>3, <1>4, MoveSays, SaysIsTold DEF Told
<1>5. CASE n = "NOT_STARTED"
  <2>1. st' = [st EXCEPT ![r] = "NOT_STARTED"] /\ garments' = garments
    BY <1>1, <1>5 DEF Written, MoveStep, WriteStage
  <2>2. Live' = Live /\ Handovers' = Handovers
    BY <2>1 DEF Live, RowsFor, Handovers, KeyOf
  <2>3. production' = "COMPLETED" <=> \A s \in Live : st'[s] \in Settled
    BY <1>1 DEF MoveStep, ProductionAfter
  <2>4. st[r] \notin Settled
    BY <1>2, <1>5 DEF CheckTransition, Settled
  <2>5. CASE orderStatus' # "Delivered" \/ \A d \in Handovers : st'[d] \in Settled
    <3>1. Says'
      BY <2>2, <2>3, <2>5 DEF Says, AllHandedOver
    <3> QED
      BY <1>3, <3>1, SaysIsTold
  <2>6. CASE orderStatus' = "Delivered" /\ ~\A d \in Handovers : st'[d] \in Settled
    <3>1. r \in Handovers /\ orderStatus = "Delivered"
      BY <1>1, <2>6, OnlyHandoversDeliver DEF MoveStep
    <3>2. st[r] = "NOT_STARTED"
      BY <2>4, <3>1 DEF Told, DeliveredBefore, Untouched
    <3>3. st' = st
      BY <2>1, <3>2 DEF IInv
    <3>4. NothingUnderWay' /\ DeliveredBefore'
      BY <2>1, <2>2, <2>3, <3>1, <3>3 DEF Told, NothingUnderWay, DeliveredBefore, Untouched
    <3> QED
      BY <1>3, <3>3, <3>4 DEF Told
  <2> QED
    BY <2>5, <2>6
<1> QED
  BY <1>4, <1>5

\* A reversal unsettles a stage, and the order's words are worked out anew.
LEMMA ReversalTells ==
  ASSUME IInv, KeptUp, Told, NEW p, NEW r \in Live, Reopen(p, r) \/ FailQC(p, r)
  PROVE  Told' /\ Says'
<1>1. /\ orderStatus' = RecomputedStatus(st') /\ production' = "IN_PROGRESS"
      /\ garments' = garments
  BY DEF Reopen, FailQC
<1>2. st'[r] \notin Settled
  <2>1. CASE Reopen(p, r)
    BY <2>1, LiveRows DEF Reopen, Settled
  <2>2. CASE FailQC(p, r)
    BY <2>2, LiveRows DEF FailQC, Settled
  <2> QED
    BY <2>1, <2>2
<1>3. \A s \in Live : DOMAIN parts'[s] = DOMAIN parts[s]
  <2>1. CASE Reopen(p, r)
    <3>1. parts' = [s \in AllRows |->
            IF s \in Undone(r) \cup {r}
            THEN [x \in DOMAIN parts[s] |-> [parts[s][x] EXCEPT !.status = st'[s]]]
            ELSE parts[s]]
      BY <2>1 DEF Reopen
    <3> QED
      BY <3>1, LiveRows
  <2>2. CASE FailQC(p, r)
    BY <2>2 DEF FailQC
  <2> QED
    BY <2>1, <2>2
<1>4. Live' = Live /\ Handovers' = Handovers
  BY <1>1 DEF Live, RowsFor, Handovers, KeyOf
<1>5. Says'
  BY <1>1, <1>2, <1>4, RecomputedIsTrue DEF Says, AllHandedOver
<1> QED
  BY <1>1, <1>3, <1>5, SameParts, SaysIsTold DEF Told

\* A part sent or sent back moves its step only while the step is under way, when the
\* order is said to be neither finished nor delivered.
LEMMA PartMoveSays ==
  ASSUME CheckedThenHandedOver, OptionalIsDeskWork, IInv, Told, NEW r \in Live,
         DOMAIN parts[r] # {}, st[r] \notin Settled \cup {"NOT_STARTED"},
         NEW e \in {"IN_PROGRESS", "PENDING_VERIFICATION"}, st' = [st EXCEPT ![r] = e],
         UNCHANGED <<garments, orderStatus, production>>
  PROVE  Says'
<1>1. Live' = Live /\ Handovers' = Handovers
  BY DEF Live, RowsFor, Handovers, KeyOf
<1>2. st'[r] \notin Settled
  BY LiveRows DEF IInv, Settled
<1>3. production # "COMPLETED"
  BY DEF Told, NothingUnderWay
<1>4. orderStatus = "Delivered" => Handovers = {}
  BY UnderWayIsUndelivered
<1> QED
  BY <1>1, <1>2, <1>3, <1>4 DEF Says, AllHandedOver

LEMMA PartsTell ==
  ASSUME CheckedThenHandedOver, OptionalIsDeskWork, IInv, KeptUp, Told,
         NEW p, NEW r \in Live, NEW x, NEW done, NEW photo,
         SendBackPart(p, r, x) \/ StartPart(p, r, x) \/ SendPart(p, r, x, done, photo)
  PROVE  Told' /\ (st' # st => Says')
<1>1. st[r] \notin Settled /\ DOMAIN parts[r] # {} /\ garments' = garments
  BY DEF SendBackPart, StartPart, SendPart, MayMovePart, MoveStep
<1>2. SplitIsHandsOn'
  <2>1. \A s \in Live : DOMAIN parts'[s] = DOMAIN parts[s]
    <3>1. r \in AllRows /\ parts \in [AllRows -> PartTables]
      BY LiveRows DEF KeptUp
    <3>2. CASE SendBackPart(p, r, x)
      BY <3>1, <3>2 DEF SendBackPart
    <3>3. CASE StartPart(p, r, x)
      BY <3>1, <3>3 DEF StartPart
    <3>4. CASE SendPart(p, r, x, done, photo)
      <4>1. PICK ps : parts' = [parts EXCEPT ![r] = ps] /\ DOMAIN ps = DOMAIN parts[r]
        <5> DEFINE now == [parts[r] EXCEPT ![x].status =
                             IF done /\ Supervisor(p) THEN "COMPLETED" ELSE "PENDING_VERIFICATION"]
                   e   == Written(p, r, "COMPLETED", Nobody)
        <5>1. DOMAIN now = DOMAIN parts[r] /\ DOMAIN FollowStep(now, st[r], e) = DOMAIN now
          BY DEF FollowStep
        <5>2. \/ parts' = [parts EXCEPT ![r] = now]
              \/ parts' = [parts EXCEPT ![r] = FollowStep(now, st[r], e)]
          BY <3>4 DEF SendPart
        <5> QED
          BY <5>1, <5>2
      <4> QED
        BY <3>1, <4>1
    <3> QED
      BY <3>2, <3>3, <3>4
  <2> QED
    BY <1>1, <2>1, SameParts DEF Told
<1>3. \/ UNCHANGED <<st, orderStatus, production>>
      \/ Says'
  <2>1. CASE SendBackPart(p, r, x)
    <3>1. CASE st[r] = "PENDING_VERIFICATION"
      BY <1>1, <2>1, <3>1, PartMoveSays DEF SendBackPart, WriteStage
    <3> QED
      BY <2>1, <3>1 DEF SendBackPart
  <2>2. CASE StartPart(p, r, x)
    <3>1. CASE CheckTransition(p, r, "IN_PROGRESS") /\ MoveStep(p, r, "IN_PROGRESS", Nobody)
      BY <3>1, MoveSays DEF Told, Statuses
    <3> QED
      BY <2>2, <3>1 DEF StartPart
  <2>3. CASE SendPart(p, r, x, done, photo)
    <3>1. CASE /\ CheckTransition(p, r, "COMPLETED")
               /\ MoveStep(p, r, Written(p, r, "COMPLETED", Nobody), Nobody)
      BY <1>1, <3>1, MoveSays DEF Told, Statuses, Settled
    <3>2. CASE /\ st[r] = "IN_PROGRESS" /\ WriteStage(r, "PENDING_VERIFICATION")
               /\ UNCHANGED <<orderStatus, production>>
      BY <1>1, <3>2, PartMoveSays DEF WriteStage
    <3> QED
      BY <2>3, <3>1, <3>2 DEF SendPart
  <2> QED
    BY <2>1, <2>2, <2>3
<1> QED
  BY <1>1, <1>2, <1>3, OthersTell, SaysIsTold

\* A garment that joins has its own work ahead, or takes over what the order says.
LEMMA AddGarmentTells ==
  ASSUME CheckedThenHandedOver, IInv, Told, NEW g \in Garments, AddGarment(g)
  PROVE  Told'
<1> DEFINE Placeholder(r) == <<r[1], NoGarment>>
<1>1. /\ g \notin garments /\ g # NoGarment /\ NoGarment \notin garments
      /\ garments' = garments \cup {g} /\ Live' = RowsFor(garments \cup {g})
      /\ st' = RowsLaid(g, st, "NOT_STARTED")
      /\ UNCHANGED <<orderStatus, production>>
  BY GarmentAssumption DEF AddGarment, Live, RowsFor, IInv
<1>2. \A r \in Live' : r[2] # g => r \in Live /\ st'[r] = st[r]
  BY <1>1 DEF RowsLaid, Live, RowsFor, AllRows
<1>3. \A r \in Live' : r[2] = g /\ garments # {} => st'[r] = "NOT_STARTED"
  BY <1>1 DEF RowsLaid, RowsFor
<1>4. \A r \in Live' : r[2] = g /\ garments = {} =>
        Placeholder(r) \in Live /\ st'[r] = st[Placeholder(r)]
  BY <1>1 DEF RowsLaid, Live, RowsFor, AllRows
<1>5. SplitIsHandsOn'
  <2>1. \A r \in Live' : parts'[r] = <<>> \/ (r \in Live /\ parts'[r] = parts[r])
    BY <1>2, LiveRows DEF AddGarment, Live, RowsFor
  <2> QED
    BY <2>1, NoPartsIsTable DEF Told, SplitIsHandsOn, KeyOf
<1>6. NothingUnderWay'
  BY <1>1, <1>2, <1>3, <1>4 DEF Told, NothingUnderWay
<1>7. DeliveredBefore'
  <2> SUFFICES ASSUME orderStatus = "Delivered"
               PROVE  /\ \A d \in Handovers' : st'[d] \in Settled \/ Untouched(d[2])'
                      /\ Handovers' # {} => \E d \in Handovers' : st'[d] \in Settled
    BY <1>1 DEF DeliveredBefore
  <2>1. CASE garments = {}
    <3>1. \A d \in Handovers : st[d] \in Settled
      BY <2>1, LiveRows DEF Told, DeliveredBefore, Untouched, Handovers
    <3>2. \A d \in Handovers' : st'[d] \in Settled
      BY <1>2, <1>4, <2>1, <3>1 DEF Handovers, KeyOf
    <3> QED
      BY <3>2
  <2>2. CASE garments # {}
    <3>1. \A s \in Live : s \in Live' /\ s[2] # g
      BY <1>1, <2>2, LiveRows DEF Live, RowsFor
    <3>2. Handovers \subseteq Handovers'
      BY <3>1 DEF Handovers, KeyOf
    <3>3. \A d \in Handovers' : st'[d] \in Settled \/ Untouched(d[2])'
      <4> SUFFICES ASSUME NEW d \in Handovers' PROVE st'[d] \in Settled \/ Untouched(d[2])'
        OBVIOUS
      <4>1. CASE d[2] = g
        BY <1>1, <1>3, <2>2, <4>1 DEF Untouched
      <4>2. CASE d[2] # g
        <5>1. d \in Handovers /\ st'[d] = st[d]
          BY <1>2, <4>2 DEF Handovers, KeyOf
        <5>2. Untouched(d[2]) => Untouched(d[2])'
          BY <1>2, <4>2 DEF Untouched
        <5> QED
          BY <5>1, <5>2 DEF Told, DeliveredBefore
      <4> QED
        BY <4>1, <4>2
    <3>4. ASSUME NEW d \in Handovers' PROVE Handovers # {}
      <4>1. CASE d[2] # g
        BY <1>2, <4>1 DEF Handovers, KeyOf
      <4>2. CASE d[2] = g
        <5>1. d \in Live' /\ d[1] \in Steps /\ Path[d[1]] \in PerGarment /\ Path[d[1]] = "delivered"
          BY <1>1, <4>2 DEF Handovers, RowsFor, AllRows, KeyOf
        <5>2. PICK h \in garments : h \in Garments
          BY <2>2 DEF IInv
        <5>3. Path[d[1]] \in Carries[h]
          BY <5>1, <5>2 DEF CheckedThenHandedOver
        <5>4. <<d[1], h>> \in Handovers
          BY <2>2, <5>1, <5>2, <5>3 DEF Handovers, Live, RowsFor, AllRows, KeyOf
        <5> QED
          BY <5>4
      <4> QED
        BY <4>1, <4>2
    <3> QED
      BY <1>2, <3>1, <3>2, <3>3, <3>4 DEF Told, DeliveredBefore, Handovers
  <2> QED
    BY <2>1, <2>2
<1> QED
  BY <1>5, <1>6, <1>7 DEF Told

LEMMA InitTold == Init => Told
<1> SUFFICES ASSUME Init PROVE Told
  OBVIOUS
<1>1. SplitIsHandsOn
  BY LiveRows, NoPartsIsTable DEF Init, SplitIsHandsOn
<1> QED
  BY <1>1 DEF Init, Told, NothingUnderWay, DeliveredBefore

\* A split, its undoing and a part handed on move nothing.
LEMMA HandingOutTells ==
  ASSUME KeptUp, Told, NEW p, NEW r \in Live,
         \/ \E S \in SUBSET PartIds : \E h \in [S -> Staff] : Split(p, r, h)
         \/ Unsplit(p, r)
         \/ \E x \in PartIds, q \in Staff : AssignPart(p, r, x, q)
  PROVE  Told' /\ st' = st
<1>1. UNCHANGED <<garments, st, orderStatus, production>>
  BY DEF Split, Unsplit, AssignPart
<1>2. \A s \in Live : s # r => parts'[s] = parts[s]
  BY LiveRows DEF Split, Unsplit, AssignPart, KeptUp
<1>3. DOMAIN parts'[r] # {} => PartRoles(KeyOf(r)) # {}
  BY LiveRows, NoPartsIsTable DEF Split, Unsplit, AssignPart, KeptUp, Told, SplitIsHandsOn
<1>4. SplitIsHandsOn'
  BY <1>1, <1>2, <1>3 DEF Told, SplitIsHandsOn, KeyOf, Live, RowsFor
<1> QED
  BY <1>1, <1>4, OthersTell

LEMMA NextTells ==
  ASSUME CheckedThenHandedOver, OptionalIsDeskWork, Kept, Told, [Next]_vars
  PROVE  Told' /\ (st' # st /\ garments' = garments => Says')
<1> USE DEF Kept
<1>1. ASSUME NEW p \in People, NEW r \in Live, Request(p, r) PROVE Told' /\ (st' # st => Says')
  <2>1. CASE \E n \in Statuses : Transition(p, r, n)
    BY <2>1, TransitionTells
  <2>2. CASE Reopen(p, r) \/ FailQC(p, r)
    BY <2>2, ReversalTells
  <2>3. CASE \/ \E S \in SUBSET PartIds : \E h \in [S -> Staff] : Split(p, r, h)
             \/ Unsplit(p, r)
             \/ \E x \in PartIds, q \in Staff : AssignPart(p, r, x, q)
    BY <2>3, HandingOutTells
  <2>4. CASE \/ \E x \in PartIds : SendBackPart(p, r, x) \/ StartPart(p, r, x)
             \/ \E x \in PartIds, done, photo \in BOOLEAN : SendPart(p, r, x, done, photo)
    BY <2>4, PartsTell
  <2> QED
    BY <1>1, <2>1, <2>2, <2>3, <2>4 DEF Request
<1>2. CASE \E g \in Garments : AddGarment(g)
  BY <1>2, AddGarmentTells DEF AddGarment
<1>3. CASE (\E d \in DataItems : ProvideData(d)) \/ UNCHANGED vars
  <2>1. UNCHANGED <<garments, st, orderStatus, production, parts>>
    BY <1>3 DEF ProvideData, vars
  <2>2. SplitIsHandsOn'
    BY <2>1 DEF Told, SplitIsHandsOn, KeyOf, Live, RowsFor
  <2> QED
    BY <2>1, <2>2, OthersTell
<1> QED
  BY <1>1, <1>2, <1>3 DEF Next

\* Whatever moves a stage, forward or back, by whole steps or by their parts, the
\* customer is told "Delivered" only with every handover settled, and the order is
\* COMPLETED exactly when all its rows are (transition_order_stage, stage_parts,
\* reopen_order_stage, fail_quality_check): for workflows which end, as the default
\* one does, with a check and a handover of each garment, and leave out only desk work.
THEOREM OrderSpeaksTrue ==
  ASSUME CheckedThenHandedOver, OptionalIsDeskWork PROVE Spec => OrderTellsItsRows
<1>1. Init => Told
  BY InitTold
<1>2. Kept /\ Told /\ [Next]_vars => Told'
  BY NextTells
<1>3. Kept /\ Told /\ [Next]_vars =>
        [StageMoved =>
           /\ orderStatus' = "Delivered" =>
                \A r \in Live : KeyOf(r) = "delivered" => st'[r] \in Settled
           /\ production' = "COMPLETED" <=> \A r \in Live : st'[r] \in Settled]_vars
  <2> SUFFICES ASSUME Kept, Told, [Next]_vars, StageMoved
               PROVE  /\ orderStatus' = "Delivered" =>
                           \A r \in Live : KeyOf(r) = "delivered" => st'[r] \in Settled
                      /\ production' = "COMPLETED" <=> \A r \in Live : st'[r] \in Settled
    OBVIOUS
  <2>1. Says'
    BY NextTells DEF StageMoved
  <2>2. Live' = Live
    BY DEF StageMoved, Live, RowsFor
  <2> QED
    BY <2>1, <2>2 DEF Says, AllHandedOver, Handovers, KeyOf
<1> QED
  BY <1>1, <1>2, <1>3, KeptAlways, PTL DEF Spec, OrderTellsItsRows

-----------------------------------------------------------------------------
(* Types *)

\* What the order says as a whole keeps its range.
TypesOfOrder == /\ orderStatus \in ClientStatuses
                /\ production \in {"NOT_STARTED", "IN_PROGRESS", "COMPLETED"}
                /\ lacking \subseteq DataItems
                /\ audit \in [by : People \cup {Nobody}, event : Events]

LEMMA StatusType ==
  ASSUME orderStatus \in ClientStatuses, NEW r, NEW e, NEW s1
  PROVE  StatusAfter(r, e, s1) \in ClientStatuses /\ RecomputedStatus(s1) \in ClientStatuses
<1>1. StatusAfter(r, e, s1) \in ClientStatuses
  BY DEF StatusAfter, ClientStatuses
<1>2. \A key : SettledClaim(key) \in ClientStatuses
  BY DEF SettledClaim, ClientStatuses
<1>3. RecomputedStatus(s1) \in ClientStatuses
  BY <1>2 DEF RecomputedStatus, ClientStatuses
<1> QED
  BY <1>1, <1>3

LEMMA MoveKeepsTypes ==
  ASSUME orderStatus \in ClientStatuses, NEW p, NEW r, NEW e, NEW q, MoveStep(p, r, e, q)
  PROVE  /\ orderStatus' \in ClientStatuses /\ lacking' = lacking
         /\ production' \in {"NOT_STARTED", "IN_PROGRESS", "COMPLETED"}
<1>1. StatusAfter(r, e, st') \in ClientStatuses
  BY StatusType
<1> QED
  BY <1>1 DEF MoveStep, ProductionAfter

LEMMA RequestKeepsTypes ==
  ASSUME TypesOfOrder, NEW p \in People, NEW r \in Live, Request(p, r)
  PROVE  TypesOfOrder'
<1>1. audit' \in [by : People \cup {Nobody}, event : Events]
  <2>1. \E event \in Events : Logged(p, event)
    BY DEF Request, Transition, Reopen, FailQC, Split, Unsplit, AssignPart, SendBackPart,
           StartPart, SendPart, Events
  <2> QED
    BY <2>1 DEF Logged
<1>2. CASE \E e, q : MoveStep(p, r, e, q)
  BY <1>1, <1>2, MoveKeepsTypes DEF TypesOfOrder
<1>3. CASE UNCHANGED <<orderStatus, production, lacking>>
  BY <1>1, <1>3 DEF TypesOfOrder
<1>4. CASE Reopen(p, r) \/ FailQC(p, r)
  <2>1. orderStatus' = RecomputedStatus(st') /\ production' = "IN_PROGRESS" /\ lacking' = lacking
    BY <1>4 DEF Reopen, FailQC
  <2> QED
    BY <1>1, <2>1, StatusType DEF TypesOfOrder
<1>5. \/ \E e, q : MoveStep(p, r, e, q)
      \/ UNCHANGED <<orderStatus, production, lacking>>
      \/ Reopen(p, r) \/ FailQC(p, r)
  <2>1. CASE \E n \in Statuses : Transition(p, r, n)
    BY <2>1 DEF Transition
  <2>2. CASE \E x \in PartIds, done, photo \in BOOLEAN : SendPart(p, r, x, done, photo)
    BY <2>2 DEF SendPart
  <2>3. CASE \E x \in PartIds : SendBackPart(p, r, x) \/ StartPart(p, r, x)
    BY <2>3 DEF SendBackPart, StartPart
  <2> QED
    BY <2>1, <2>2, <2>3 DEF Request, Split, Unsplit, AssignPart
<1> QED
  BY <1>2, <1>3, <1>4, <1>5

\* The order's tables and what it says of itself stay in range, whatever is asked.
THEOREM TypesAreKept == Spec => []TypeOK
<1>1. Init => TypesOfOrder
  BY DEF Init, TypesOfOrder, ClientStatuses, Events
<1>2. TypesOfOrder /\ [Next]_vars => TypesOfOrder'
  <2> SUFFICES ASSUME TypesOfOrder, [Next]_vars PROVE TypesOfOrder'
    OBVIOUS
  <2>1. CASE \E p \in People : \E r \in Live : Request(p, r)
    BY <2>1, RequestKeepsTypes
  <2>2. CASE \E d \in DataItems : ProvideData(d)
    BY <2>2 DEF ProvideData, TypesOfOrder
  <2>3. CASE \E g \in Garments : AddGarment(g)
    BY <2>3 DEF AddGarment, TypesOfOrder
  <2>4. CASE UNCHANGED vars
    BY <2>4 DEF vars, TypesOfOrder
  <2> QED
    BY <2>1, <2>2, <2>3, <2>4 DEF Next
<1>3. Kept /\ TypesOfOrder => TypeOK
  BY DEF Kept, IInv, KeptUp, TypesOfOrder, TypeOK
<1> QED
  BY <1>1, <1>2, <1>3, KeptAlways, PTL DEF Spec
=============================================================================
