--------------------------- MODULE OrderWorkflow ---------------------------
(***************************************************************************)
(* One order of a boutique moving through its workshop:                    *)
(* domains/orders/workflow.py (the rules), domains/orders/services.py (the *)
(* handlers that move a stage, reopen it or fail its quality check) and    *)
(* domains/orders/stage_parts.py (a stage split between several people).   *)
(*                                                                         *)
(* An OrderStage row is a pair <<step, garment>>: the position of its key  *)
(* in the order's own workflow and the garment it belongs to, or NoGarment *)
(* for an order-level row.  Every handler here runs in one transaction and *)
(* a refused request rolls it back, so a refusal is a stuttering step.     *)
(* Two requests at once are not modelled here (see the README's plan).      *)
(***************************************************************************)
EXTENDS Naturals, Sequences, FiniteSets

CONSTANTS
  Path,            \* the stage keys of this order, in order (workflow.for_order)
  PerGarment,      \* the keys declared `scope: garment`
  Optional,        \* the keys declared optional
  Waived,          \* the keys whose rows are laid SKIPPED (a free alteration)
  Allowed,         \* key -> the roles it lists
  Garments,        \* the garments the order has or may be given
  NoGarment,       \* garment_job NULL
  Carries,         \* garment -> the per-garment keys it has rows for
  PlacedWith,      \* the sets of garments an order may be placed with
  People,          \* the accounts that send requests
  RoleOf,          \* person -> role (core.roles.resolve_user_role)
  Staff,           \* the people with a staff (Tailor) profile
  Nobody,          \* no performer
  PartIds,         \* the parts a step may be split into
  DataItems        \* what an order may still lack when it is placed

Statuses == {"NOT_STARTED", "IN_PROGRESS", "PAUSED", "PENDING_VERIFICATION",
             "COMPLETED", "SKIPPED"}
Settled == {"COMPLETED", "SKIPPED"}
PartStatuses == {"NOT_STARTED", "IN_PROGRESS", "PENDING_VERIFICATION", "COMPLETED"}
Sent == {"PENDING_VERIFICATION", "COMPLETED"}
Splittable == {"NOT_STARTED", "IN_PROGRESS", "PAUSED"}
TaskStatuses == {"PENDING", "IN_PROGRESS", "COMPLETED", "SKIPPED", "BLOCKED"}
ClientStatuses == {"Received", "Confirmed", "Stylist Review", "Design & Creation",
                   "Quality Check", "Ready for Dispatch", "Shipped", "Delivered"}
Events == {"CREATED", "STAGE_TRANSITION", "STAGE_REOPENED", "QC_FAILED", "STAGE_SPLIT",
           "STAGE_UNSPLIT", "ASSIGNMENT", "PART_STARTED", "PART_SENT", "PART_SENT_BACK"}

Steps == 1..Len(Path)
KeyOf(r) == Path[r[1]]
AllRows == {r \in Steps \X (Garments \cup {NoGarment}) :
              r[2] = NoGarment \/ Path[r[1]] \in PerGarment}

PartRecords == [status : PartStatuses, holder : Staff]
PartTables == UNION {[S -> PartRecords] : S \in SUBSET PartIds}

Accounts == People \cup Staff

ASSUME PathAssumption ==
  /\ Path \in Seq(STRING)
  /\ \A i, j \in Steps : Path[i] = Path[j] => i = j

ASSUME PeopleAssumption ==
  /\ Nobody \notin Accounts
  /\ RoleOf \in [Accounts -> STRING]
  /\ \A i \in Steps : Allowed[Path[i]] \subseteq STRING

ASSUME GarmentAssumption ==
  /\ NoGarment \notin Garments
  /\ PlacedWith \subseteq SUBSET Garments

\* In the default workflow "created" opens the order, and the order-level stages
\* come before the garments' own.
ASSUME OrderLevelFirst ==
  /\ \A i \in Steps : Path[i] = "created" => i = 1
  /\ \A i, j \in Steps : i < j /\ Path[i] \in PerGarment => Path[j] \in PerGarment

\* The two stages nobody may skip, and what may be waived: desk work.
ASSUME RequiredStages ==
  /\ {"master_quality_check", "delivered"} \cap (Optional \cup Waived) = {}
  /\ \A i \in Steps : Path[i] \in Waived =>
       Allowed[Path[i]] # {} /\ Allowed[Path[i]] \subseteq {"Owner", "Designer", "Master"}

\* An order has work ahead of it when it is placed.
ASSUME WorkAhead ==
  \A gs \in PlacedWith : \E i \in Steps :
    /\ Path[i] \notin Waived \cup {"created"}
    /\ Path[i] \in PerGarment /\ gs # {} => \E g \in gs : Path[i] \in Carries[g]

VARIABLES
  garments,     \* the order's garment jobs
  st,           \* row -> status (a row that is not live stays NOT_STARTED)
  performer,    \* row -> performed_by
  task,         \* row -> the status of its ProductionTask
  parts,        \* row -> its parts: part id -> status and holder
  orderStatus,  \* order.order_status, what the customer is told
  production,   \* order.production_status
  lacking,      \* the data the order still lacks
  audit         \* the latest OrderActivity: who did what

vars == <<garments, st, performer, task, parts, orderStatus, production, lacking, audit>>

-----------------------------------------------------------------------------
(* Rows *)

\* The rows the order has, given its garments: one per garment for a per-garment
\* stage, a single order-level row otherwise and while it has no garment jobs.
RowsFor(gs) == {r \in AllRows :
                  IF Path[r[1]] \in PerGarment /\ gs # {}
                  THEN r[2] \in gs /\ Path[r[1]] \in Carries[r[2]]
                  ELSE r[2] = NoGarment}
Live == RowsFor(garments)

\* A garment's row answers to its own garment and to the order-level rows; an
\* order-level row to every garment.
Concerns(r, s) == r[2] = NoGarment \/ s[2] = NoGarment \/ r[2] = s[2]

Earlier(r) == {s \in Live : s[1] < r[1] /\ Concerns(r, s)}
\* A mutant: what comes later is looked for among rows of the same garment_job.
LaterOwnRows(r) == {s \in Live : r[1] < s[1] /\ r[2] = s[2]}
Later(r) == {s \in Live : r[1] < s[1] /\ Concerns(r, s)}

Outstanding(r) == {s \in Earlier(r) : KeyOf(s) \notin Optional /\ st[s] \notin Settled}

\* created, payment and delivered carry no production task.
HasTask(r) == KeyOf(r) \notin {"created", "payment", "delivered"}

TaskFor == [s \in Statuses |->
  CASE s = "NOT_STARTED" -> "PENDING"
    [] s = "PAUSED" -> "BLOCKED"
    [] s = "PENDING_VERIFICATION" -> "IN_PROGRESS"
    [] OTHER -> s]

-----------------------------------------------------------------------------
(* Who may do what *)

LeadRoles == {"Owner", "Designer"}
SupervisorRoles == {"Master", "Designer"}
CheckStages == {"master_quality_check", "maggam_verification"}

Supervisor(p) == RoleOf[p] = "Owner" \/ RoleOf[p] \in SupervisorRoles

HoldsRole(role, roles) == role \in roles \/ (role = "Designer" /\ "Master" \in roles)

HandsOn(key) == key \notin CheckStages
                /\ \E role \in Allowed[key] : role \notin {"Owner", "Designer", "Master"}

\* Is pressing Done on `key` a submission rather than a completion?
\* q is the performer a supervisor named, if any.
Submits(p, q, key) ==
  LET worker == IF q # Nobody /\ Supervisor(p) THEN RoleOf[q] ELSE RoleOf[p]
  IN  /\ RoleOf[p] \notin LeadRoles
      /\ RoleOf[p] = "Master" => worker = "Master" /\ HandsOn(key)

ByMaster(q) == q # Nobody /\ RoleOf[q] = "Master"

\* A mutant: any Master signs off any submission.
AnyMasterSignsOff(p, r) == RoleOf[p] \in LeadRoles \cup {"Master"}
MaySignOff(p, r) == \/ RoleOf[p] \in LeadRoles
                    \/ RoleOf[p] = "Master" /\ ~ByMaster(performer[r])

\* Your own level or below hands work out; workers hand out none.
CanAssign(p, q) ==
  LET rank == [Owner |-> 0, Designer |-> 1, Master |-> 2]
      Rank(x) == IF RoleOf[x] \in DOMAIN rank THEN rank[RoleOf[x]] ELSE 3
  IN  Rank(p) < 3 /\ Rank(p) <= Rank(q)

\* The roles a part of `key` may go to (finishing is narrowed to one).
PartRoles(key) ==
  {role \in Allowed[key] \ {"Owner", "Master", "Designer"} :
     key = "finishing" => role = "Hemming & Pressing Staff"}

-----------------------------------------------------------------------------
(* What the customer is told *)

CuttingKeys == {"pattern_cutting", "paper_cutting", "maggam_work", "maggam_handwork",
                "maggam_verification", "fabric_cutting"}
DispatchKeys == {"trial_scheduled", "trial_completed", "ready_for_delivery", "payment"}

\* order_status after row r moved to e, s1 being the statuses then.
StatusAfter(r, e, s1) ==
  LET key == KeyOf(r) IN
  CASE key = "created" -> "Received"
    [] key \in {"measurements_completed", "fabric_confirmed"} -> "Confirmed"
    [] key \in CuttingKeys -> "Design & Creation"
    [] key \in {"stitching_in_progress", "alteration_work"} ->
         IF e = "COMPLETED" THEN "Quality Check" ELSE "Design & Creation"
    [] key \in {"finishing", "pressing"} -> "Quality Check"
    [] key = "master_quality_check" ->
         IF e = "COMPLETED" THEN "Ready for Dispatch" ELSE "Quality Check"
    [] key \in DispatchKeys -> "Ready for Dispatch"
    [] key = "delivered" /\ e = "COMPLETED"
         /\ \A s \in Live : KeyOf(s) = "delivered" => s1[s] \in Settled -> "Delivered"
    [] OTHER -> orderStatus

\* CLIENT_STATUS_WHEN_SETTLED, and the keys it has an entry for.
ClaimedKeys == CuttingKeys \cup DispatchKeys \cup
  {"created", "measurements_completed", "fabric_confirmed", "stitching_in_progress",
   "finishing", "pressing", "master_quality_check", "delivered"}
SettledClaim(key) ==
  CASE key = "created" -> "Received"
    [] key \in {"measurements_completed", "fabric_confirmed"} -> "Confirmed"
    [] key \in CuttingKeys -> "Design & Creation"
    [] key \in {"stitching_in_progress", "finishing", "pressing"} -> "Quality Check"
    [] key = "delivered" -> "Delivered"
    [] OTHER -> "Ready for Dispatch"

\* A mutant: a stage still makes its claim when some garment's row stands.
RecomputedFromAnyRow(s1) ==
  LET standing == {i \in Steps : Path[i] \in ClaimedKeys
                                 /\ \E r \in Live : r[1] = i /\ s1[r] \in Settled}
      last == {i \in standing : \A j \in standing : j <= i}
  IN  IF last = {} THEN "Received" ELSE SettledClaim(Path[CHOOSE i \in last : TRUE])

\* The last claim the settled stages of s1 still make.
RecomputedStatus(s1) ==
  LET standing == {i \in Steps : /\ Path[i] \in ClaimedKeys
                                 /\ \E r \in Live : r[1] = i
                                 /\ \A r \in Live : r[1] = i => s1[r] \in Settled}
      last == {i \in standing : \A j \in standing : j <= i}
  IN  IF last = {} THEN "Received" ELSE SettledClaim(Path[CHOOSE i \in last : TRUE])

\* A mutant: a paused or submitted row is not counted as unfinished.
ProductionUnlessOpen(s1) ==
  IF \E r \in Live : s1[r] \in {"NOT_STARTED", "IN_PROGRESS"} THEN "IN_PROGRESS" ELSE "COMPLETED"
ProductionAfter(s1) == IF \E r \in Live : s1[r] \notin Settled THEN "IN_PROGRESS" ELSE "COMPLETED"

-----------------------------------------------------------------------------
(* The rules of a transition (workflow.check_transition) *)

RoleGate(p, r) == \/ RoleOf[p] = "Owner"
                  \/ Allowed[KeyOf(r)] = {}
                  \/ HoldsRole(RoleOf[p], Allowed[KeyOf(r)])
                  \/ st[r] = "PENDING_VERIFICATION" /\ Supervisor(p)

HasData(p, r) ==
  /\ KeyOf(r) = "stitching_in_progress" =>
       "measurements" \notin lacking /\ ("tailor" \notin lacking \/ Supervisor(p))
  /\ KeyOf(r) \in {"payment", "delivered"} => "price" \notin lacking

\* A mutant: prerequisites are looked at when a stage starts or completes only.
CheckTransitionOnStart(p, r, n) ==
  /\ RoleGate(p, r)
  /\ st[r] \in Settled => n \in Settled
  /\ n = "SKIPPED" => KeyOf(r) \in Optional
  /\ n \in {"IN_PROGRESS", "COMPLETED"} => Outstanding(r) = {} /\ HasData(p, r)

\* A mutant: a settled stage may be moved back by an ordinary transition.
CheckTransitionBackwards(p, r, n) ==
  /\ RoleGate(p, r)
  /\ n = "SKIPPED" => KeyOf(r) \in Optional
  /\ n # "NOT_STARTED" => Outstanding(r) = {}
  /\ n \in {"IN_PROGRESS", "COMPLETED", "PENDING_VERIFICATION"} => HasData(p, r)

CheckTransition(p, r, n) ==
  /\ RoleGate(p, r)
  /\ st[r] \in Settled => n \in Settled
  /\ n = "SKIPPED" => KeyOf(r) \in Optional
  /\ n # "NOT_STARTED" => Outstanding(r) = {}
  /\ n \in {"IN_PROGRESS", "COMPLETED", "PENDING_VERIFICATION"} => HasData(p, r)

\* The status actually written: a worker's Done is a submission.
Written(p, r, n, q) ==
  IF n = "COMPLETED" /\ st[r] # "PENDING_VERIFICATION" /\ Submits(p, q, KeyOf(r))
  THEN "PENDING_VERIFICATION" ELSE n

SignOffRules(p, r, n, q, photo, note) ==
  /\ st[r] = "PENDING_VERIFICATION" => MaySignOff(p, r)
  /\ st[r] = "PENDING_VERIFICATION" /\ n = "IN_PROGRESS" => note
  /\ /\ st[r] # "PENDING_VERIFICATION"
     /\ Submits(p, q, KeyOf(r))
     /\ Written(p, r, n, q) = "PENDING_VERIFICATION"
     => photo

\* Naming somebody else is a supervisor's; verifying keeps the worker's name.
PerformerAfter(p, r, q) ==
  IF q # Nobody /\ Supervisor(p) THEN q
  ELSE IF st[r] # "PENDING_VERIFICATION" /\ p \in Staff THEN p
  ELSE performer[r]

\* A mutant: the parts follow their step back but not into completion.
FollowStepBack(ps, old, new) ==
  [x \in DOMAIN ps |->
     IF new = "IN_PROGRESS" /\ old = "PENDING_VERIFICATION" /\ ps[x].status = "PENDING_VERIFICATION"
     THEN [ps[x] EXCEPT !.status = "IN_PROGRESS"] ELSE ps[x]]

\* The parts of a step that moved as a whole follow it.
FollowStep(ps, old, new) ==
  [x \in DOMAIN ps |->
     IF new \in Settled THEN [ps[x] EXCEPT !.status = "COMPLETED"]
     ELSE IF new = "IN_PROGRESS" /\ old = "PENDING_VERIFICATION"
             /\ ps[x].status = "PENDING_VERIFICATION"
     THEN [ps[x] EXCEPT !.status = "IN_PROGRESS"]
     ELSE ps[x]]

AllParts(ps, S) == \A x \in DOMAIN ps : ps[x].status \in S

Logged(p, event) == audit' = [by |-> p, event |-> event]

\* A mutant: a submission leaves the task alone.
WriteStageNotSubmission(r, e) ==
  /\ st' = [st EXCEPT ![r] = e]
  /\ task' = IF HasTask(r) /\ e # "PENDING_VERIFICATION"
             THEN [task EXCEPT ![r] = TaskFor[e]] ELSE task

\* Row r and its task take status e.
WriteStage(r, e) ==
  /\ st' = [st EXCEPT ![r] = e]
  /\ task' = IF HasTask(r) THEN [task EXCEPT ![r] = TaskFor[e]] ELSE task

\* The writes of a transition of row r to e, all but the parts.
MoveStep(p, r, e, q) ==
  /\ WriteStage(r, e)
  /\ performer' = [performer EXCEPT ![r] = PerformerAfter(p, r, q)]
  /\ production' = ProductionAfter(st')
  /\ orderStatus' = StatusAfter(r, e, st')
  /\ UNCHANGED <<garments, lacking>>

-----------------------------------------------------------------------------
(* Handlers *)

\* OrderService.transition_order_stage, asked by p for row r to become n.  The
\* request may name a performer q and bring a photo and a note; asking for the
\* status the row has, with a note, only leaves the note.
Transition(p, r, n) ==
  /\ n # st[r] /\ ~Supervisor(p) => DOMAIN parts[r] = {}
  /\ CheckTransition(p, r, n)
  /\ ~(st[r] = "COMPLETED" /\ n = "COMPLETED")
  /\ \E q \in Staff \cup {Nobody}, photo, note \in BOOLEAN :
       /\ ~(n = st[r] /\ note)
       /\ SignOffRules(p, r, n, q, photo, note)
       /\ LET e == Written(p, r, n, q)
          IN  /\ MoveStep(p, r, e, q)
              /\ parts' = [parts EXCEPT ![r] = FollowStep(@, st[r], e)]
  /\ Logged(p, "STAGE_TRANSITION")

\* The rows that go back with a reopened row r: the later stages that have begun,
\* each with all its rows.
\* A mutant: only the later rows already settled.
UndoneSettled(r) == {s \in Later(r) : st[s] \in Settled}
Undone(r) == {s \in Later(r) : \E u \in Later(r) : st[u] # "NOT_STARTED" /\ u[1] = s[1]}

\* reopen_order_stage: a settled row goes back, and so does every later row of
\* its garment, or of the order, whose stage has begun.
Reopen(p, r) ==
  /\ RoleOf[p] \in {"Owner", "Master"}
  /\ st[r] \in Settled
  /\ LET back == IF st[r] = "COMPLETED" THEN "IN_PROGRESS" ELSE "NOT_STARTED"
         reset == Undone(r)
     IN  /\ st' = [s \in AllRows |-> IF s = r THEN back
                                     ELSE IF s \in reset THEN "NOT_STARTED" ELSE st[s]]
         /\ task' = [s \in AllRows |-> IF s \in reset \cup {r} /\ HasTask(s)
                                       THEN TaskFor[st'[s]] ELSE task[s]]
         /\ parts' = [s \in AllRows |->
                        IF s \in reset \cup {r}
                        THEN [x \in DOMAIN parts[s] |-> [parts[s][x] EXCEPT !.status = st'[s]]]
                        ELSE parts[s]]
  /\ production' = "IN_PROGRESS"
  /\ orderStatus' = RecomputedStatus(st')
  /\ Logged(p, "STAGE_REOPENED")
  /\ UNCHANGED <<garments, performer, lacking>>

\* The rows of qc's garment from stitching up to its quality check.
Band(qc) == {s \in Live : /\ s[2] = qc[2] /\ s[1] < qc[1]
                          /\ \E i \in Steps : Path[i] = "stitching_in_progress" /\ i <= s[1]}

\* fail_quality_check: the stitching band of one garment reopens for rework.
FailQC(p, qc) ==
  /\ RoleOf[p] \in {"Owner", "Master", "QC Staff"}
  /\ KeyOf(qc) = "master_quality_check"
  /\ st[qc] # "COMPLETED"
  /\ \E s \in Live : KeyOf(s) = "stitching_in_progress" /\ s[2] = qc[2] /\ st[s] \in Settled
  /\ LET rework == {s \in Band(qc) : st[s] # "NOT_STARTED"}
     IN  /\ st' = [s \in AllRows |->
                     IF s \in rework /\ KeyOf(s) = "stitching_in_progress" THEN "IN_PROGRESS"
                     ELSE IF s \in rework \cup {qc} THEN "NOT_STARTED" ELSE st[s]]
         /\ task' = [s \in AllRows |-> IF s \in rework \cup {qc} /\ HasTask(s)
                                       THEN TaskFor[st'[s]] ELSE task[s]]
  /\ production' = "IN_PROGRESS"
  /\ orderStatus' = RecomputedStatus(st')
  /\ Logged(p, "QC_FAILED")
  /\ UNCHANGED <<garments, performer, parts, lacking>>

-----------------------------------------------------------------------------
(* A step split between several people *)

\* stage_parts.split: h gives each part to a person.
Split(p, r, h) ==
  /\ PartRoles(KeyOf(r)) # {}
  /\ st[r] \in Splittable
  /\ AllParts(parts[r], {"NOT_STARTED"})
  /\ Cardinality(DOMAIN h) >= 2
  /\ \A x \in DOMAIN h : RoleOf[h[x]] \in PartRoles(KeyOf(r)) /\ CanAssign(p, h[x])
  /\ parts' = [parts EXCEPT ![r] = [x \in DOMAIN h |-> [status |-> "NOT_STARTED", holder |-> h[x]]]]
  /\ Logged(p, "STAGE_SPLIT")
  /\ UNCHANGED <<garments, st, performer, task, orderStatus, production, lacking>>

\* stage_parts.unsplit; who assigns work may undo it.
Unsplit(p, r) ==
  /\ CanAssign(p, p)
  /\ DOMAIN parts[r] # {}
  /\ AllParts(parts[r], {"NOT_STARTED"})
  /\ parts' = [parts EXCEPT ![r] = <<>>]
  /\ Logged(p, "STAGE_UNSPLIT")
  /\ UNCHANGED <<garments, st, performer, task, orderStatus, production, lacking>>

\* stage_parts.assign_part
AssignPart(p, r, x, q) ==
  /\ x \in DOMAIN parts[r]
  /\ parts[r][x].status \notin Sent
  /\ RoleOf[q] \in PartRoles(KeyOf(r)) /\ CanAssign(p, q)
  /\ q # parts[r][x].holder
  /\ parts' = [parts EXCEPT ![r][x].holder = q]
  /\ Logged(p, "ASSIGNMENT")
  /\ UNCHANGED <<garments, st, performer, task, orderStatus, production, lacking>>

\* transition_part refuses anybody but the part's own person and supervisors,
\* and every part of a finished step.
MayMovePart(p, r, x) ==
  /\ x \in DOMAIN parts[r]
  /\ Supervisor(p) \/ p = parts[r][x].holder
  /\ st[r] \notin Settled

\* A part waiting for checking is sent back, and its step with it.
SendBackPart(p, r, x) ==
  /\ MayMovePart(p, r, x)
  /\ parts[r][x].status \in Sent
  /\ Supervisor(p)
  /\ parts' = [parts EXCEPT ![r][x].status = "IN_PROGRESS"]
  /\ IF st[r] = "PENDING_VERIFICATION" THEN WriteStage(r, "IN_PROGRESS")
     ELSE UNCHANGED <<st, task>>
  /\ Logged(p, "PART_SENT_BACK")
  /\ UNCHANGED <<garments, performer, orderStatus, production, lacking>>

\* The first part started starts the step, through the ordinary transition.
StartPart(p, r, x) ==
  /\ MayMovePart(p, r, x)
  /\ parts[r][x].status = "NOT_STARTED"
  /\ parts' = [parts EXCEPT ![r][x].status = "IN_PROGRESS"]
  /\ IF st[r] \in {"NOT_STARTED", "PAUSED"}
     THEN CheckTransition(p, r, "IN_PROGRESS") /\ MoveStep(p, r, "IN_PROGRESS", Nobody)
     ELSE UNCHANGED <<garments, st, performer, task, orderStatus, production, lacking>>
  /\ Logged(p, "PART_STARTED")

\* A part is sent for checking, or marked done by a supervisor (done).  With
\* every part done the step is asked to complete -- that call carries no photo;
\* with every part sent a step in progress goes for checking.
SendPart(p, r, x, done, photo) ==
  LET now == [parts[r] EXCEPT ![x].status =
                IF done /\ Supervisor(p) THEN "COMPLETED" ELSE "PENDING_VERIFICATION"]
      e   == Written(p, r, "COMPLETED", Nobody)
  IN  /\ MayMovePart(p, r, x)
      /\ parts[r][x].status \notin Sent
      /\ Supervisor(p) \/ (parts[r][x].status # "NOT_STARTED" /\ photo)
      /\ Logged(p, "PART_SENT")
      /\ \/ /\ AllParts(now, {"COMPLETED"})
            /\ CheckTransition(p, r, "COMPLETED")
            /\ SignOffRules(p, r, "COMPLETED", Nobody, FALSE, FALSE)
            /\ MoveStep(p, r, e, Nobody)
            /\ parts' = [parts EXCEPT ![r] = FollowStep(now, st[r], e)]
         \/ /\ ~AllParts(now, {"COMPLETED"})
            /\ parts' = [parts EXCEPT ![r] = now]
            /\ IF AllParts(now, Sent) /\ st[r] = "IN_PROGRESS"
               THEN WriteStage(r, "PENDING_VERIFICATION")
               ELSE UNCHANGED <<st, task>>
            /\ UNCHANGED <<garments, performer, orderStatus, production, lacking>>

-----------------------------------------------------------------------------
(* The rest of the order *)

\* ensure_garment_stages for a garment job added later: its rows are laid.  The
\* first garment takes over what the order's single rows already say.
RowsLaid(g, f, blank) ==
  [r \in AllRows |->
     IF r \notin RowsFor(garments \cup {g}) THEN blank
     ELSE IF r[2] # g THEN f[r]
     ELSE IF garments = {} THEN f[<<r[1], NoGarment>>] ELSE blank]
TasksLaid(g) == RowsLaid(g, task, "PENDING")

\* A stage every garment so far went without is not laid again (a trial is, and is
\* left out), so g brings no such stage.
AddGarment(g) ==
  /\ g \notin garments
  /\ garments # {} => \A key \in Carries[g] : \E h \in garments : key \in Carries[h]
  /\ garments' = garments \cup {g}
  /\ st' = RowsLaid(g, st, "NOT_STARTED")
  /\ performer' = RowsLaid(g, performer, Nobody)
  /\ task' = TasksLaid(g)
  /\ parts' = [r \in AllRows |-> IF r \in RowsFor(garments') /\ r[2] # g THEN parts[r] ELSE <<>>]
  /\ UNCHANGED <<orderStatus, production, lacking, audit>>

\* Measurements are taken, a tailor is put on the order, the prices are set.
ProvideData(d) ==
  /\ d \in lacking
  /\ lacking' = lacking \ {d}
  /\ UNCHANGED <<garments, st, performer, task, parts, orderStatus, production, audit>>

\* The order as create_order_for_customer, seed_workflow and
\* ensure_garment_stages leave it: order taken, everything else ahead.
Init ==
  /\ garments \in PlacedWith
  /\ st = [r \in AllRows |-> IF r \notin Live THEN "NOT_STARTED"
                             ELSE IF KeyOf(r) = "created" THEN "COMPLETED"
                             ELSE IF KeyOf(r) \in Waived THEN "SKIPPED" ELSE "NOT_STARTED"]
  /\ performer = [r \in AllRows |-> Nobody]
  /\ task = [r \in AllRows |-> IF HasTask(r) /\ r \in Live THEN TaskFor[st[r]] ELSE "PENDING"]
  /\ parts = [r \in AllRows |-> <<>>]
  /\ orderStatus = "Received"
  /\ production = "NOT_STARTED"
  /\ lacking \in SUBSET DataItems
  /\ audit = [by |-> Nobody, event |-> "CREATED"]

\* A request of person p about row r.
Request(p, r) ==
  \/ \E n \in Statuses : Transition(p, r, n)
  \/ Reopen(p, r)
  \/ FailQC(p, r)
  \/ \E S \in SUBSET PartIds : \E h \in [S -> Staff] : Split(p, r, h)
  \/ Unsplit(p, r)
  \/ \E x \in PartIds, q \in Staff : AssignPart(p, r, x, q)
  \/ \E x \in PartIds : SendBackPart(p, r, x) \/ StartPart(p, r, x)
  \/ \E x \in PartIds, done, photo \in BOOLEAN : SendPart(p, r, x, done, photo)

Next == \/ \E p \in People : \E r \in Live : Request(p, r)
        \/ \E d \in DataItems : ProvideData(d)
        \/ \E g \in Garments : AddGarment(g)
Spec == Init /\ [][Next]_vars

-----------------------------------------------------------------------------
(* Properties *)

TypeOK ==
  /\ garments \subseteq Garments
  /\ st \in [AllRows -> Statuses]
  /\ performer \in [AllRows -> Staff \cup {Nobody}]
  /\ task \in [AllRows -> TaskStatuses]
  /\ parts \in [AllRows -> PartTables]
  /\ orderStatus \in ClientStatuses
  /\ production \in {"NOT_STARTED", "IN_PROGRESS", "COMPLETED"}
  /\ lacking \subseteq DataItems
  /\ audit \in [by : People \cup {Nobody}, event : Events]

\* No stage has begun while a required stage before it -- its garment's own, or
\* one of the order -- is unsettled: not after a rejection, a reopening, a
\* failed quality check or a garment joining the order (workflow.py).  A row laid
\* SKIPPED was never begun, so it is left out.
PrerequisitesSettled ==
  \A r \in Live : st[r] # "NOT_STARTED" /\ KeyOf(r) \notin Waived => Outstanding(r) = {}

\* A stage was moved or reversed: some row's status changed, none was laid.
StageMoved == st' # st /\ garments' = garments

\* Whatever moves a stage leaves the customer told "Delivered" only if every
\* garment's handover is settled -- reopening any of them takes the word back --
\* and production_status COMPLETED exactly when every row, of every garment, is.
OrderTellsItsRows ==
  [][StageMoved =>
       /\ orderStatus' = "Delivered" =>
            \A r \in Live : KeyOf(r) = "delivered" => st'[r] \in Settled
       /\ production' = "COMPLETED" <=> \A r \in Live : st'[r] \in Settled]_vars

\* A settled step has no part left open, however it was settled.
SettledStepsHaveDoneParts ==
  \A r \in Live : st[r] \in Settled => AllParts(parts[r], {"COMPLETED"})

\* Every production task tells the story of its stage row, after forward moves,
\* part moves and both reversals (the comment over STAGE_TO_TASK_STATUS).
TasksTellTheirStage == \A r \in Live : HasTask(r) => task[r] = TaskFor[st[r]]

\* Whoever completes a stage may: a lead approver, or a Master -- who never
\* completes hands-on work recorded as a Master's own.
CompletionIsSignedOff ==
  [][\A r \in Live : st[r] # "COMPLETED" /\ st'[r] = "COMPLETED" =>
       LET p == audit'.by
           worker == IF st[r] = "PENDING_VERIFICATION" THEN performer[r] ELSE performer'[r]
       IN  \/ RoleOf[p] \in LeadRoles
           \/ RoleOf[p] = "Master" /\ (HandsOn(KeyOf(r)) => ~ByMaster(worker))]_vars

\* Only the two sanctioned ways back, on the record, unsettle a stage.
OnlyReversalsUnsettle ==
  [][\A r \in Live : garments' = garments /\ st[r] \in Settled /\ st'[r] \notin Settled =>
       audit'.event \in {"STAGE_REOPENED", "QC_FAILED"}]_vars

\* Nothing is left standing on a reopened hole: when a settled stage goes back,
\* no later stage of its garment, or of the order, is still begun.
ReversalLeavesNothingAhead ==
  [][\A r \in Live : garments' = garments /\ st[r] \in Settled /\ st'[r] \notin Settled =>
       \A s \in Later(r) : st'[s] = "NOT_STARTED"]_vars
=============================================================================
