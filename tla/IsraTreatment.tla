---------------------------- MODULE IsraTreatment ----------------------------
(***************************************************************************)
(* The treatment of one information security risk scenario                 *)
(* (isra/israScenario.service.ts): the treatment decisions, the risk       *)
(* treatment plan with its approved versions, the projected residual (the  *)
(* forecast), the residual and the evaluation cycles it closes.  Scenarios *)
(* share none of these rows, so one stands for all.                        *)
(*                                                                         *)
(* saveTreatmentDecision is a transaction with a row lock; everything else *)
(* loads rows, and saves them statement by statement.                      *)
(***************************************************************************)
EXTENDS Naturals, FiniteSets, Sequelize

CONSTANTS
  Decisions,  \* ids of treatment decisions
  Plans,      \* ids of plan versions
  Requests,   \* requests that may be in flight at once
  MaxEdits,   \* bound: saves of the plan and changes of the option
  MaxCycle,   \* bound: evaluation cycles
  None

VARIABLES
  dec,       \* dec[d]: option and isCurrent of a decision
  plan,      \* plan[p]: status, isCurrent, and which save wrote the content
  forecast,  \* the projected residual: absent, fresh, or flagged needsReview
  basis,     \* the number of edits the forecast was made after (history)
  edits,     \* saves of the plan and changes of the option so far (history)
  residual,  \* the residual's number, 0 if there is none
  residuals, \* residuals recorded so far (history)
  cycle,     \* evalCycle
  snap,      \* snap[c]: the snapshot of cycle c: of a residual, of the inherent baseline, or 0
  loose,     \* what crashed or was overtaken (history)
  req        \* req[q]: the request in slot q

vars == <<dec, plan, forecast, basis, edits, residual, residuals, cycle, snap, loose, req>>

decVars == <<dec>>
planVars == <<plan, edits>>
forecastVars == <<forecast, basis>>
cycleVars == <<residual, residuals, cycle, snap>>

Options == {"Modify", "Retain"}

NoDecision == [option |-> "none", current |-> FALSE]
NoPlan == [status |-> "absent", current |-> FALSE, content |-> 0]

CurrentDecisions == {d \in Decisions : dec[d].current}
CurrentPlans == {p \in Plans : plan[p].current}

\* row: the decision or the plan the handler holds; seen: the status it was loaded with,
\* or what the client sent; n: the cycle, or the number of edits, it read; r: the
\* residual it read; mark: it goes on to the forecast; rows: its row locks on decisions.
Slot(pc, row, seen, n, r, mark, rows) ==
  [pc |-> pc, row |-> row, seen |-> seen, n |-> n, r |-> r, mark |-> mark, rows |-> rows]

\* What startNextCycle archives.
Baseline == MaxCycle + 1

Idle == Slot("idle", None, "none", 0, 0, FALSE, {})

Move(q, r) == req' = [req EXCEPT ![q] = r]
At(q, pc) == req[q].pc = pc
Goto(q, pc) == Move(q, [req[q] EXCEPT !.pc = pc])
Begins(q, r) == At(q, "idle") /\ Move(q, r)

-----------------------------------------------------------------------------
Init ==
  /\ dec = [d \in Decisions |-> NoDecision]
  /\ plan = [p \in Plans |-> NoPlan]
  /\ forecast = "absent" /\ basis = 0 /\ edits = 0
  /\ residual = 0 /\ residuals = 0
  /\ cycle = 1
  /\ snap = [c \in 1..MaxCycle |-> 0]
  /\ loose = {}
  /\ req = [q \in Requests |-> Idle]

-----------------------------------------------------------------------------
(* saveTreatmentDecision. *)

LoadDecide(q, option) ==
  /\ Begins(q, Slot("decide", None, option, 0, 0, FALSE, {}))
  /\ UNCHANGED <<decVars, planVars, forecastVars, cycleVars, loose>>

Locked(q, d) == \E p \in Requests \ {q} : d \in req[p].rows

\* findOne of the current decision FOR UPDATE: it has chosen its row.
FindCurrent(q) ==
  /\ At(q, "decide")
  /\ IF CurrentDecisions = {} THEN Goto(q, "flip")
     ELSE \E d \in CurrentDecisions : Move(q, [req[q] EXCEPT !.pc = "find", !.row = d])
  /\ UNCHANGED <<decVars, planVars, forecastVars, cycleVars, loose>>

\* The lock is granted. A row that is not current any more is no row at all.
LockCurrent(q) ==
  LET d == req[q].row IN
  /\ At(q, "find") /\ ~Locked(q, d)
  /\ Move(q, IF dec[d].current THEN [req[q] EXCEPT !.pc = "flip", !.rows = {d}]
                               ELSE [req[q] EXCEPT !.pc = "flip", !.row = None])
  /\ UNCHANGED <<decVars, planVars, forecastVars, cycleVars, loose>>

OptionChanged(q) == req[q].row # None /\ dec[req[q].row].option # req[q].seen

\* The UPDATE of the current decisions, when it has all their locks; mark: it
\* flags a forecast. (Rows committed while it waited are counted in, which only
\* a third request could tell.)
FlipCurrent(q) ==
  /\ At(q, "flip") /\ \A d \in CurrentDecisions : ~Locked(q, d)
  /\ Move(q, [req[q] EXCEPT !.pc = "insert", !.rows = @ \cup CurrentDecisions,
                            !.mark = OptionChanged(q) /\ forecast # "absent"])
  /\ UNCHANGED <<decVars, planVars, forecastVars, cycleVars, loose>>

Flipped(rows) == [d \in Decisions |-> IF d \in rows THEN [dec[d] EXCEPT !.current = FALSE] ELSE dec[d]]

\* The new current decision, and the commit.
CommitDecision(q, d) ==
  /\ At(q, "insert") /\ dec[d].option = "none"
  /\ dec' = [Flipped(req[q].rows) EXCEPT ![d] = [option |-> req[q].seen, current |-> TRUE]]
  /\ forecast' = IF req[q].mark /\ forecast # "absent" THEN "flagged" ELSE forecast
  /\ Move(q, Idle)
  /\ UNCHANGED <<planVars, basis, cycleVars, loose>>

RollbackDecision(q) ==
  /\ req[q].pc \in {"find", "flip", "insert"}
  /\ Move(q, Idle)
  /\ UNCHANGED <<decVars, planVars, forecastVars, cycleVars, loose>>

\* The transaction has the forecast's row lock.
ForecastLocked == \E q \in Requests : At(q, "insert") /\ req[q].mark

-----------------------------------------------------------------------------
(* saveRtp and approveRtp. *)

\* findOne of the current plan; two of them are in no order.
LoadPlan(q, pc) ==
  /\ CurrentPlans = {} => pc = "plan"
  /\ IF CurrentPlans = {} THEN Begins(q, Slot(pc, None, "absent", 0, 0, FALSE, {}))
     ELSE \E p \in CurrentPlans : Begins(q, Slot(pc, p, plan[p].status, 0, 0, FALSE, {}))
  /\ loose' = IF pc = "plan" /\ \E o \in Requests : req[o].pc \in {"plan", "next"} THEN loose \cup {"plans"} ELSE loose
  /\ UNCHANGED <<decVars, planVars, forecastVars, cycleVars>>

\* A new version of the plan, in Draft.
CreatePlan(q, p) ==
  /\ (At(q, "plan") /\ req[q].seen = "absent") \/ At(q, "next")
  /\ plan[p].status = "absent" /\ edits < MaxEdits
  /\ edits' = edits + 1
  /\ plan' = [plan EXCEPT ![p] = [status |-> "Draft", current |-> TRUE, content |-> edits']]
  /\ Goto(q, "flag")
  /\ UNCHANGED <<decVars, forecastVars, cycleVars, loose>>

\* Mutant: an approved plan is amended like any other.
AmendedAny == {"Draft", "Planned", "Approved"}

\* The plans saveRtp amends in place.
Amended == {"Draft", "Planned"}

\* An approved plan is preserved: it stops being the current one, and its content
\* becomes the next version's.
RetireApproved(q) ==
  /\ At(q, "plan") /\ req[q].seen \notin Amended \cup {"absent"}
  /\ plan' = [plan EXCEPT ![req[q].row].current = FALSE]
  /\ Goto(q, "next")
  /\ UNCHANGED <<decVars, edits, forecastVars, cycleVars, loose>>

\* The content, and the status if the client sent another one; Approved cannot be sent.
AmendPlan(q, status) ==
  LET p == req[q].row IN
  /\ At(q, "plan") /\ req[q].seen \in Amended /\ edits < MaxEdits
  /\ edits' = edits + 1
  /\ plan' = [plan EXCEPT ![p].content = edits', ![p].status = Changed(@, req[q].seen, status)]
  /\ Goto(q, "flag")
  /\ UNCHANGED <<decVars, forecastVars, cycleVars, loose>>

\* Mutant: a plan save leaves the forecast alone.
FlagForecastNever(q) ==
  /\ At(q, "flag")
  /\ Move(q, Idle)
  /\ UNCHANGED <<decVars, planVars, forecastVars, cycleVars, loose>>

\* Every save of the plan flags the forecast, at its end.
FlagForecast(q) ==
  /\ At(q, "flag") /\ ~ForecastLocked
  /\ forecast' = IF forecast = "absent" THEN "absent" ELSE "flagged"
  /\ Move(q, Idle)
  /\ UNCHANGED <<decVars, planVars, basis, cycleVars, loose>>

ApprovePlan(q) ==
  /\ At(q, "approve")
  /\ plan' = [plan EXCEPT ![req[q].row].status = Changed(@, req[q].seen, "Approved")]
  /\ Move(q, Idle)
  /\ UNCHANGED <<decVars, edits, forecastVars, cycleVars, loose>>

-----------------------------------------------------------------------------
(* saveProjectedResidual and saveResidual. *)

\* The plan and the forecast are read.
LoadForecast(q) ==
  /\ Begins(q, Slot("forecast", None, forecast, edits, 0, FALSE, {}))
  /\ loose' = IF \E o \in Requests : At(o, "forecast") THEN loose \cup {"forecast"} ELSE loose
  /\ UNCHANGED <<decVars, planVars, forecastVars, cycleVars>>

\* needsReview := false, left out of the UPDATE if it was loaded false.
Confirmed(seen) == Changed(forecast, seen, "fresh")

\* A second insert fails on the primary key; an UPDATE of a row that is gone changes
\* nothing.
SaveForecast(q) ==
  LET seen == req[q].seen IN
  /\ At(q, "forecast") /\ ~ForecastLocked
  /\ IF (seen = "absent") = (forecast = "absent")
       THEN /\ forecast' = Confirmed(seen)
            /\ basis' = req[q].n
            /\ loose' = IF seen # "fresh" /\ req[q].n # edits THEN loose \cup {"forecast"} ELSE loose
       ELSE UNCHANGED <<forecastVars, loose>>
  /\ Move(q, Idle)
  /\ UNCHANGED <<decVars, planVars, cycleVars>>

\* The first assessment of a cycle creates the row; a later one amends it in place.
RecordResidual ==
  /\ residual = 0 /\ residuals < MaxCycle
  /\ residual' = residuals + 1 /\ residuals' = residuals + 1
  /\ UNCHANGED <<decVars, planVars, forecastVars, cycle, snap, loose, req>>

-----------------------------------------------------------------------------
(* promoteResidual and startNextCycle. *)

Promoting == {q \in Requests : req[q].pc \in {"snapshot", "retire", "advance", "spend", "spendForecast"}}
Starting == {q \in Requests : req[q].pc \in {"check", "baseline", "open"}}

\* seen: within appetite, or above.
LoadPromote(q, seen) ==
  /\ residual # 0 /\ cycle < MaxCycle
  /\ \E p \in IF CurrentPlans = {} THEN {None} ELSE CurrentPlans :
       Begins(q, Slot("snapshot", p, seen, cycle, residual, forecast # "absent", {}))
  /\ loose' = loose \cup (IF Promoting # {} THEN {"promotions"} ELSE {}) \cup (IF Starting # {} THEN {"start"} ELSE {})
  /\ UNCHANGED <<decVars, planVars, forecastVars, cycleVars>>

\* The snapshot. One of this cycle is there already: the insert fails on the unique
\* index, and the request with it.
InsertSnapshot(q) ==
  LET c == req[q].n IN
  /\ req[q].pc \in {"snapshot", "baseline"}
  /\ IF snap[c] = 0
       THEN /\ snap' = [snap EXCEPT ![c] = IF At(q, "snapshot") THEN req[q].r ELSE Baseline]
            /\ Goto(q, IF At(q, "snapshot") THEN "retire" ELSE "open")
       ELSE Move(q, Idle) /\ UNCHANGED snap
  /\ UNCHANGED <<decVars, planVars, forecastVars, residual, residuals, cycle, loose>>

\* Within appetite the plan stops being the current one.
RetirePlan(q) ==
  /\ At(q, "retire")
  /\ plan' = IF req[q].seen = "within" /\ req[q].row # None THEN [plan EXCEPT ![req[q].row].current = FALSE] ELSE plan
  /\ Goto(q, "advance")
  /\ UNCHANGED <<decVars, edits, forecastVars, cycleVars, loose>>

\* scenario.save().
SaveCycle(q) ==
  /\ req[q].pc \in {"advance", "open"}
  /\ cycle' = req[q].n + 1
  /\ IF At(q, "advance") THEN Goto(q, "spend") ELSE Move(q, Idle)
  /\ UNCHANGED <<decVars, planVars, forecastVars, residual, residuals, snap, loose>>

\* Mutant: the residual stays for the next cycle.
KeepResidual(q) ==
  /\ At(q, "spend")
  /\ IF req[q].mark THEN Goto(q, "spendForecast") ELSE Move(q, Idle)
  /\ UNCHANGED <<decVars, planVars, forecastVars, cycleVars, loose>>

SpendResidual(q) ==
  /\ At(q, "spend")
  /\ residual' = 0
  /\ IF req[q].mark THEN Goto(q, "spendForecast") ELSE Move(q, Idle)
  /\ UNCHANGED <<decVars, planVars, forecastVars, residuals, cycle, snap, loose>>

\* The forecast goes, too, if there was one.
SpendForecast(q) ==
  /\ At(q, "spendForecast") /\ ~ForecastLocked
  /\ forecast' = "absent"
  /\ Move(q, Idle)
  /\ UNCHANGED <<decVars, planVars, basis, cycleVars, loose>>

LoadStart(q) ==
  /\ cycle = 1
  /\ Begins(q, Slot("check", None, "none", 1, 0, FALSE, {}))
  /\ loose' = IF Promoting # {} THEN loose \cup {"start"} ELSE loose
  /\ UNCHANGED <<decVars, planVars, forecastVars, cycleVars>>

SnapshotFound(c) == snap[c] # 0

\* "Re-confirming never doubles the snapshot."
CheckSnapshot(q) ==
  /\ At(q, "check")
  /\ Goto(q, IF SnapshotFound(1) THEN "open" ELSE "baseline")
  /\ UNCHANGED <<decVars, planVars, forecastVars, cycleVars, loose>>

-----------------------------------------------------------------------------
\* The process dies between two statements. (A transaction is rolled back.)
Crash(q) ==
  /\ req[q].pc \in {"next", "flag", "retire", "advance", "spend", "spendForecast", "open"}
  /\ loose' = loose \cup (IF req[q].pc \in {"retire", "advance", "open"} THEN {"closing"}
                        ELSE IF req[q].pc \in {"spend", "flag"} THEN {req[q].pc} ELSE {})
  /\ Move(q, Idle)
  /\ UNCHANGED <<decVars, planVars, forecastVars, cycleVars>>

Step(q) ==
  \/ \E option \in Options : LoadDecide(q, option)
  \/ FindCurrent(q) \/ LockCurrent(q) \/ FlipCurrent(q) \/ RollbackDecision(q)
  \/ \E d \in Decisions : CommitDecision(q, d)
  \/ \E pc \in {"plan", "approve"} : LoadPlan(q, pc)
  \/ \E p \in Plans : CreatePlan(q, p)
  \/ \E status \in Amended : AmendPlan(q, status)
  \/ RetireApproved(q) \/ FlagForecast(q) \/ ApprovePlan(q)
  \/ LoadForecast(q) \/ SaveForecast(q)
  \/ \E seen \in {"within", "above"} : LoadPromote(q, seen)
  \/ InsertSnapshot(q) \/ RetirePlan(q) \/ SaveCycle(q) \/ SpendResidual(q) \/ SpendForecast(q)
  \/ LoadStart(q) \/ CheckSnapshot(q)
  \/ Crash(q)

Next == RecordResidual \/ \E q \in Requests : Step(q)

Spec == Init /\ [][Next]_vars

-----------------------------------------------------------------------------
PlanStatuses == {"absent", "Draft", "Planned", "Approved"}

Points == {"idle", "decide", "find", "flip", "insert", "plan", "approve", "next", "flag", "forecast",
           "snapshot", "retire", "advance", "spend", "spendForecast", "check", "baseline", "open"}

TypeOK ==
  /\ dec \in [Decisions -> [option : Options \cup {"none"}, current : BOOLEAN]]
  /\ plan \in [Plans -> [status : PlanStatuses, current : BOOLEAN, content : 0..MaxEdits]]
  /\ forecast \in {"absent", "fresh", "flagged"} /\ basis \in 0..MaxEdits /\ edits \in 0..MaxEdits
  /\ residual \in 0..MaxCycle /\ residuals \in 0..MaxCycle
  /\ cycle \in 1..MaxCycle
  /\ snap \in [1..MaxCycle -> 0..Baseline]
  /\ loose \subseteq {"closing", "spend", "flag", "forecast", "plans", "promotions", "start"}
  /\ req \in [Requests -> [pc : Points, row : Decisions \cup Plans \cup {None},
                           seen : PlanStatuses \cup Options \cup {"none", "fresh", "flagged", "within", "above"},
                           n : 0..MaxEdits + MaxCycle, r : 0..MaxCycle, mark : BOOLEAN, rows : SUBSET Decisions]]

\* "The scenario is never left with zero current decisions": once there is a decision, one
\* of them is the current one at every moment, however the saves overlap or fail.
DecisionStands == (\E d \in Decisions : dec[d].option # "none") => CurrentDecisions # {}

\* "... (or two)".
OneCurrentDecision == Cardinality(CurrentDecisions) <= 1

\* "The approved version is preserved": what an Approved plan says is rewritten only by
\* a save that had read the plan before its approval.
KeepsApproved ==
  \A p \in Plans :
    plan[p].status = "Approved" /\ plan'[p].content # plan[p].content =>
      \E q \in Requests : At(q, "plan") /\ req[q].row = p /\ req[q].seen # "Approved" /\ req'[q] # req[q]
ApprovedKept == [][KeepsApproved]_vars

\* Saves of the plan that come one after the other leave one current version, whatever
\* approvals and promotions overlap them and wherever they crash.
OnePlan == "plans" \in loose \/ \A a, b \in CurrentPlans : a = b

\* "EVERY plan save invalidates the projected residual": a forecast that is not flagged
\* was made against the plan as it stands, unless the save that has to flag it still is
\* to do so or died, or the plan was saved while a forecast not fresh was being confirmed,
\* or while two were.
ForecastFlagged ==
  forecast = "fresh" /\ basis # edits =>
    (\E q \in Requests : At(q, "flag")) \/ loose \cap {"flag", "forecast"} # {}

\* Every cycle that was closed has its snapshot, however promotions and the opening of
\* cycle 2 overlap; and a cycle that is not closed has none, unless the request between
\* the two is still at it or died, or the opening overlapped a promotion.
CyclesAccounted ==
  LET archived == {c \in 1..MaxCycle : snap[c] # 0} IN
  /\ 1..(cycle - 1) \subseteq archived
  /\ \A c \in archived :
       c < cycle \/ loose \cap {"closing", "start"} # {}
                 \/ \E q \in Requests : req[q].pc \in {"retire", "advance", "open"} /\ req[q].n = c

\* A residual closes one cycle, unless a promotion overlapped another or died before it
\* cleared it.
ResidualSpent ==
  loose \cap {"promotions", "closing", "spend"} = {} =>
    \A c, e \in 1..MaxCycle : snap[c] = snap[e] /\ snap[c] \in 1..MaxCycle => c = e

\* A scenario has its current decision and its one current plan, and keeps what was approved.
TreatmentKept == [](DecisionStands /\ OnePlan) /\ ApprovedKept

\* Each cycle is closed by a residual of its own.
CyclesClosed == CyclesAccounted /\ ResidualSpent
=============================================================================
