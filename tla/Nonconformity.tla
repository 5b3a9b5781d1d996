---------------------------- MODULE Nonconformity ----------------------------
(***************************************************************************)
(* The register of nonconformities and their corrective action plans       *)
(* (implementation/implementation.service.ts: updateRecord with            *)
(* applyCapSideEffects, assertClosable and saveRecord; deleteRecord).      *)
(*                                                                         *)
(* A plan (CAP) lives in the JSON column `data` of its nonconformity.      *)
(* Its number is the highest one of the organization plus one, minted      *)
(* under the CAP code lock; a change of its implementation status drives   *)
(* the nonconformity's own status.  A client edits by sending back the     *)
(* whole column it once read.                                              *)
(***************************************************************************)
EXTENDS Naturals, FiniteSets, FiniteSetsExt, Sequelize

CONSTANTS
  Records,   \* nonconformities of an organization
  Requests,  \* forms and requests open at once
  MaxId      \* bound: the highest CAP number

VARIABLES
  nc,       \* nc[n]: its status and its plan
  freed,    \* CAP numbers that were taken off a record (history)
  manual,   \* records whose status was set by hand since the plan last drove it (history)
  overlap,  \* records two requests held a copy of at once (history)
  req       \* req[q]: the form or request in slot q

vars == <<nc, freed, manual, overlap, req>>

Impls == {"none", "Planned", "Closed"}

\* A plan: its number (0: not minted yet), its implementationStatus, and whether no check
\* of its effectiveness is required or it was found effective.
Plan(id, impl, verified) == [id |-> id, impl |-> impl, verified |-> verified]

NoPlan == Plan(0, "no plan", TRUE)

Row(status, plan) == [status |-> status, plan |-> plan]

Absent == Row("absent", NoPlan)

Deleted == Row("deleted", NoPlan)

Exists(n) == nc[n].status \notin {"absent", "deleted"}

\* was: the row as it was loaded; now: the row as it will be saved (in a form: shown).
Slot(pc, n, was, now) == [pc |-> pc, n |-> n, was |-> was, now |-> now]

None == CHOOSE n \in Records : TRUE

Idle == Slot("idle", None, Absent, Absent)

Move(q, r) == req' = [req EXCEPT ![q] = r]

InFlight(q) == req[q].pc \notin {"idle", "form"}

Meet(q, n) ==
  overlap' = IF \E p \in Requests \ {q} : InFlight(p) /\ req[p].n = n THEN overlap \cup {n} ELSE overlap

\* deriveNcStatusFromCap.
Derived(impl) == CASE impl = "Closed" -> "Closed" [] impl = "Planned" -> "CAP Planned" [] OTHER -> "In Progress"

Init ==
  /\ nc = [n \in Records |-> Absent]
  /\ freed = {}
  /\ manual = {}
  /\ overlap = {}
  /\ req = [q \in Requests |-> Idle]

-----------------------------------------------------------------------------
\* createRecord, or a concern routed here: no plan yet.
Create(n) ==
  /\ nc[n] = Absent
  /\ nc' = [nc EXCEPT ![n] = Row("Open", NoPlan)]
  /\ UNCHANGED <<freed, manual, overlap, req>>

OpenForm(q, n) ==
  /\ req[q].pc = "idle" /\ Exists(n)
  /\ Move(q, Slot("form", n, nc[n], nc[n]))
  /\ UNCHANGED <<nc, freed, manual, overlap>>

\* The plans a form may send: as it was shown, taken off, a new one, or changed.
Sent(shown) ==
  {shown, NoPlan}
    \cup {Plan(shown.id, impl, verified) : impl \in Impls, verified \in BOOLEAN}

\* The implementation status the request brings differs from the stored one.
Drives(stored, plan) == plan.impl \in {"Planned", "Closed"} /\ plan.impl # stored.impl

\* assertClosable.
MayClose(status, plan) == status = "Closed" => plan.verified

\* A plan without a number takes the stored one.
Numbered(stored, plan) ==
  IF plan # NoPlan /\ plan.id = 0 THEN Plan(stored.id, plan.impl, plan.verified) ELSE plan

\* Mutant: the gate is asked about the status the form brings, before the plan drives it.
UpdateGateFirst(q, n, status, plan) ==
  LET stored == nc[n].plan
      next == IF Drives(stored, plan) THEN Derived(plan.impl) ELSE status IN
  /\ Exists(n)
  /\ MayClose(IF status = nc[n].status THEN "as it is" ELSE status, plan)
  /\ Move(q, Slot("save", n, nc[n], Row(next, Numbered(stored, plan))))
  /\ Meet(q, n)
  /\ UNCHANGED <<nc, freed, manual>>

\* updateRecord with data, up to its save. A status the request does not name is not
\* asked about.
Update(q, n, status, plan) ==
  LET stored == nc[n].plan
      next == IF Drives(stored, plan) THEN Derived(plan.impl) ELSE status IN
  /\ Exists(n)
  /\ MayClose(IF Drives(stored, plan) \/ status # nc[n].status THEN next ELSE "as it is", plan)
  /\ Move(q, Slot("save", n, nc[n], Row(next, Numbered(stored, plan))))
  /\ Meet(q, n)
  /\ UNCHANGED <<nc, freed, manual>>

\* The form is sent, with or without another status.
Post(q, status, plan) ==
  /\ req[q].pc = "form" /\ plan \in Sent(req[q].now.plan)
  /\ Update(q, req[q].n, status, plan)

\* A status without data.
PostStatus(q, n, status) ==
  /\ req[q].pc = "idle" /\ Exists(n)
  /\ MayClose(IF status # nc[n].status THEN status ELSE "as it is", nc[n].plan)
  /\ Move(q, Slot("patch", n, nc[n], Row(status, nc[n].plan)))
  /\ Meet(q, n)
  /\ UNCHANGED <<nc, freed, manual>>

Prepared == {"save", "patch"}

Unnumbered(q) == req[q].now.plan # NoPlan /\ req[q].now.plan.id = 0

\* Mutant: the number is read without the lock.
LockAlways(q) ==
  LET r == req[q]
      id == 1 + Max({nc[n].plan.id : n \in Records}) IN
  /\ r.pc \in Prepared /\ Unnumbered(q)
  /\ id <= MaxId
  /\ Move(q, Slot("mint", r.n, r.was, Row(r.now.status, Plan(id, r.now.plan.impl, r.now.plan.verified))))
  /\ UNCHANGED <<nc, freed, manual, overlap>>

\* saveRecord: the number of a plan that has none, read under the CAP code lock.
Lock(q) ==
  LET r == req[q]
      id == 1 + Max({nc[n].plan.id : n \in Records}) IN
  /\ r.pc \in Prepared /\ Unnumbered(q)
  /\ \A p \in Requests : req[p].pc # "mint"
  /\ id <= MaxId
  /\ Move(q, Slot("mint", r.n, r.was, Row(r.now.status, Plan(id, r.now.plan.impl, r.now.plan.verified))))
  /\ UNCHANGED <<nc, freed, manual, overlap>>

\* save(), of a record that is still there: the status where it was changed, data as a
\* whole where it differs from what was loaded, be it in the plan or (other) in what is
\* not modelled.
Save(q, other) ==
  LET r == req[q]
      stored == nc[r.n]
      plan == IF other THEN r.now.plan ELSE Changed(stored.plan, r.was.plan, r.now.plan) IN
  /\ r.pc = "mint" \/ (r.pc \in Prepared /\ ~Unnumbered(q))
  /\ other => r.pc # "patch"
  /\ nc' = IF ~Exists(r.n) THEN nc
           ELSE [nc EXCEPT ![r.n] = Row(Changed(stored.status, r.was.status, r.now.status), plan)]
  /\ freed' = IF stored.plan.id # plan.id THEN freed \cup {stored.plan.id} ELSE freed
  /\ manual' = CASE Drives(r.was.plan, r.now.plan) -> manual \ {r.n}
                 [] ~Drives(r.was.plan, r.now.plan) /\ r.now.status # r.was.status -> manual \cup {r.n}
                 [] OTHER -> manual
  /\ Move(q, Idle)
  /\ UNCHANGED overlap

\* deleteRecord.
Delete(n) ==
  /\ Exists(n)
  /\ nc' = [nc EXCEPT ![n] = Deleted]
  /\ freed' = freed \cup {nc[n].plan.id}
  /\ manual' = manual \ {n}
  /\ UNCHANGED <<overlap, req>>

\* The client closes the form, or a process dies before it saves.
Abandon(q) ==
  /\ req[q].pc # "idle"
  /\ Move(q, Idle)
  /\ UNCHANGED <<nc, freed, manual, overlap>>

-----------------------------------------------------------------------------
Statuses == {"Open", "CAP Planned", "In Progress", "Closed"}

Step(q) ==
  \/ \E n \in Records : OpenForm(q, n) \/ \E status \in {"Open", "Closed"} : PostStatus(q, n, status)
  \/ \E status \in {nc[req[q].n].status, "Closed"}, plan \in Sent(req[q].now.plan) : Post(q, status, plan)
  \/ Lock(q) \/ (\E other \in BOOLEAN : Save(q, other)) \/ Abandon(q)

Next ==
  \/ \E n \in Records : Create(n) \/ Delete(n)
  \/ \E q \in Requests : Step(q)

Spec == Init /\ [][Next]_vars

-----------------------------------------------------------------------------
PlanRows == {NoPlan} \cup [id : 0..MaxId, impl : Impls, verified : BOOLEAN]

Rows == [status : Statuses \cup {"absent", "deleted"}, plan : PlanRows]

TypeOK ==
  /\ nc \in [Records -> Rows]
  /\ freed \subseteq 0..MaxId
  /\ manual \subseteq Records
  /\ overlap \subseteq Records
  /\ req \in [Requests -> [pc : {"idle", "form", "save", "patch", "mint"}, n : Records, was : Rows, now : Rows]]

\* "CAP ids are their own per-org sequence": no two plans carry one number, however
\* many are created at once, unless it had been taken off a record and an old form or a
\* request in flight puts it back.
CapIdsUnique ==
  \A m, n \in Records :
    m # n /\ nc[m].plan.id # 0 /\ nc[m].plan.id = nc[n].plan.id => nc[m].plan.id \in freed

\* "Enforced server-side so the gate holds regardless of which client performs the
\* transition, including a CAP-driven auto-close": no record is closed on a plan that has
\* to be verified and was not, unless requests overlapped on it.
ClosedVerified ==
  [][\A n \in Records :
       nc[n].status # "Closed" /\ nc'[n].status = "Closed" => nc'[n].plan.verified \/ n \in overlap]_vars

\* "A genuine CAP status edit, from any client, can never leave the two lifecycles in
\* contradiction": unless the status was set by hand, or requests overlapped, it is the
\* one the plan calls for, however old the form that brought the plan.
CapAgrees ==
  \A n \in Records :
    nc[n].plan.impl \in {"Planned", "Closed"} =>
      nc[n].status = Derived(nc[n].plan.impl) \/ n \in manual \/ n \in overlap

\* The plan and its nonconformity move together.
CapDrives == []CapAgrees /\ ClosedVerified
=============================================================================
