--------------------------- MODULE ConcernRouting ---------------------------
(***************************************************************************)
(* The review of a concern (implementation/implementation.service.ts,      *)
(* routeConcern): classifying it creates a record in another register, or  *)
(* closes it.  The record is created in a transaction of its own, under    *)
(* the code lock of its register; the concern is saved afterwards, from    *)
(* the copy whose status was checked at the start.                         *)
(***************************************************************************)
EXTENDS FiniteSets, Sequelize

CONSTANTS
  Records,   \* records that may be created
  Requests,  \* requests in flight at once
  NoRecord

VARIABLES
  concern,  \* its status, and the record its data names
  source,   \* source[r]: whether r exists: it names the concern
  upset,    \* why more than one record may come of the concern (history)
  req       \* req[q]: the request in slot q

vars == <<concern, source, upset, req>>

Row(status, routed) == [status |-> status, routed |-> routed]

\* was: the concern as it was loaded; now: as it will be saved.
Slot(pc, was, now) == [pc |-> pc, was |-> was, now |-> now]

Fresh == Row("Submitted", NoRecord)

Idle == Slot("idle", Fresh, Fresh)

Move(q, r) == req' = [req EXCEPT ![q] = r]

Reviewed(status) == status \in {"Routed", "Closed"}

Routing(q) == req[q].pc \in {"create", "name", "close"}

Met(q) == IF \E p \in Requests \ {q} : Routing(p) THEN upset \cup {"overlap"} ELSE upset

Init ==
  /\ concern = Fresh
  /\ source = [r \in Records |-> "absent"]
  /\ upset = {}
  /\ req = [q \in Requests |-> Idle]

-----------------------------------------------------------------------------
\* Mutant: a routed concern may be routed again.
LoadRouteAgain(q) ==
  /\ req[q].pc = "idle" /\ concern.status # "Closed"
  /\ Move(q, Slot("create", concern, concern))
  /\ upset' = Met(q)
  /\ UNCHANGED <<concern, source>>

\* routeConcern with a classification that creates a record, up to its checks.
LoadRoute(q) ==
  /\ req[q].pc = "idle" /\ ~Reviewed(concern.status)
  /\ Move(q, Slot("create", concern, concern))
  /\ upset' = Met(q)
  /\ UNCHANGED <<concern, source>>

\* The record, in a transaction of its own.
CreateRecord(q, r) ==
  /\ req[q].pc = "create" /\ source[r] = "absent"
  /\ source' = [source EXCEPT ![r] = "exists"]
  /\ Move(q, Slot("name", req[q].was, Row("Routed", r)))
  /\ UNCHANGED <<concern, upset>>

\* routeConcern with one that closes the concern. What the data named stays there.
LoadClose(q) ==
  /\ req[q].pc = "idle" /\ ~Reviewed(concern.status)
  /\ Move(q, Slot("close", concern, Row("Closed", concern.routed)))
  /\ upset' = Met(q)
  /\ UNCHANGED <<concern, source>>

\* updateRecord without data: any status, back to Submitted among them.
LoadStatus(q, status) ==
  /\ req[q].pc = "idle"
  /\ Move(q, Slot("edit", concern, Row(status, concern.routed)))
  /\ UNCHANGED <<concern, source, upset>>

\* updateRecord with the data of a form older than the routing.
LoadRewrite(q) ==
  /\ req[q].pc = "idle"
  /\ Move(q, Slot("rewrite", concern, Row(concern.status, NoRecord)))
  /\ UNCHANGED <<concern, source, upset>>

\* What an edit of the concern undoes.
Undone(q, saved) ==
  CASE req[q].pc = "edit" /\ Reviewed(concern.status) /\ ~Reviewed(saved.status) -> {"reopened"}
    [] req[q].pc = "rewrite" /\ saved.routed # concern.routed -> {"rewritten"}
    [] OTHER -> {}

\* save() of any of them: the status where it was changed, data where it was assigned.
Save(q) ==
  LET saved == Row(Changed(concern.status, req[q].was.status, req[q].now.status),
                   IF req[q].pc = "edit" THEN concern.routed ELSE req[q].now.routed) IN
  /\ req[q].pc \in {"name", "close", "edit", "rewrite"}
  /\ concern' = saved
  /\ upset' = upset \cup Undone(q, saved)
  /\ Move(q, Idle)
  /\ UNCHANGED source

\* deleteRecord of what was created.
Delete(r) ==
  /\ source[r] = "exists"
  /\ source' = [source EXCEPT ![r] = "deleted"]
  /\ UNCHANGED <<concern, upset, req>>

\* The process dies; a record it created stays.
Crash(q) ==
  /\ req[q].pc # "idle"
  /\ Move(q, Idle)
  /\ upset' = IF req[q].pc = "name" THEN upset \cup {"died"} ELSE upset
  /\ UNCHANGED <<concern, source>>

-----------------------------------------------------------------------------
Statuses == {"Submitted", "Routed", "Closed"}

Next ==
  \/ \E q \in Requests :
       \/ LoadRoute(q) \/ LoadClose(q) \/ LoadRewrite(q) \/ Save(q) \/ Crash(q)
       \/ \E r \in Records : CreateRecord(q, r)
       \/ \E status \in Statuses : LoadStatus(q, status)
  \/ \E r \in Records : Delete(r)

Spec == Init /\ [][Next]_vars

-----------------------------------------------------------------------------
Rows == [status : Statuses, routed : Records \cup {NoRecord}]

TypeOK ==
  /\ concern \in Rows
  /\ source \in [Records -> {"absent", "exists", "deleted"}]
  /\ upset \subseteq {"overlap", "died", "reopened", "rewritten"}
  /\ req \in [Requests -> [pc : {"idle", "create", "name", "close", "edit", "rewrite"}, was : Rows, now : Rows]]

\* "Classifying it creates that record, cross-linking both ways": every record created
\* from the concern is named by it or about to be, and so there is one, unless two
\* reviews overlapped, one died in between, or the concern was reopened or its data
\* replaced by an edit.
RoutedOnce ==
  upset = {} =>
    \A r \in Records :
      source[r] # "absent" =>
        \/ concern.routed = r
        \/ \E q \in Requests : req[q].pc = "name" /\ req[q].now.routed = r
=============================================================================
