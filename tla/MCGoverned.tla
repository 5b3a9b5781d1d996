----------------------------- MODULE MCGoverned -----------------------------
(***************************************************************************)
(* Governed for TLC: two requests in flight in each component.             *)
(***************************************************************************)
EXTENDS Governed, Naturals, FiniteSets, TLC

-----------------------------------------------------------------------------
\* Three versions of a document: one request at a time.
ThreeInTurn ==
  (\A v \in Versions : status[v] # None) => Cardinality({q \in Requests : req[q].pc # "idle"}) <= 1

\* Once a version was forked, one form or request at a time, and the published one is
\* only superseded.
ForksInTurn ==
  (\E v \in Drafts \ {FirstDraft} : Rev!Exists(v)) =>
    /\ Cardinality({q \in Requests : reviewReq[q].pc # "idle"}) <= 1
    /\ doc[FirstDraft].status \in {"Published", "Superseded"}

\* A risk is followed through its decisions or through its cycles; the plan is saved
\* twice if neither happens.
Deciding ==
  \/ \E d \in Decisions : dec[d].option # "none"
  \/ \E q \in Requests : riskReq[q].pc \in {"decide", "find", "flip", "insert"}

Cycling ==
  \/ residuals > 0 \/ cycle > 1
  \/ \E q \in Requests : riskReq[q].pc \in {"check", "baseline", "open"}

DecideOrCycle ==
  /\ ~(Deciding /\ Cycling)
  /\ Deciding \/ Cycling => edits <= 1
  /\ cycle > 2 => Cardinality({q \in Requests : riskReq[q].pc # "idle"}) <= 1

\* One overlap or crash that the properties make an exception of, and no second one.
OneLoose == Cardinality(loose) <= 1

\* Two nonconformities as long as only the numbers of their plans matter, else one, which
\* after an overlap nothing is said of: one request at a time.
Plain(row) == row.plan.impl \in {"none", "no plan"} /\ row.plan.verified /\ row.status # "Closed"

NumbersOrOneRecord ==
  IF Cardinality({n \in Nonconformities : nc[n] # Cap!Absent}) > 1
    THEN /\ \A n \in Nonconformities : Plain(nc[n])
         /\ \A q \in Requests : Plain(capReq[q].now)
    ELSE /\ \A n \in Nonconformities : nc[n].plan.id <= 1
         /\ (\E n \in overlap : Cap!Exists(n) /\ ~Plain(nc[n])) =>
              Cardinality({q \in Requests : capReq[q].pc # "idle"}) <= 1

Followed ==
  CASE focus = "lineage" -> ThreeInTurn
    [] focus = "review" -> ForksInTurn
    [] focus = "risk" -> DecideOrCycle /\ OneLoose
    [] focus = "cap" -> NumbersOrOneRecord
    [] focus = "routing" -> TRUE

\* The requests are interchangeable, and in each focus two rows. One swap for all of
\* these is enough.
Pairs == {Versions \ {Root}, Reviewers, Decisions, Plans, Nonconformities, Raised}

Other(pair, x) == CHOOSE y \in pair : y # x

SwapPairs == [x \in UNION Pairs |-> Other(CHOOSE pair \in Pairs : x \in pair, x)]

Symmetric == Permutations(Requests) \cup {SwapPairs}
=============================================================================
