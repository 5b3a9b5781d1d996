------------------------------ MODULE Governed ------------------------------
(***************************************************************************)
(* The governed records, side by side: the versions of a document          *)
(* (DocumentLineage), the review of one of them (DocumentReview), the      *)
(* treatment of a risk (IsraTreatment), nonconformities (Nonconformity)    *)
(* and the routing of a concern (ConcernRouting).  They are rows of        *)
(* different records, so a behaviour is about one of them, the focus, and  *)
(* the others stand still.                                                 *)
(***************************************************************************)
EXTENDS DocumentLineage

CONSTANTS
  Drafts, FirstDraft, Reviewers, MaxForms,      \* of DocumentReview
  Decisions, Plans, MaxEdits, MaxCycle, NoRow,  \* of IsraTreatment
  Nonconformities, MaxId,                       \* of Nonconformity
  Raised, NoRecord                              \* of ConcernRouting

\* No marker is one of the rows it stands beside, there is a record to hold a plan, and a
\* second cycle can be opened.
ASSUME GovernedAssumption ==
  /\ FirstDraft \in Drafts /\ MaxForms \in Nat
  /\ MaxEdits \in Nat /\ MaxCycle \in Nat \ {0, 1} /\ NoRow \notin Decisions \cup Plans
  /\ Nonconformities # {} /\ MaxId \in Nat
  /\ NoRecord \notin Raised

VARIABLES
  focus,
  doc, own, excused, reviewed, forms, reviewReq,
  dec, plan, forecast, basis, edits, residual, residuals, cycle, snap, loose, riskReq,
  nc, freed, manual, overlap, capReq,
  concern, source, upset, concernReq

review == <<doc, own, excused, reviewed, forms, reviewReq>>
risk == <<dec, plan, forecast, basis, edits, residual, residuals, cycle, snap, loose, riskReq>>
cap == <<nc, freed, manual, overlap, capReq>>
routing == <<concern, source, upset, concernReq>>
governed == <<focus, vars, review, risk, cap, routing>>

Rev == INSTANCE DocumentReview WITH Versions <- Drafts, Root <- FirstDraft, overlap <- reviewed,
                                       req <- reviewReq
Risk == INSTANCE IsraTreatment WITH None <- NoRow, req <- riskReq
Cap == INSTANCE Nonconformity WITH Records <- Nonconformities, req <- capReq
Rout == INSTANCE ConcernRouting WITH Records <- Raised, req <- concernReq

GovernedInit ==
  /\ focus \in {"lineage", "review", "risk", "cap", "routing"}
  /\ Init /\ Rev!Init /\ Risk!Init /\ Cap!Init /\ Rout!Init
  /\ focus = "review" \/ doc[FirstDraft].bag.reviewers = {}

GovernedNext ==
  \/ focus = "lineage" /\ Next /\ UNCHANGED <<focus, review, risk, cap, routing>>
  \/ focus = "review" /\ Rev!Next /\ UNCHANGED <<focus, vars, risk, cap, routing>>
  \/ focus = "risk" /\ Risk!Next /\ UNCHANGED <<focus, vars, review, cap, routing>>
  \/ focus = "cap" /\ Cap!Next /\ UNCHANGED <<focus, vars, review, risk, routing>>
  \/ focus = "routing" /\ Rout!Next /\ UNCHANGED <<focus, vars, review, risk, cap>>

GovernedSpec == GovernedInit /\ [][GovernedNext]_governed

-----------------------------------------------------------------------------
\* The types of the governed records.
TypesOK == TypeOK /\ Rev!TypeOK /\ Risk!TypeOK /\ Cap!TypeOK /\ Rout!TypeOK

\* The sign-offs a document shows are those its reviewers gave, all of them.
SignoffsCounted == Rev!SignoffsCounted

\* A late handler disturbs neither a review nor a published text.
ReviewSteps == Rev!ReviewSteps

\* A risk has its current decision and its one current plan, and what was approved is kept.
TreatmentKept == Risk!TreatmentKept

\* A forecast that is not flagged was made for the plan as it stands.
ForecastFlagged == Risk!ForecastFlagged

\* Each cycle is closed by a residual of its own.
CyclesClosed == Risk!CyclesClosed

\* A corrective action plan has a number of its own, drives its nonconformity, and
\* closes it when it was verified.
CapDrives == []Cap!CapIdsUnique /\ Cap!CapDrives

\* A concern becomes one record.
RoutedOnce == Rout!RoutedOnce
=============================================================================
