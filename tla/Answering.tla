----------------------------- MODULE Answering -----------------------------
(***************************************************************************)
(* What waits for somebody's answer, three instances side by side: an      *)
(* approval run whose requests may race and crash (ApprovalRun, EXTENDS);  *)
(* one whose requests come one after the other (InTurn); and a purchase    *)
(* order a supplier confirms (Order).  They share no row, so a behaviour   *)
(* is about one of them, the focus, and the others stand still.            *)
(***************************************************************************)
EXTENDS ApprovalRun

CONSTANTS
  InTurnUsers, InTurnRequests, InTurnSchemes, InTurnPools,  \* of InTurn
  MaxSends, MaxTokens                                       \* of Order

VARIABLES
  focus,
  tRec, tByHand, tRun, tPool, tScheme, tReq,                              \* of InTurn
  status, data, sends, minted, emailed, lost, answers, excused, orderReq  \* of Order

inTurn == <<tRec, tByHand, tRun, tPool, tScheme, tReq>>
purchase == <<status, data, sends, minted, emailed, lost, answers, excused, orderReq>>
answering == <<focus, vars, inTurn, purchase>>

InTurn == INSTANCE ApprovalRun WITH
  Users <- InTurnUsers, Requests <- InTurnRequests, Schemes <- InTurnSchemes, Pools <- InTurnPools,
  SelfApproval <- TRUE, OneSubmit <- TRUE, Crashes <- FALSE,
  rec <- tRec, byHand <- tByHand, run <- tRun, pool <- tPool, scheme <- tScheme, req <- tReq

Order == INSTANCE PurchaseOrder WITH req <- orderReq

ASSUME AnsweringAssumption ==
  /\ InTurn!NoOne \notin InTurnUsers /\ InTurn!Unset \notin InTurnUsers
  /\ InTurnSchemes \subseteq Seq({"mst", "top"})
  /\ InTurnPools \subseteq [InTurnUsers -> InTurn!Flags]
  /\ MaxSends \in Nat /\ MaxTokens \in Nat

AnsweringInit ==
  /\ focus \in {"races", "in turn", "order"}
  /\ Init /\ InTurn!Init /\ Order!Init

AnsweringNext ==
  \/ focus = "races" /\ Next /\ UNCHANGED <<focus, inTurn, purchase>>
  \/ focus = "in turn" /\ InTurn!Next /\ UNCHANGED <<focus, vars, purchase>>
  \/ focus = "order" /\ Order!Next /\ UNCHANGED <<focus, vars, inTurn>>

AnsweringBehaviour == AnsweringInit /\ [][AnsweringNext]_answering

-----------------------------------------------------------------------------
\* The types of an approval run and of a purchase order.
TypesOK == TypeOK /\ Order!TypeOK

\* Between requests, a record and its run tell one story.
StatusInTurn == InTurn!StatusMatchesRun

\* An active run can go on, unless one user may sign at two of its gates.
SignerInTurn == InTurn!SomeoneMaySign

\* A supplier's link opens his order, and takes one answer for each time it was sent.
SupplierLink == Order!SupplierLink
=============================================================================
