---------------------------- MODULE MCApprovals ----------------------------
(***************************************************************************)
(* Answering for TLC: two users and two requests that race and crash, one  *)
(* request at a time of three users, and two forms or requests at once on  *)
(* an order.                                                               *)
(***************************************************************************)
EXTENDS Answering, MCApprovalRun

\* Whoever is not in focus stands still in one state.
RestingInit ==
  /\ AnsweringInit
  /\ focus = "races" \/ (byHand = {} /\ pool = PairPool /\ scheme = TwoGates)
  /\ focus = "in turn" \/ (tByHand = {} /\ tPool = DisjointPool /\ tScheme = TwoGates)

AnsweringSpec == RestingInit /\ [][AnsweringNext]_answering

-----------------------------------------------------------------------------
RaceFollowed == focus = "races" => EngineOnly

\* An order is followed until it is confirmed or cancelled, or a second thing that the
\* properties make an exception of has happened. Once it was sent again, its requests
\* come one after the other, whatever forms are still open.
OrderFollowed ==
  /\ status \notin {"Confirmed", "Cancelled"}
  /\ Cardinality(lost) + Cardinality(excused) <= 1
  /\ sends = MaxSends => Cardinality({q \in Requests : orderReq[q].pc \in {"edit", "patch", "answer"}}) <= 1
=============================================================================
