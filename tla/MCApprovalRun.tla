--------------------------- MODULE MCApprovalRun ---------------------------
(***************************************************************************)
(* Schemes and pools for TLC's instances of ApprovalRun: few pools, that   *)
(* differ in what matters: who may sign both gates, and whether there is   *)
(* an optional member.                                                     *)
(***************************************************************************)
EXTENDS ApprovalRun, TLC

CONSTANTS a, b, c

\* The built-in schemes S1 and S2.
TwoGates == <<"mst", "top">>
SelfServeScheme == <<>>

GatedOnly == {TwoGates}
BothSchemes == {TwoGates, SelfServeScheme}

Member(mst, tm) == [mst |-> mst, tm |-> tm]

Outside == Member("no", "no")

\* Never set up.
EmptyPool == (a :> Outside @@ b :> Outside @@ c :> Outside)
\* Nobody in both pools; the MS Team has two required members.
DisjointPool == (a :> Member("required", "no") @@ b :> Member("required", "no")
                 @@ c :> Member("no", "final"))
\* a signs at both gates, b is an optional first signer, c a second top manager.
SharedPool == (a :> Member("required", "final") @@ b :> Member("optional", "no")
               @@ c :> Member("no", "member"))
\* One of the MS Team leaves it while a run is open.
ShrunkPool == [DisjointPool EXCEPT ![b] = Outside]

\* Two users: a signs at both gates, b is an optional signer of both, or left out.
PairPool == (a :> Member("required", "final") @@ b :> Member("optional", "member"))

AllPools == {EmptyPool, DisjointPool, SharedPool, ShrunkPool}
PairPools == {PairPool, [PairPool EXCEPT ![b] = Outside]}
OnePool == {DisjointPool}

\* A race is followed among the requests of the engine: an editor and another version
\* write the row alone, and no request of the engine decides by the row of a policy.
EngineOnly == byHand = {} /\ \A q \in Requests : req[q].pc \notin {"edit", "supersede"}

Symmetric == Permutations(Requests)
=============================================================================
