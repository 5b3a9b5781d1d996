------------------------------ MODULE OrgUnits ------------------------------
(***************************************************************************)
(* The units of an organization (org-units/orgUnit.service.ts): a tree of  *)
(* fixed depth, each unit with the tier of its depth and the people that   *)
(* are appointed to the levels of that tier.  createOrgUnit, deleteOrgUnit *)
(* and reparentOrgUnit read the whole tree without a lock, decide on it,   *)
(* and write later; only the writes of a move are one transaction.         *)
(*                                                                         *)
(* A level is abstracted to its tier: all tiers have as many appointable   *)
(* levels.  The members of a unit and their own levels are not modelled.   *)
(***************************************************************************)
EXTENDS Integers, Sequelize

CONSTANTS
  Units, Requests, NoUnit,
  Tiers   \* TIER_ORDER.length: tiers are numbered from 0, the root's

VARIABLES
  unit,   \* unit[u]: its row, or Gone
  late,   \* what was decided on a tree that had changed since, or is too deep for depthOf (history)
  req     \* req[q]: the request in slot q

vars == <<unit, late, req>>

\* appt: the tiers whose levels the appointed hold.
Row(parent, tier, appt) == [parent |-> parent, tier |-> tier, appt |-> appt]

Gone == [parent |-> NoUnit]

Absent(tree, u) == tree[u] = Gone

Present(tree) == {u \in Units : tree[u] # Gone}

\* of: the unit created or written; to: its new row or parent; was: what was read of it,
\* which is its row for an appointment, its sub-units for a deletion, and the whole tree
\* for a move.
Slot(pc, of, to, was) == [pc |-> pc, of |-> of, to |-> to, was |-> was]

Idle == [pc |-> "idle"]

Move(q, r) == req' = [req EXCEPT ![q] = r]

Init ==
  /\ unit = [u \in Units |-> Gone]
  /\ late = {}
  /\ req = [q \in Requests |-> Idle]

-----------------------------------------------------------------------------
\* The tree.
Children(tree, u) == {v \in Present(tree) : tree[v].parent = u}

\* depthOf gives up after this many steps.
Guard == Tiers + 5

DepthOf(tree, u) ==
  LET up[n \in 0 .. Guard] ==
        [x \in Units |-> IF n = 0 \/ tree[x].parent = NoUnit THEN 0 ELSE 1 + up[n - 1][tree[x].parent]]
  IN  up[Guard][u]

TierAt(depth) ==
  CASE depth < 0 -> 0
    [] depth >= Tiers -> Tiers - 1
    [] OTHER -> depth

\* subtreeIds without its first: the least set of units with the sub-units of u and of
\* each of its members.
Below(tree, u) ==
  {v \in Present(tree) :
     \A S \in SUBSET Present(tree) :
       Children(tree, u) \subseteq S /\ (\A w \in S : Children(tree, w) \subseteq S) => v \in S}

Subtree(tree, u) == {u} \cup Below(tree, u)

-----------------------------------------------------------------------------
\* createOrgUnit up to the tier it computes. An appointment given with it is refused
\* after the insert, since nobody can be a member of the unit yet: the unit stays.
LoadCreate(q, u, parent) ==
  LET tier == TierAt(IF parent = NoUnit THEN 0 ELSE DepthOf(unit, parent) + 1) IN
  /\ req[q].pc = "idle" /\ Absent(unit, u)
  /\ parent # NoUnit => ~Absent(unit, parent) /\ unit[parent].tier # Tiers - 1
  /\ Move(q, Slot("insert", u, Row(parent, tier, {}), Gone))
  /\ UNCHANGED <<unit, late>>

\* The insert. The parent is a foreign key: the request fails if it is gone.
Insert(q) ==
  LET u == req[q].of  row == req[q].to IN
  /\ req[q].pc = "insert" /\ Absent(unit, u)
  /\ row.parent # NoUnit => ~Absent(unit, row.parent)
  /\ unit' = [unit EXCEPT ![u] = row]
  /\ late' = IF row.parent # NoUnit /\ unit[row.parent].tier # row.tier - 1 THEN late \cup {"placed"} ELSE late
  /\ Move(q, Idle)

\* updateOrgUnit: an appointment to a level of the tier as loaded, or the end of one.
LoadAppoint(q, u, filled) ==
  /\ req[q].pc = "idle" /\ ~Absent(unit, u)
  /\ LET appt == IF filled THEN {unit[u].tier} ELSE {} IN
     Move(q, Slot("appoint", u, Row(unit[u].parent, unit[u].tier, appt), unit[u]))
  /\ UNCHANGED <<unit, late>>

Appoint(q) ==
  LET u == req[q].of  was == req[q].was  appt == req[q].to.appt IN
  /\ req[q].pc = "appoint"
  /\ unit' = IF Absent(unit, u) THEN unit
             ELSE [unit EXCEPT ![u].appt = Changed(unit[u].appt, was.appt, appt)]
  /\ late' = IF ~Absent(unit, u) /\ unit[u].tier # was.tier THEN late \cup {"appointed"} ELSE late
  /\ Move(q, Idle)

\* Mutant: the sub-units are not looked at.
LoadDeleteAny(q, u) ==
  /\ req[q].pc = "idle" /\ ~Absent(unit, u)
  /\ Move(q, Slot("destroy", u, NoUnit, Children(unit, u)))
  /\ UNCHANGED <<unit, late>>

\* deleteOrgUnit: refused as long as the unit has sub-units.
LoadDelete(q, u) ==
  /\ req[q].pc = "idle" /\ ~Absent(unit, u)
  /\ Children(unit, u) = {}
  /\ Move(q, Slot("destroy", u, NoUnit, Children(unit, u)))
  /\ UNCHANGED <<unit, late>>

\* destroy(): the database deletes the sub-units with it (migration 0079).
Destroy(q) ==
  LET u == req[q].of IN
  /\ req[q].pc = "destroy"
  /\ unit' = [v \in Units |-> IF v \in Subtree(unit, u) THEN Gone ELSE unit[v]]
  /\ late' = IF Children(unit, u) \ req[q].was # {} THEN late \cup {"filled"} ELSE late
  /\ Move(q, Idle)

\* Mutant: only the unit itself is refused as its own parent.
LoadMoveBelow(q, u, parent) ==
  /\ req[q].pc = "idle" /\ ~Absent(unit, u) /\ u \notin Below(unit, u) /\ parent # u
  /\ parent # NoUnit => ~Absent(unit, parent) /\ DepthOf(unit, parent) + 1 <= Tiers - 1
  /\ Move(q, Slot("reparent", u, parent, unit))
  /\ UNCHANGED <<unit, late>>

\* reparentOrgUnit up to its checks. For a unit on a cycle isDescendant and subtreeIds
\* do not return.
LoadMove(q, u, parent) ==
  /\ req[q].pc = "idle" /\ ~Absent(unit, u) /\ u \notin Below(unit, u)
  /\ parent # NoUnit => ~Absent(unit, parent) /\ parent \notin Subtree(unit, u)
  /\ parent # NoUnit => DepthOf(unit, parent) + 1 <= Tiers - 1
  /\ Move(q, Slot("reparent", u, parent, unit))
  /\ UNCHANGED <<unit, late>>

\* Mutant: the moved unit gets its new tier, its subtree and all appointments keep theirs.
MovedAlone(was, u, parent, v) ==
  IF v # u THEN was[v]
  ELSE Row(parent, TierAt(IF parent = NoUnit THEN 0 ELSE DepthOf(was, parent) + 1), was[u].appt)

\* The new row of v when u moves, and the appointments that follow their tier.
Moved(was, u, parent, v) ==
  LET oldDepth == DepthOf(was, u)
      newDepth == IF parent = NoUnit THEN 0 ELSE DepthOf(was, parent) + 1
      depth == DepthOf(was, v)
      tier == IF TierAt(depth) = TierAt(depth + newDepth - oldDepth) THEN was[v].tier
              ELSE TierAt(depth + newDepth - oldDepth)
  IN  Row(IF v = u THEN parent ELSE was[v].parent, tier,
          {IF t = was[v].tier THEN tier ELSE t : t \in was[v].appt})

\* The transaction, from the tree as it was read.
Reparent(q) ==
  LET u == req[q].of  parent == req[q].to  was == req[q].was
      now == [v \in Subtree(was, u) |-> Moved(was, u, parent, v)]
      elsewhere == {v \in Present(unit) \cap Present(was) : unit[v].parent # was[v].parent}
      other == {v \in Subtree(was, u) \cup Subtree(unit, u) \cup ({parent} \ {NoUnit}) :
                  ~Absent(unit, v) /\ unit[v] # was[v]}
      deep == {v \in Subtree(was, u) : DepthOf(was, v) = Guard} IN
  /\ req[q].pc = "reparent"
  /\ parent # NoUnit /\ parent # was[u].parent /\ ~Absent(unit, u) => ~Absent(unit, parent)
  /\ unit' = [v \in Units |->
                IF Absent(unit, v) \/ v \notin Subtree(was, u) THEN unit[v]
                ELSE [f \in {"parent", "tier", "appt"} |-> Changed(unit[v][f], was[v][f], now[v][f])]]
  /\ late' = late \cup (IF elsewhere # {} THEN {"moved"} ELSE {})
                  \cup (IF other # {} THEN {"grown"} ELSE {})
                  \cup (IF deep # {} THEN {"deep"} ELSE {})
  /\ Move(q, Idle)

\* The request fails or the process dies before its write: nothing is left of it.
Abandon(q) ==
  /\ req[q].pc # "idle"
  /\ Move(q, Idle)
  /\ UNCHANGED <<unit, late>>

-----------------------------------------------------------------------------
Next ==
  \E q \in Requests :
    \/ Insert(q) \/ Appoint(q) \/ Destroy(q) \/ Reparent(q) \/ Abandon(q)
    \/ \E u \in Units :
         \/ LoadDelete(q, u)
         \/ \E filled \in BOOLEAN : LoadAppoint(q, u, filled)
         \/ \E parent \in Units \cup {NoUnit} : LoadCreate(q, u, parent) \/ LoadMove(q, u, parent)

Spec == Init /\ [][Next]_vars

-----------------------------------------------------------------------------
Rows == [parent : Units \cup {NoUnit}, tier : 0 .. Tiers - 1, appt : SUBSET (0 .. Tiers - 1)]

TypeOK ==
  /\ \A u \in Units : unit[u] \in Rows \cup {Gone}
  /\ late \subseteq {"placed", "appointed", "filled", "moved", "grown", "deep"}
  /\ \A q \in Requests :
       \/ req[q] = Idle
       \/ /\ req[q].pc \in {"insert", "appoint"} /\ req[q].to \in Rows /\ req[q].was \in Rows \cup {Gone}
          /\ req[q].of \in Units
       \/ req[q].pc = "destroy" /\ req[q].of \in Units
       \/ /\ req[q].pc = "reparent" /\ req[q].of \in Units /\ req[q].to \in Units \cup {NoUnit}
          /\ \A u \in Units : req[q].was[u] \in Rows \cup {Gone}

\* "Cannot move a unit under its own descendant": no unit is below itself, unless a move
\* was decided before another one committed.
Rooted == "moved" \notin late => \A u \in Present(unit) : u \notin Below(unit, u)

\* Every unit has the tier of its depth and its appointed people a level of that tier,
\* however subtrees are moved, unless the tree changed under one of the requests, or a
\* move took along a unit as deep as depthOf counts at most.
Ranked ==
  late \subseteq {"filled"} =>
    \A u \in Present(unit) : unit[u].tier = TierAt(DepthOf(unit, u)) /\ unit[u].appt \subseteq {unit[u].tier}

\* "Org unit has sub-units - move or delete them first": only a unit without sub-units is
\* deleted, unless one was put there after the check.
OnlyLeavesGo ==
  [][\A u \in Units :
       ~Absent(unit, u) /\ Absent(unit, u)' => Children(unit, u) = {} \/ "filled" \in late']_vars

\* The tree of an organization stays a tree, with its tiers.
TreeKept == [](Rooted /\ Ranked) /\ OnlyLeavesGo
=============================================================================
