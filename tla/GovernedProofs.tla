--------------------------- MODULE GovernedProofs ---------------------------
(***************************************************************************)
(* The governed records, for any number of rows and of requests in flight: *)
(* the versions of a document, while publications come one after the other *)
(* and no client sets Review Due; and with no such assumption the review   *)
(* of its versions (RevInv), the treatment of a risk (RiskTypes, PlansInv, *)
(* ForecastInv, CycleInv, ResidualInv), corrective action plans (CapInv)   *)
(* and the routing of a concern (RoutInv).                                 *)
(***************************************************************************)
EXTENDS Governed, FiniteSetTheorems, WellFoundedInduction, TLAPS

\* Only reconfirmation turns another status than Approved into Published, and
\* from Published it writes nothing.
CopyInv ==
  /\ \A v \in Versions : status[v] # "Review Due"
  /\ \A q \in Requests :
       /\ req[q].loaded # "Review Due"
       /\ req[q].pc = "reconfirm" => req[q].loaded = "Published"

\* A publication under way is alone, of an approved version, and keeps track of
\* the version that is live.
PublishInv ==
  \A q \in Publishing :
    /\ \A p \in Publishing : p = q
    /\ req[q].version \in approved
    /\ status[req[q].version] # "Published"
    /\ req[q].pc = "supersede" => \A x \in Versions : status[x] = "Published" => x = req[q].prior
    /\ req[q].pc = "publishSave" => \A x \in Versions : status[x] # "Published"

ApprovedInv ==
  \A v \in Versions : status[v] \in {"Approved", "Published"} => v \in approved

\* Whatever is superseded gave way to a version that was published, or that is
\* being published, unless a request died.
GaveWay ==
  \A v \in Versions : status[v] = "Superseded" =>
    \/ released \ {v} # {}
    \/ \E q \in Requests : \/ req[q].pc = "crashed"
                           \/ req[q].pc = "publishSave" /\ req[q].version # v

LInv == TypeOK /\ CopyInv /\ PublishInv /\ ApprovedInv /\ OneLive

Others(q) == \A p \in Requests : p # q => req'[p] = req[p]

-----------------------------------------------------------------------------
LEMMA InitLInv == ASSUME Init PROVE LInv
BY LineageAssumption
   DEF Init, LInv, TypeOK, CopyInv, PublishInv, ApprovedInv, OneLive, Publishing, Idle, Slots,
       Statuses, None, Accepts

\* What a step leaves to the other requests.
LEMMA ReqUpdate ==
  ASSUME req \in [Requests -> Slots], NEW q \in Requests, NEW s, req' = [req EXCEPT ![q] = s]
  PROVE  Others(q) /\ req'[q] = s /\ (s \in Slots => req' \in [Requests -> Slots])
BY DEF Others

\* A step of q keeps CopyInv if q's copy and the table do.
LEMMA CopyKept ==
  ASSUME CopyInv, NEW q \in Requests, Others(q), req'[q].loaded # "Review Due",
         req'[q].pc = "reconfirm" => req'[q].loaded = "Published",
         \A x \in Versions : status'[x] # "Review Due"
  PROVE  CopyInv'
<1>1. ASSUME NEW p \in Requests
      PROVE  req'[p].loaded # "Review Due" /\ (req'[p].pc = "reconfirm" => req'[p].loaded = "Published")
  <2>1. CASE p = q
    BY <2>1
  <2>2. CASE p # q
    BY <2>2 DEF Others, CopyInv
  <2> QED BY <2>1, <2>2
<1> QED BY <1>1 DEF CopyInv

\* A step of q that publishes nothing leaves the other publications alone.
LEMMA PublishKept ==
  ASSUME TypeOK, PublishInv, NEW q \in Requests, Others(q),
         req'[q].pc \notin {"publish", "supersede", "publishSave"}, approved \subseteq approved',
         \A x \in Versions : status'[x] = "Published" => status[x] = "Published"
  PROVE  PublishInv'
<1>1. ASSUME NEW p \in Publishing' PROVE p \in Publishing /\ req'[p] = req[p]
  <2>1. p \in Requests /\ p # q
    BY <1>1 DEF Publishing
  <2> QED BY <1>1, <2>1 DEF Publishing, Others
<1>2. ASSUME NEW p \in Publishing PROVE req[p].version \in Versions
  BY <1>2 DEF TypeOK, Slots, Publishing
<1> QED BY <1>1, <1>2 DEF PublishInv

LEMMA IdleSlot ==
  /\ Idle \in Slots /\ Idle.pc = "idle" /\ Idle.loaded = "none"
  /\ Dead \in Slots /\ Dead.pc = "crashed" /\ Dead.loaded = "none"
BY LineageAssumption DEF Idle, Dead, Slots, None

LEMMA SlotType ==
  ASSUME NEW s \in Slots, NEW pc \in DOMAIN Accepts \cup {"idle", "crashed", "supersede", "publishSave"},
         NEW x \in Versions \cup {NoVersion}
  PROVE  [s EXCEPT !.pc = pc] \in Slots /\ [s EXCEPT !.pc = pc, !.prior = x] \in Slots
BY DEF Slots

\* A request ends, or the process dies: what it leaves behind is a status that
\* is not Published, or the one that was there.
LEMMA EndLInv ==
  ASSUME LInv, NEW q \in Requests, NEW t \in {Idle, Dead}, req' = [req EXCEPT ![q] = t],
         NEW v \in Versions, NEW s \in Statuses \cup {None},
         status' = [status EXCEPT ![v] = s], s # "Review Due",
         s # status[v] => s # "Published", approved \subseteq approved', approved' \subseteq Versions,
         released' \subseteq Versions, s = "Approved" /\ s # status[v] => v \in approved'
  PROVE  LInv'
<1>1. status' \in [Versions -> Statuses \cup {None}]
  BY DEF LInv, TypeOK
<1>2. \A x \in Versions : status'[x] = "Published" => status[x] = "Published"
  BY DEF LInv, TypeOK
<1>3. Others(q) /\ req'[q] = t /\ req' \in [Requests -> Slots]
  <2>1. req \in [Requests -> Slots]
    BY DEF LInv, TypeOK
  <2> QED BY <2>1, ReqUpdate, IdleSlot
<1>8. TypeOK'
  <2>1. t.pc # "supersede"
    BY IdleSlot
  <2> QED BY <1>1, <1>3, <2>1 DEF LInv, TypeOK, Others
<1>4. CopyInv'
  <2>1. \A x \in Versions : status'[x] # "Review Due"
    BY DEF LInv, TypeOK, CopyInv
  <2>2. req'[q].loaded # "Review Due" /\ req'[q].pc # "reconfirm"
    BY <1>3, IdleSlot
  <2> QED BY <1>3, <2>1, <2>2, CopyKept DEF LInv
<1>5. PublishInv'
  <2>1. req'[q].pc \notin {"publish", "supersede", "publishSave"}
    BY <1>3, IdleSlot
  <2> QED BY <1>2, <1>3, <2>1, PublishKept DEF LInv
<1>6. ApprovedInv'
  BY DEF LInv, TypeOK, ApprovedInv
<1>7. OneLive'
  BY <1>2 DEF LInv, OneLive
<1> QED BY <1>4, <1>5, <1>6, <1>7, <1>8 DEF LInv

LEMMA LoadLInv ==
  ASSUME LInv, OnePublish, NEW q \in Requests, NEW op \in DOMAIN Accepts, NEW v \in Versions,
         Load(q, op, v)
  PROVE  LInv'
<1>1. /\ status' = status /\ approved' = approved /\ released' = released
      /\ Others(q)
      /\ req'[q] = [pc |-> op, version |-> v, loaded |-> status[v], prior |-> NoVersion]
      /\ status[v] \in Accepts[op]
      /\ op = "publish" => Publishing = {}
  BY DEF Load, LInv, TypeOK, Others
<1>2. op \in {"submit", "review", "publish", "reconfirm", "fork", "plain"}
  BY DEF Accepts
<1>3. TypeOK'
  BY <1>1, <1>2 DEF Load, LInv, TypeOK, Slots
<1>4. CopyInv'
  <2>1. ASSUME op = "reconfirm" PROVE status[v] = "Published"
    <3>1. status[v] \in {"Published", "Review Due"}
      BY <1>1, <2>1 DEF Accepts
    <3> QED BY <3>1 DEF LInv, CopyInv
  <2>2. req'[q].loaded = status[v] /\ req'[q].pc = op
    BY <1>1
  <2>3. status[v] # "Review Due" /\ \A x \in Versions : status'[x] # "Review Due"
    BY <1>1 DEF LInv, CopyInv
  <2> QED BY <1>1, <2>1, <2>2, <2>3, CopyKept DEF LInv
<1>5. PublishInv'
  <2>1. CASE op = "publish"
    <3>1. Publishing' = {q} /\ v \in approved /\ status[v] # "Published"
      BY <1>1, <2>1 DEF Publishing, Others, LInv, ApprovedInv, Accepts
    <3> QED BY <1>1, <2>1, <3>1 DEF PublishInv
  <2>2. CASE op # "publish"
    BY <1>1, <1>2, <2>2, PublishKept DEF LInv
  <2> QED BY <2>1, <2>2
<1>6. ApprovedInv' /\ OneLive'
  BY <1>1 DEF LInv, ApprovedInv, OneLive
<1> QED BY <1>3, <1>4, <1>5, <1>6 DEF LInv

\* The look-up of publishWithLineage finds the live version, if there is one.
LEMMA FindLInv == ASSUME LInv, NEW q \in Requests, FindPrior(q) PROVE LInv'
<1>1. /\ status' = status /\ approved' = approved /\ released' = released
      /\ req[q].pc = "publish" /\ req[q] \in Slots
  BY DEF FindPrior, LInv, TypeOK
<1>2. \/ /\ \A x \in Versions \ {req[q].version} : status[x] # "Published"
         /\ req' = [req EXCEPT ![q] = [req[q] EXCEPT !.pc = "publishSave"]]
      \/ \E x \in Versions \ {req[q].version} :
           /\ status[x] = "Published"
           /\ req' = [req EXCEPT ![q] = [req[q] EXCEPT !.pc = "supersede", !.prior = x]]
  BY DEF FindPrior
<1>3. PICK t \in Slots :
        /\ req' = [req EXCEPT ![q] = t]
        /\ t.version = req[q].version /\ t.loaded = req[q].loaded
        /\ \/ t.pc = "publishSave" /\ \A x \in Versions \ {req[q].version} : status[x] # "Published"
           \/ t.pc = "supersede" /\ t.prior \in Versions \ {req[q].version} /\ status[t.prior] = "Published"
  <2>1. CASE \A x \in Versions \ {req[q].version} : status[x] # "Published"
    <3>1. [req[q] EXCEPT !.pc = "publishSave"] \in Slots
      BY <1>1, SlotType
    <3> QED BY <1>1, <1>2, <2>1, <3>1 DEF Slots
  <2>2. CASE \E x \in Versions \ {req[q].version} : status[x] = "Published"
    <3>1. PICK x \in Versions \ {req[q].version} :
            /\ status[x] = "Published"
            /\ req' = [req EXCEPT ![q] = [req[q] EXCEPT !.pc = "supersede", !.prior = x]]
      BY <1>2, <2>2
    <3>2. [req[q] EXCEPT !.pc = "supersede", !.prior = x] \in Slots
      BY <1>1, SlotType
    <3> QED BY <1>1, <3>1, <3>2 DEF Slots
  <2> QED BY <2>1, <2>2
<1>4. Others(q) /\ req'[q] = t /\ req' \in [Requests -> Slots]
  BY <1>3, ReqUpdate DEF LInv, TypeOK
<1>5. TypeOK'
  BY <1>1, <1>3, <1>4 DEF LInv, TypeOK, Others
<1>6. CopyInv'
  BY <1>1, <1>3, <1>4, CopyKept DEF LInv, CopyInv
<1>7. PublishInv'
  <2>1. q \in Publishing /\ Publishing' = {q}
    BY <1>1, <1>3, <1>4 DEF LInv, PublishInv, Publishing, Others
  <2>2. req[q].version \in approved /\ status[req[q].version] # "Published"
    BY <2>1 DEF LInv, PublishInv
  <2> QED BY <1>1, <1>3, <1>4, <2>1, <2>2 DEF PublishInv, LInv, OneLive
<1>8. ApprovedInv' /\ OneLive'
  BY <1>1 DEF LInv, ApprovedInv, OneLive
<1> QED BY <1>5, <1>6, <1>7, <1>8 DEF LInv

\* The prior version gives way: from here on none is live.
LEMMA SupersedeLInv == ASSUME LInv, NEW q \in Requests, Supersede(q) PROVE LInv'
<1>1. /\ req[q].pc = "supersede" /\ q \in Publishing /\ req[q].prior \in Versions
      /\ approved' = approved /\ released' = released /\ req[q] \in Slots
  BY DEF Supersede, LInv, TypeOK, Publishing
<1>2. status' = [status EXCEPT ![req[q].prior] = "Superseded"]
  BY DEF Supersede, Save, Changed
<1>3. Others(q) /\ req'[q].version = req[q].version /\ req'[q].loaded = req[q].loaded
      /\ req'[q].pc = "publishSave" /\ req'[q] \in Slots /\ req' \in [Requests -> Slots]
  <2>1. [req[q] EXCEPT !.pc = "publishSave"] \in Slots
    BY <1>1, SlotType
  <2> QED BY <1>1, <2>1 DEF Supersede, LInv, TypeOK, Others, Slots
<1>4. TypeOK'
  BY <1>1, <1>2, <1>3 DEF LInv, TypeOK, Others, Statuses
<1>5. CopyInv'
  BY <1>1, <1>2, <1>3 DEF LInv, TypeOK, CopyInv, Others
<1>6. \A x \in Versions : status'[x] # "Published"
  BY <1>1, <1>2 DEF LInv, TypeOK, PublishInv
<1>7. PublishInv'
  <2>1. Publishing' = {q} /\ req[q].version \in approved
    BY <1>1, <1>3 DEF LInv, PublishInv, Publishing, Others
  <2> QED BY <1>1, <1>3, <1>6, <2>1 DEF PublishInv, Slots
<1>8. ApprovedInv' /\ OneLive'
  BY <1>1, <1>2, <1>6 DEF LInv, TypeOK, ApprovedInv, OneLive
<1> QED BY <1>4, <1>5, <1>7, <1>8 DEF LInv

\* The new version goes live, alone.
LEMMA PublishLInv == ASSUME LInv, NEW q \in Requests, Publish(q) PROVE LInv'
<1>1. /\ req[q].pc = "publishSave" /\ q \in Publishing /\ req[q] \in Slots
      /\ req[q].version \in approved /\ req[q].version \in Versions
      /\ approved' = approved /\ released' \subseteq Versions
      /\ \A x \in Versions : status[x] # "Published"
  BY DEF Publish, LInv, TypeOK, Publishing, PublishInv, Slots
<1>2. PICK s \in {"Published", status[req[q].version]} :
        status' = [status EXCEPT ![req[q].version] = s]
  BY DEF Publish, Save, Changed
<1>3. Others(q) /\ req'[q] = Idle /\ req' \in [Requests -> Slots]
  <2>1. Idle \in Slots
    BY LineageAssumption DEF Idle, Slots, None
  <2> QED BY <2>1, ReqUpdate DEF Publish, End, LInv, TypeOK
<1>4. TypeOK'
  <2>1. status' \in [Versions -> Statuses \cup {None}]
    BY <1>1, <1>2 DEF LInv, TypeOK, Statuses
  <2>2. req'[q].pc = "idle"
    BY <1>3, IdleSlot
  <2> QED BY <1>1, <1>3, <2>1, <2>2 DEF LInv, TypeOK, Others
<1>5. CopyInv'
  <2>1. \A x \in Versions : status'[x] # "Review Due"
    BY <1>1, <1>2 DEF LInv, TypeOK, CopyInv
  <2>2. req'[q].loaded # "Review Due" /\ req'[q].pc # "reconfirm"
    BY <1>3, IdleSlot
  <2> QED BY <1>3, <2>1, <2>2, CopyKept DEF LInv
<1>6. PublishInv'
  <2>1. Publishing' = {}
    BY <1>1, <1>3 DEF LInv, PublishInv, Publishing, Others, Idle
  <2> QED BY <2>1 DEF PublishInv
<1>7. ApprovedInv' /\ OneLive'
  BY <1>1, <1>2 DEF LInv, TypeOK, ApprovedInv, OneLive
<1> QED BY <1>4, <1>5, <1>6, <1>7 DEF LInv

\* A new draft disturbs nothing.
LEMMA ForkLInv == ASSUME LInv, NEW q \in Requests, NEW w \in Versions, Fork(q, w) PROVE LInv'
BY EndLInv DEF Fork, End, Statuses, LInv, TypeOK

\* The handlers that end with one save.
LEMMA SaveLInv ==
  ASSUME LInv, NEW q \in Requests,
         \/ Submit(q) \/ Reconfirm(q)
         \/ \E d \in {"Approved", "Revision Requested", "Rejected"} : Review(q, d)
         \/ \E s \in PlainStatuses : s # "Review Due" /\ SetStatus(q, s)
  PROVE  LInv'
<1>1. req[q] \in Slots /\ req[q].version \in Versions /\ status[req[q].version] \in Statuses \cup {None}
      /\ status[req[q].version] # "Review Due" /\ TypeOK
  BY DEF LInv, TypeOK, CopyInv, Slots
<1>2. CASE Submit(q)
  <2>1. PICK s \in {"Under Review", status[req[q].version]} :
          status' = [status EXCEPT ![req[q].version] = s]
    BY <1>2 DEF Submit, Save, Changed
  <2> QED BY <1>1, <1>2, <2>1, EndLInv DEF Submit, End, Statuses, TypeOK
<1>3. CASE Reconfirm(q)
  <2>1. status' = [status EXCEPT ![req[q].version] = status[req[q].version]]
    BY <1>3 DEF Reconfirm, Save, Changed, LInv, CopyInv
  <2>2. released' \subseteq Versions
    BY <1>1, <1>3 DEF Reconfirm, TypeOK
  <2> QED BY <1>1, <1>3, <2>1, <2>2, EndLInv DEF Reconfirm, End, TypeOK
<1>4. ASSUME NEW d \in {"Approved", "Revision Requested", "Rejected"}, Review(q, d) PROVE LInv'
  <2>1. PICK s \in {d, status[req[q].version]} : status' = [status EXCEPT ![req[q].version] = s]
    BY <1>4 DEF Review, Save, Changed
  <2>2. approved \subseteq approved' /\ approved' \subseteq Versions
        /\ (d = "Approved" => req[q].version \in approved')
    BY <1>1, <1>4 DEF Review, TypeOK
  <2> QED BY <1>1, <1>4, <2>1, <2>2, EndLInv DEF Review, End, Statuses, TypeOK
<1>5. ASSUME NEW p \in PlainStatuses, p # "Review Due", SetStatus(q, p) PROVE LInv'
  <2>1. PICK s \in {p, status[req[q].version]} : status' = [status EXCEPT ![req[q].version] = s]
    BY <1>5 DEF SetStatus, Save, Changed
  <2>2. p \in Statuses \ Controlled
    BY LineageAssumption
  <2> QED BY <1>1, <1>5, <2>1, <2>2, EndLInv DEF SetStatus, End, Controlled, TypeOK
<1> QED BY <1>2, <1>3, <1>4, <1>5

LEMMA NextLInv ==
  ASSUME LInv, OnePublish, "Review Due" \notin PlainStatuses, [Next]_vars PROVE LInv'
<1>1. ASSUME NEW q \in Requests, ForkBeyondBound(q) \/ Crash(q) PROVE LInv'
  <2>1. status' = [status EXCEPT ![Root] = status[Root]]
    BY <1>1 DEF ForkBeyondBound, Crash, LInv, TypeOK
  <2> QED BY <1>1, <2>1, EndLInv, LineageAssumption DEF ForkBeyondBound, End, Crash, LInv, TypeOK, CopyInv
<1>2. CASE UNCHANGED vars
  BY <1>2 DEF vars, LInv, TypeOK, CopyInv, PublishInv, ApprovedInv, OneLive, Publishing
<1>3. ASSUME NEW q \in Requests, Step(q) PROVE LInv'
  BY <1>1, <1>3, LoadLInv, FindLInv, SupersedeLInv, PublishLInv, ForkLInv, SaveLInv DEF Step
<1> QED BY <1>2, <1>3 DEF Next

\* A step of q keeps GaveWay if what it supersedes gives way to its own version, and
\* if it releases the version it was about to.
LEMMA GaveWayKept ==
  ASSUME GaveWay, NEW q \in Requests, Others(q), req[q].pc # "crashed", released \subseteq released',
         req[q].pc = "publishSave" => req[q].version \in released',
         \A v \in Versions : status'[v] = "Superseded" =>
           \/ status[v] = "Superseded"
           \/ req'[q].pc = "publishSave" /\ req'[q].version # v
  PROVE  GaveWay'
<1>1. ASSUME NEW v \in Versions, status[v] = "Superseded"
      PROVE  \/ released' \ {v} # {}
             \/ \E p \in Requests : \/ req'[p].pc = "crashed"
                                    \/ req'[p].pc = "publishSave" /\ req'[p].version # v
  <2>1. CASE released \ {v} # {}
    BY <2>1
  <2>2. ASSUME NEW p \in Requests,
               \/ req[p].pc = "crashed"
               \/ req[p].pc = "publishSave" /\ req[p].version # v
        PROVE  \/ released' \ {v} # {}
               \/ \E o \in Requests : \/ req'[o].pc = "crashed"
                                      \/ req'[o].pc = "publishSave" /\ req'[o].version # v
    <3>1. CASE p = q
      BY <2>2, <3>1
    <3>2. CASE p # q
      BY <2>2, <3>2 DEF Others
    <3> QED BY <3>1, <3>2
  <2> QED BY <1>1, <2>1, <2>2 DEF GaveWay
<1> QED BY <1>1 DEF GaveWay

LEMMA StepGaveWay == ASSUME TypeOK, GaveWay, [Next]_vars PROVE GaveWay'
<1>1. ASSUME NEW q \in Requests,
             \/ \E op \in DOMAIN Accepts, v \in Versions : Load(q, op, v)
             \/ FindPrior(q) \/ ForkBeyondBound(q)
      PROVE  GaveWay'
  <2>1. /\ req[q].pc \notin {"crashed", "publishSave"} /\ status' = status /\ released' = released
        /\ Others(q)
    BY <1>1 DEF Load, FindPrior, ForkBeyondBound, End, Others, TypeOK
  <2> QED BY <2>1, GaveWayKept
<1>2. ASSUME NEW q \in Requests,
             \/ Submit(q) \/ Reconfirm(q)
             \/ \E d \in {"Approved", "Revision Requested", "Rejected"} : Review(q, d)
             \/ \E w \in Versions : Fork(q, w)
             \/ \E s \in PlainStatuses : SetStatus(q, s)
      PROVE  GaveWay'
  <2>1. /\ req[q].pc \notin {"crashed", "publishSave"} /\ released \subseteq released' /\ Others(q)
    BY <1>2 DEF Submit, Reconfirm, Review, Fork, SetStatus, End, Others, TypeOK
  <2>2. PICK x \in Versions, s \in (Statuses \cup {None}) \ {"Superseded"} :
          status' = [status EXCEPT ![x] = s] \/ status' = status
    <3>1. \A s \in PlainStatuses : s \in Statuses \ {"Superseded"}
      BY LineageAssumption DEF Controlled
    <3>2. req[q].version \in Versions
      BY DEF TypeOK, Slots
    <3> QED BY <1>2, <3>1, <3>2 DEF Submit, Reconfirm, Review, Fork, SetStatus, Save, Changed, Statuses,
    TypeOK
  <2>3. \A v \in Versions : status'[v] = "Superseded" => status[v] = "Superseded"
    BY <2>2 DEF TypeOK
  <2> QED BY <2>1, <2>3, GaveWayKept
<1>3. ASSUME NEW q \in Requests, Supersede(q) PROVE GaveWay'
  <2>1. /\ req[q].pc = "supersede" /\ released' = released /\ Others(q)
        /\ req'[q].pc = "publishSave" /\ req'[q].version = req[q].version
        /\ req[q].prior \in Versions \ {req[q].version}
        /\ status' = [status EXCEPT ![req[q].prior] = "Superseded"]
    BY <1>3 DEF Supersede, Save, Changed, Others, TypeOK, Slots
  <2>2. \A v \in Versions : status'[v] = "Superseded" => status[v] = "Superseded" \/ v = req[q].prior
    BY <2>1 DEF TypeOK
  <2> QED BY <2>1, <2>2, GaveWayKept
<1>4. ASSUME NEW q \in Requests, Publish(q) PROVE GaveWay'
  <2>1. /\ req[q].pc = "publishSave" /\ released \subseteq released' /\ req[q].version \in released'
        /\ Others(q)
    BY <1>4 DEF Publish, End, Others, TypeOK
  <2>2. \A v \in Versions : status'[v] = "Superseded" => status[v] = "Superseded"
    BY <1>4 DEF Publish, Save, Changed, TypeOK
  <2> QED BY <2>1, <2>2, GaveWayKept
<1>5. ASSUME NEW q \in Requests, Crash(q) PROVE GaveWay'
  <2>1. req'[q].pc = "crashed"
    BY <1>5 DEF Crash, Dead, TypeOK
  <2>2. \E o \in Requests : req'[o].pc = "crashed"
    BY <2>1
  <2> QED BY <2>2 DEF GaveWay
<1>6. CASE UNCHANGED vars
  BY <1>6 DEF vars, GaveWay
<1> QED BY <1>1, <1>2, <1>3, <1>4, <1>5, <1>6 DEF Next, Step

\* No two versions are ever live, only what a reviewer approved is, and whatever is
\* superseded gave way to another version that was published.
THEOREM LineageSafety ==
  ASSUME OnePublish, "Review Due" \notin PlainStatuses
  PROVE  Spec => [](TypeOK /\ LineageSafe)
<1>1. Init => LInv /\ GaveWay
  BY InitLInv DEF Init, GaveWay, None
<1>2. LInv /\ GaveWay /\ [Next]_vars => LInv' /\ GaveWay'
  BY NextLInv, StepGaveWay DEF LInv
<1>3. LInv /\ GaveWay => TypeOK /\ LineageSafe
  <2>1. LInv => TypeOK /\ OneLive /\ PublishedApproved
    BY DEF LInv, ApprovedInv, PublishedApproved
  <2>2. GaveWay => SupersededByPublished
    BY DEF GaveWay, SupersededByPublished, Quiet
  <2> QED BY <2>1, <2>2 DEF LineageSafe
<1> QED BY <1>1, <1>2, <1>3, PTL DEF Spec

-----------------------------------------------------------------------------
(* The routing of a concern.  While nothing upset it, one review at most is under way, *)
(* and as long as the concern is not reviewed, no record came of it but the one that   *)
(* review is about to name.                                                            *)

RoutSlot(r) ==
  /\ r.pc \in {"create", "name", "close"} => ~Rout!Reviewed(r.was.status)
  /\ r.pc = "name" => r.now.status = "Routed"
  /\ r.pc = "close" => r.now.status = "Closed"
  /\ r.pc = "rewrite" => r.now.status = r.was.status /\ r.now.routed = NoRecord

RoutSlots == \A q \in Requests : RoutSlot(concernReq[q])

OneRouting == \A p, q \in Requests : Rout!Routing(p) /\ Rout!Routing(q) => p = q

NoneMade == \A r \in Raised : source[r] = "absent"

Begun == \A q \in Requests : concernReq[q].pc \in {"create", "close"} => NoneMade

NamedOnly ==
  \A q \in Requests : concernReq[q].pc = "name" =>
    \A r \in Raised : source[r] # "absent" => r = concernReq[q].now.routed

Unrouted ==
  ~Rout!Reviewed(concern.status) /\ (\A q \in Requests : concernReq[q].pc # "name") => NoneMade

RoutOrder == OneRouting /\ Begun /\ NamedOnly /\ Unrouted /\ Rout!RoutedOnce

RoutInv == Rout!TypeOK /\ RoutSlots /\ (upset = {} => RoutOrder)

RoutForms ==
  [pc : {"idle", "create", "name", "close", "edit", "rewrite"}, was : Rout!Rows, now : Rout!Rows]

OtherReviews(q) == \A p \in Requests : p # q => concernReq'[p] = concernReq[p]

LEMMA RoutTyped ==
  ASSUME RoutInv
  PROVE  /\ concernReq \in [Requests -> RoutForms] /\ concern \in Rout!Rows
         /\ source \in [Raised -> {"absent", "exists", "deleted"}]
         /\ upset \subseteq {"overlap", "died", "reopened", "rewritten"}
BY DEF RoutInv, Rout!TypeOK, RoutForms

LEMMA RoutRow ==
  ASSUME NEW st \in Rout!Statuses, NEW r \in Raised \cup {NoRecord}
  PROVE  /\ Rout!Row(st, r) \in Rout!Rows
         /\ Rout!Row(st, r).status = st /\ Rout!Row(st, r).routed = r
BY DEF Rout!Row, Rout!Rows

LEMMA RoutForm ==
  ASSUME NEW pc \in {"idle", "create", "name", "close", "edit", "rewrite"},
         NEW was \in Rout!Rows, NEW now \in Rout!Rows
  PROVE  /\ Rout!Slot(pc, was, now) \in RoutForms
         /\ Rout!Slot(pc, was, now).pc = pc
         /\ Rout!Slot(pc, was, now).was = was /\ Rout!Slot(pc, was, now).now = now
BY DEF Rout!Slot, RoutForms

LEMMA RoutIdle ==
  /\ Rout!Fresh \in Rout!Rows /\ Rout!Fresh.status = "Submitted"
  /\ Rout!Idle \in RoutForms /\ Rout!Idle.pc = "idle" /\ RoutSlot(Rout!Idle)
<1>1. Rout!Fresh \in Rout!Rows /\ Rout!Fresh.status = "Submitted"
  BY RoutRow DEF Rout!Fresh, Rout!Statuses
<1>2. Rout!Idle \in RoutForms /\ Rout!Idle.pc = "idle"
  BY <1>1, RoutForm DEF Rout!Idle
<1> QED BY <1>1, <1>2 DEF RoutSlot

LEMMA InitRoutInv == ASSUME Rout!Init PROVE RoutInv
<1>1. Rout!TypeOK
  BY RoutIdle DEF Rout!Init, Rout!TypeOK, RoutForms
<1>2. RoutSlots
  BY RoutIdle DEF Rout!Init, RoutSlots
<1>3. RoutOrder
  BY RoutIdle
  DEF Rout!Init, RoutOrder, OneRouting, Begun, NamedOnly, Unrouted, NoneMade, Rout!Routing, Rout!RoutedOnce
<1> QED BY <1>1, <1>2, <1>3 DEF RoutInv

\* A step of q: the types and the slots stay right.
LEMMA RoutStep ==
  ASSUME RoutInv, NEW q \in Requests, NEW s \in RoutForms, RoutSlot(s), Rout!Move(q, s),
         concern' \in Rout!Rows, source' \in [Raised -> {"absent", "exists", "deleted"}],
         upset' \subseteq {"overlap", "died", "reopened", "rewritten"},
         upset' = {} => RoutOrder'
  PROVE  RoutInv'
<1>1. concernReq' \in [Requests -> RoutForms] /\ concernReq'[q] = s /\ OtherReviews(q)
  BY RoutTyped DEF Rout!Move, OtherReviews
<1>2. Rout!TypeOK'
  BY <1>1 DEF Rout!TypeOK, RoutForms
<1>3. RoutSlots'
  BY <1>1 DEF RoutInv, RoutSlots, OtherReviews
<1> QED BY <1>2, <1>3 DEF RoutInv

LEMMA RoutMoved ==
  ASSUME RoutInv, NEW q \in Requests, NEW s \in RoutForms, Rout!Move(q, s)
  PROVE  concernReq'[q] = s /\ OtherReviews(q)
BY RoutTyped DEF Rout!Move, OtherReviews

\* A review begins: no other one is under way, and no record came of the concern.
LEMMA RoutBegins ==
  ASSUME RoutInv, NEW q \in Requests, concernReq[q].pc = "idle", ~Rout!Reviewed(concern.status),
         NEW s \in RoutForms, s.pc \in {"create", "close"}, RoutSlot(s),
         Rout!Move(q, s), upset' = Rout!Met(q), UNCHANGED <<concern, source>>
  PROVE  RoutInv'
<1>1. concernReq'[q] = s /\ OtherReviews(q)
  BY RoutMoved
<1>2. ASSUME upset' = {} PROVE RoutOrder'
  <2>1. upset = {} /\ RoutOrder /\ \A p \in Requests \ {q} : ~Rout!Routing(p)
    BY <1>2 DEF Rout!Met, RoutInv
  <2>2. NoneMade
    BY <2>1 DEF RoutOrder, Unrouted, Rout!Routing
  <2>3. NoneMade'
    BY <2>2 DEF NoneMade
  <2>4. OneRouting'
    BY <1>1, <2>1 DEF OneRouting, OtherReviews, Rout!Routing
  <2>5. Begun' /\ Unrouted'
    BY <2>3 DEF Begun, Unrouted
  <2>6. NamedOnly' /\ Rout!RoutedOnce'
    BY <2>3 DEF NamedOnly, NoneMade, Rout!RoutedOnce
  <2> QED BY <2>4, <2>5, <2>6 DEF RoutOrder
<1>3. upset' \subseteq {"overlap", "died", "reopened", "rewritten"}
  BY RoutTyped DEF Rout!Met
<1> QED BY <1>2, <1>3, RoutTyped, RoutStep

\* What a client edits is loaded: no review begins or ends.
LEMMA RoutEdits ==
  ASSUME RoutInv, NEW q \in Requests, concernReq[q].pc = "idle",
         NEW s \in RoutForms, s.pc \in {"edit", "rewrite"}, RoutSlot(s),
         Rout!Move(q, s), UNCHANGED <<concern, source, upset>>
  PROVE  RoutInv'
<1>1. concernReq'[q] = s /\ OtherReviews(q)
  BY RoutMoved
<1>2. ASSUME upset' = {} PROVE RoutOrder'
  <2>1. upset = {} /\ RoutOrder
    BY <1>2 DEF RoutInv
  <2>2. NoneMade' <=> NoneMade
    BY DEF NoneMade
  <2>3. OneRouting'
    BY <1>1, <2>1 DEF RoutOrder, OneRouting, OtherReviews, Rout!Routing
  <2>4. Begun' /\ NamedOnly' /\ Unrouted'
    BY <1>1, <2>1, <2>2 DEF RoutOrder, Begun, NamedOnly, Unrouted, OtherReviews
  <2>5. Rout!RoutedOnce'
    BY <1>1, <2>1 DEF RoutOrder, Rout!RoutedOnce, OtherReviews
  <2> QED BY <2>3, <2>4, <2>5 DEF RoutOrder
<1> QED BY <1>2, RoutTyped, RoutStep

LEMMA RoutRecord ==
  ASSUME RoutInv, NEW q \in Requests, NEW r \in Raised, Rout!CreateRecord(q, r)
  PROVE  RoutInv'
<1> DEFINE n == Rout!Slot("name", concernReq[q].was, Rout!Row("Routed", r))
<1>1. /\ concernReq[q].pc = "create" /\ source' = [source EXCEPT ![r] = "exists"]
      /\ Rout!Move(q, n) /\ UNCHANGED <<concern, upset>>
  BY DEF Rout!CreateRecord
<1>2. concernReq[q].was \in Rout!Rows /\ ~Rout!Reviewed(concernReq[q].was.status)
  BY <1>1, RoutTyped DEF RoutForms, RoutInv, RoutSlots, RoutSlot
<1>3. /\ Rout!Row("Routed", r) \in Rout!Rows
      /\ Rout!Row("Routed", r).status = "Routed" /\ Rout!Row("Routed", r).routed = r
  BY RoutRow DEF Rout!Statuses
<1>4. /\ n \in RoutForms /\ n.pc = "name" /\ n.was = concernReq[q].was
      /\ n.now.status = "Routed" /\ n.now.routed = r
  BY <1>2, <1>3, RoutForm
<1> HIDE DEF n
<1>5. PICK s \in RoutForms : s = n /\ s.pc = "name" /\ RoutSlot(s) /\ s.now.routed = r
  BY <1>2, <1>4 DEF RoutSlot
<1>6. concernReq'[q] = s /\ OtherReviews(q) /\ Rout!Move(q, s)
  BY <1>1, <1>5, RoutMoved
<1>7. ASSUME upset' = {} PROVE RoutOrder'
  <2>1. upset = {} /\ RoutOrder
    BY <1>1, <1>7 DEF RoutInv
  <2>2. NoneMade
    BY <1>1, <2>1 DEF RoutOrder, Begun
  <2>3. \A x \in Raised : source'[x] # "absent" => x = r
    BY <1>1, <2>2, RoutTyped DEF NoneMade
  <2>4. \A p \in Requests : Rout!Routing(p) => p = q
    BY <1>1, <2>1 DEF RoutOrder, OneRouting, Rout!Routing
  <2>5. OneRouting'
    BY <1>6, <2>4 DEF OneRouting, OtherReviews, Rout!Routing
  <2>6. Begun'
    BY <1>5, <1>6, <2>4 DEF Begun, OtherReviews, Rout!Routing
  <2>7. NamedOnly'
    BY <1>5, <1>6, <2>3, <2>4 DEF NamedOnly, OtherReviews, Rout!Routing
  <2>8. Unrouted'
    BY <1>5, <1>6 DEF Unrouted
  <2>9. Rout!RoutedOnce'
    BY <1>5, <1>6, <2>3 DEF Rout!RoutedOnce
  <2> QED BY <2>5, <2>6, <2>7, <2>8, <2>9 DEF RoutOrder
<1>8. source' \in [Raised -> {"absent", "exists", "deleted"}]
  BY <1>1, RoutTyped
<1> QED BY <1>1, <1>5, <1>6, <1>7, <1>8, RoutTyped, RoutStep

LEMMA RoutSaves == ASSUME RoutInv, NEW q \in Requests, Rout!Save(q) PROVE RoutInv'
<1>1. PICK r \in RoutForms : r = concernReq[q] /\ RoutSlot(r) /\ r.was \in Rout!Rows /\ r.now \in Rout!Rows
  BY RoutTyped DEF RoutInv, RoutSlots, RoutForms
<1> DEFINE st == Rout!Changed(concern.status, r.was.status, r.now.status)
           rt == IF r.pc = "edit" THEN concern.routed ELSE r.now.routed
<1>2. /\ r.pc \in {"name", "close", "edit", "rewrite"} /\ concern' = Rout!Row(st, rt)
      /\ upset' = upset \cup Rout!Undone(q, Rout!Row(st, rt))
      /\ Rout!Move(q, Rout!Idle) /\ UNCHANGED source
  BY <1>1 DEF Rout!Save
<1>3. concern \in Rout!Rows
  BY RoutTyped
<1>4. st \in Rout!Statuses /\ rt \in Raised \cup {NoRecord}
  BY <1>1, <1>3 DEF Rout!Rows, Rout!Changed
<1>5. Rout!Row(st, rt) \in Rout!Rows /\ Rout!Row(st, rt).status = st /\ Rout!Row(st, rt).routed = rt
  BY <1>4, RoutRow
<1>6. /\ upset' \subseteq {"overlap", "died", "reopened", "rewritten"}
      /\ upset' = {} =>
           /\ upset = {}
           /\ r.pc = "edit" => ~(Rout!Reviewed(concern.status) /\ ~Rout!Reviewed(st))
           /\ r.pc = "rewrite" => rt = concern.routed
  BY <1>1, <1>2, <1>5, RoutTyped DEF Rout!Undone
<1>7. concernReq'[q] = Rout!Idle /\ OtherReviews(q)
  BY <1>2, RoutIdle, RoutMoved
<1>8. ASSUME upset' = {} PROVE RoutOrder'
  <2>1. upset = {} /\ RoutOrder
    BY <1>6, <1>8 DEF RoutInv
  <2>2. NoneMade' <=> NoneMade
    BY <1>2 DEF NoneMade
  <2>3. OneRouting' /\ Begun' /\ NamedOnly'
    BY <1>2, <1>7, <2>1, <2>2, RoutIdle
    DEF RoutOrder, OneRouting, Begun, NamedOnly, OtherReviews, Rout!Routing
  <2>4. concern'.status = st /\ concern'.routed = rt
    BY <1>2, <1>5
  <2>5. CASE r.pc = "name"
    <3>1. st = "Routed" /\ rt = r.now.routed
      BY <1>1, <2>5 DEF RoutSlot, Rout!Changed, Rout!Reviewed
    <3>2. Unrouted'
      BY <2>4, <3>1 DEF Unrouted, Rout!Reviewed
    <3>3. \A x \in Raised : source[x] # "absent" => x = r.now.routed
      BY <1>1, <2>1, <2>5 DEF RoutOrder, NamedOnly
    <3>4. Rout!RoutedOnce'
      BY <1>2, <2>4, <3>1, <3>3 DEF Rout!RoutedOnce
    <3> QED BY <2>3, <3>2, <3>4 DEF RoutOrder
  <2>6. CASE r.pc = "close"
    <3>1. NoneMade
      BY <1>1, <2>1, <2>6 DEF RoutOrder, Begun
    <3> QED BY <2>2, <2>3, <3>1 DEF RoutOrder, Unrouted, NoneMade, Rout!RoutedOnce
  <2>7. CASE r.pc \in {"edit", "rewrite"}
    <3>1. rt = concern.routed /\ (~Rout!Reviewed(st) => ~Rout!Reviewed(concern.status))
      BY <1>1, <1>6, <1>8, <2>7 DEF RoutSlot, Rout!Changed
    <3>2. \A p \in Requests :
            /\ concernReq'[p].pc = "name" <=> concernReq[p].pc = "name"
            /\ concernReq[p].pc = "name" => concernReq'[p] = concernReq[p]
      BY <1>1, <1>7, <2>7, RoutIdle DEF OtherReviews
    <3>3. Unrouted'
      BY <2>1, <2>2, <2>4, <3>1, <3>2 DEF RoutOrder, Unrouted
    <3>4. Rout!RoutedOnce'
      BY <1>2, <2>1, <2>4, <3>1, <3>2 DEF RoutOrder, Rout!RoutedOnce
    <3> QED BY <2>3, <3>3, <3>4 DEF RoutOrder
  <2> QED BY <1>2, <2>5, <2>6, <2>7
<1> QED BY <1>2, <1>5, <1>6, <1>8, RoutIdle, RoutTyped, RoutStep

LEMMA RoutCrashes == ASSUME RoutInv, NEW q \in Requests, Rout!Crash(q) PROVE RoutInv'
<1>1. /\ Rout!Move(q, Rout!Idle) /\ UNCHANGED <<concern, source>>
      /\ upset' = (IF concernReq[q].pc = "name" THEN upset \cup {"died"} ELSE upset)
  BY DEF Rout!Crash
<1>2. concernReq'[q] = Rout!Idle /\ OtherReviews(q)
  BY <1>1, RoutIdle, RoutMoved
<1>3. ASSUME upset' = {} PROVE RoutOrder'
  <2>1. upset = {} /\ RoutOrder /\ concernReq[q].pc # "name"
    BY <1>1, <1>3 DEF RoutInv
  <2>2. NoneMade' <=> NoneMade
    BY <1>1 DEF NoneMade
  <2>3. OneRouting' /\ Begun' /\ NamedOnly'
    BY <1>1, <1>2, <2>1, <2>2, RoutIdle
    DEF RoutOrder, OneRouting, Begun, NamedOnly, OtherReviews, Rout!Routing
  <2>4. Unrouted' /\ Rout!RoutedOnce'
    BY <1>1, <1>2, <2>1, <2>2, RoutIdle DEF RoutOrder, Unrouted, OtherReviews, Rout!RoutedOnce
  <2> QED BY <2>3, <2>4 DEF RoutOrder
<1>4. upset' \subseteq {"overlap", "died", "reopened", "rewritten"}
  BY <1>1, RoutTyped
<1> QED BY <1>1, <1>3, <1>4, RoutIdle, RoutTyped, RoutStep

LEMMA RoutStands ==
  ASSUME RoutInv, UNCHANGED <<concern, upset, concernReq>>,
         source' \in [Raised -> {"absent", "exists", "deleted"}],
         \A r \in Raised : source'[r] = "absent" <=> source[r] = "absent"
  PROVE  RoutInv'
<1>1. Rout!TypeOK' /\ RoutSlots'
  BY DEF RoutInv, Rout!TypeOK, RoutSlots
<1>2. RoutOrder => RoutOrder'
  <2>1. NoneMade' <=> NoneMade
    BY DEF NoneMade
  <2> QED BY <2>1 DEF RoutOrder, OneRouting, Begun, NamedOnly, Unrouted, Rout!Routing, Rout!RoutedOnce
<1> QED BY <1>1, <1>2 DEF RoutInv

LEMMA NextRoutInv == ASSUME RoutInv, [Rout!Next]_(Rout!vars) PROVE RoutInv'
<1>t. concern \in Rout!Rows /\ concern.status \in Rout!Statuses /\ concern.routed \in Raised \cup {NoRecord}
  BY RoutTyped DEF Rout!Rows
<1>1. ASSUME NEW q \in Requests, Rout!LoadRoute(q) PROVE RoutInv'
  <2> DEFINE n == Rout!Slot("create", concern, concern)
  <2>1. n \in RoutForms /\ n.pc = "create" /\ n.was = concern
    BY <1>t, RoutForm
  <2>2. /\ concernReq[q].pc = "idle" /\ ~Rout!Reviewed(concern.status) /\ Rout!Move(q, n)
        /\ upset' = Rout!Met(q) /\ UNCHANGED <<concern, source>>
    BY <1>1 DEF Rout!LoadRoute
  <2> HIDE DEF n
  <2>3. PICK s \in RoutForms : s = n /\ s.pc = "create" /\ RoutSlot(s)
    BY <2>1, <2>2 DEF RoutSlot
  <2> QED BY <2>2, <2>3, RoutBegins
<1>2. ASSUME NEW q \in Requests, Rout!LoadClose(q) PROVE RoutInv'
  <2> DEFINE now == Rout!Row("Closed", concern.routed)
             n == Rout!Slot("close", concern, now)
  <2>1. now \in Rout!Rows /\ now.status = "Closed"
    BY <1>t, RoutRow DEF Rout!Statuses
  <2>2. /\ concernReq[q].pc = "idle" /\ ~Rout!Reviewed(concern.status) /\ Rout!Move(q, n)
        /\ upset' = Rout!Met(q) /\ UNCHANGED <<concern, source>>
    BY <1>2 DEF Rout!LoadClose
  <2> HIDE DEF now
  <2>3. n \in RoutForms /\ n.pc = "close" /\ n.was = concern /\ n.now.status = "Closed"
    BY <1>t, <2>1, RoutForm
  <2> HIDE DEF n
  <2>4. PICK s \in RoutForms : s = n /\ s.pc = "close" /\ RoutSlot(s)
    BY <2>2, <2>3 DEF RoutSlot
  <2> QED BY <2>2, <2>4, RoutBegins
<1>3. ASSUME NEW q \in Requests, NEW st \in Rout!Statuses, Rout!LoadStatus(q, st) PROVE RoutInv'
  <2> DEFINE now == Rout!Row(st, concern.routed)
             n == Rout!Slot("edit", concern, now)
  <2>1. now \in Rout!Rows
    BY <1>t, RoutRow
  <2>2. concernReq[q].pc = "idle" /\ Rout!Move(q, n) /\ UNCHANGED <<concern, source, upset>>
    BY <1>3 DEF Rout!LoadStatus
  <2> HIDE DEF now
  <2>3. n \in RoutForms /\ n.pc = "edit"
    BY <1>t, <2>1, RoutForm
  <2> HIDE DEF n
  <2>4. PICK s \in RoutForms : s = n /\ s.pc = "edit" /\ RoutSlot(s)
    BY <2>3 DEF RoutSlot
  <2> QED BY <2>2, <2>4, RoutEdits
<1>4. ASSUME NEW q \in Requests, Rout!LoadRewrite(q) PROVE RoutInv'
  <2> DEFINE now == Rout!Row(concern.status, NoRecord)
             n == Rout!Slot("rewrite", concern, now)
  <2>1. now \in Rout!Rows /\ now.status = concern.status /\ now.routed = NoRecord
    BY <1>t, RoutRow
  <2>2. concernReq[q].pc = "idle" /\ Rout!Move(q, n) /\ UNCHANGED <<concern, source, upset>>
    BY <1>4 DEF Rout!LoadRewrite
  <2> HIDE DEF now
  <2>3. n \in RoutForms /\ n.pc = "rewrite" /\ n.was = concern /\ n.now = now
    BY <1>t, <2>1, RoutForm
  <2> HIDE DEF n
  <2>4. PICK s \in RoutForms : s = n /\ s.pc = "rewrite" /\ RoutSlot(s)
    BY <2>1, <2>3 DEF RoutSlot
  <2> QED BY <2>2, <2>4, RoutEdits
<1>5. ASSUME NEW r \in Raised, Rout!Delete(r) PROVE RoutInv'
  BY <1>5, RoutTyped, RoutStands DEF Rout!Delete
<1>6. CASE UNCHANGED Rout!vars
  BY <1>6, RoutTyped, RoutStands DEF Rout!vars
<1> QED BY <1>1, <1>2, <1>3, <1>4, <1>5, <1>6, RoutRecord, RoutSaves, RoutCrashes DEF Rout!Next

\* The concern evolves by its own steps, or stands still.
LEMMA RoutingWithin == GovernedSpec => Rout!Spec
<1>1. GovernedInit => Rout!Init
  BY DEF GovernedInit
<1>2. [GovernedNext]_governed => [Rout!Next]_(Rout!vars)
  BY DEF GovernedNext, governed, routing, Rout!vars
<1> QED BY <1>1, <1>2, PTL DEF GovernedSpec, Rout!Spec

\* However many reviews of a concern are in flight, and whatever clients edit meanwhile:
\* every record created from the concern is named by it or about to be, so there is one
\* (routeConcern), but for the overlaps, crashes and edits ConcernRouting names.
THEOREM ConcernRoutedOnce == GovernedSpec => []RoutedOnce
<1>1. RoutInv => RoutedOnce
  BY DEF RoutInv, RoutOrder, RoutedOnce, Rout!RoutedOnce
<1> QED BY <1>1, InitRoutInv, NextRoutInv, RoutingWithin, PTL DEF Rout!Spec

-----------------------------------------------------------------------------
(* Nonconformities and their plans.  A number in a form or a request is that of the    *)
(* record it is about, or was taken off one; the number that is being minted is new.   *)
(* As long as requests do not overlap on a record, the one that works on it finds it   *)
(* as it was loaded.                                                                   *)

Numbers == {nc[n].plan.id : n \in Nonconformities}

CapSlot(r) ==
  r.pc \in {"save", "patch", "mint"} =>
    /\ r.was.status \notin {"absent", "deleted"} /\ r.now.status \in Cap!Statuses
    /\ r.pc = "mint" => r.now.plan.id # 0
    /\ Cap!Drives(r.was.plan, r.now.plan) => r.now.status = Cap!Derived(r.now.plan.impl)
    /\ r.now.status = "Closed" /\ r.was.status # "Closed" => r.now.plan.verified

CapSlots == \A q \in Requests : CapSlot(capReq[q])

GoneBare == \A n \in Nonconformities : ~Cap!Exists(n) => nc[n].plan = Cap!NoPlan

Owned ==
  \A q \in Requests : capReq[q].pc \in {"form", "save", "patch"} =>
    \/ capReq[q].now.plan.id = 0
    \/ capReq[q].now.plan.id = nc[capReq[q].n].plan.id
    \/ capReq[q].now.plan.id \in freed

MintedAlone == \A p, q \in Requests : capReq[p].pc = "mint" /\ capReq[q].pc = "mint" => p = q

MintedFresh ==
  \A q \in Requests, n \in Nonconformities :
    capReq[q].pc = "mint" /\ nc[n].plan.id = capReq[q].now.plan.id => nc[n].plan.id \in freed

CapInTurn(n) ==
  /\ \A p, q \in Requests :
       Cap!InFlight(p) /\ Cap!InFlight(q) /\ capReq[p].n = n /\ capReq[q].n = n => p = q
  /\ \A q \in Requests :
       Cap!InFlight(q) /\ capReq[q].n = n => nc[n] = Cap!Deleted \/ nc[n] = capReq[q].was

CapUndisturbed == \A n \in Nonconformities \ overlap : CapInTurn(n)

CapNumbered == Owned /\ MintedAlone /\ MintedFresh /\ Cap!CapIdsUnique

CapInv == Cap!TypeOK /\ CapSlots /\ GoneBare /\ CapNumbered /\ CapUndisturbed /\ Cap!CapAgrees

CapForms ==
  [pc : {"idle", "form", "save", "patch", "mint"}, n : Nonconformities, was : Cap!Rows, now : Cap!Rows]

OtherForms(q) == \A p \in Requests : p # q => capReq'[p] = capReq[p]

LEMMA CapTyped ==
  ASSUME CapInv
  PROVE  /\ capReq \in [Requests -> CapForms] /\ nc \in [Nonconformities -> Cap!Rows]
         /\ freed \subseteq 0..MaxId /\ manual \subseteq Nonconformities /\ overlap \subseteq Nonconformities
BY DEF CapInv, Cap!TypeOK, CapForms

\* A set of numbers has a lowest one, and if it is bounded a highest one.
LEMMA LowestNumber == ASSUME NEW T, T \subseteq Nat, T # {} PROVE \E x \in T : \A y \in T : x <= y
<1> DEFINE R == OpToRel(<, Nat)
<1>1. IsWellFoundedOn(R, Nat)
  BY NatLessThanWellFounded
<1>2. \A x, y \in Nat : y < x => <<y, x>> \in R
  BY DEF OpToRel
<1> HIDE DEF R
<1>3. PICK x \in T : \A y \in T : ~ (<<y, x>> \in R)
  BY <1>1, WFMin
<1>4. \A y \in T : ~(y < x)
  BY <1>2, <1>3, Zenon
<1>5. \A y \in T : x <= y
  BY <1>4
<1> QED BY <1>5

LEMMA HighestNumber ==
  ASSUME NEW S, S \subseteq 0..MaxId, S # {}
  PROVE  Cap!Max(S) \in S /\ \A k \in S : k <= Cap!Max(S)
<1> DEFINE T == {MaxId - k : k \in S}
<1>0. MaxId \in Nat
  BY GovernedAssumption
<1>1. T \subseteq Nat /\ T # {}
  <2>1. ASSUME NEW k \in S PROVE MaxId - k \in Nat
    <3>1. k \in 0..MaxId
      OBVIOUS
    <3> QED BY <1>0, <3>1
  <2>2. T # {}
    OBVIOUS
  <2> QED BY <2>1, <2>2
<1>2. PICK m \in T : \A j \in T : m <= j
  BY <1>1, LowestNumber
<1>3. PICK x \in S : m = MaxId - x
  BY <1>2
<1>4. \A k \in S : x >= k
  <2> TAKE k \in S
  <2>1. m <= MaxId - k
    BY <1>2
  <2> QED BY <1>0, <1>3, <2>1
<1>5. Cap!Max(S) \in S /\ \A k \in S : Cap!Max(S) >= k
  BY <1>4 DEF Cap!Max
<1> QED BY <1>0, <1>5

LEMMA CapPlanOf ==
  ASSUME NEW id \in 0..MaxId, NEW impl \in Cap!Impls, NEW verified \in BOOLEAN
  PROVE  /\ Cap!Plan(id, impl, verified) \in Cap!PlanRows
         /\ Cap!Plan(id, impl, verified).id = id
         /\ Cap!Plan(id, impl, verified).impl = impl
         /\ Cap!Plan(id, impl, verified).verified = verified
BY DEF Cap!Plan, Cap!PlanRows

LEMMA CapPlan ==
  /\ Cap!NoPlan \in Cap!PlanRows /\ Cap!NoPlan.id = 0 /\ Cap!NoPlan.impl = "no plan"
  /\ Cap!NoPlan.verified = TRUE
  /\ \A p \in Cap!PlanRows :
       /\ p.id \in 0..MaxId /\ p.verified \in BOOLEAN
       /\ p # Cap!NoPlan => p.impl \in Cap!Impls
<1>1. 0 \in 0..MaxId
  BY GovernedAssumption
<1>2. /\ Cap!NoPlan \in Cap!PlanRows /\ Cap!NoPlan.id = 0 /\ Cap!NoPlan.impl = "no plan"
      /\ Cap!NoPlan.verified = TRUE
  BY DEF Cap!NoPlan, Cap!Plan, Cap!PlanRows
<1>4. ASSUME NEW p \in Cap!PlanRows
      PROVE  /\ p.id \in 0..MaxId /\ p.verified \in BOOLEAN
             /\ p # Cap!NoPlan => p.impl \in Cap!Impls
  BY <1>1, <1>2 DEF Cap!PlanRows
<1> QED BY <1>2, <1>4

LEMMA CapRow ==
  ASSUME NEW st \in Cap!Statuses \cup {"absent", "deleted"}, NEW p \in Cap!PlanRows
  PROVE  Cap!Row(st, p) \in Cap!Rows /\ Cap!Row(st, p).status = st /\ Cap!Row(st, p).plan = p
BY DEF Cap!Row, Cap!Rows

LEMMA CapForm ==
  ASSUME NEW pc \in {"idle", "form", "save", "patch", "mint"}, NEW n \in Nonconformities,
         NEW was \in Cap!Rows, NEW now \in Cap!Rows
  PROVE  LET f == Cap!Slot(pc, n, was, now) IN
         f \in CapForms /\ f.pc = pc /\ f.n = n /\ f.was = was /\ f.now = now
BY DEF Cap!Slot, CapForms

LEMMA CapNothing ==
  /\ Cap!Absent \in Cap!Rows /\ Cap!Absent.plan = Cap!NoPlan /\ Cap!Absent.status = "absent"
  /\ Cap!Deleted \in Cap!Rows /\ Cap!Deleted.plan = Cap!NoPlan /\ Cap!Deleted.status = "deleted"
  /\ Cap!Idle \in CapForms /\ Cap!Idle.pc = "idle" /\ CapSlot(Cap!Idle)
<1>1. /\ Cap!Absent \in Cap!Rows /\ Cap!Absent.plan = Cap!NoPlan /\ Cap!Absent.status = "absent"
      /\ Cap!Deleted \in Cap!Rows /\ Cap!Deleted.plan = Cap!NoPlan /\ Cap!Deleted.status = "deleted"
  <2>1. Cap!NoPlan \in Cap!PlanRows
    BY CapPlan
  <2> QED BY <2>1, CapRow DEF Cap!Absent, Cap!Deleted
<1>2. Cap!None \in Nonconformities
  BY GovernedAssumption DEF Cap!None
<1>3. Cap!Idle \in CapForms /\ Cap!Idle.pc = "idle"
  BY <1>1, <1>2, CapForm DEF Cap!Idle
<1> QED BY <1>1, <1>3 DEF CapSlot

LEMMA InitCapInv == ASSUME Cap!Init PROVE CapInv
<1>1. Cap!TypeOK
  BY CapNothing DEF Cap!Init, Cap!TypeOK, CapForms
<1>2. CapSlots
  BY CapNothing DEF Cap!Init, CapSlots
<1>3. CapNumbered
  BY CapNothing, CapPlan
  DEF Cap!Init, CapNumbered, Owned, MintedAlone, MintedFresh, Cap!CapIdsUnique
<1>4. CapUndisturbed
  BY CapNothing DEF Cap!Init, CapUndisturbed, CapInTurn, Cap!InFlight
<1>5. Cap!CapAgrees
  BY CapNothing, CapPlan DEF Cap!Init, Cap!CapAgrees
<1>6. GoneBare
  BY CapNothing DEF Cap!Init, GoneBare
<1> QED BY <1>1, <1>2, <1>3, <1>4, <1>5, <1>6 DEF CapInv

LEMMA CapMoved ==
  ASSUME CapInv, NEW q \in Requests, NEW s \in CapForms, Cap!Move(q, s)
  PROVE  capReq' \in [Requests -> CapForms] /\ capReq'[q] = s /\ OtherForms(q)
BY CapTyped DEF Cap!Move, OtherForms

\* A step of q that leaves the records: what its new slot has to be.
LEMMA CapStep ==
  ASSUME CapInv, NEW q \in Requests, NEW s \in CapForms, Cap!Move(q, s), CapSlot(s),
         UNCHANGED <<nc, freed, manual>>,
         overlap' \subseteq Nonconformities, overlap \subseteq overlap',
         s.pc \in {"form", "save", "patch"} =>
           s.now.plan.id = 0 \/ s.now.plan.id = nc[s.n].plan.id \/ s.now.plan.id \in freed,
         s.pc = "mint" =>
           /\ \A p \in Requests : p # q => capReq[p].pc # "mint"
           /\ \A n \in Nonconformities : nc[n].plan.id = s.now.plan.id => nc[n].plan.id \in freed,
         s.pc \in {"save", "patch", "mint"} /\ s.n \notin overlap' =>
           /\ \A p \in Requests : p # q => ~(Cap!InFlight(p) /\ capReq[p].n = s.n)
           /\ nc[s.n] = Cap!Deleted \/ nc[s.n] = s.was
  PROVE  CapInv'
<1>1. capReq' \in [Requests -> CapForms] /\ capReq'[q] = s /\ OtherForms(q)
  BY CapMoved
<1>2. Cap!TypeOK'
  BY <1>1 DEF CapInv, Cap!TypeOK, CapForms
<1>3. CapSlots'
  BY <1>1 DEF CapInv, CapSlots, OtherForms
<1>4. CapNumbered'
  <2>1. Owned'
    BY <1>1 DEF CapInv, CapNumbered, Owned, OtherForms
  <2>2. MintedAlone' /\ MintedFresh'
    BY <1>1 DEF CapInv, CapNumbered, MintedAlone, MintedFresh, OtherForms
  <2>3. Cap!CapIdsUnique'
    BY DEF CapInv, CapNumbered, Cap!CapIdsUnique
  <2> QED BY <2>1, <2>2, <2>3 DEF CapNumbered
<1>5. ASSUME NEW n \in Nonconformities \ overlap' PROVE CapInTurn(n)'
  <2>1. CapInTurn(n)
    BY <1>5 DEF CapInv, CapUndisturbed
  <2>2. s.pc \in {"idle", "form", "save", "patch", "mint"}
    BY DEF CapForms
  <2>3. \A p \in Requests : p # q => (Cap!InFlight(p)' <=> Cap!InFlight(p))
    BY <1>1 DEF Cap!InFlight, OtherForms
  <2>4. Cap!InFlight(q)' <=> s.pc \in {"save", "patch", "mint"}
    BY <1>1, <2>2 DEF Cap!InFlight
  <2>5. \A p \in Requests : p # q => capReq'[p] = capReq[p]
    BY <1>1 DEF OtherForms
  <2>6. CASE s.pc \in {"save", "patch", "mint"} /\ s.n = n
    BY <1>1, <1>5, <2>3, <2>5, <2>6 DEF CapInTurn
  <2>7. CASE ~(s.pc \in {"save", "patch", "mint"} /\ s.n = n)
    BY <1>1, <2>1, <2>3, <2>4, <2>5, <2>7 DEF CapInTurn
  <2> QED BY <2>6, <2>7
<1>6. CapUndisturbed'
  BY <1>5 DEF CapUndisturbed
<1>7. Cap!CapAgrees'
  BY DEF CapInv, Cap!CapAgrees
<1>8. GoneBare'
  BY DEF CapInv, GoneBare, Cap!Exists
<1> QED BY <1>2, <1>3, <1>4, <1>6, <1>7, <1>8 DEF CapInv

LEMMA CapForming ==
  ASSUME CapInv, NEW q \in Requests, NEW n \in Nonconformities, Cap!OpenForm(q, n)
  PROVE  CapInv'
<1> DEFINE f == Cap!Slot("form", n, nc[n], nc[n])
<1>1. Cap!Move(q, f) /\ UNCHANGED <<nc, freed, manual, overlap>>
  BY DEF Cap!OpenForm
<1>2. nc[n] \in Cap!Rows
  BY CapTyped
<1>3. f \in CapForms /\ f.pc = "form" /\ f.n = n /\ f.now = nc[n]
  BY <1>2, CapForm
<1> HIDE DEF f
<1>4. PICK s \in CapForms : s = f /\ s.pc = "form" /\ s.n = n /\ s.now = nc[n] /\ CapSlot(s)
  BY <1>3 DEF CapSlot
<1>5. overlap' \subseteq Nonconformities /\ overlap \subseteq overlap'
  BY <1>1, CapTyped
<1> QED BY <1>1, <1>4, <1>5, CapStep

LEMMA CapEnding ==
  ASSUME CapInv, NEW q \in Requests, Cap!Abandon(q)
  PROVE  CapInv'
<1>1. Cap!Move(q, Cap!Idle) /\ UNCHANGED <<nc, freed, manual, overlap>>
  BY DEF Cap!Abandon
<1>2. overlap' \subseteq Nonconformities /\ overlap \subseteq overlap'
  BY <1>1, CapTyped
<1> QED BY <1>1, <1>2, CapNothing, CapStep

\* A request up to its save: it drives the status, passed the gate, and brings a number
\* of its record or one that was taken off.
LEMMA CapRequested ==
  ASSUME CapInv, NEW q \in Requests, ~Cap!InFlight(q), NEW n \in Nonconformities, Cap!Exists(n),
         NEW pc \in {"save", "patch"}, NEW st \in Cap!Statuses, NEW brought \in Cap!PlanRows,
         Cap!Move(q, Cap!Slot(pc, n, nc[n], Cap!Row(st, brought))), Cap!Meet(q, n),
         UNCHANGED <<nc, freed, manual>>,
         Cap!Drives(nc[n].plan, brought) => st = Cap!Derived(brought.impl),
         st = "Closed" /\ nc[n].status # "Closed" => brought.verified,
         brought.id = 0 \/ brought.id = nc[n].plan.id \/ brought.id \in freed
  PROVE  CapInv'
<1> DEFINE f == Cap!Slot(pc, n, nc[n], Cap!Row(st, brought))
<1>1. nc[n] \in Cap!Rows /\ nc[n].status \notin {"absent", "deleted"}
  BY CapTyped DEF Cap!Exists
<1>2. Cap!Row(st, brought) \in Cap!Rows /\ Cap!Row(st, brought).status = st /\ Cap!Row(st, brought).plan = brought
  BY CapRow
<1>3. /\ f \in CapForms /\ f.pc = pc /\ f.n = n /\ f.was = nc[n]
      /\ f.now.status = st /\ f.now.plan = brought
  BY <1>1, <1>2, CapForm
<1> HIDE DEF f
<1>4. CapSlot(f)
  BY <1>1, <1>3 DEF CapSlot
<1>m. Cap!Move(q, f)
  BY DEF f
<1>5. PICK s \in CapForms : /\ s = f /\ s.pc = pc /\ s.n = n /\ s.was = nc[n]
                            /\ s.now.plan = brought /\ CapSlot(s)
  BY <1>3, <1>4
<1>6. /\ overlap' \subseteq Nonconformities /\ overlap \subseteq overlap'
      /\ n \notin overlap' => \A p \in Requests : p # q => ~(Cap!InFlight(p) /\ capReq[p].n = n)
  BY CapTyped DEF Cap!Meet
<1>7. Cap!Move(q, s)
  BY <1>m, <1>5
<1> QED BY <1>5, <1>6, <1>7, CapStep

\* The plans a form may send, numbered: theirs is the shown number or the stored one.
LEMMA SentPlan ==
  ASSUME NEW shown \in Cap!PlanRows, NEW stored \in Cap!PlanRows, NEW sent \in Cap!Sent(shown)
  PROVE  LET brought == Cap!Numbered(stored, sent) IN
         /\ brought \in Cap!PlanRows
         /\ brought.impl = sent.impl /\ brought.verified = sent.verified
         /\ brought.id \in {0, shown.id, stored.id}
<1>1. sent \in Cap!PlanRows /\ sent.id \in {0, shown.id}
  <2>0. shown.id \in 0..MaxId
    BY CapPlan
  <2>1. ASSUME NEW impl \in Cap!Impls, NEW verified \in BOOLEAN
        PROVE  /\ Cap!Plan(shown.id, impl, verified) \in Cap!PlanRows
               /\ Cap!Plan(shown.id, impl, verified).id = shown.id
    BY <2>0, CapPlanOf
  <2>2. Cap!NoPlan \in Cap!PlanRows /\ Cap!NoPlan.id = 0
    BY CapPlan
  <2> QED BY <2>1, <2>2 DEF Cap!Sent
<1>2. CASE sent # Cap!NoPlan /\ sent.id = 0
  <2>1. stored.id \in 0..MaxId /\ sent.impl \in Cap!Impls /\ sent.verified \in BOOLEAN
    BY <1>1, <1>2, CapPlan
  <2>3. PICK id \in 0..MaxId : id = stored.id
    BY <2>1
  <2>2. Cap!Numbered(stored, sent) = Cap!Plan(stored.id, sent.impl, sent.verified)
    BY <1>2 DEF Cap!Numbered
  <2>4. PICK impl \in Cap!Impls, verified \in BOOLEAN : impl = sent.impl /\ verified = sent.verified
    BY <2>1
  <2>5. Cap!Numbered(stored, sent) = Cap!Plan(id, impl, verified)
    BY <2>2, <2>3, <2>4
  <2> QED BY <2>3, <2>4, <2>5, CapPlanOf
<1>3. CASE ~(sent # Cap!NoPlan /\ sent.id = 0)
  BY <1>1, <1>3 DEF Cap!Numbered
<1> QED BY <1>2, <1>3

LEMMA CapPosts ==
  ASSUME CapInv, NEW q \in Requests,
         NEW status1 \in {nc[capReq[q].n].status, "Closed"}, NEW sent \in Cap!Sent(capReq[q].now.plan),
         Cap!Post(q, status1, sent)
  PROVE  CapInv'
<1> DEFINE n == capReq[q].n
           stored == nc[n].plan
           shown == capReq[q].now.plan
           next == IF Cap!Drives(stored, sent) THEN Cap!Derived(sent.impl) ELSE status1
           brought == Cap!Numbered(stored, sent)
<1>1. /\ capReq[q].pc = "form" /\ Cap!Exists(n)
      /\ Cap!MayClose(IF Cap!Drives(stored, sent) \/ status1 # nc[n].status THEN next ELSE "as it is", sent)
      /\ Cap!Move(q, Cap!Slot("save", n, nc[n], Cap!Row(next, brought)))
      /\ Cap!Meet(q, n) /\ UNCHANGED <<nc, freed, manual>>
  BY DEF Cap!Post, Cap!Update
<1>2. /\ n \in Nonconformities /\ nc[n] \in Cap!Rows /\ stored \in Cap!PlanRows
      /\ shown \in Cap!PlanRows /\ nc[n].status \in Cap!Statuses
  BY <1>1, CapTyped DEF CapForms, Cap!Rows, Cap!Exists
<1>3. shown.id = 0 \/ shown.id = stored.id \/ shown.id \in freed
  BY <1>1 DEF CapInv, CapNumbered, Owned
<1>4. /\ brought \in Cap!PlanRows /\ brought.impl = sent.impl /\ brought.verified = sent.verified
      /\ brought.id \in {0, shown.id, stored.id}
  BY <1>2, SentPlan
<1>5. next \in Cap!Statuses
  BY <1>2 DEF Cap!Derived, Cap!Statuses
<1>6. Cap!Drives(stored, brought) => next = Cap!Derived(brought.impl)
  BY <1>4 DEF Cap!Drives
<1>7. next = "Closed" /\ nc[n].status # "Closed" => brought.verified
  BY <1>1, <1>4 DEF Cap!MayClose
<1>8. brought.id = 0 \/ brought.id = stored.id \/ brought.id \in freed
  BY <1>3, <1>4
<1>9. ~Cap!InFlight(q)
  BY <1>1 DEF Cap!InFlight
<1> HIDE DEF next, brought
<1> QED BY <1>1, <1>2, <1>4, <1>5, <1>6, <1>7, <1>8, <1>9, CapRequested

LEMMA CapStatusPosts ==
  ASSUME CapInv, NEW q \in Requests, NEW n \in Nonconformities, NEW st \in {"Open", "Closed"},
         Cap!PostStatus(q, n, st)
  PROVE  CapInv'
<1>1. /\ capReq[q].pc = "idle" /\ Cap!Exists(n)
      /\ Cap!MayClose(IF st # nc[n].status THEN st ELSE "as it is", nc[n].plan)
      /\ Cap!Move(q, Cap!Slot("patch", n, nc[n], Cap!Row(st, nc[n].plan)))
      /\ Cap!Meet(q, n) /\ UNCHANGED <<nc, freed, manual>>
  BY DEF Cap!PostStatus
<1>2. nc[n].plan \in Cap!PlanRows /\ st \in Cap!Statuses
  BY CapTyped DEF Cap!Rows, Cap!Statuses
<1>3. PICK brought \in Cap!PlanRows : brought = nc[n].plan
  BY <1>2
<1>4. ~Cap!Drives(nc[n].plan, brought) /\ ~Cap!InFlight(q)
  BY <1>1, <1>3 DEF Cap!Drives, Cap!InFlight
<1>5. st = "Closed" /\ nc[n].status # "Closed" => brought.verified
  BY <1>1, <1>3 DEF Cap!MayClose
<1>6. Cap!Move(q, Cap!Slot("patch", n, nc[n], Cap!Row(st, brought)))
  BY <1>1, <1>3
<1> QED BY <1>1, <1>2, <1>3, <1>4, <1>5, <1>6, CapRequested
LEMMA CapCreates == ASSUME CapInv, NEW n \in Nonconformities, Cap!Create(n) PROVE CapInv'
<1>1. /\ nc[n] = Cap!Absent /\ nc' = [nc EXCEPT ![n] = Cap!Row("Open", Cap!NoPlan)]
      /\ UNCHANGED <<freed, manual, overlap, capReq>>
  BY DEF Cap!Create
<1>2. /\ Cap!Row("Open", Cap!NoPlan) \in Cap!Rows /\ Cap!Row("Open", Cap!NoPlan).plan = Cap!NoPlan
      /\ Cap!Row("Open", Cap!NoPlan).status = "Open"
  BY CapPlan, CapRow DEF Cap!Statuses
<1>3. PICK new \in Cap!Rows : /\ new = Cap!Row("Open", Cap!NoPlan) /\ new.plan = Cap!NoPlan
                             /\ new.status = "Open"
  BY <1>2
<1>4. nc' \in [Nonconformities -> Cap!Rows] /\ nc'[n] = new
      /\ \A m \in Nonconformities : m # n => nc'[m] = nc[m]
  BY <1>1, <1>3, CapTyped
<1>5. \A m \in Nonconformities : nc'[m].plan = nc[m].plan
  BY <1>1, <1>3, <1>4, CapNothing
<1>6. Cap!TypeOK'
  BY <1>1, <1>4 DEF CapInv, Cap!TypeOK
<1>7. CapSlots'
  BY <1>1 DEF CapInv, CapSlots
<1>8. GoneBare'
  BY <1>3, <1>4 DEF CapInv, GoneBare, Cap!Exists
<1>9. CapNumbered'
  <2>1. \A q \in Requests : capReq[q].n \in Nonconformities
    BY CapTyped DEF CapForms
  <2>2. Owned'
    BY <1>1, <1>5, <2>1 DEF CapInv, CapNumbered, Owned
  <2>3. MintedAlone' /\ MintedFresh' /\ Cap!CapIdsUnique'
    BY <1>1, <1>5 DEF CapInv, CapNumbered, MintedAlone, MintedFresh, Cap!CapIdsUnique
  <2> QED BY <2>2, <2>3 DEF CapNumbered
<1>10. CapUndisturbed'
  <2>1. ASSUME NEW q \in Requests, Cap!InFlight(q), capReq[q].n = n, n \notin overlap PROVE FALSE
    <3>1. nc[n] = Cap!Deleted \/ nc[n] = capReq[q].was
      BY <2>1 DEF CapInv, CapUndisturbed, CapInTurn
    <3>2. capReq[q].pc \in {"save", "patch", "mint"}
      BY <2>1, CapTyped DEF Cap!InFlight, CapForms
    <3>3. capReq[q].was.status \notin {"absent", "deleted"}
      BY <3>2 DEF CapInv, CapSlots, CapSlot
    <3> QED BY <1>1, <3>1, <3>3, CapNothing
  <2>2. \A q \in Requests : Cap!InFlight(q)' <=> Cap!InFlight(q)
    BY <1>1 DEF Cap!InFlight
  <2>3. ASSUME NEW m \in Nonconformities \ overlap PROVE CapInTurn(m)'
    BY <1>1, <1>4, <2>1, <2>2, <2>3 DEF CapInv, CapUndisturbed, CapInTurn
  <2> QED BY <1>1, <2>3 DEF CapUndisturbed
<1>11. Cap!CapAgrees'
  BY <1>1, <1>3, <1>4, <1>5, CapPlan DEF CapInv, Cap!CapAgrees
<1> QED BY <1>6, <1>7, <1>8, <1>9, <1>10, <1>11 DEF CapInv

\* The number that is minted is above every number a record carries.
LEMMA CapLocks == ASSUME CapInv, NEW q \in Requests, Cap!Lock(q) PROVE CapInv'
<1> DEFINE r == capReq[q]
           id == 1 + Cap!Max(Numbers)
           brought == Cap!Plan(id, r.now.plan.impl, r.now.plan.verified)
           f == Cap!Slot("mint", r.n, r.was, Cap!Row(r.now.status, brought))
<1>1. /\ r.pc \in {"save", "patch"} /\ Cap!Unnumbered(q) /\ id <= MaxId
      /\ \A p \in Requests : capReq[p].pc # "mint"
      /\ Cap!Move(q, f) /\ UNCHANGED <<nc, freed, manual, overlap>>
  BY DEF Cap!Lock, Cap!Prepared, Numbers
<1>2. /\ r.n \in Nonconformities /\ r.was \in Cap!Rows /\ r.now \in Cap!Rows
      /\ r.now.status \in Cap!Statuses \cup {"absent", "deleted"} /\ r.now.plan \in Cap!PlanRows
  BY CapTyped DEF CapForms, Cap!Rows
<1>3. r.now.plan.impl \in Cap!Impls /\ r.now.plan.verified \in BOOLEAN
  BY <1>1, <1>2, CapPlan DEF Cap!Unnumbered
<1>4. id \in 0..MaxId /\ id # 0 /\ \A n \in Nonconformities : nc[n].plan.id # id
  <2>1. Numbers \subseteq 0..MaxId /\ Numbers # {}
    <3>1. \A n \in Nonconformities : nc[n].plan.id \in 0..MaxId
      BY CapTyped, CapPlan DEF Cap!Rows
    <3> QED BY <3>1, GovernedAssumption DEF Numbers
  <2>2. Cap!Max(Numbers) \in Numbers /\ \A k \in Numbers : k <= Cap!Max(Numbers)
    BY <2>1, HighestNumber
  <2>3. PICK top \in 0..MaxId : top = Cap!Max(Numbers) /\ \A k \in Numbers : k <= top
    BY <2>1, <2>2
  <2>4. MaxId \in Nat /\ top + 1 <= MaxId /\ id = top + 1
    BY <1>1, <2>3, GovernedAssumption
  <2>5. ASSUME NEW n \in Nonconformities, nc[n].plan.id = top + 1 PROVE FALSE
    <3>1. nc[n].plan.id \in Numbers
      BY DEF Numbers
    <3> QED BY <2>3, <2>5, <3>1
  <2> QED BY <2>4, <2>5
<1> HIDE DEF id
<1>5. /\ brought \in Cap!PlanRows /\ brought.id = id
      /\ brought.impl = r.now.plan.impl /\ brought.verified = r.now.plan.verified
  BY <1>3, <1>4, CapPlanOf
<1>6. /\ f \in CapForms /\ f.pc = "mint" /\ f.n = r.n /\ f.was = r.was
      /\ f.now.status = r.now.status /\ f.now.plan = brought
  BY <1>2, <1>5, CapRow, CapForm
<1>7. CapSlot(f)
  <2>1. CapSlot(r)
    BY DEF CapInv, CapSlots
  <2> HIDE DEF brought, f
  <2> QED BY <1>1, <1>4, <1>5, <1>6, <2>1 DEF CapSlot, Cap!Drives
<1>8. PICK s \in CapForms : /\ s = f /\ s.pc = "mint" /\ s.n = r.n /\ s.was = r.was
                            /\ s.now.plan.id = id /\ CapSlot(s)
  BY <1>5, <1>6, <1>7
<1>9. Cap!Move(q, s)
  BY <1>1, <1>8
<1>10. overlap' \subseteq Nonconformities /\ overlap \subseteq overlap'
  BY <1>1, CapTyped
<1>11. s.n \notin overlap' =>
         /\ \A p \in Requests : p # q => ~(Cap!InFlight(p) /\ capReq[p].n = s.n)
         /\ nc[s.n] = Cap!Deleted \/ nc[s.n] = s.was
  <2>1. Cap!InFlight(q) /\ r.n \in Nonconformities
    BY <1>1, <1>2 DEF Cap!InFlight
  <2>2. r.n \notin overlap => CapInTurn(r.n)
    BY <2>1 DEF CapInv, CapUndisturbed
  <2>3. r.n \notin overlap =>
          /\ \A p \in Requests : p # q => ~(Cap!InFlight(p) /\ capReq[p].n = r.n)
          /\ nc[r.n] = Cap!Deleted \/ nc[r.n] = r.was
    BY <2>1, <2>2 DEF CapInTurn
  <2> QED BY <1>1, <1>8, <2>3
<1>12. \A n \in Nonconformities : nc[n].plan.id = s.now.plan.id => nc[n].plan.id \in freed
  BY <1>4, <1>8
<1> HIDE DEF f, brought
<1> QED BY <1>1, <1>8, <1>9, <1>10, <1>11, <1>12, CapStep

\* What a step does to the numbers: whatever is taken off a record is remembered.
Remembered ==
  /\ freed \subseteq freed'
  /\ \A n \in Nonconformities : nc'[n].plan.id = nc[n].plan.id \/ nc[n].plan.id \in freed'

LEMMA CapFormsKeep ==
  ASSUME CapInv, Remembered,
         \A p \in Requests : capReq'[p] = capReq[p] \/ capReq'[p].pc = "idle"
  PROVE  Owned' /\ MintedAlone'
<1>1. \A p \in Requests : capReq[p].n \in Nonconformities
  BY CapTyped DEF CapForms
<1>2. Owned'
  BY <1>1 DEF CapInv, CapNumbered, Owned, Remembered
<1>3. MintedAlone'
  BY DEF CapInv, CapNumbered, MintedAlone
<1> QED BY <1>2, <1>3

LEMMA CapDeletes == ASSUME CapInv, NEW n \in Nonconformities, Cap!Delete(n) PROVE CapInv'
<1>1. /\ Cap!Exists(n) /\ nc' = [nc EXCEPT ![n] = Cap!Deleted]
      /\ freed' = freed \cup {nc[n].plan.id} /\ manual' = manual \ {n}
      /\ UNCHANGED <<overlap, capReq>>
  BY DEF Cap!Delete
<1>2. PICK gone \in Cap!Rows : /\ gone = Cap!Deleted /\ gone.plan = Cap!NoPlan
                              /\ gone.status = "deleted"
  BY CapNothing
<1>3. nc' \in [Nonconformities -> Cap!Rows] /\ nc'[n] = gone
      /\ \A m \in Nonconformities : m # n => nc'[m] = nc[m]
  BY <1>1, <1>2, CapTyped
<1>4. nc[n].plan.id \in 0..MaxId
  BY CapTyped, CapPlan DEF Cap!Rows
<1>5. Cap!TypeOK'
  <2>1. freed' \subseteq 0..MaxId
    BY <1>1, <1>4, CapTyped
  <2> QED BY <1>1, <1>3, <2>1 DEF CapInv, Cap!TypeOK
<1>6. CapSlots' /\ GoneBare'
  BY <1>1, <1>2, <1>3 DEF CapInv, CapSlots, GoneBare, Cap!Exists
<1>7. CapNumbered'
  <2>1. Remembered
    BY <1>1, <1>3 DEF Remembered
  <2>2. \A p \in Requests : capReq'[p] = capReq[p]
    BY <1>1
  <2>3. Owned' /\ MintedAlone'
    BY <2>1, <2>2, CapFormsKeep
  <2>4. gone.plan.id = 0
    BY <1>2, CapPlan
  <2>5. MintedFresh'
    BY <1>1, <1>3, <2>1, <2>4 DEF CapInv, CapNumbered, MintedFresh, Remembered, CapSlots, CapSlot
  <2>6. Cap!CapIdsUnique'
    BY <1>3, <2>1, <2>4 DEF CapInv, CapNumbered, Cap!CapIdsUnique, Remembered
  <2> QED BY <2>3, <2>5, <2>6 DEF CapNumbered
<1>8. CapUndisturbed'
  <2>1. \A q \in Requests : Cap!InFlight(q)' <=> Cap!InFlight(q)
    BY <1>1 DEF Cap!InFlight
  <2>2. ASSUME NEW m \in Nonconformities \ overlap PROVE CapInTurn(m)'
    BY <1>1, <1>2, <1>3, <2>1, <2>2 DEF CapInv, CapUndisturbed, CapInTurn
  <2> QED BY <1>1, <2>2 DEF CapUndisturbed
<1>9. Cap!CapAgrees'
  BY <1>1, <1>2, <1>3, CapPlan DEF CapInv, Cap!CapAgrees
<1> QED BY <1>5, <1>6, <1>7, <1>8, <1>9 DEF CapInv

\* A request that no other one overlapped saves what it brings.
LEMMA SavedAsBrought ==
  ASSUME CapInv, NEW q \in Requests, Cap!InFlight(q), Cap!Exists(capReq[q].n),
         capReq[q].n \notin overlap
  PROVE  nc[capReq[q].n] = capReq[q].was
<1>1. capReq[q].n \in Nonconformities
  BY CapTyped DEF CapForms
<1>2. nc[capReq[q].n] = Cap!Deleted \/ nc[capReq[q].n] = capReq[q].was
  BY <1>1 DEF CapInv, CapUndisturbed, CapInTurn
<1> QED BY <1>2, CapNothing DEF Cap!Exists

\* The row that is saved, and what becomes of its number.
LEMMA CapSaved ==
  ASSUME CapInv, NEW q \in Requests, NEW other \in BOOLEAN, Cap!Save(q, other)
  PROVE  \E n \in Nonconformities, new \in Cap!Rows :
           /\ n = capReq[q].n /\ Cap!InFlight(q) /\ capReq[q].pc \in {"save", "patch", "mint"}
           /\ nc' = [nc EXCEPT ![n] = new]
           /\ ~Cap!Exists(n) => new = nc[n]
           /\ Cap!Exists(n) =>
                /\ new.status = Cap!Changed(nc[n].status, capReq[q].was.status, capReq[q].now.status)
                /\ new.plan \in {nc[n].plan, capReq[q].now.plan}
                /\ nc[n] = capReq[q].was => new.plan = capReq[q].now.plan
                /\ new.status \notin {"absent", "deleted"}
           /\ freed \subseteq freed' /\ freed' \subseteq 0..MaxId
           /\ nc[n].plan.id # new.plan.id => nc[n].plan.id \in freed'
<1> DEFINE r == capReq[q]
           n == r.n
           stored == nc[n]
           brought == IF other THEN r.now.plan ELSE Cap!Changed(stored.plan, r.was.plan, r.now.plan)
           st == Cap!Changed(stored.status, r.was.status, r.now.status)
<1>1. /\ r.pc \in {"save", "patch", "mint"}
      /\ nc' = IF ~Cap!Exists(n) THEN nc ELSE [nc EXCEPT ![n] = Cap!Row(st, brought)]
      /\ freed' = IF stored.plan.id # brought.id THEN freed \cup {stored.plan.id} ELSE freed
  <2>1. r.pc \in {"save", "patch", "mint"}
    BY DEF Cap!Save, Cap!Prepared
  <2>2. nc' = IF ~Cap!Exists(n) THEN nc ELSE [nc EXCEPT ![n] = Cap!Row(st, brought)]
    BY DEF Cap!Save
  <2>3. freed' = IF stored.plan.id # brought.id THEN freed \cup {stored.plan.id} ELSE freed
    BY DEF Cap!Save
  <2> QED BY <2>1, <2>2, <2>3
<1>2. /\ n \in Nonconformities /\ stored \in Cap!Rows /\ r.was \in Cap!Rows /\ r.now \in Cap!Rows
      /\ stored.plan \in Cap!PlanRows /\ r.now.plan \in Cap!PlanRows
  BY CapTyped DEF CapForms, Cap!Rows
<1>3. CapSlot(r)
  BY DEF CapInv, CapSlots
<1>4. /\ brought \in Cap!PlanRows /\ brought \in {stored.plan, r.now.plan}
      /\ stored = r.was => brought = r.now.plan
  BY <1>2 DEF Cap!Changed
<1>5. Cap!Exists(n) => st \in Cap!Statuses
  BY <1>1, <1>2, <1>3 DEF Cap!Changed, CapSlot, Cap!Exists, Cap!Rows
<1>6. stored.plan.id \in 0..MaxId
  BY <1>2, CapPlan
<1>7. Cap!InFlight(q)
  BY <1>1 DEF Cap!InFlight
<1>8. freed \subseteq freed' /\ freed' \subseteq 0..MaxId
  BY <1>1, <1>6, CapTyped
<1>9. CASE ~Cap!Exists(n)
  <2>1. nc' = [nc EXCEPT ![n] = nc[n]]
    BY <1>1, <1>2, <1>9, CapTyped
  <2> QED BY <1>1, <1>2, <1>7, <1>8, <1>9, <2>1
<1>10. CASE Cap!Exists(n)
  <2> HIDE DEF brought, st
  <2>1. /\ Cap!Row(st, brought) \in Cap!Rows /\ Cap!Row(st, brought).status = st
        /\ Cap!Row(st, brought).plan = brought /\ st \notin {"absent", "deleted"}
    BY <1>4, <1>5, <1>10, CapRow DEF Cap!Statuses
  <2>2. nc' = [nc EXCEPT ![n] = Cap!Row(st, brought)]
    BY <1>1, <1>10
  <2>3. stored.plan.id # brought.id => stored.plan.id \in freed'
    BY <1>1
  <2>4. st = Cap!Changed(stored.status, r.was.status, r.now.status)
    BY DEF st
  <2>5. PICK new \in Cap!Rows : new = Cap!Row(st, brought) /\ new.status = st /\ new.plan = brought
    BY <2>1
  <2>6. nc' = [nc EXCEPT ![n] = new] /\ st \notin {"absent", "deleted"}
    BY <2>1, <2>2, <2>5
  <2>7. /\ new.plan \in {nc[n].plan, r.now.plan} /\ (nc[n] = r.was => new.plan = r.now.plan)
        /\ nc[n].plan.id # new.plan.id => nc[n].plan.id \in freed'
    BY <1>4, <2>3, <2>5
  <2> QED BY <1>1, <1>2, <1>7, <1>8, <1>10, <2>4, <2>5, <2>6, <2>7
<1> QED BY <1>9, <1>10

LEMMA CapSaves == ASSUME CapInv, NEW q \in Requests, NEW other \in BOOLEAN, Cap!Save(q, other) PROVE CapInv'
<1> DEFINE r == capReq[q]
<1>1. PICK n \in Nonconformities, new \in Cap!Rows :
        /\ n = r.n /\ Cap!InFlight(q) /\ r.pc \in {"save", "patch", "mint"}
        /\ nc' = [nc EXCEPT ![n] = new]
        /\ ~Cap!Exists(n) => new = nc[n]
        /\ Cap!Exists(n) =>
             /\ new.status = Cap!Changed(nc[n].status, r.was.status, r.now.status)
             /\ new.plan \in {nc[n].plan, r.now.plan}
             /\ nc[n] = r.was => new.plan = r.now.plan
             /\ new.status \notin {"absent", "deleted"}
        /\ freed \subseteq freed' /\ freed' \subseteq 0..MaxId
        /\ nc[n].plan.id # new.plan.id => nc[n].plan.id \in freed'
  BY CapSaved
<1>2. /\ Cap!Move(q, Cap!Idle) /\ UNCHANGED overlap
      /\ manual' = CASE Cap!Drives(r.was.plan, r.now.plan) -> manual \ {n}
                     [] ~Cap!Drives(r.was.plan, r.now.plan) /\ r.now.status # r.was.status ->
                          manual \cup {n}
                     [] OTHER -> manual
  BY <1>1 DEF Cap!Save
<1>3. capReq' \in [Requests -> CapForms] /\ capReq'[q] = Cap!Idle /\ OtherForms(q)
  BY <1>2, CapNothing, CapMoved
<1>4. nc' \in [Nonconformities -> Cap!Rows] /\ nc'[n] = new
      /\ \A m \in Nonconformities : m # n => nc'[m] = nc[m]
  BY <1>1, CapTyped
<1>5. manual' \subseteq Nonconformities /\ \A m \in Nonconformities : m # n => (m \in manual' <=> m \in manual)
  BY <1>2, CapTyped
<1>6. Cap!TypeOK'
  BY <1>1, <1>2, <1>3, <1>4, <1>5 DEF CapInv, Cap!TypeOK, CapForms
<1>7. CapSlots'
  BY <1>3, CapNothing DEF CapInv, CapSlots, OtherForms
<1>8. GoneBare'
  BY <1>1, <1>4 DEF CapInv, GoneBare, Cap!Exists
<1>9. CapSlot(r)
  BY DEF CapInv, CapSlots
<1>10. CapNumbered'
  <2>1. Remembered
    BY <1>1, <1>4 DEF Remembered
  <2>2. \A p \in Requests : capReq'[p] = capReq[p] \/ capReq'[p].pc = "idle"
    BY <1>3, CapNothing DEF OtherForms
  <2>3. Owned' /\ MintedAlone'
    BY <2>1, <2>2, CapFormsKeep
  <2>4. new.plan.id # nc[n].plan.id => new.plan = r.now.plan
    BY <1>1 DEF Cap!Changed
  \* A number that comes with a save is new, 0, or was taken off a record.
  <2>5. new.plan.id # nc[n].plan.id /\ new.plan.id # 0 /\ new.plan.id \notin freed =>
          r.pc = "mint" /\ \A m \in Nonconformities : nc[m].plan.id # new.plan.id
    <3>1. CASE r.pc \in {"save", "patch"}
      BY <1>1, <2>4, <3>1 DEF CapInv, CapNumbered, Owned
    <3>2. CASE r.pc = "mint"
      BY <1>1, <2>4, <3>2 DEF CapInv, CapNumbered, MintedFresh
    <3> QED BY <1>1, <3>1, <3>2
  <2>6. MintedFresh'
    <3> SUFFICES ASSUME NEW p \in Requests, NEW m \in Nonconformities, capReq'[p].pc = "mint",
                        nc'[m].plan.id = capReq'[p].now.plan.id
                 PROVE  nc'[m].plan.id \in freed'
      BY DEF MintedFresh
    <3>1. p # q /\ capReq[p].pc = "mint" /\ capReq'[p] = capReq[p]
      BY <1>3, CapNothing DEF OtherForms
    <3>2. capReq[p].now.plan.id # 0
      BY <3>1 DEF CapInv, CapSlots, CapSlot
    <3>3. nc[m].plan.id = capReq[p].now.plan.id => nc[m].plan.id \in freed'
      BY <1>1, <3>1 DEF CapInv, CapNumbered, MintedFresh
    <3>4. r.pc # "mint"
      BY <3>1 DEF CapInv, CapNumbered, MintedAlone
    <3>5. CASE nc'[m].plan.id = nc[m].plan.id
      BY <3>1, <3>3, <3>5
    <3>6. CASE nc'[m].plan.id # nc[m].plan.id
      BY <1>1, <1>4, <2>5, <3>1, <3>2, <3>4, <3>6
    <3> QED BY <3>5, <3>6
  <2>7. Cap!CapIdsUnique'
    <3> SUFFICES ASSUME NEW m \in Nonconformities, NEW k \in Nonconformities, m # k,
                        nc'[m].plan.id # 0, nc'[m].plan.id = nc'[k].plan.id,
                        nc'[m].plan.id \notin freed'
                 PROVE  FALSE
      BY DEF Cap!CapIdsUnique
    <3>1. nc[m].plan.id = nc[k].plan.id /\ nc[m].plan.id # 0 => nc[m].plan.id \in freed
      BY DEF CapInv, CapNumbered, Cap!CapIdsUnique
    <3>2. CASE m # n /\ k # n
      BY <1>1, <1>4, <3>1, <3>2
    <3>3. CASE m = n
      BY <1>1, <1>4, <2>5, <3>1, <3>3
    <3>4. CASE k = n
      BY <1>1, <1>4, <2>5, <3>1, <3>4
    <3> QED BY <3>2, <3>3, <3>4
  <2> QED BY <2>3, <2>6, <2>7 DEF CapNumbered
<1>11. CapUndisturbed'
  <2>1. \A p \in Requests : p # q => capReq'[p] = capReq[p] /\ (Cap!InFlight(p)' <=> Cap!InFlight(p))
    BY <1>3 DEF OtherForms, Cap!InFlight
  <2>2. ~Cap!InFlight(q)'
    BY <1>3, CapNothing DEF Cap!InFlight
  <2>3. ASSUME NEW m \in Nonconformities \ overlap PROVE CapInTurn(m)'
    <3>1. CapInTurn(m)
      BY <2>3 DEF CapInv, CapUndisturbed
    <3>2. CASE m = n
      BY <1>1, <2>1, <2>2, <3>1, <3>2 DEF CapInTurn
    <3>3. CASE m # n
      BY <1>4, <2>1, <2>2, <3>1, <3>3 DEF CapInTurn
    <3> QED BY <3>2, <3>3
  <2> QED BY <1>2, <2>3 DEF CapUndisturbed
<1>12. Cap!CapAgrees'
  <2> SUFFICES ASSUME NEW m \in Nonconformities, nc'[m].plan.impl \in {"Planned", "Closed"}, m \notin overlap,
                      m \notin manual'
               PROVE  nc'[m].status = Cap!Derived(nc'[m].plan.impl)
    BY <1>2 DEF Cap!CapAgrees
  <2>1. nc[m].plan.impl \in {"Planned", "Closed"} =>
          nc[m].status = Cap!Derived(nc[m].plan.impl) \/ m \in manual
    BY DEF CapInv, Cap!CapAgrees
  <2>2. CASE m # n
    BY <1>4, <1>5, <2>1, <2>2
  <2>3. CASE m = n /\ ~Cap!Exists(n)
    BY <1>1, <1>4, <2>3, CapPlan DEF CapInv, GoneBare
  <2>4. CASE m = n /\ Cap!Exists(n)
    <3>1. nc[n] = r.was
      BY <1>1, <2>4, SavedAsBrought
    <3>2. new.status = r.now.status /\ new.plan = r.now.plan
      BY <1>1, <2>4, <3>1 DEF Cap!Changed
    <3>3. CASE Cap!Drives(r.was.plan, r.now.plan)
      BY <1>1, <1>4, <1>9, <2>4, <3>2, <3>3 DEF CapSlot
    <3>4. CASE ~Cap!Drives(r.was.plan, r.now.plan)
      <4>1. r.now.plan.impl = r.was.plan.impl
        BY <1>4, <2>4, <3>2, <3>4 DEF Cap!Drives
      <4>2. r.now.status = r.was.status /\ m \notin manual
        BY <1>2, <2>4, <3>4
      <4> QED BY <1>4, <2>1, <2>4, <3>1, <3>2, <4>1, <4>2
    <3> QED BY <3>3, <3>4
  <2> QED BY <2>2, <2>3, <2>4
<1> QED BY <1>6, <1>7, <1>8, <1>10, <1>11, <1>12 DEF CapInv

LEMMA NextCapInv == ASSUME CapInv, [Cap!Next]_(Cap!vars) PROVE CapInv'
<1>1. ASSUME NEW n \in Nonconformities, Cap!Create(n) \/ Cap!Delete(n) PROVE CapInv'
  BY <1>1, CapCreates, CapDeletes
<1>2. ASSUME NEW q \in Requests, Cap!Step(q) PROVE CapInv'
  <2>1. ASSUME NEW n \in Nonconformities, Cap!OpenForm(q, n) PROVE CapInv'
    BY <2>1, CapForming
  <2>2. ASSUME NEW n \in Nonconformities, NEW st \in {"Open", "Closed"},
               Cap!PostStatus(q, n, st)
        PROVE  CapInv'
    BY <2>2, CapStatusPosts
  <2>3. ASSUME NEW st \in {nc[capReq[q].n].status, "Closed"}, NEW sent \in Cap!Sent(capReq[q].now.plan),
               Cap!Post(q, st, sent)
        PROVE  CapInv'
    BY <2>3, CapPosts
  <2> QED BY <1>2, <2>1, <2>2, <2>3, CapLocks, CapSaves, CapEnding DEF Cap!Step
<1>3. CASE UNCHANGED Cap!vars
  <2>1. /\ UNCHANGED <<nc, freed, manual, overlap, capReq>>
        /\ \A q \in Requests : Cap!InFlight(q)' <=> Cap!InFlight(q)
    BY <1>3 DEF Cap!vars, Cap!InFlight
  <2>2. Cap!TypeOK' /\ CapSlots' /\ GoneBare' /\ Cap!CapAgrees'
    BY <2>1 DEF CapInv, Cap!TypeOK, CapSlots, GoneBare, Cap!Exists, Cap!CapAgrees
  <2>3. CapNumbered'
    BY <2>1 DEF CapInv, CapNumbered, Owned, MintedAlone, MintedFresh, Cap!CapIdsUnique
  <2>4. CapUndisturbed'
    BY <2>1 DEF CapInv, CapUndisturbed, CapInTurn
  <2> QED BY <2>2, <2>3, <2>4 DEF CapInv
<1> QED BY <1>1, <1>2, <1>3 DEF Cap!Next

\* Only a save closes a record.
LEMMA ClosesVerified ==
  ASSUME CapInv, [Cap!Next]_(Cap!vars), NEW n \in Nonconformities,
         nc[n].status # "Closed", nc'[n].status = "Closed", n \notin overlap
  PROVE  nc'[n].plan.verified
<1>1. PICK q \in Requests, other \in BOOLEAN : Cap!Save(q, other)
  <2>1. ASSUME NEW m \in Nonconformities, Cap!Create(m) \/ Cap!Delete(m) PROVE FALSE
    <3>1. Cap!Row("Open", Cap!NoPlan).status = "Open" /\ Cap!Deleted.status = "deleted"
      BY CapNothing, CapPlan, CapRow DEF Cap!Statuses
    <3> QED BY <2>1, <3>1, CapTyped DEF Cap!Create, Cap!Delete
  <2>2. ASSUME NEW q \in Requests, Cap!Step(q), ~\E other \in BOOLEAN : Cap!Save(q, other) PROVE nc' = nc
    BY <2>2 DEF Cap!Step, Cap!OpenForm, Cap!PostStatus, Cap!Post, Cap!Update, Cap!Lock, Cap!Abandon
  <2>3. nc' # nc
    OBVIOUS
  <2> QED BY <2>1, <2>2, <2>3 DEF Cap!Next, Cap!vars
<1> DEFINE r == capReq[q]
<1>2. PICK m \in Nonconformities, new \in Cap!Rows :
        /\ m = r.n /\ Cap!InFlight(q) /\ r.pc \in {"save", "patch", "mint"}
        /\ nc' = [nc EXCEPT ![m] = new]
        /\ ~Cap!Exists(m) => new = nc[m]
        /\ Cap!Exists(m) =>
             /\ new.status = Cap!Changed(nc[m].status, r.was.status, r.now.status)
             /\ nc[m] = r.was => new.plan = r.now.plan
  BY <1>1, CapSaved
<1>3. m = n /\ Cap!Exists(n) /\ nc'[n] = new
  BY <1>2, CapTyped
<1>4. nc[n] = r.was
  BY <1>2, <1>3, SavedAsBrought
<1>5. new.status = r.now.status /\ new.plan = r.now.plan
  BY <1>2, <1>3, <1>4 DEF Cap!Changed
<1>6. CapSlot(r)
  BY DEF CapInv, CapSlots
<1> QED BY <1>2, <1>3, <1>4, <1>5, <1>6 DEF CapSlot

LEMMA PlansWithin == GovernedSpec => Cap!Spec
<1>1. GovernedInit => Cap!Init
  BY DEF GovernedInit
<1>2. [GovernedNext]_governed => [Cap!Next]_(Cap!vars)
  BY DEF GovernedNext, governed, cap, Cap!vars
<1> QED BY <1>1, <1>2, PTL DEF GovernedSpec, Cap!Spec

\* A corrective action plan has a number of its own unless one that was taken off a
\* record comes back, its status and that of its nonconformity agree unless one was set
\* by hand or requests overlapped, and nothing is closed on an unverified plan
\* (updateRecord, applyCapSideEffects, assertClosable, saveRecord, deleteRecord).
THEOREM PlansDriveRecords == GovernedSpec => CapDrives
<1>1. CapInv => Cap!CapIdsUnique /\ Cap!CapAgrees
  BY DEF CapInv, CapNumbered
<1>2. ASSUME CapInv, [Cap!Next]_(Cap!vars)
      PROVE  [\A n \in Nonconformities :
                nc[n].status # "Closed" /\ nc'[n].status = "Closed" =>
                  nc'[n].plan.verified \/ n \in overlap]_(Cap!vars)
  BY <1>2, ClosesVerified
<1> QED BY <1>1, <1>2, InitCapInv, NextCapInv, PlansWithin, PTL
        DEF Cap!Spec, CapDrives, Cap!CapDrives, Cap!ClosedVerified

-----------------------------------------------------------------------------
(* The review of a document.  A copy of a version that a form or a handler holds is     *)
(* escalated in full if it is in the final stage; as long as no other copy is held at   *)
(* the same time it has every sign-off the version has.                                 *)

RevPoints ==
  {"idle", "form", "edit", "amend", "fork", "submit", "sign", "escalate", "review", "publish", "publishSave",
   "reconfirm", "plain"}

RevForms ==
  [pc : RevPoints, v : Drafts, was : Rev!Statuses, now : Rev!Rows, by : SUBSET Reviewers]

InFull(bag, exempt) == bag.stage = "final" => bag.reviewers \subseteq bag.signed \cup exempt

Unpublished == {"edit", "submit", "sign", "escalate", "review", "publish", "publishSave"}

\* What the status of a copy may be, by what the handler does with it.
RevStatus(s) ==
  /\ s.now.status # "absent"
  /\ s.pc # "submit" /\ s.now.status = "Under Review" => s.was = "Under Review"
  /\ s.pc = "review" => s.now.status \in {"Approved", "Revision Requested", "Rejected"}
  /\ s.pc \in Unpublished => s.was # "Published"

RevCopy(s) ==
  /\ Rev!Exists(s.v)
  /\ s.by \subseteq s.now.bag.signed
  /\ InFull(s.now.bag, excused[s.v])
  /\ s.v \notin reviewed /\ s.pc # "plain" => own[s.v] \subseteq s.now.bag.signed
  /\ s.v \notin reviewed /\ s.pc = "reconfirm" => s.now.bag = doc[s.v].bag

RevCopies == \A q \in Requests : reviewReq[q].pc # "idle" => RevStatus(reviewReq[q]) /\ RevCopy(reviewReq[q])

RevAlone ==
  \A p, q \in Requests :
    /\ p # q /\ reviewReq[p].pc # "idle" /\ reviewReq[q].pc # "idle"
    /\ reviewReq[p].v = reviewReq[q].v
    => reviewReq[p].v \in reviewed

UnsignedBefore == \A v \in Drafts : ~Rev!Exists(v) => own[v] = {}

RevInv == Rev!TypeOK /\ RevCopies /\ RevAlone /\ UnsignedBefore /\ Rev!SignoffsCounted

OtherCopies(q) == \A p \in Requests : p # q => reviewReq'[p] = reviewReq[p]

LEMMA RevTyped ==
  ASSUME RevInv
  PROVE  /\ doc \in [Drafts -> Rev!Rows] /\ own \in [Drafts -> SUBSET Reviewers]
         /\ excused \in [Drafts -> SUBSET Reviewers] /\ reviewed \subseteq Drafts
         /\ forms \in 0..MaxForms /\ reviewReq \in [Requests -> RevForms]
BY DEF RevInv, Rev!TypeOK, RevForms, RevPoints

LEMMA RevBag ==
  ASSUME NEW listed \in SUBSET Reviewers, NEW signed \in SUBSET Reviewers,
         NEW stage \in {"absent", "null", "final"}
  PROVE  /\ Rev!Bag(listed, signed, stage) \in Rev!Bags
         /\ Rev!Bag(listed, signed, stage).reviewers = listed
         /\ Rev!Bag(listed, signed, stage).signed = signed
         /\ Rev!Bag(listed, signed, stage).stage = stage
BY DEF Rev!Bag, Rev!Bags

LEMMA RevRow ==
  ASSUME NEW st \in Rev!Statuses, NEW bag \in Rev!Bags
  PROVE  Rev!Row(st, bag) \in Rev!Rows /\ Rev!Row(st, bag).status = st /\ Rev!Row(st, bag).bag = bag
BY DEF Rev!Row, Rev!Rows

LEMMA RevForm ==
  ASSUME NEW pc \in RevPoints, NEW v \in Drafts, NEW was \in Rev!Statuses, NEW now \in Rev!Rows,
         NEW by \in SUBSET Reviewers
  PROVE  /\ Rev!Slot(pc, v, was, now, by) \in RevForms
         /\ Rev!Slot(pc, v, was, now, by).pc = pc /\ Rev!Slot(pc, v, was, now, by).v = v
         /\ Rev!Slot(pc, v, was, now, by).was = was /\ Rev!Slot(pc, v, was, now, by).now = now
         /\ Rev!Slot(pc, v, was, now, by).by = by
BY DEF Rev!Slot, RevForms

LEMMA RevNothing ==
  /\ Rev!NoBag \in Rev!Bags /\ Rev!NoBag.reviewers = {} /\ Rev!NoBag.signed = {}
  /\ Rev!NoBag.stage = "absent"
  /\ Rev!Absent \in Rev!Rows /\ Rev!Absent.status = "absent" /\ Rev!Absent.bag = Rev!NoBag
  /\ Rev!Idle \in RevForms /\ Rev!Idle.pc = "idle"
<1>1. /\ Rev!NoBag \in Rev!Bags /\ Rev!NoBag.reviewers = {} /\ Rev!NoBag.signed = {}
      /\ Rev!NoBag.stage = "absent"
  BY RevBag DEF Rev!NoBag
<1>2. Rev!Absent \in Rev!Rows /\ Rev!Absent.status = "absent" /\ Rev!Absent.bag = Rev!NoBag
  BY <1>1, RevRow DEF Rev!Absent, Rev!Statuses
<1>3. Rev!Idle \in RevForms /\ Rev!Idle.pc = "idle"
  <2>1. "idle" \in RevPoints /\ FirstDraft \in Drafts /\ "absent" \in Rev!Statuses /\ {} \in SUBSET Reviewers
    BY GovernedAssumption DEF RevPoints, Rev!Statuses
  <2> QED BY <1>2, <2>1, RevForm DEF Rev!Idle
<1> QED BY <1>1, <1>2, <1>3

LEMMA InitRevInv == ASSUME Rev!Init PROVE RevInv
<1>1. PICK listed \in SUBSET Reviewers :
        doc = [v \in Drafts |-> IF v = FirstDraft THEN Rev!Row("Draft", Rev!Bag(listed, {}, "absent"))
                                ELSE Rev!Absent]
  BY DEF Rev!Init
<1>2. PICK bag \in Rev!Bags :
        bag = Rev!Bag(listed, {}, "absent") /\ bag.signed = {} /\ bag.stage = "absent"
  BY RevBag
<1>3. PICK first \in Rev!Rows :
        /\ first = Rev!Row("Draft", Rev!Bag(listed, {}, "absent"))
        /\ first.status = "Draft" /\ first.bag.signed = {} /\ first.bag.stage = "absent"
  <2>1. "Draft" \in Rev!Statuses
    BY DEF Rev!Statuses
  <2>2. /\ Rev!Row("Draft", bag) \in Rev!Rows /\ Rev!Row("Draft", bag).status = "Draft"
        /\ Rev!Row("Draft", bag).bag = bag
    BY <2>1, RevRow
  <2> QED BY <1>2, <2>2
<1>4. /\ doc \in [Drafts -> Rev!Rows]
      /\ \A v \in Drafts : doc[v].bag.stage = "absent"
  BY <1>1, <1>3, RevNothing
<1>5. Rev!TypeOK
  BY <1>4, RevNothing, GovernedAssumption DEF Rev!Init, Rev!TypeOK, RevForms, RevPoints
<1>6. RevCopies /\ RevAlone /\ UnsignedBefore
  BY RevNothing DEF Rev!Init, RevCopies, RevAlone, UnsignedBefore
<1>7. Rev!SignoffsCounted
  BY <1>4 DEF Rev!Init, Rev!SignoffsCounted, Rev!EscalatedInFull, Rev!SignoffsKept
<1> QED BY <1>5, <1>6, <1>7 DEF RevInv

LEMMA RevMoved ==
  ASSUME RevInv, NEW q \in Requests, NEW s \in RevForms, Rev!Move(q, s)
  PROVE  reviewReq' \in [Requests -> RevForms] /\ reviewReq'[q] = s /\ OtherCopies(q)
BY RevTyped DEF Rev!Move, OtherCopies

\* A copy is taken.
LEMMA RevTakes ==
  ASSUME RevInv, NEW q \in Requests, NEW s \in RevForms, reviewReq[q].pc = "idle", Rev!Move(q, s),
         Rev!Meet(q, s.v), UNCHANGED <<doc, own, excused>>, forms' \in 0..MaxForms,
         Rev!Exists(s.v), RevStatus(s), s.by \subseteq s.now.bag.signed,
         InFull(s.now.bag, excused[s.v]),
         s.pc # "plain" => doc[s.v].bag.signed \subseteq s.now.bag.signed,
         s.pc = "reconfirm" => s.now.bag = doc[s.v].bag
  PROVE  RevInv'
<1>1. reviewReq' \in [Requests -> RevForms] /\ reviewReq'[q] = s /\ OtherCopies(q)
  BY RevMoved
<1>2. /\ s.v \in Drafts /\ reviewed \subseteq reviewed' /\ reviewed' \subseteq Drafts
      /\ \A p \in Requests : p # q /\ reviewReq[p].pc # "idle" /\ reviewReq[p].v = s.v => s.v \in reviewed'
  BY RevTyped DEF Rev!Meet, RevForms
<1>3. Rev!TypeOK'
  BY <1>1, <1>2 DEF RevInv, Rev!TypeOK, RevForms, RevPoints
<1>4. RevCopies'
  <2>1. s.v \notin reviewed => own[s.v] \subseteq doc[s.v].bag.signed
    BY <1>2 DEF RevInv, Rev!SignoffsCounted, Rev!SignoffsKept
  <2>2. RevCopy(s)'
    BY <1>2, <2>1 DEF RevCopy, Rev!Exists, InFull
  <2>3. ASSUME NEW p \in Requests, p # q, reviewReq'[p].pc # "idle"
        PROVE  RevStatus(reviewReq'[p]) /\ RevCopy(reviewReq[p])'
    <3>1. reviewReq'[p] = reviewReq[p] /\ RevStatus(reviewReq[p]) /\ RevCopy(reviewReq[p])
      BY <1>1, <2>3 DEF RevInv, RevCopies, OtherCopies
    <3> QED BY <1>2, <3>1 DEF RevCopy, Rev!Exists, InFull
  <2> QED BY <1>1, <2>2, <2>3 DEF RevCopies, RevStatus, RevCopy, Rev!Exists, InFull
<1>5. RevAlone'
  BY <1>1, <1>2 DEF RevInv, RevAlone, OtherCopies
<1>6. UnsignedBefore' /\ Rev!SignoffsCounted'
  BY <1>2 DEF RevInv, UnsignedBefore, Rev!Exists, Rev!SignoffsCounted, Rev!EscalatedInFull, Rev!SignoffsKept
<1> QED BY <1>3, <1>4, <1>5, <1>6 DEF RevInv

LEMMA RevBegins ==
  ASSUME RevInv, NEW q \in Requests, NEW pc \in RevPoints \ {"idle"}, NEW v \in Drafts,
         NEW now \in Rev!Rows, NEW by \in SUBSET Reviewers,
         Rev!Take(q, pc, v, now, by), forms' \in 0..MaxForms,
         now.status # "absent",
         pc # "submit" /\ now.status = "Under Review" => doc[v].status = "Under Review",
         pc = "review" => now.status \in {"Approved", "Revision Requested", "Rejected"},
         pc \in Unpublished => doc[v].status # "Published",
         by \subseteq now.bag.signed, InFull(now.bag, excused[v]),
         pc # "plain" => doc[v].bag.signed \subseteq now.bag.signed,
         pc = "reconfirm" => now.bag = doc[v].bag
  PROVE  RevInv'
<1> DEFINE f == Rev!Slot(pc, v, doc[v].status, now, by)
<1>1. PICK was \in Rev!Statuses : was = doc[v].status
  BY RevTyped DEF Rev!Rows
<1>2. f \in RevForms /\ f.pc = pc /\ f.v = v /\ f.was = doc[v].status /\ f.now = now /\ f.by = by
  <2>1. pc \in RevPoints
    OBVIOUS
  <2>2. f = Rev!Slot(pc, v, was, now, by)
    BY <1>1
  <2> HIDE DEF f
  <2>3. LET g == Rev!Slot(pc, v, was, now, by) IN
        g \in RevForms /\ g.pc = pc /\ g.v = v /\ g.was = was /\ g.now = now /\ g.by = by
    BY <2>1 DEF Rev!Slot, RevForms
  <2> QED BY <1>1, <2>2, <2>3
<1>3. /\ reviewReq[q].pc = "idle" /\ Rev!Exists(v) /\ Rev!Move(q, f) /\ Rev!Meet(q, v)
      /\ UNCHANGED <<doc, own, excused>>
  BY DEF Rev!Take
<1> HIDE DEF f
<1>4. PICK s \in RevForms : /\ s = f /\ s.pc = pc /\ s.v = v /\ s.was = doc[v].status
                            /\ s.now = now /\ s.by = by
  BY <1>2
<1>5. RevStatus(s)
  BY <1>4 DEF RevStatus
<1> QED BY <1>3, <1>4, <1>5, RevTakes

LEMMA RevListed ==
  ASSUME RevInv, NEW v \in Drafts
  PROVE  /\ doc[v] \in Rev!Rows /\ doc[v].bag \in Rev!Bags /\ InFull(doc[v].bag, excused[v])
         /\ doc[v].bag.reviewers \in SUBSET Reviewers /\ doc[v].bag.signed \in SUBSET Reviewers
         /\ doc[v].bag.stage \in {"absent", "null", "final"}
<1>1. doc[v] \in Rev!Rows /\ doc[v].bag \in Rev!Bags
  BY RevTyped DEF Rev!Rows
<1>2. InFull(doc[v].bag, excused[v])
  BY DEF RevInv, Rev!SignoffsCounted, Rev!EscalatedInFull, InFull
<1> QED BY <1>1, <1>2 DEF Rev!Bags

\* A handler that takes the row as it is, but for its status.
LEMMA RevKeeps ==
  ASSUME RevInv, NEW q \in Requests, NEW v \in Drafts, NEW st \in Rev!Statuses \ {"absent"},
         NEW pc \in {"submit", "review", "publish"},
         Rev!Begin(q, pc, v, Rev!Row(st, doc[v].bag), {}),
         doc[v].status # "Published", st = "Under Review" => pc = "submit",
         pc = "review" => st \in {"Approved", "Revision Requested", "Rejected"}
  PROVE  RevInv'
<1>1. PICK now \in Rev!Rows : now = Rev!Row(st, doc[v].bag) /\ now.status = st /\ now.bag = doc[v].bag
  <2>1. PICK bag \in Rev!Bags : bag = doc[v].bag
    BY RevListed
  <2>2. st \in Rev!Statuses
    OBVIOUS
  <2>3. Rev!Row(st, bag) \in Rev!Rows /\ Rev!Row(st, bag).status = st /\ Rev!Row(st, bag).bag = bag
    BY <2>2, RevRow
  <2> QED BY <2>1, <2>3
<1>2. Rev!Take(q, pc, v, now, {}) /\ forms' \in 0..MaxForms
  BY <1>1, RevTyped DEF Rev!Begin
<1>3. pc \in RevPoints \ {"idle"} /\ pc # "plain" /\ pc # "reconfirm"
  BY DEF RevPoints
<1>4. PICK by \in SUBSET Reviewers : by = {}
  OBVIOUS
<1> QED BY <1>1, <1>2, <1>3, <1>4, RevListed, RevBegins

LEMMA RevOpens == ASSUME RevInv, NEW q \in Requests, NEW v \in Drafts, Rev!OpenForm(q, v) PROVE RevInv'
<1>1. Rev!Take(q, "form", v, doc[v], {}) /\ forms < MaxForms /\ forms' = forms + 1
  BY DEF Rev!OpenForm
<1>2. forms' \in 0..MaxForms
  BY <1>1, RevTyped, GovernedAssumption
<1>3. PICK now \in Rev!Rows : now = doc[v]
  BY RevListed
<1>4. now.status # "absent"
  BY <1>1, <1>3 DEF Rev!Take, Rev!Exists
<1>5. "form" \in RevPoints \ {"idle"} /\ "form" \notin Unpublished
  BY DEF RevPoints, Unpublished
<1>6. PICK by \in SUBSET Reviewers : by = {}
  OBVIOUS
<1> QED BY <1>6, <1>1, <1>2, <1>3, <1>4, <1>5, RevListed, RevBegins

LEMMA RevLoads ==
  ASSUME RevInv, NEW q \in Requests, NEW v \in Drafts,
         \/ Rev!LoadSubmit(q, v) \/ Rev!LoadPublish(q, v)
         \/ \E decision \in {"Approved", "Revision Requested", "Rejected"} : Rev!LoadReview(q, v, decision)
  PROVE  RevInv'
<1>1. {"Under Review", "Published", "Approved", "Revision Requested", "Rejected"}
        \subseteq Rev!Statuses \ {"absent"}
  BY DEF Rev!Statuses
<1>2. CASE Rev!LoadSubmit(q, v)
  BY <1>1, <1>2, RevKeeps DEF Rev!LoadSubmit
<1>3. CASE Rev!LoadPublish(q, v)
  BY <1>1, <1>3, RevKeeps DEF Rev!LoadPublish
<1>4. ASSUME NEW decision \in {"Approved", "Revision Requested", "Rejected"}, Rev!LoadReview(q, v, decision)
      PROVE  RevInv'
  BY <1>1, <1>4, RevKeeps DEF Rev!LoadReview
<1> QED BY <1>2, <1>3, <1>4

LEMMA RevSigns ==
  ASSUME RevInv, NEW q \in Requests, NEW v \in Drafts, NEW u \in Reviewers, NEW changes \in BOOLEAN,
         Rev!LoadSign(q, v, u, changes)
  PROVE  RevInv'
<1> DEFINE bag == doc[v].bag
           st == IF changes THEN "Revision Requested" ELSE "Under Review"
           stage == IF changes THEN "null" ELSE bag.stage
<1>1. /\ doc[v].status = "Under Review"
      /\ Rev!Begin(q, "sign", v, Rev!Row(st, Rev!Bag(bag.reviewers, bag.signed \cup {u}, stage)), {u})
  BY DEF Rev!LoadSign, Rev!WithSignoff, Rev!InInitialReview
<1>2. PICK signed \in SUBSET Reviewers : signed = bag.signed \cup {u}
  BY RevListed
<1>3. stage \in {"absent", "null", "final"} /\ bag.reviewers \in SUBSET Reviewers
  BY RevListed
<1>4. PICK new \in Rev!Bags : /\ new = Rev!Bag(bag.reviewers, signed, stage)
                              /\ new.reviewers = bag.reviewers /\ new.signed = signed /\ new.stage = stage
  BY <1>2, <1>3, RevBag
<1>5. st \in Rev!Statuses /\ st # "absent"
  BY DEF Rev!Statuses
<1>6. PICK now \in Rev!Rows : now = Rev!Row(st, new) /\ now.status = st /\ now.bag = new
  BY <1>5, RevRow
<1>7. Rev!Take(q, "sign", v, now, {u}) /\ forms' \in 0..MaxForms
  BY <1>1, <1>2, <1>4, <1>6, RevTyped DEF Rev!Begin
<1>8. InFull(now.bag, excused[v])
  BY <1>2, <1>4, <1>6, RevListed DEF InFull
<1>9. "sign" \in RevPoints \ {"idle"} /\ {u} \in SUBSET Reviewers
  BY DEF RevPoints
<1>10. {u} \subseteq now.bag.signed /\ doc[v].bag.signed \subseteq now.bag.signed
  BY <1>2, <1>4, <1>6
<1> QED BY <1>1, <1>5, <1>6, <1>7, <1>8, <1>9, <1>10, RevBegins

LEMMA RevEscalates ==
  ASSUME RevInv, NEW q \in Requests, NEW v \in Drafts, Rev!LoadEscalate(q, v)
  PROVE  RevInv'
<1> DEFINE bag == doc[v].bag
<1>1. /\ doc[v].status = "Under Review" /\ bag.reviewers \subseteq bag.signed
      /\ Rev!Begin(q, "escalate", v, Rev!Row("Under Review", Rev!Bag(bag.reviewers, bag.signed, "final")), {})
  BY DEF Rev!LoadEscalate, Rev!AllSigned, Rev!InInitialReview
<1>2. PICK new \in Rev!Bags : /\ new = Rev!Bag(bag.reviewers, bag.signed, "final")
                              /\ new.reviewers = bag.reviewers /\ new.signed = bag.signed
  BY RevListed, RevBag
<1>3. PICK now \in Rev!Rows : now = Rev!Row("Under Review", new) /\ now.status = "Under Review" /\ now.bag = new
  <2>1. "Under Review" \in Rev!Statuses
    BY DEF Rev!Statuses
  <2> QED BY <2>1, RevRow
<1>4. Rev!Take(q, "escalate", v, now, {}) /\ forms' \in 0..MaxForms
  BY <1>1, <1>2, <1>3, RevTyped DEF Rev!Begin
<1>5. InFull(now.bag, excused[v]) /\ doc[v].bag.signed \subseteq now.bag.signed
  BY <1>1, <1>2, <1>3 DEF InFull
<1>6. "escalate" \in RevPoints \ {"idle"}
  BY DEF RevPoints
<1>7. PICK by \in SUBSET Reviewers : by = {}
  OBVIOUS
<1> QED BY <1>7, <1>1, <1>3, <1>4, <1>5, <1>6, RevBegins

LEMMA RevReconfirms ==
  ASSUME RevInv, NEW q \in Requests, NEW v \in Drafts, Rev!LoadReconfirm(q, v)
  PROVE  RevInv'
<1>1. doc[v].status = "Published" /\ Rev!Begin(q, "reconfirm", v, doc[v], {})
  BY DEF Rev!LoadReconfirm
<1>2. PICK now \in Rev!Rows : now = doc[v]
  BY RevListed
<1>3. Rev!Take(q, "reconfirm", v, now, {}) /\ forms' \in 0..MaxForms
  BY <1>1, <1>2, RevTyped DEF Rev!Begin
<1>4. "reconfirm" \in RevPoints \ {"idle"} /\ "reconfirm" \notin Unpublished
  BY DEF RevPoints, Unpublished
<1>5. PICK by \in SUBSET Reviewers : by = {}
  OBVIOUS
<1> QED BY <1>5, <1>1, <1>2, <1>3, <1>4, RevListed, RevBegins

LEMMA RevPlains == ASSUME RevInv, NEW q \in Requests, NEW v \in Drafts, Rev!LoadPlain(q, v) PROVE RevInv'
<1>1. Rev!Begin(q, "plain", v, Rev!Row("Draft", Rev!NoBag), {})
  BY DEF Rev!LoadPlain
<1>2. PICK now \in Rev!Rows : now = Rev!Row("Draft", Rev!NoBag) /\ now.status = "Draft" /\ now.bag = Rev!NoBag
  <2>1. "Draft" \in Rev!Statuses
    BY DEF Rev!Statuses
  <2> QED BY <2>1, RevNothing, RevRow
<1>3. Rev!Take(q, "plain", v, now, {}) /\ forms' \in 0..MaxForms
  BY <1>1, <1>2, RevTyped DEF Rev!Begin
<1>4. "plain" \in RevPoints \ {"idle"} /\ "plain" \notin Unpublished /\ InFull(now.bag, excused[v])
  BY <1>2, RevNothing DEF RevPoints, Unpublished, InFull
<1>5. PICK by \in SUBSET Reviewers : by = {}
  OBVIOUS
<1> QED BY <1>5, <1>2, <1>3, <1>4, RevBegins

\* A step that leaves what the versions say, and at most ends what q does.
LEMMA RevLeaves ==
  ASSUME RevInv, NEW q \in Requests, NEW s \in RevForms, Rev!Move(q, s),
         s.pc = "idle" \/ (s = [reviewReq[q] EXCEPT !.pc = "publishSave"] /\ reviewReq[q].pc = "publish"),
         doc' \in [Drafts -> Rev!Rows],
         \A v \in Drafts : doc'[v].bag = doc[v].bag /\ (doc'[v].status = "absent" <=> doc[v].status = "absent"),
         UNCHANGED <<own, excused, reviewed, forms>>
  PROVE  RevInv'
<1>1. reviewReq' \in [Requests -> RevForms] /\ reviewReq'[q] = s /\ OtherCopies(q)
  BY RevMoved
<1>2. reviewReq[q] \in RevForms /\ \A p \in Requests : reviewReq[p].v \in Drafts
  BY RevTyped DEF RevForms
<1>3. s.pc = "idle" \/ /\ reviewReq[q].pc = "publish" /\ s.pc = "publishSave" /\ s.v = reviewReq[q].v
                       /\ s.was = reviewReq[q].was /\ s.now = reviewReq[q].now /\ s.by = reviewReq[q].by
  BY <1>2 DEF RevForms
<1>4. Rev!TypeOK'
  BY <1>1 DEF RevInv, Rev!TypeOK, RevForms, RevPoints
<1>5. ASSUME NEW p \in Requests,
             RevCopy(reviewReq[p])
      PROVE  RevCopy(reviewReq[p])' \/ reviewReq'[p] # reviewReq[p]
  BY <1>2, <1>5 DEF RevCopy, Rev!Exists, InFull
<1>6. RevCopies'
  <2>1. ASSUME NEW p \in Requests, p # q, reviewReq'[p].pc # "idle"
        PROVE  RevStatus(reviewReq'[p]) /\ RevCopy(reviewReq[p])'
    <3>1. reviewReq'[p] = reviewReq[p] /\ RevStatus(reviewReq[p]) /\ RevCopy(reviewReq[p])
      BY <1>1, <2>1 DEF RevInv, RevCopies, OtherCopies
    <3> QED BY <1>5, <3>1
  <2>2. ASSUME s.pc # "idle" PROVE RevStatus(s) /\ RevCopy(s)'
    <3>1. RevStatus(reviewReq[q]) /\ RevCopy(reviewReq[q])
      BY <1>3, <2>2 DEF RevInv, RevCopies
    <3>2. RevStatus(s)
      BY <1>3, <2>2, <3>1 DEF RevStatus, Unpublished
    <3>3. RevCopy(s)'
      BY <1>2, <1>3, <2>2, <3>1 DEF RevCopy, Rev!Exists, InFull
    <3> QED BY <3>2, <3>3
  <2>3. RevCopy(reviewReq[q])' <=> RevCopy(s)'
    BY <1>1 DEF RevCopy, Rev!Exists
  <2> QED BY <1>1, <2>1, <2>2, <2>3 DEF RevCopies
<1>7. RevAlone'
  BY <1>1, <1>3 DEF RevInv, RevAlone, OtherCopies
<1>8. UnsignedBefore' /\ Rev!SignoffsCounted'
  BY DEF RevInv, UnsignedBefore, Rev!Exists, Rev!SignoffsCounted, Rev!EscalatedInFull, Rev!SignoffsKept
<1> QED BY <1>4, <1>6, <1>7, <1>8 DEF RevInv

\* A step that writes the status of one version, if at all, and ends.
LEMMA RevStatusWritten ==
  ASSUME RevInv, NEW q \in Requests, NEW s \in RevForms, Rev!Move(q, s),
         s.pc = "idle" \/ (s = [reviewReq[q] EXCEPT !.pc = "publishSave"] /\ reviewReq[q].pc = "publish"),
         NEW v \in Drafts, Rev!Exists(v), NEW st \in Rev!Statuses \ {"absent"},
         doc' = [doc EXCEPT ![v].status = st],
         UNCHANGED <<own, excused, reviewed, forms>>
  PROVE  RevInv'
<1>1. doc \in [Drafts -> Rev!Rows] /\ doc[v] \in Rev!Rows
  BY RevTyped
<1>2. [doc[v] EXCEPT !.status = st] \in Rev!Rows /\ [doc[v] EXCEPT !.status = st].bag = doc[v].bag
      /\ [doc[v] EXCEPT !.status = st].status = st
  BY <1>1 DEF Rev!Rows
<1>3. doc' \in [Drafts -> Rev!Rows]
  BY <1>1, <1>2
<1>4. \A w \in Drafts : doc'[w].bag = doc[w].bag /\ (doc'[w].status = "absent" <=> doc[w].status = "absent")
  BY <1>1, <1>2 DEF Rev!Exists
<1> QED BY <1>3, <1>4, RevLeaves

LEMMA RevEnding == ASSUME RevInv, NEW q \in Requests, Rev!Abandon(q) PROVE RevInv'
<1>1. Rev!Move(q, Rev!Idle) /\ UNCHANGED <<doc, own, excused, reviewed, forms>>
  BY DEF Rev!Abandon
<1>2. doc' \in [Drafts -> Rev!Rows]
  BY <1>1, RevTyped
<1>3. PICK s \in RevForms : s = Rev!Idle /\ s.pc = "idle"
  BY RevNothing
<1> QED BY <1>1, <1>2, <1>3, RevLeaves

LEMMA RevSupersedes ==
  ASSUME RevInv, NEW q \in Requests, Rev!NoneToSupersede(q) \/ \E p \in Drafts : Rev!Supersede(q, p)
  PROVE  RevInv'
<1> DEFINE f == [reviewReq[q] EXCEPT !.pc = "publishSave"]
<1>1. reviewReq[q] \in RevForms
  BY RevTyped
<1>2. PICK s \in RevForms : s = f
  BY <1>1 DEF RevForms, RevPoints
<1>3. CASE Rev!NoneToSupersede(q)
  <2>1. reviewReq[q].pc = "publish" /\ Rev!Move(q, s) /\ UNCHANGED <<doc, own, excused, reviewed, forms>>
    BY <1>2, <1>3 DEF Rev!NoneToSupersede
  <2>2. doc' \in [Drafts -> Rev!Rows]
    BY <2>1, RevTyped
  <2> QED BY <1>2, <2>1, <2>2, RevLeaves
<1>4. ASSUME NEW p \in Drafts, Rev!Supersede(q, p) PROVE RevInv'
  <2>1. /\ reviewReq[q].pc = "publish" /\ Rev!Move(q, s) /\ doc[p].status = "Published"
        /\ doc' = [doc EXCEPT ![p].status = "Superseded"] /\ UNCHANGED <<own, excused, reviewed, forms>>
    BY <1>2, <1>4 DEF Rev!Supersede
  <2>2. Rev!Exists(p) /\ "Superseded" \in Rev!Statuses \ {"absent"}
    BY <2>1 DEF Rev!Exists, Rev!Statuses
  <2> QED BY <1>2, <2>1, <2>2, RevStatusWritten
<1> QED BY <1>3, <1>4

LEMMA RevHolds ==
  ASSUME RevInv, NEW q \in Requests, reviewReq[q].pc # "idle"
  PROVE  /\ reviewReq[q] \in RevForms /\ reviewReq[q].v \in Drafts /\ reviewReq[q].now \in Rev!Rows
         /\ reviewReq[q].now.status \in Rev!Statuses /\ reviewReq[q].now.bag \in Rev!Bags
         /\ reviewReq[q].by \in SUBSET Reviewers
         /\ RevStatus(reviewReq[q]) /\ RevCopy(reviewReq[q])
<1>1. reviewReq[q] \in RevForms
  BY RevTyped
<1>2. RevStatus(reviewReq[q]) /\ RevCopy(reviewReq[q])
  BY DEF RevInv, RevCopies
<1> QED BY <1>1, <1>2 DEF RevForms, Rev!Rows

LEMMA RevPlainSaves ==
  ASSUME RevInv, NEW q \in Requests, Rev!SavePlain(q) \/ Rev!SaveStatusOnly(q)
  PROVE  RevInv'
<1>1. PICK v \in Drafts : v = reviewReq[q].v
  BY RevTyped DEF RevForms
<1>4. PICK s \in RevForms : s = Rev!Idle /\ s.pc = "idle"
  BY RevNothing
<1>2. CASE Rev!SavePlain(q)
  <2>1. /\ reviewReq[q].pc = "plain" /\ Rev!Move(q, Rev!Idle)
        /\ doc' = [doc EXCEPT ![v].status = Rev!Changed(doc[v].status, reviewReq[q].was, "Draft")]
        /\ UNCHANGED <<own, excused, reviewed, forms>>
    BY <1>1, <1>2 DEF Rev!SavePlain, Rev!End
  <2>2. Rev!Exists(v)
    BY <1>1, <2>1, RevHolds DEF RevCopy
  <2>3. PICK st \in Rev!Statuses \ {"absent"} : st = Rev!Changed(doc[v].status, reviewReq[q].was, "Draft")
    <3>1. doc[v].status \in Rev!Statuses
      BY RevTyped DEF Rev!Rows
    <3> QED BY <2>2, <3>1 DEF Rev!Changed, Rev!Exists, Rev!Statuses
  <2> QED BY <1>4, <2>1, <2>2, <2>3, RevStatusWritten
<1>3. CASE Rev!SaveStatusOnly(q)
  <2>1. /\ reviewReq[q].pc = "review" /\ Rev!Move(q, Rev!Idle)
        /\ doc' = [doc EXCEPT ![v].status = reviewReq[q].now.status]
        /\ UNCHANGED <<own, excused, reviewed, forms>>
    BY <1>1, <1>3 DEF Rev!SaveStatusOnly, Rev!End
  <2>2. Rev!Exists(v)
    BY <1>1, <2>1, RevHolds DEF RevCopy
  <2>3. PICK st \in Rev!Statuses \ {"absent"} : st = reviewReq[q].now.status
    BY <2>1, RevHolds DEF RevStatus
  <2> QED BY <1>4, <2>1, <2>2, <2>3, RevStatusWritten
<1> QED BY <1>2, <1>3

LEMMA RevSaves == ASSUME RevInv, NEW q \in Requests, Rev!Save(q) PROVE RevInv'
<1> DEFINE r == reviewReq[q]
<1>1. PICK v \in Drafts : v = r.v
  BY RevTyped DEF RevForms
<1>2. /\ r.pc \notin {"idle", "plain"} /\ Rev!Move(q, Rev!Idle)
      /\ doc' = [doc EXCEPT ![v] = Rev!Saved(q)]
      /\ own' = [own EXCEPT ![v] = own[v] \cup r.by] /\ UNCHANGED <<excused, reviewed, forms>>
  BY <1>1 DEF Rev!Save, Rev!End
<1>3. /\ RevStatus(r) /\ RevCopy(r) /\ r.now.bag \in Rev!Bags /\ r.now.status \in Rev!Statuses
      /\ r.by \in SUBSET Reviewers
  BY <1>2, RevHolds
<1>4. PICK row \in Rev!Rows : row = Rev!Saved(q) /\ row.bag = r.now.bag /\ row.status # "absent"
  <2>1. PICK st \in Rev!Statuses : st = Rev!Changed(doc[v].status, r.was, r.now.status) /\ st # "absent"
    <3>1. doc[v].status \in Rev!Statuses
      BY RevTyped DEF Rev!Rows
    <3> QED BY <1>1, <1>3, <3>1 DEF Rev!Changed, RevStatus, RevCopy, Rev!Exists
  <2>2. PICK bag \in Rev!Bags : bag = r.now.bag
    BY <1>3
  <2>3. Rev!Row(st, bag) \in Rev!Rows /\ Rev!Row(st, bag).status = st /\ Rev!Row(st, bag).bag = bag
    BY RevRow
  <2> QED BY <1>1, <2>1, <2>2, <2>3 DEF Rev!Saved
<1>5. reviewReq' \in [Requests -> RevForms] /\ reviewReq'[q].pc = "idle" /\ OtherCopies(q)
  BY <1>2, RevNothing, RevMoved
<1>6. /\ doc' \in [Drafts -> Rev!Rows] /\ doc'[v] = row /\ \A w \in Drafts : w # v => doc'[w] = doc[w]
      /\ own' \in [Drafts -> SUBSET Reviewers] /\ own'[v] = own[v] \cup r.by
      /\ \A w \in Drafts : w # v => own'[w] = own[w]
  BY <1>2, <1>3, <1>4, RevTyped
<1>7. Rev!TypeOK'
  BY <1>2, <1>5, <1>6 DEF RevInv, Rev!TypeOK, RevForms, RevPoints
<1>8. RevCopies'
  <2>1. ASSUME NEW p \in Requests, p # q, reviewReq'[p].pc # "idle"
        PROVE  RevStatus(reviewReq'[p]) /\ RevCopy(reviewReq[p])'
    <3>1. reviewReq'[p] = reviewReq[p] /\ RevStatus(reviewReq[p]) /\ RevCopy(reviewReq[p])
      BY <1>5, <2>1 DEF RevInv, RevCopies, OtherCopies
    <3>2. reviewReq[p].v \in Drafts /\ (reviewReq[p].v = v => v \in reviewed)
      BY <1>1, <1>2, <2>1, <3>1, RevTyped DEF RevInv, RevAlone, RevForms
    <3> QED BY <1>2, <1>4, <1>6, <3>1, <3>2 DEF RevCopy, Rev!Exists
  <2> QED BY <1>5, <2>1 DEF RevCopies
<1>9. RevAlone'
  BY <1>2, <1>5 DEF RevInv, RevAlone, OtherCopies
<1>10. UnsignedBefore'
  BY <1>4, <1>6 DEF RevInv, UnsignedBefore, Rev!Exists
<1>11. Rev!SignoffsCounted'
  <2>1. Rev!EscalatedInFull'
    BY <1>1, <1>2, <1>3, <1>4, <1>6 DEF RevInv, Rev!SignoffsCounted, Rev!EscalatedInFull, RevCopy, InFull
  <2>2. Rev!SignoffsKept'
    BY <1>1, <1>2, <1>3, <1>4, <1>6 DEF RevInv, Rev!SignoffsCounted, Rev!SignoffsKept, RevCopy
  <2> QED BY <2>1, <2>2 DEF Rev!SignoffsCounted
<1> QED BY <1>7, <1>8, <1>9, <1>10, <1>11 DEF RevInv

LEMMA RevForks == ASSUME RevInv, NEW q \in Requests, NEW d \in Drafts, Rev!Fork(q, d) PROVE RevInv'
<1> DEFINE r == reviewReq[q]
<1>1. /\ r.pc = "fork" /\ ~Rev!Exists(d) /\ Rev!Move(q, Rev!Idle)
      /\ doc' = [doc EXCEPT ![d] = Rev!Row("Draft", r.now.bag)]
      /\ excused' = [excused EXCEPT ![d] = excused[r.v]] /\ UNCHANGED <<own, reviewed, forms>>
  BY DEF Rev!Fork, Rev!End
<1>2. RevCopy(r) /\ r.now.bag \in Rev!Bags /\ r.v \in Drafts
  BY <1>1, RevHolds
<1>3. PICK row \in Rev!Rows : row = Rev!Row("Draft", r.now.bag) /\ row.bag = r.now.bag /\ row.status = "Draft"
  <2>1. PICK bag \in Rev!Bags : bag = r.now.bag
    BY <1>2
  <2>2. "Draft" \in Rev!Statuses
    BY DEF Rev!Statuses
  <2>3. Rev!Row("Draft", bag) \in Rev!Rows /\ Rev!Row("Draft", bag).status = "Draft" /\ Rev!Row("Draft", bag).bag = bag
    BY <2>2, RevRow
  <2> QED BY <2>1, <2>3
<1>4. reviewReq' \in [Requests -> RevForms] /\ reviewReq'[q].pc = "idle" /\ OtherCopies(q)
  BY <1>1, RevNothing, RevMoved
<1>5. /\ doc' \in [Drafts -> Rev!Rows] /\ doc'[d] = row /\ \A w \in Drafts : w # d => doc'[w] = doc[w]
      /\ excused' \in [Drafts -> SUBSET Reviewers] /\ excused'[d] = excused[r.v]
      /\ \A w \in Drafts : w # d => excused'[w] = excused[w]
  BY <1>1, <1>2, <1>3, RevTyped
<1>6. Rev!TypeOK'
  BY <1>1, <1>4, <1>5 DEF RevInv, Rev!TypeOK, RevForms, RevPoints
<1>7. RevCopies'
  <2>1. ASSUME NEW p \in Requests, p # q, reviewReq'[p].pc # "idle"
        PROVE  RevStatus(reviewReq'[p]) /\ RevCopy(reviewReq[p])'
    <3>1. reviewReq'[p] = reviewReq[p] /\ RevStatus(reviewReq[p]) /\ RevCopy(reviewReq[p])
      BY <1>4, <2>1 DEF RevInv, RevCopies, OtherCopies
    <3>2. reviewReq[p].v \in Drafts /\ reviewReq[p].v # d
      BY <1>1, <3>1, RevTyped DEF RevForms, RevCopy
    <3> QED BY <1>1, <1>5, <3>1, <3>2 DEF RevCopy, Rev!Exists
  <2> QED BY <1>4, <2>1 DEF RevCopies
<1>8. RevAlone'
  BY <1>1, <1>4 DEF RevInv, RevAlone, OtherCopies
<1>9. UnsignedBefore'
  BY <1>1, <1>3, <1>5 DEF RevInv, UnsignedBefore, Rev!Exists
<1>10. Rev!SignoffsCounted'
  <2>1. Rev!EscalatedInFull'
    BY <1>2, <1>3, <1>5 DEF RevInv, Rev!SignoffsCounted, Rev!EscalatedInFull, RevCopy, InFull
  <2>2. own[d] = {}
    BY <1>1 DEF RevInv, UnsignedBefore
  <2>3. Rev!SignoffsKept'
    BY <1>1, <1>5, <2>2 DEF RevInv, Rev!SignoffsCounted, Rev!SignoffsKept
  <2> QED BY <2>1, <2>3 DEF Rev!SignoffsCounted
<1> QED BY <1>6, <1>7, <1>8, <1>9, <1>10 DEF RevInv

\* The bag a form sends keeps the sign-offs the form showed, and is escalated in full
\* when the reviewers it adds are excused.
LEMMA RevEdits ==
  ASSUME RevInv, NEW q \in Requests, NEW listed \in SUBSET Reviewers, NEW to \in Rev!Statuses,
         NEW allowed \in BOOLEAN, Rev!LoadEdit(q, listed, to, allowed)
  PROVE  RevInv'
<1> DEFINE r == reviewReq[q]
<1>1. PICK v \in Drafts : v = r.v
  BY RevTyped DEF RevForms
<1>2. PICK st \in Rev!Statuses : st = doc[v].status
  BY RevTyped DEF Rev!Rows
<1>3. PICK pc \in {"edit", "amend", "fork"} : pc = Rev!EditOrFork(st, allowed) /\ (pc = "edit" => st # "Published")
  BY DEF Rev!EditOrFork
<1>4. r.pc = "form" /\ to \in {st, "Draft"}
  BY <1>1, <1>2 DEF Rev!LoadEdit
<1>5. RevCopy(r) /\ r.now.bag \in Rev!Bags
  BY <1>4, RevHolds
<1>6. PICK form \in Rev!Bags : form = r.now.bag
  BY <1>5
<1>7. PICK kept \in Rev!Bags : kept = IF pc = "fork" THEN doc[v].bag ELSE Rev!NoBag
  BY RevNothing, RevListed
<1>8. PICK sent \in Rev!Bags :
        /\ sent = Rev!Sent(form, listed, kept) /\ sent.reviewers = listed
        /\ sent.signed = (IF form.signed = {} THEN kept.signed ELSE form.signed)
        /\ sent.stage = (IF form.stage = "absent" THEN kept.stage ELSE form.stage)
  <2>1. PICK signed \in SUBSET Reviewers : signed = IF form.signed = {} THEN kept.signed ELSE form.signed
    BY DEF Rev!Bags
  <2>2. PICK stage \in {"absent", "null", "final"} : stage = IF form.stage = "absent" THEN kept.stage ELSE form.stage
    BY DEF Rev!Bags
  <2>3. /\ Rev!Bag(listed, signed, stage) \in Rev!Bags /\ Rev!Bag(listed, signed, stage).reviewers = listed
        /\ Rev!Bag(listed, signed, stage).signed = signed /\ Rev!Bag(listed, signed, stage).stage = stage
    BY RevBag
  <2> QED BY <2>1, <2>2, <2>3 DEF Rev!Sent
<1>9. PICK row \in Rev!Rows : row = Rev!Row(to, sent) /\ row.status = to /\ row.bag = sent
  BY RevRow
<1>10. PICK s \in RevForms : /\ s = Rev!Slot(pc, v, st, row, {}) /\ s.pc = pc /\ s.v = v /\ s.was = st
                             /\ s.now = row /\ s.by = {}
  <2>1. pc \in RevPoints
    BY DEF RevPoints
  <2>2. PICK by \in SUBSET Reviewers : by = {}
    OBVIOUS
  <2> QED BY <2>1, <2>2, RevForm
<1> DEFINE new == IF form.stage = "final" THEN listed \ form.reviewers ELSE listed
<1>11. /\ Rev!Move(q, s) /\ UNCHANGED <<doc, own, reviewed, forms>>
       /\ excused' = IF sent.stage # "final" THEN excused ELSE [excused EXCEPT ![v] = excused[v] \cup new]
  BY <1>1, <1>2, <1>3, <1>6, <1>7, <1>8, <1>9, <1>10 DEF Rev!LoadEdit
<1>12. reviewReq' \in [Requests -> RevForms] /\ reviewReq'[q] = s /\ OtherCopies(q)
  BY <1>11, RevMoved
<1>13. /\ excused' \in [Drafts -> SUBSET Reviewers]
       /\ \A w \in Drafts : excused[w] \subseteq excused'[w]
       /\ sent.stage = "final" => new \subseteq excused'[v]
  <2>1. new \subseteq Reviewers
    OBVIOUS
  <2> QED BY <1>11, <2>1, RevTyped
<1>14. Rev!TypeOK'
  BY <1>11, <1>12, <1>13 DEF RevInv, Rev!TypeOK, RevForms, RevPoints
<1>15. RevStatus(s)
  BY <1>1, <1>2, <1>3, <1>4, <1>5, <1>9, <1>10 DEF RevStatus, RevCopy, Rev!Exists, Unpublished
<1>16. RevCopy(s)'
  <2>1. Rev!Exists(s.v)'
    BY <1>1, <1>5, <1>10, <1>11 DEF RevCopy, Rev!Exists
  <2>2. InFull(sent, excused'[v])
    BY <1>1, <1>5, <1>6, <1>8, <1>13 DEF RevCopy, InFull
  <2>3. v \notin reviewed => own[v] \subseteq sent.signed
    BY <1>1, <1>4, <1>5, <1>6, <1>8 DEF RevCopy
  <2> QED BY <1>3, <1>9, <1>10, <1>11, <2>1, <2>2, <2>3 DEF RevCopy
<1>17. RevCopies'
  <2>1. ASSUME NEW p \in Requests, p # q, reviewReq'[p].pc # "idle"
        PROVE  RevStatus(reviewReq'[p]) /\ RevCopy(reviewReq[p])'
    <3>1. reviewReq'[p] = reviewReq[p] /\ RevStatus(reviewReq[p]) /\ RevCopy(reviewReq[p])
      BY <1>12, <2>1 DEF RevInv, RevCopies, OtherCopies
    <3>2. reviewReq[p].v \in Drafts
      BY RevTyped DEF RevForms
    <3> QED BY <1>11, <1>13, <3>1, <3>2 DEF RevCopy, Rev!Exists, InFull
  <2>2. RevCopy(reviewReq[q])' <=> RevCopy(s)'
    BY <1>12 DEF RevCopy, Rev!Exists
  <2> QED BY <1>12, <1>15, <1>16, <2>1, <2>2 DEF RevCopies
<1>18. RevAlone'
  BY <1>1, <1>4, <1>10, <1>11, <1>12 DEF RevInv, RevAlone, OtherCopies
<1>19. UnsignedBefore' /\ Rev!SignoffsCounted'
  BY <1>11, <1>13
  DEF RevInv, UnsignedBefore, Rev!Exists, Rev!SignoffsCounted, Rev!EscalatedInFull, Rev!SignoffsKept
<1> QED BY <1>14, <1>17, <1>18, <1>19 DEF RevInv

LEMMA NextRevInv == ASSUME RevInv, [Rev!Next]_(Rev!vars) PROVE RevInv'
<1>1. ASSUME NEW q \in Requests, Rev!Step(q) PROVE RevInv'
  <2>1. ASSUME NEW v \in Drafts, NEW u \in Reviewers, NEW changes \in BOOLEAN, Rev!LoadSign(q, v, u, changes)
        PROVE  RevInv'
    BY <2>1, RevSigns
  <2>2. ASSUME NEW v \in Drafts,
               \/ Rev!LoadSubmit(q, v) \/ Rev!LoadPublish(q, v)
               \/ \E decision \in {"Approved", "Revision Requested", "Rejected"} : Rev!LoadReview(q, v, decision)
        PROVE  RevInv'
    BY <2>2, RevLoads
  <2>3. ASSUME NEW v \in Drafts, Rev!OpenForm(q, v) \/ Rev!Fork(q, v) \/ Rev!LoadEscalate(q, v)
        PROVE  RevInv'
    BY <2>3, RevOpens, RevForks, RevEscalates
  <2>4. ASSUME NEW v \in Drafts, Rev!LoadReconfirm(q, v) \/ Rev!LoadPlain(q, v) PROVE RevInv'
    BY <2>4, RevReconfirms, RevPlains
  <2>5. ASSUME NEW listed \in SUBSET Reviewers, NEW to \in Rev!Statuses, NEW allowed \in BOOLEAN,
               Rev!LoadEdit(q, listed, to, allowed)
        PROVE  RevInv'
    BY <2>5, RevEdits
  <2>6. ASSUME Rev!NoneToSupersede(q) \/ \E p \in Drafts : Rev!Supersede(q, p) PROVE RevInv'
    BY <2>6, RevSupersedes
  <2>7. ASSUME Rev!SavePlain(q) \/ Rev!SaveStatusOnly(q) PROVE RevInv'
    BY <2>7, RevPlainSaves
  <2> QED BY <1>1, <2>1, <2>2, <2>3, <2>4, <2>5, <2>6, <2>7, RevSaves, RevEnding DEF Rev!Step
<1>2. CASE UNCHANGED Rev!vars
  <2>1. UNCHANGED <<doc, own, excused, reviewed, forms, reviewReq>>
    BY <1>2 DEF Rev!vars
  <2>2. Rev!TypeOK' /\ RevAlone' /\ UnsignedBefore' /\ Rev!SignoffsCounted'
    BY <2>1
    DEF RevInv, Rev!TypeOK, RevAlone, UnsignedBefore, Rev!Exists, Rev!SignoffsCounted, Rev!EscalatedInFull,
        Rev!SignoffsKept
  <2>3. RevCopies'
    BY <2>1 DEF RevInv, RevCopies, RevCopy, Rev!Exists
  <2> QED BY <2>2, <2>3 DEF RevInv
<1> QED BY <1>1, <1>2 DEF Rev!Next

LEMMA RevWriters ==
  ASSUME RevInv, [Rev!Next]_(Rev!vars), doc' # doc
  PROVE  \E q \in Requests :
           \/ Rev!Save(q) \/ Rev!SavePlain(q) \/ Rev!SaveStatusOnly(q)
           \/ \E d \in Drafts : Rev!Fork(q, d) \/ Rev!Supersede(q, d)
<1>1. PICK q \in Requests : Rev!Step(q)
  BY DEF Rev!Next, Rev!vars
<1>2. ASSUME NEW d \in Drafts,
             \/ Rev!OpenForm(q, d) \/ Rev!LoadSubmit(q, d) \/ Rev!LoadEscalate(q, d) \/ Rev!LoadPublish(q, d)
             \/ Rev!LoadReconfirm(q, d) \/ Rev!LoadPlain(q, d)
             \/ \E u \in Reviewers, changes \in BOOLEAN : Rev!LoadSign(q, d, u, changes)
             \/ \E decision \in {"Approved", "Revision Requested", "Rejected"} : Rev!LoadReview(q, d, decision)
      PROVE  doc' = doc
  BY <1>2
  DEF Rev!OpenForm, Rev!LoadSubmit, Rev!LoadEscalate, Rev!LoadPublish, Rev!LoadReconfirm, Rev!LoadPlain,
      Rev!LoadSign, Rev!LoadReview, Rev!Begin, Rev!Take
<1>3. ASSUME \/ Rev!NoneToSupersede(q) \/ Rev!Abandon(q)
             \/ \E listed \in SUBSET Reviewers, to \in Rev!Statuses, allowed \in BOOLEAN : Rev!LoadEdit(q, listed, to, allowed)
      PROVE  doc' = doc
  BY <1>3 DEF Rev!NoneToSupersede, Rev!Abandon, Rev!LoadEdit
<1> QED BY <1>1, <1>2, <1>3 DEF Rev!Step

\* Which steps write a version that exists: a save, the two of a status alone, and the
\* one that supersedes.
LEMMA RevWrites ==
  ASSUME RevInv, [Rev!Next]_(Rev!vars), NEW v \in Drafts, Rev!Exists(v), doc'[v] # doc[v],
         doc'[v].status # "Superseded"
  PROVE  \E q \in Requests :
           /\ reviewReq[q].v = v /\ reviewReq'[q] = Rev!Idle /\ reviewReq[q].pc # "idle"
           /\ \/ /\ reviewReq[q].pc \in {"edit", "amend", "submit", "sign", "escalate", "review", "publishSave", "reconfirm"}
                 /\ doc'[v].status = Rev!Changed(doc[v].status, reviewReq[q].was, reviewReq[q].now.status)
                 /\ doc'[v].bag = reviewReq[q].now.bag
              \/ /\ reviewReq[q].pc = "review" /\ doc'[v].bag = doc[v].bag
                 /\ doc'[v].status = reviewReq[q].now.status
              \/ /\ reviewReq[q].pc = "plain" /\ doc'[v].bag = doc[v].bag
                 /\ doc'[v].status = Rev!Changed(doc[v].status, reviewReq[q].was, "Draft")
<1>1. doc \in [Drafts -> Rev!Rows] /\ doc[v] \in Rev!Rows
  BY RevTyped
<1>2. doc' # doc
  OBVIOUS
<1>3. PICK q \in Requests :
        \/ Rev!Save(q) \/ Rev!SavePlain(q) \/ Rev!SaveStatusOnly(q)
        \/ \E d \in Drafts : Rev!Fork(q, d) \/ Rev!Supersede(q, d)
  BY <1>2, RevWriters
<1>4. reviewReq \in [Requests -> RevForms]
  BY RevTyped
<1>5. ASSUME NEW d \in Drafts, Rev!Fork(q, d) PROVE FALSE
  BY <1>1, <1>5 DEF Rev!Fork, Rev!End
<1>6. ASSUME NEW d \in Drafts, Rev!Supersede(q, d) PROVE FALSE
  BY <1>1, <1>6 DEF Rev!Supersede, Rev!Rows
<1>7. CASE Rev!Save(q)
  <2>1. /\ doc' = [doc EXCEPT ![reviewReq[q].v] = Rev!Saved(q)]
        /\ reviewReq' = [reviewReq EXCEPT ![q] = Rev!Idle]
        /\ reviewReq[q].pc \in {"edit", "amend", "submit", "sign", "escalate", "review", "publishSave", "reconfirm"}
    BY <1>7 DEF Rev!Save, Rev!End, Rev!Move
  <2>2. reviewReq[q].v = v /\ doc'[v] = Rev!Saved(q) /\ reviewReq'[q] = Rev!Idle
    BY <1>1, <1>4, <2>1
  <2>3. /\ Rev!Saved(q).status = Rev!Changed(doc[v].status, reviewReq[q].was, reviewReq[q].now.status)
        /\ Rev!Saved(q).bag = reviewReq[q].now.bag
    BY <2>2 DEF Rev!Saved, Rev!Row
  <2> QED BY <2>1, <2>2, <2>3
<1>8. CASE Rev!SavePlain(q)
  <2>1. /\ doc' = [doc EXCEPT ![reviewReq[q].v].status =
                     Rev!Changed(doc[reviewReq[q].v].status, reviewReq[q].was, "Draft")]
        /\ reviewReq' = [reviewReq EXCEPT ![q] = Rev!Idle] /\ reviewReq[q].pc = "plain"
    BY <1>8 DEF Rev!SavePlain, Rev!End, Rev!Move
  <2>2. reviewReq[q].v = v /\ reviewReq'[q] = Rev!Idle
    BY <1>1, <1>4, <2>1
  <2>3. /\ doc'[v].status = Rev!Changed(doc[v].status, reviewReq[q].was, "Draft")
        /\ doc'[v].bag = doc[v].bag
    BY <1>1, <2>1, <2>2 DEF Rev!Rows
  <2> QED BY <2>1, <2>2, <2>3
<1>9. CASE Rev!SaveStatusOnly(q)
  <2>1. /\ doc' = [doc EXCEPT ![reviewReq[q].v].status = reviewReq[q].now.status]
        /\ reviewReq' = [reviewReq EXCEPT ![q] = Rev!Idle] /\ reviewReq[q].pc = "review"
    BY <1>9 DEF Rev!SaveStatusOnly, Rev!End, Rev!Move
  <2>2. reviewReq[q].v = v /\ reviewReq'[q] = Rev!Idle
    BY <1>1, <1>4, <2>1
  <2>3. doc'[v].status = reviewReq[q].now.status /\ doc'[v].bag = doc[v].bag
    BY <1>1, <2>1, <2>2 DEF Rev!Rows
  <2> QED BY <2>1, <2>2, <2>3
<1> QED BY <1>3, <1>5, <1>6, <1>7, <1>8, <1>9

\* What a version begins with.
LEMMA RevFirstWritten ==
  ASSUME RevInv, [Rev!Next]_(Rev!vars), NEW v \in Drafts, ~Rev!Exists(v), doc'[v] # doc[v]
  PROVE  doc'[v].status = "Draft"
<1>1. PICK q \in Requests :
        \/ Rev!Save(q) \/ Rev!SavePlain(q) \/ Rev!SaveStatusOnly(q)
        \/ \E d \in Drafts : Rev!Fork(q, d) \/ Rev!Supersede(q, d)
  BY RevWriters
<1>2. doc \in [Drafts -> Rev!Rows]
  BY RevTyped
<1>3. ASSUME Rev!Save(q) \/ Rev!SavePlain(q) \/ Rev!SaveStatusOnly(q) PROVE FALSE
  <2>1. reviewReq[q].pc # "idle"
    BY <1>3 DEF Rev!Save, Rev!SavePlain, Rev!SaveStatusOnly
  <2>2. reviewReq[q].v # v
    BY <2>1, RevHolds DEF RevCopy
  <2> QED BY <1>2, <1>3, <2>2 DEF Rev!Save, Rev!SavePlain, Rev!SaveStatusOnly, Rev!End
<1>4. ASSUME NEW d \in Drafts, Rev!Supersede(q, d) PROVE FALSE
  BY <1>2, <1>4 DEF Rev!Supersede, Rev!Exists
<1>5. ASSUME NEW d \in Drafts, Rev!Fork(q, d) PROVE doc'[v].status = "Draft"
  BY <1>2, <1>5 DEF Rev!Fork, Rev!End, Rev!Row
<1> QED BY <1>1, <1>3, <1>4, <1>5

LEMMA EntersReview ==
  ASSUME RevInv, [Rev!Next]_(Rev!vars), NEW v \in Drafts,
         doc[v].status # "Under Review", doc'[v].status = "Under Review"
  PROVE  \E q \in Requests : reviewReq[q].pc = "submit" /\ reviewReq[q].v = v /\ reviewReq'[q] = Rev!Idle
<1>1. CASE Rev!Exists(v)
  <2>1. PICK q \in Requests :
          /\ reviewReq[q].v = v /\ reviewReq'[q] = Rev!Idle /\ reviewReq[q].pc # "idle"
          /\ \/ /\ reviewReq[q].pc \in {"edit", "amend", "submit", "sign", "escalate", "review", "publishSave", "reconfirm"}
                /\ doc'[v].status = Rev!Changed(doc[v].status, reviewReq[q].was, reviewReq[q].now.status)
             \/ reviewReq[q].pc = "review" /\ doc'[v].status = reviewReq[q].now.status
             \/ /\ reviewReq[q].pc = "plain"
                /\ doc'[v].status = Rev!Changed(doc[v].status, reviewReq[q].was, "Draft")
    BY <1>1, RevWrites
  <2>2. RevStatus(reviewReq[q])
    BY <2>1, RevHolds
  <2> QED BY <2>1, <2>2 DEF RevStatus, Rev!Changed
<1>2. CASE ~Rev!Exists(v)
  <2>1. doc'[v] # doc[v]
    OBVIOUS
  <2>2. doc'[v].status = "Draft"
    BY <1>2, <2>1, RevFirstWritten
  <2> QED BY <2>2
<1> QED BY <1>1, <1>2

\* Only a save writes what a version says.
LEMMA StaysPublished ==
  ASSUME RevInv, [Rev!Next]_(Rev!vars), NEW v \in Drafts,
         doc[v].status = "Published", doc'[v].status = "Published", doc'[v].bag # doc[v].bag
  PROVE  \E q \in Requests :
           /\ reviewReq[q].v = v /\ reviewReq'[q] = Rev!Idle
           /\ \/ reviewReq[q].pc = "amend"
              \/ reviewReq[q].was # "Published"
              \/ reviewReq[q].pc = "reconfirm" /\ v \in reviewed
<1>1. PICK q \in Requests :
        /\ reviewReq[q].v = v /\ reviewReq'[q] = Rev!Idle /\ reviewReq[q].pc # "idle"
        /\ reviewReq[q].pc \in {"edit", "amend", "submit", "sign", "escalate", "review", "publishSave", "reconfirm"}
        /\ doc'[v].bag = reviewReq[q].now.bag
  BY RevWrites DEF Rev!Exists
<1>2. RevStatus(reviewReq[q]) /\ RevCopy(reviewReq[q])
  BY <1>1, RevHolds
<1>3. CASE reviewReq[q].pc = "reconfirm"
  BY <1>1, <1>2, <1>3 DEF RevCopy
<1>4. CASE reviewReq[q].pc # "reconfirm"
  BY <1>1, <1>2, <1>4 DEF RevStatus, Unpublished
<1> QED BY <1>1, <1>3, <1>4

LEMMA ReviewWithin == GovernedSpec => Rev!Spec
<1>1. GovernedInit => Rev!Init
  BY DEF GovernedInit
<1>2. [GovernedNext]_governed => [Rev!Next]_(Rev!vars)
  BY DEF GovernedNext, governed, review, Rev!vars
<1> QED BY <1>1, <1>2, PTL DEF GovernedSpec, Rev!Spec

\* A version in the final stage of its review was signed by every reviewer it lists but
\* those an edit added later, and copies held one after the other lose no sign-off
\* (signAsReviewer, escalateReview, updateRecord, forkPublishedRecord).
THEOREM SignoffsAreCounted == GovernedSpec => []SignoffsCounted
<1>1. RevInv => SignoffsCounted
  BY DEF RevInv, SignoffsCounted
<1> QED BY <1>1, InitRevInv, NextRevInv, ReviewWithin, PTL DEF Rev!Spec

\* A review is entered by a submission alone, and what a published version says changes
\* only by an edit that found the organization allowing to amend it, by a handler that
\* read it before its publication, or by a reconfirmation that one of these overlapped
\* (signAsReviewer, escalateReview, updateRecord, reconfirmPeriodicReview).
THEOREM ReviewsProceed == GovernedSpec => ReviewSteps
<1>1. ASSUME RevInv, [Rev!Next]_(Rev!vars)
      PROVE  [\A v \in Drafts :
                doc[v].status # "Under Review" /\ doc'[v].status = "Under Review" =>
                  \E q \in Requests :
                    reviewReq[q].pc = "submit" /\ reviewReq[q].v = v /\ reviewReq'[q] = Rev!Idle]_(Rev!vars)
  BY <1>1, EntersReview
<1>2. ASSUME RevInv, [Rev!Next]_(Rev!vars)
      PROVE  [\A v \in Drafts :
                doc[v].status = "Published" /\ doc'[v].status = "Published" /\ doc'[v].bag # doc[v].bag =>
                  \E q \in Requests :
                    /\ reviewReq[q].v = v /\ reviewReq'[q] = Rev!Idle
                    /\ \/ reviewReq[q].pc = "amend"
                       \/ reviewReq[q].was # "Published"
                       \/ reviewReq[q].pc = "reconfirm" /\ v \in reviewed]_(Rev!vars)
  BY <1>2, StaysPublished
<1>3. GovernedSpec => []RevInv /\ [][Rev!Next]_(Rev!vars)
  BY InitRevInv, NextRevInv, ReviewWithin, PTL DEF Rev!Spec
<1>4. GovernedSpec => Rev!ReviewEntered
  BY <1>1, <1>3, PTL DEF Rev!ReviewEntered
<1>5. GovernedSpec => Rev!ContentFrozen
  BY <1>2, <1>3, PTL DEF Rev!ContentFrozen
<1> QED BY <1>4, <1>5 DEF ReviewSteps, Rev!ReviewSteps

-----------------------------------------------------------------------------
(* The treatment of a risk.  Each fact below is about one kind of row: the plans, the   *)
(* forecast, the cycles, the residual; the steps of the others leave it.                *)

RiskForms ==
  [pc : Risk!Points, row : Decisions \cup Plans \cup {NoRow},
   seen : Risk!PlanStatuses \cup Risk!Options \cup {"none", "fresh", "flagged", "within", "above"},
   n : 0..MaxEdits + MaxCycle, r : 0..MaxCycle, mark : BOOLEAN, rows : SUBSET Decisions]

Deciders == {"decide", "find", "flip", "insert"}
Closers == {"snapshot", "retire", "advance", "check", "baseline", "open"}

\* What a handler brings: an option, a decision, a number of edits, a cycle that can be closed.
Brings(s) ==
  /\ s.pc \in Deciders => s.seen \in Risk!Options
  /\ s.pc = "find" => s.row \in Decisions
  /\ s.pc = "forecast" => s.n \in 0..MaxEdits
  /\ s.pc \in Closers => s.n \in 1..MaxCycle /\ s.n + 1 \in 1..MaxCycle

RiskTypes == Risk!TypeOK /\ \A q \in Requests : Brings(riskReq[q])

OtherRisks(q) == \A p \in Requests : p # q => riskReq'[p] = riskReq[p]

LEMMA RiskTyped ==
  ASSUME RiskTypes
  PROVE  /\ dec \in [Decisions -> [option : Risk!Options \cup {"none"}, current : BOOLEAN]]
         /\ plan \in [Plans -> [status : Risk!PlanStatuses, current : BOOLEAN, content : 0..MaxEdits]]
         /\ forecast \in {"absent", "fresh", "flagged"} /\ basis \in 0..MaxEdits /\ edits \in 0..MaxEdits
         /\ residual \in 0..MaxCycle /\ residuals \in 0..MaxCycle /\ cycle \in 1..MaxCycle
         /\ snap \in [1..MaxCycle -> 0..Risk!Baseline]
         /\ riskReq \in [Requests -> RiskForms] /\ \A q \in Requests : Brings(riskReq[q])
BY DEF RiskTypes, Risk!TypeOK, RiskForms

\* The bounds: numbers of edits and of cycles are small.
LEMMA RiskNumbers ==
  /\ MaxEdits \in Nat /\ MaxCycle \in Nat /\ MaxCycle >= 2 /\ Risk!Baseline = MaxCycle + 1
  /\ 0..MaxEdits \subseteq 0..MaxEdits + MaxCycle /\ 0..MaxCycle \subseteq 0..MaxEdits + MaxCycle
  /\ 0..MaxCycle \subseteq 0..Risk!Baseline /\ Risk!Baseline \in 0..Risk!Baseline
BY GovernedAssumption DEF Risk!Baseline

\* A slot of the handler's own.
LEMMA RiskForm ==
  ASSUME NEW pc \in Risk!Points, NEW row \in Decisions \cup Plans \cup {NoRow},
         NEW seen \in Risk!PlanStatuses \cup Risk!Options \cup {"none", "fresh", "flagged", "within", "above"},
         NEW n \in 0..MaxEdits + MaxCycle, NEW r \in 0..MaxCycle, NEW mark \in BOOLEAN,
         NEW rows \in SUBSET Decisions
  PROVE  LET f == Risk!Slot(pc, row, seen, n, r, mark, rows) IN
         /\ f \in RiskForms /\ f.pc = pc /\ f.row = row /\ f.seen = seen /\ f.n = n /\ f.r = r
         /\ f.mark = mark /\ f.rows = rows
BY DEF Risk!Slot, RiskForms

LEMMA RiskIdle == Risk!Idle \in RiskForms /\ Risk!Idle.pc = "idle" /\ Brings(Risk!Idle)
<1>1. /\ "idle" \in Risk!Points /\ NoRow \in Decisions \cup Plans \cup {NoRow} /\ "none" \in {"none"}
      /\ 0 \in 0..MaxEdits + MaxCycle /\ 0 \in 0..MaxCycle
  BY RiskNumbers DEF Risk!Points
<1>2. Risk!Idle \in RiskForms /\ Risk!Idle.pc = "idle"
  BY <1>1 DEF Risk!Idle, Risk!Slot, RiskForms
<1> QED BY <1>2 DEF Brings, Deciders, Closers

LEMMA RiskMoved ==
  ASSUME RiskTypes, NEW q \in Requests, NEW s \in RiskForms, Risk!Move(q, s), Brings(s)
  PROVE  /\ riskReq' \in [Requests -> RiskForms] /\ riskReq'[q] = s /\ OtherRisks(q)
         /\ \A p \in Requests : Brings(riskReq'[p])
BY RiskTyped DEF Risk!Move, OtherRisks

\* A handler that goes on: its slot but for the point it is at.
LEMMA RiskGoes ==
  ASSUME RiskTypes, NEW q \in Requests, NEW pc \in Risk!Points, Risk!Goto(q, pc),
         pc \in Deciders => riskReq[q].pc \in Deciders,
         pc \in Closers => riskReq[q].pc \in Closers, pc \notin {"forecast", "find"}
  PROVE  \E s \in RiskForms :
           /\ s = [riskReq[q] EXCEPT !.pc = pc] /\ Risk!Move(q, s) /\ Brings(s)
           /\ s.pc = pc /\ s.row = riskReq[q].row /\ s.seen = riskReq[q].seen /\ s.n = riskReq[q].n
           /\ s.r = riskReq[q].r /\ s.mark = riskReq[q].mark /\ s.rows = riskReq[q].rows
<1>1. riskReq[q] \in RiskForms /\ Brings(riskReq[q])
  BY RiskTyped
<1>2. PICK s \in RiskForms :
        /\ s = [riskReq[q] EXCEPT !.pc = pc]
        /\ s.pc = pc /\ s.row = riskReq[q].row /\ s.seen = riskReq[q].seen /\ s.n = riskReq[q].n
        /\ s.r = riskReq[q].r /\ s.mark = riskReq[q].mark /\ s.rows = riskReq[q].rows
  <2> DEFINE t == [riskReq[q] EXCEPT !.pc = pc]
  <2>1. t \in RiskForms
    BY <1>1 DEF RiskForms
  <2>2. /\ t.pc = pc /\ t.row = riskReq[q].row /\ t.seen = riskReq[q].seen /\ t.n = riskReq[q].n
        /\ t.r = riskReq[q].r /\ t.mark = riskReq[q].mark /\ t.rows = riskReq[q].rows
    BY <1>1 DEF RiskForms
  <2> HIDE DEF t
  <2>3. PICK s \in RiskForms : s = t
    BY <2>1
  <2> QED BY <2>2, <2>3 DEF t
<1>3. Brings(s)
  BY <1>1, <1>2 DEF Brings
<1>4. Risk!Move(q, s)
  BY <1>2 DEF Risk!Goto
<1> QED BY <1>2, <1>3, <1>4

DecOK == dec \in [Decisions -> [option : Risk!Options \cup {"none"}, current : BOOLEAN]]
PlanOK ==
  /\ plan \in [Plans -> [status : Risk!PlanStatuses, current : BOOLEAN, content : 0..MaxEdits]]
  /\ edits \in 0..MaxEdits
ForecastOK == forecast \in {"absent", "fresh", "flagged"} /\ basis \in 0..MaxEdits
CycleOK ==
  /\ residual \in 0..MaxCycle /\ residuals \in 0..MaxCycle /\ cycle \in 1..MaxCycle
  /\ snap \in [1..MaxCycle -> 0..Risk!Baseline]
LooseOK == loose \subseteq {"closing", "spend", "flag", "forecast", "plans", "promotions", "start"}

RowsOK == DecOK /\ PlanOK /\ ForecastOK /\ CycleOK /\ LooseOK

LEMMA RiskRows == ASSUME RiskTypes PROVE RowsOK
BY DEF RiskTypes, Risk!TypeOK, RowsOK, DecOK, PlanOK, ForecastOK, CycleOK, LooseOK

LEMMA RiskTypesKept ==
  ASSUME RiskTypes, NEW q \in Requests, NEW s \in RiskForms, Risk!Move(q, s), Brings(s), RowsOK'
  PROVE  RiskTypes'
<1>1. /\ riskReq' \in [Requests -> RiskForms] /\ \A p \in Requests : Brings(riskReq'[p])
  BY RiskMoved
<1> QED BY <1>1 DEF RiskTypes, Risk!TypeOK, RiskForms, RowsOK, DecOK, PlanOK, ForecastOK, CycleOK, LooseOK

LEMMA RiskGoesOn ==
  ASSUME RiskTypes, NEW q \in Requests, NEW pc \in Risk!Points, Risk!Goto(q, pc),
         pc \in Deciders => riskReq[q].pc \in Deciders,
         pc \in Closers => riskReq[q].pc \in Closers, pc \notin {"forecast", "find"}, RowsOK'
  PROVE  RiskTypes'
BY RiskGoes, RiskTypesKept

LEMMA RiskEnds == ASSUME RiskTypes, NEW q \in Requests, Risk!Move(q, Risk!Idle), RowsOK' PROVE RiskTypes'
<1>1. PICK s \in RiskForms : s = Risk!Idle /\ Brings(s)
  BY RiskIdle
<1> QED BY <1>1, RiskTypesKept

\* A handler that begins, with what it brings.
LEMMA RiskStarts ==
  ASSUME RiskTypes, NEW q \in Requests, NEW pc \in Risk!Points, NEW row \in Decisions \cup Plans \cup {NoRow},
         NEW seen \in Risk!PlanStatuses \cup Risk!Options \cup {"none", "fresh", "flagged", "within", "above"},
         NEW n \in 0..MaxEdits + MaxCycle, NEW r \in 0..MaxCycle, NEW mark \in BOOLEAN,
         Risk!Begins(q, Risk!Slot(pc, row, seen, n, r, mark, {})),
         pc \in Deciders => seen \in Risk!Options, pc # "find",
         pc = "forecast" => n \in 0..MaxEdits,
         pc \in Closers => n \in 1..MaxCycle /\ n + 1 \in 1..MaxCycle, RowsOK'
  PROVE  RiskTypes'
<1>1. PICK rows \in SUBSET Decisions : rows = {}
  OBVIOUS
<1>2. PICK s \in RiskForms :
        /\ s = Risk!Slot(pc, row, seen, n, r, mark, rows) /\ s.pc = pc /\ s.seen = seen /\ s.n = n
  <2> DEFINE t == Risk!Slot(pc, row, seen, n, r, mark, rows)
  <2>1. t \in RiskForms /\ t.pc = pc /\ t.seen = seen /\ t.n = n
    BY DEF Risk!Slot, RiskForms
  <2> HIDE DEF t
  <2>2. PICK s \in RiskForms : s = t
    BY <2>1
  <2> QED BY <2>1, <2>2 DEF t
<1>3. Brings(s)
  BY <1>2 DEF Brings
<1>4. Risk!Move(q, s)
  BY <1>1, <1>2 DEF Risk!Begins
<1> QED BY <1>3, <1>4, RiskTypesKept

LEMMA DecisionTypes ==
  ASSUME RiskTypes, NEW q \in Requests,
         \/ \E option \in Risk!Options : Risk!LoadDecide(q, option)
         \/ Risk!FindCurrent(q) \/ Risk!LockCurrent(q) \/ Risk!FlipCurrent(q) \/ Risk!RollbackDecision(q)
         \/ \E d \in Decisions : Risk!CommitDecision(q, d)
  PROVE  RiskTypes'
<1> DEFINE r == riskReq[q]
<1>1. r \in RiskForms /\ Brings(r) /\ RowsOK
  BY RiskTyped, RiskRows
<1>2. ASSUME UNCHANGED <<dec, plan, edits, forecast, basis, residual, residuals, cycle, snap, loose>>
      PROVE  RowsOK'
  BY <1>1, <1>2 DEF RowsOK, DecOK, PlanOK, ForecastOK, CycleOK, LooseOK
<1>3. ASSUME NEW option \in Risk!Options, Risk!LoadDecide(q, option) PROVE RiskTypes'
  <2>1. /\ "decide" \in Risk!Points /\ NoRow \in Decisions \cup Plans \cup {NoRow}
        /\ 0 \in 0..MaxEdits + MaxCycle /\ 0 \in 0..MaxCycle /\ "decide" \notin Closers
    BY RiskNumbers DEF Risk!Points, Closers
  <2>2. RowsOK' /\ Risk!Begins(q, Risk!Slot("decide", NoRow, option, 0, 0, FALSE, {}))
    BY <1>2, <1>3 DEF Risk!LoadDecide, Risk!decVars, Risk!planVars, Risk!forecastVars, Risk!cycleVars
  <2> QED BY <2>1, <2>2, RiskStarts
<1>4. CASE Risk!FindCurrent(q)
  <2>1. r.pc = "decide" /\ RowsOK'
    BY <1>2, <1>4 DEF Risk!FindCurrent, Risk!At, Risk!decVars, Risk!planVars, Risk!forecastVars,
    Risk!cycleVars
  <2>2. CASE Risk!Goto(q, "flip")
    <3>1. "flip" \in Risk!Points /\ "flip" \in Deciders /\ "flip" \notin Closers /\ r.pc \in Deciders
      BY <2>1 DEF Risk!Points, Deciders, Closers
    <3> QED BY <2>1, <2>2, <3>1, RiskGoesOn
  <2>3. ASSUME NEW d \in Risk!CurrentDecisions,
               Risk!Move(q, [r EXCEPT !.pc = "find", !.row = d])
        PROVE  RiskTypes'
    <3>1. d \in Decisions
      BY DEF Risk!CurrentDecisions
    <3>2. [r EXCEPT !.pc = "find", !.row = d] \in RiskForms
      BY <1>1, <3>1 DEF RiskForms, Risk!Points
    <3>3. Brings([r EXCEPT !.pc = "find", !.row = d])
      BY <1>1, <2>1, <3>1 DEF RiskForms, Brings, Deciders, Closers
    <3>4. PICK s \in RiskForms : s = [r EXCEPT !.pc = "find", !.row = d]
      BY <3>2
    <3> QED BY <2>1, <2>3, <3>3, <3>4, RiskTypesKept
  <2> QED BY <1>4, <2>2, <2>3 DEF Risk!FindCurrent
<1>5. CASE Risk!LockCurrent(q)
  <2>1. /\ r.pc = "find" /\ RowsOK'
        /\ \/ Risk!Move(q, [r EXCEPT !.pc = "flip", !.rows = {r.row}]) /\ r.row \in Decisions
           \/ Risk!Move(q, [r EXCEPT !.pc = "flip", !.row = NoRow])
    BY <1>1, <1>2, <1>5
    DEF Brings, Risk!LockCurrent, Risk!At, Risk!decVars, Risk!planVars, Risk!forecastVars, Risk!cycleVars
  <2>2. CASE Risk!Move(q, [r EXCEPT !.pc = "flip", !.rows = {r.row}]) /\ r.row \in Decisions
    <3>1. [r EXCEPT !.pc = "flip", !.rows = {r.row}] \in RiskForms
      BY <1>1, <2>2 DEF RiskForms, Risk!Points
    <3>2. Brings([r EXCEPT !.pc = "flip", !.rows = {r.row}])
      BY <1>1, <2>1 DEF RiskForms, Brings, Deciders, Closers
    <3>3. PICK s \in RiskForms : s = [r EXCEPT !.pc = "flip", !.rows = {r.row}]
      BY <3>1
    <3> QED BY <2>1, <2>2, <3>2, <3>3, RiskTypesKept
  <2>3. CASE Risk!Move(q, [r EXCEPT !.pc = "flip", !.row = NoRow])
    <3>1. [r EXCEPT !.pc = "flip", !.row = NoRow] \in RiskForms
      BY <1>1 DEF RiskForms, Risk!Points
    <3>2. Brings([r EXCEPT !.pc = "flip", !.row = NoRow])
      BY <1>1, <2>1 DEF RiskForms, Brings, Deciders, Closers
    <3>3. PICK s \in RiskForms : s = [r EXCEPT !.pc = "flip", !.row = NoRow]
      BY <3>1
    <3> QED BY <2>1, <2>3, <3>2, <3>3, RiskTypesKept
  <2> QED BY <2>1, <2>2, <2>3
<1>6. CASE Risk!FlipCurrent(q)
  <2> DEFINE f == [r EXCEPT !.pc = "insert", !.rows = r.rows \cup Risk!CurrentDecisions,
                            !.mark = Risk!OptionChanged(q) /\ forecast # "absent"]
  <2>1. r.pc = "flip" /\ RowsOK' /\ Risk!Move(q, f)
    BY <1>2, <1>6
    DEF Risk!FlipCurrent, Risk!At, Risk!decVars, Risk!planVars, Risk!forecastVars, Risk!cycleVars
  <2>2. PICK mark \in BOOLEAN : mark = (Risk!OptionChanged(q) /\ forecast # "absent")
    OBVIOUS
  <2>3. PICK rows \in SUBSET Decisions : rows = r.rows \cup Risk!CurrentDecisions
    BY <1>1 DEF RiskForms, Risk!CurrentDecisions
  <2>4. f = [r EXCEPT !.pc = "insert", !.rows = rows, !.mark = mark]
    BY <2>2, <2>3
  <2>5. [r EXCEPT !.pc = "insert", !.rows = rows, !.mark = mark] \in RiskForms
    BY <1>1 DEF RiskForms, Risk!Points
  <2>6. Brings([r EXCEPT !.pc = "insert", !.rows = rows, !.mark = mark])
    BY <1>1, <2>1 DEF RiskForms, Brings, Deciders, Closers
  <2> HIDE DEF f
  <2>7. PICK s \in RiskForms : s = f /\ Brings(s)
    BY <2>4, <2>5, <2>6
  <2> QED BY <2>1, <2>7, RiskTypesKept
<1>7. CASE Risk!RollbackDecision(q)
  <2>1. RowsOK' /\ Risk!Move(q, Risk!Idle)
    BY <1>2, <1>7 DEF Risk!RollbackDecision, Risk!decVars, Risk!planVars, Risk!forecastVars, Risk!cycleVars
  <2> QED BY <2>1, RiskEnds
<1>8. ASSUME NEW d \in Decisions, Risk!CommitDecision(q, d) PROVE RiskTypes'
  <2>1. /\ r.pc = "insert" /\ Risk!Move(q, Risk!Idle)
        /\ dec' = [Risk!Flipped(r.rows) EXCEPT ![d] = [option |-> r.seen, current |-> TRUE]]
        /\ forecast' \in {"absent", "fresh", "flagged"}
        /\ UNCHANGED <<plan, edits, basis, residual, residuals, cycle, snap, loose>>
    BY <1>1, <1>8 DEF Risk!CommitDecision, Risk!At, Risk!planVars, Risk!cycleVars, RowsOK, ForecastOK
  <2>2. Risk!Flipped(r.rows) \in [Decisions -> [option : Risk!Options \cup {"none"}, current : BOOLEAN]]
    BY <1>1 DEF Risk!Flipped, RowsOK, DecOK
  <2>3. r.seen \in Risk!Options
    BY <1>1, <2>1 DEF Brings, Deciders
  <2>4. RowsOK'
    BY <1>1, <2>1, <2>2, <2>3 DEF RowsOK, DecOK, PlanOK, ForecastOK, CycleOK, LooseOK
  <2> QED BY <2>1, <2>4, RiskEnds
<1> QED BY <1>3, <1>4, <1>5, <1>6, <1>7, <1>8

LEMMA PlanTypes ==
  ASSUME RiskTypes, NEW q \in Requests,
         \/ \E pc \in {"plan", "approve"} : Risk!LoadPlan(q, pc)
         \/ \E p \in Plans : Risk!CreatePlan(q, p)
         \/ \E st \in Risk!Amended : Risk!AmendPlan(q, st)
         \/ Risk!RetireApproved(q) \/ Risk!FlagForecast(q) \/ Risk!ApprovePlan(q)
  PROVE  RiskTypes'
<1> DEFINE r == riskReq[q]
<1>1. r \in RiskForms /\ Brings(r) /\ RowsOK
  BY RiskTyped, RiskRows
<1>2. ASSUME NEW pc \in {"plan", "approve"}, Risk!LoadPlan(q, pc) PROVE RiskTypes'
  <2>1. RowsOK'
    BY <1>1, <1>2
    DEF Risk!LoadPlan, Risk!decVars, Risk!planVars, Risk!forecastVars, Risk!cycleVars,
        RowsOK, DecOK, PlanOK, ForecastOK, CycleOK, LooseOK
  <2>2. /\ pc \in Risk!Points /\ pc \notin Deciders /\ pc \notin Closers /\ pc # "forecast" /\ pc # "find"
        /\ 0 \in 0..MaxEdits + MaxCycle /\ 0 \in 0..MaxCycle /\ "absent" \in Risk!PlanStatuses
        /\ NoRow \in Decisions \cup Plans \cup {NoRow}
    BY RiskNumbers DEF Risk!Points, Deciders, Closers, Risk!PlanStatuses
  <2>3. CASE Risk!Begins(q, Risk!Slot(pc, NoRow, "absent", 0, 0, FALSE, {}))
    <3>1. PICK seen \in Risk!PlanStatuses : seen = "absent"
      BY <2>2
    <3> QED BY <2>1, <2>2, <2>3, <3>1, RiskStarts
  <2>4. ASSUME NEW p \in Risk!CurrentPlans, Risk!Begins(q, Risk!Slot(pc, p, plan[p].status, 0, 0, FALSE, {}))
        PROVE  RiskTypes'
    <3>1. PICK seen \in Risk!PlanStatuses : seen = plan[p].status
      BY <1>1 DEF RowsOK, PlanOK, Risk!CurrentPlans
    <3>2. p \in Decisions \cup Plans \cup {NoRow}
      BY DEF Risk!CurrentPlans
    <3> QED BY <2>1, <2>2, <2>4, <3>1, <3>2, RiskStarts
  <2> QED BY <1>2, <2>3, <2>4 DEF Risk!LoadPlan
<1>3. "flag" \in Risk!Points /\ "flag" \notin Deciders \cup Closers
  BY DEF Risk!Points, Deciders, Closers
<1>4. ASSUME edits < MaxEdits, edits' = edits + 1 PROVE edits' \in 0..MaxEdits
  BY <1>1, <1>4, RiskNumbers DEF RowsOK, PlanOK
<1>5. ASSUME NEW p \in Plans, Risk!CreatePlan(q, p) PROVE RiskTypes'
  <2>1. /\ edits' \in 0..MaxEdits /\ Risk!Goto(q, "flag")
        /\ plan' = [plan EXCEPT ![p] = [status |-> "Draft", current |-> TRUE, content |-> edits']]
        /\ UNCHANGED <<dec, forecast, basis, residual, residuals, cycle, snap, loose>>
    BY <1>4, <1>5 DEF Risk!CreatePlan, Risk!decVars, Risk!forecastVars, Risk!cycleVars
  <2>2. RowsOK'
    BY <1>1, <2>1 DEF RowsOK, DecOK, PlanOK, ForecastOK, CycleOK, LooseOK, Risk!PlanStatuses
  <2> QED BY <1>3, <2>1, <2>2, RiskGoesOn
<1>6. ASSUME NEW st \in Risk!Amended, Risk!AmendPlan(q, st) PROVE RiskTypes'
  <2>1. /\ edits' \in 0..MaxEdits /\ Risk!Goto(q, "flag")
        /\ plan' = [plan EXCEPT ![r.row].content = edits',
                                ![r.row].status = Risk!Changed(@, r.seen, st)]
        /\ UNCHANGED <<dec, forecast, basis, residual, residuals, cycle, snap, loose>>
    BY <1>4, <1>6 DEF Risk!AmendPlan, Risk!decVars, Risk!forecastVars, Risk!cycleVars
  <2>2. RowsOK'
    BY <1>1, <2>1
    DEF RowsOK, DecOK, PlanOK, ForecastOK, CycleOK, LooseOK, Risk!PlanStatuses, Risk!Amended, Risk!Changed
  <2> QED BY <1>3, <2>1, <2>2, RiskGoesOn
<1>7. CASE Risk!RetireApproved(q)
  <2>1. /\ Risk!Goto(q, "next") /\ plan' = [plan EXCEPT ![r.row].current = FALSE]
        /\ UNCHANGED <<dec, edits, forecast, basis, residual, residuals, cycle, snap, loose>>
    BY <1>7 DEF Risk!RetireApproved, Risk!decVars, Risk!forecastVars, Risk!cycleVars
  <2>2. RowsOK'
    BY <1>1, <2>1 DEF RowsOK, DecOK, PlanOK, ForecastOK, CycleOK, LooseOK
  <2>3. "next" \in Risk!Points /\ "next" \notin Deciders \cup Closers
    BY DEF Risk!Points, Deciders, Closers
  <2> QED BY <2>1, <2>2, <2>3, RiskGoesOn
<1>8. CASE Risk!FlagForecast(q)
  <2>1. /\ Risk!Move(q, Risk!Idle) /\ forecast' \in {"absent", "flagged"}
        /\ UNCHANGED <<dec, plan, edits, basis, residual, residuals, cycle, snap, loose>>
    BY <1>8 DEF Risk!FlagForecast, Risk!decVars, Risk!planVars, Risk!cycleVars
  <2>2. RowsOK'
    BY <1>1, <2>1 DEF RowsOK, DecOK, PlanOK, ForecastOK, CycleOK, LooseOK
  <2> QED BY <2>1, <2>2, RiskEnds
<1>9. CASE Risk!ApprovePlan(q)
  <2>1. /\ Risk!Move(q, Risk!Idle)
        /\ plan' = [plan EXCEPT ![r.row].status = Risk!Changed(@, r.seen, "Approved")]
        /\ UNCHANGED <<dec, edits, forecast, basis, residual, residuals, cycle, snap, loose>>
    BY <1>9 DEF Risk!ApprovePlan, Risk!decVars, Risk!forecastVars, Risk!cycleVars
  <2>2. RowsOK'
    BY <1>1, <2>1 DEF RowsOK, DecOK, PlanOK, ForecastOK, CycleOK, LooseOK, Risk!PlanStatuses, Risk!Changed
  <2> QED BY <2>1, <2>2, RiskEnds
<1> QED BY <1>2, <1>5, <1>6, <1>7, <1>8, <1>9

LEMMA ForecastTypes ==
  ASSUME RiskTypes, NEW q \in Requests, Risk!LoadForecast(q) \/ Risk!SaveForecast(q) \/ Risk!SpendForecast(q)
  PROVE  RiskTypes'
<1> DEFINE r == riskReq[q]
<1>1. r \in RiskForms /\ Brings(r) /\ RowsOK
  BY RiskTyped, RiskRows
<1>2. CASE Risk!LoadForecast(q)
  <2>1. RowsOK' /\ Risk!Begins(q, Risk!Slot("forecast", NoRow, forecast, edits, 0, FALSE, {}))
    BY <1>1, <1>2
    DEF Risk!LoadForecast, Risk!decVars, Risk!planVars, Risk!forecastVars, Risk!cycleVars,
        RowsOK, DecOK, PlanOK, ForecastOK, CycleOK, LooseOK
  <2>2. PICK seen \in Risk!PlanStatuses \cup Risk!Options \cup {"none", "fresh", "flagged", "within", "above"} :
          seen = forecast
    BY <1>1 DEF RowsOK, ForecastOK, Risk!PlanStatuses
  <2>3. PICK n \in 0..MaxEdits : n = edits
    BY <1>1 DEF RowsOK, PlanOK
  <2>4. /\ "forecast" \in Risk!Points /\ "forecast" \notin Deciders /\ "forecast" \notin Closers
        /\ n \in 0..MaxEdits + MaxCycle /\ 0 \in 0..MaxCycle /\ NoRow \in Decisions \cup Plans \cup {NoRow}
    BY RiskNumbers DEF Risk!Points, Deciders, Closers
  <2> QED BY <2>1, <2>2, <2>3, <2>4, RiskStarts
<1>3. CASE Risk!SaveForecast(q)
  <2>1. /\ r.pc = "forecast" /\ Risk!Move(q, Risk!Idle)
        /\ UNCHANGED <<dec, plan, edits, residual, residuals, cycle, snap>>
        /\ forecast' \in {"absent", "fresh", "flagged"} /\ basis' \in {basis, r.n}
        /\ loose' \in {loose, loose \cup {"forecast"}}
    BY <1>1, <1>3
    DEF Risk!SaveForecast, Risk!At, Risk!decVars, Risk!planVars, Risk!cycleVars, Risk!forecastVars,
    Risk!Confirmed,
        Risk!Changed, RowsOK, ForecastOK
  <2>2. r.n \in 0..MaxEdits
    BY <1>1, <2>1 DEF Brings
  <2>3. RowsOK'
    BY <1>1, <2>1, <2>2 DEF RowsOK, DecOK, PlanOK, ForecastOK, CycleOK, LooseOK
  <2> QED BY <2>1, <2>3, RiskEnds
<1>4. CASE Risk!SpendForecast(q)
  <2>1. /\ Risk!Move(q, Risk!Idle) /\ forecast' = "absent"
        /\ UNCHANGED <<dec, plan, edits, basis, residual, residuals, cycle, snap, loose>>
    BY <1>4 DEF Risk!SpendForecast, Risk!decVars, Risk!planVars, Risk!cycleVars
  <2>2. RowsOK'
    BY <1>1, <2>1 DEF RowsOK, DecOK, PlanOK, ForecastOK, CycleOK, LooseOK
  <2> QED BY <2>1, <2>2, RiskEnds
<1> QED BY <1>2, <1>3, <1>4

LEMMA CycleTypes ==
  ASSUME RiskTypes, NEW q \in Requests,
         \/ \E seen \in {"within", "above"} : Risk!LoadPromote(q, seen)
         \/ Risk!InsertSnapshot(q) \/ Risk!RetirePlan(q) \/ Risk!SaveCycle(q) \/ Risk!SpendResidual(q)
         \/ Risk!LoadStart(q) \/ Risk!CheckSnapshot(q) \/ Risk!Crash(q)
  PROVE  RiskTypes'
<1> DEFINE r == riskReq[q]
<1>1. r \in RiskForms /\ Brings(r) /\ RowsOK
  BY RiskTyped, RiskRows
<1>2. /\ {"snapshot", "retire", "advance", "spend", "spendForecast", "check", "baseline", "open"} \subseteq Risk!Points
      /\ {"snapshot", "retire", "advance", "check", "baseline", "open"} \subseteq Closers
      /\ "spend" \notin Closers /\ "spendForecast" \notin Closers
      /\ \A pc \in Closers \cup {"spend", "spendForecast"} : pc \notin Deciders /\ pc # "forecast" /\ pc # "find"
  BY DEF Risk!Points, Closers, Deciders
<1>3. ASSUME NEW seen \in {"within", "above"}, Risk!LoadPromote(q, seen) PROVE RiskTypes'
  <2>1. /\ RowsOK' /\ cycle < MaxCycle
        /\ \E p \in Plans \cup {NoRow} :
             Risk!Begins(q, Risk!Slot("snapshot", p, seen, cycle, residual, forecast # "absent", {}))
    BY <1>1, <1>3
    DEF Risk!LoadPromote, Risk!decVars, Risk!planVars, Risk!forecastVars, Risk!cycleVars, Risk!CurrentPlans,
        RowsOK, DecOK, PlanOK, ForecastOK, CycleOK, LooseOK
  <2>2. PICK n \in 1..MaxCycle : n = cycle
    BY <1>1 DEF RowsOK, CycleOK
  <2>3. n + 1 \in 1..MaxCycle /\ n \in 0..MaxEdits + MaxCycle
    BY <2>1, <2>2, RiskNumbers
  <2>4. PICK left \in 0..MaxCycle : left = residual
    BY <1>1 DEF RowsOK, CycleOK
  <2>5. PICK mark \in BOOLEAN : mark = (forecast # "absent")
    OBVIOUS
  <2>6. PICK p \in Plans \cup {NoRow} : Risk!Begins(q, Risk!Slot("snapshot", p, seen, n, left, mark, {}))
    BY <2>1, <2>2, <2>4, <2>5
  <2> QED BY <1>2, <2>1, <2>3, <2>6, RiskStarts
<1>4. CASE Risk!InsertSnapshot(q)
  <2>1. /\ r.pc \in {"snapshot", "baseline"}
        /\ UNCHANGED <<dec, plan, edits, forecast, basis, residual, residuals, cycle, loose>>
        /\ \/ /\ snap' = [snap EXCEPT ![r.n] = IF r.pc = "snapshot" THEN r.r ELSE Risk!Baseline]
              /\ Risk!Goto(q, IF r.pc = "snapshot" THEN "retire" ELSE "open")
           \/ snap' = snap /\ Risk!Move(q, Risk!Idle)
    BY <1>4 DEF Risk!InsertSnapshot, Risk!At, Risk!decVars, Risk!planVars, Risk!forecastVars
  <2>2. r.r \in 0..Risk!Baseline /\ Risk!Baseline \in 0..Risk!Baseline
    BY <1>1, RiskNumbers DEF RiskForms
  <2>3. RowsOK'
    BY <1>1, <2>1, <2>2 DEF RowsOK, DecOK, PlanOK, ForecastOK, CycleOK, LooseOK
  <2> QED BY <1>2, <2>1, <2>3, RiskGoesOn, RiskEnds
<1>5. CASE Risk!RetirePlan(q)
  <2>1. /\ r.pc = "retire" /\ Risk!Goto(q, "advance")
        /\ plan' = plan \/ plan' = [plan EXCEPT ![r.row].current = FALSE]
        /\ UNCHANGED <<dec, edits, forecast, basis, residual, residuals, cycle, snap, loose>>
    BY <1>5 DEF Risk!RetirePlan, Risk!At, Risk!decVars, Risk!forecastVars, Risk!cycleVars
  <2>2. RowsOK'
    <3>1. [plan EXCEPT ![r.row].current = FALSE]
            \in [Plans -> [status : Risk!PlanStatuses, current : BOOLEAN, content : 0..MaxEdits]]
      BY <1>1 DEF RowsOK, PlanOK
    <3>2. PlanOK'
      BY <1>1, <2>1, <3>1 DEF RowsOK, PlanOK
    <3> QED BY <1>1, <2>1, <3>2 DEF RowsOK, DecOK, ForecastOK, CycleOK, LooseOK
  <2>3. /\ r.pc \in Closers /\ "advance" \in Risk!Points /\ "advance" \notin Deciders
        /\ "advance" \notin {"forecast", "find"}
    BY <1>2, <2>1
  <2> QED BY <2>1, <2>2, <2>3, RiskGoesOn
<1>6. CASE Risk!SaveCycle(q)
  <2>1. /\ r.pc \in {"advance", "open"} /\ cycle' = r.n + 1
        /\ Risk!Goto(q, "spend") \/ Risk!Move(q, Risk!Idle)
        /\ UNCHANGED <<dec, plan, edits, forecast, basis, residual, residuals, snap, loose>>
    BY <1>6 DEF Risk!SaveCycle, Risk!At, Risk!decVars, Risk!planVars, Risk!forecastVars
  <2>2. r.n + 1 \in 1..MaxCycle
    BY <1>1, <1>2, <2>1 DEF Brings
  <2>3. RowsOK'
    BY <1>1, <2>1, <2>2 DEF RowsOK, DecOK, PlanOK, ForecastOK, CycleOK, LooseOK
  <2> QED BY <1>2, <2>1, <2>3, RiskGoesOn, RiskEnds
<1>7. CASE Risk!SpendResidual(q)
  <2>1. /\ residual' = 0 /\ (Risk!Goto(q, "spendForecast") \/ Risk!Move(q, Risk!Idle))
        /\ UNCHANGED <<dec, plan, edits, forecast, basis, residuals, cycle, snap, loose>>
    BY <1>7 DEF Risk!SpendResidual, Risk!decVars, Risk!planVars, Risk!forecastVars
  <2>2. RowsOK'
    BY <1>1, <2>1, RiskNumbers DEF RowsOK, DecOK, PlanOK, ForecastOK, CycleOK, LooseOK
  <2>3. /\ "spendForecast" \in Risk!Points /\ "spendForecast" \notin Deciders \cup Closers
        /\ "spendForecast" \notin {"forecast", "find"}
    BY DEF Risk!Points, Deciders, Closers
  <2> QED BY <2>1, <2>2, <2>3, RiskGoesOn, RiskEnds
<1>8. CASE Risk!LoadStart(q)
  <2>1. RowsOK' /\ Risk!Begins(q, Risk!Slot("check", NoRow, "none", 1, 0, FALSE, {}))
    BY <1>1, <1>8
    DEF Risk!LoadStart, Risk!decVars, Risk!planVars, Risk!forecastVars, Risk!cycleVars,
        RowsOK, DecOK, PlanOK, ForecastOK, CycleOK, LooseOK
  <2>2. /\ 1 \in 1..MaxCycle /\ 1 + 1 \in 1..MaxCycle /\ 1 \in 0..MaxEdits + MaxCycle /\ 0 \in 0..MaxCycle
        /\ NoRow \in Decisions \cup Plans \cup {NoRow}
    BY RiskNumbers
  <2> QED BY <1>2, <2>1, <2>2, RiskStarts
<1>9. CASE Risk!CheckSnapshot(q)
  <2>1. /\ r.pc = "check" /\ (Risk!Goto(q, "open") \/ Risk!Goto(q, "baseline")) /\ RowsOK'
    BY <1>1, <1>9
    DEF Risk!CheckSnapshot, Risk!At, Risk!decVars, Risk!planVars, Risk!forecastVars, Risk!cycleVars,
        RowsOK, DecOK, PlanOK, ForecastOK, CycleOK, LooseOK
  <2>2. ASSUME NEW pc \in {"open", "baseline"}
        PROVE  pc \in Risk!Points /\ pc \notin Deciders /\ pc \notin {"forecast", "find"}
    BY DEF Risk!Points, Deciders
  <2>3. r.pc \in Closers
    BY <1>2, <2>1
  <2> QED BY <2>1, <2>2, <2>3, RiskGoesOn
<1>10. CASE Risk!Crash(q)
  <2>1. Risk!Move(q, Risk!Idle) /\ RowsOK'
    BY <1>1, <1>10
    DEF Risk!Crash, Risk!decVars, Risk!planVars, Risk!forecastVars, Risk!cycleVars,
        RowsOK, DecOK, PlanOK, ForecastOK, CycleOK, LooseOK
  <2> QED BY <2>1, RiskEnds
<1> QED BY <1>3, <1>4, <1>5, <1>6, <1>7, <1>8, <1>9, <1>10

LEMMA NextRiskTypes == ASSUME RiskTypes, [Risk!Next]_(Risk!vars) PROVE RiskTypes'
<1>1. CASE Risk!RecordResidual
  <2>1. /\ residuals \in 0..MaxCycle /\ residuals < MaxCycle /\ RowsOK /\ residuals' = residuals + 1
        /\ residual' = residuals + 1
        /\ UNCHANGED <<dec, plan, edits, forecast, basis, cycle, snap, loose, riskReq>>
    BY <1>1, RiskRows
    DEF Risk!RecordResidual, RowsOK, CycleOK, Risk!decVars, Risk!planVars, Risk!forecastVars
  <2>2. residuals + 1 \in 0..MaxCycle
    BY <2>1, RiskNumbers
  <2>3. RowsOK'
    BY <2>1, <2>2 DEF RowsOK, DecOK, PlanOK, ForecastOK, CycleOK, LooseOK
  <2> QED BY <2>1, <2>3
          DEF RiskTypes, Risk!TypeOK, RowsOK, DecOK, PlanOK, ForecastOK, CycleOK, LooseOK
<1>2. ASSUME NEW q \in Requests, Risk!Step(q) PROVE RiskTypes'
  BY <1>2, DecisionTypes, PlanTypes, ForecastTypes, CycleTypes DEF Risk!Step
<1>3. CASE UNCHANGED Risk!vars
  BY <1>3 DEF Risk!vars, RiskTypes, Risk!TypeOK
<1> QED BY <1>1, <1>2, <1>3 DEF Risk!Next

LEMMA InitRiskTypes == ASSUME Risk!Init PROVE RiskTypes
<1>1. riskReq \in [Requests -> RiskForms] /\ \A q \in Requests : Brings(riskReq[q])
  BY RiskIdle DEF Risk!Init
<1>2. RowsOK
  BY RiskNumbers
  DEF Risk!Init, RowsOK, DecOK, PlanOK, ForecastOK, CycleOK, LooseOK, Risk!NoDecision, Risk!NoPlan,
  Risk!PlanStatuses
<1> QED BY <1>1, <1>2 DEF RiskTypes, Risk!TypeOK, RiskForms, RowsOK, DecOK, PlanOK, ForecastOK, CycleOK, LooseOK

(* The steps by what they are about.  Each leaves the rows of the others. *)

DecisionStep(q) ==
  \/ \E option \in Risk!Options : Risk!LoadDecide(q, option)
  \/ Risk!FindCurrent(q) \/ Risk!LockCurrent(q) \/ Risk!FlipCurrent(q) \/ Risk!RollbackDecision(q)
  \/ \E d \in Decisions : Risk!CommitDecision(q, d)

PlanStep(q) ==
  \/ \E pc \in {"plan", "approve"} : Risk!LoadPlan(q, pc)
  \/ \E p \in Plans : Risk!CreatePlan(q, p)
  \/ \E st \in Risk!Amended : Risk!AmendPlan(q, st)
  \/ Risk!RetireApproved(q) \/ Risk!FlagForecast(q) \/ Risk!ApprovePlan(q)

ForecastStep(q) == Risk!LoadForecast(q) \/ Risk!SaveForecast(q) \/ Risk!SpendForecast(q)

CycleStep(q) ==
  \/ \E seen \in {"within", "above"} : Risk!LoadPromote(q, seen)
  \/ Risk!InsertSnapshot(q) \/ Risk!RetirePlan(q) \/ Risk!SaveCycle(q) \/ Risk!SpendResidual(q)
  \/ Risk!LoadStart(q) \/ Risk!CheckSnapshot(q)

LEMMA RiskStepKinds ==
  ASSUME NEW q \in Requests, Risk!Step(q)
  PROVE  DecisionStep(q) \/ PlanStep(q) \/ ForecastStep(q) \/ CycleStep(q) \/ Risk!Crash(q)
BY DEF Risk!Step, DecisionStep, PlanStep, ForecastStep, CycleStep

LEMMA RiskMoving ==
  ASSUME RiskTypes, NEW q \in Requests, NEW s, Risk!Move(q, s)
  PROVE  riskReq'[q] = s /\ OtherRisks(q)
BY RiskTyped DEF Risk!Move, OtherRisks

LEMMA RiskGoing ==
  ASSUME RiskTypes, NEW q \in Requests, NEW pc, Risk!Goto(q, pc)
  PROVE  /\ riskReq'[q].pc = pc /\ OtherRisks(q)
         /\ riskReq'[q].row = riskReq[q].row /\ riskReq'[q].seen = riskReq[q].seen
         /\ riskReq'[q].n = riskReq[q].n /\ riskReq'[q].r = riskReq[q].r
<1> DEFINE t == [riskReq[q] EXCEPT !.pc = pc]
<1>1. riskReq'[q] = t /\ OtherRisks(q)
  BY RiskTyped DEF Risk!Goto, Risk!Move, OtherRisks
<1>2. riskReq[q] \in RiskForms
  BY RiskTyped
<1>3. t.pc = pc /\ t.row = riskReq[q].row /\ t.seen = riskReq[q].seen /\ t.n = riskReq[q].n /\ t.r = riskReq[q].r
  BY <1>2 DEF RiskForms
<1> QED BY <1>1, <1>3

LEMMA RiskBeginning ==
  ASSUME RiskTypes, NEW q \in Requests, NEW pc, NEW row, NEW seen, NEW n, NEW r, NEW mark,
         Risk!Begins(q, Risk!Slot(pc, row, seen, n, r, mark, {}))
  PROVE  /\ riskReq[q].pc = "idle" /\ riskReq'[q].pc = pc /\ OtherRisks(q) /\ riskReq'[q].row = row
         /\ riskReq'[q].seen = seen /\ riskReq'[q].n = n /\ riskReq'[q].r = r
<1>1. riskReq'[q] = Risk!Slot(pc, row, seen, n, r, mark, {}) /\ OtherRisks(q) /\ riskReq[q].pc = "idle"
  BY RiskTyped DEF Risk!Begins, Risk!Move, Risk!At, OtherRisks
<1> QED BY <1>1 DEF Risk!Slot

LEMMA DecisionSteps ==
  ASSUME RiskTypes, NEW q \in Requests, DecisionStep(q)
  PROVE  /\ OtherRisks(q) /\ riskReq[q].pc \in Deciders \cup {"idle"}
         /\ riskReq'[q].pc \in Deciders \cup {"idle"}
         /\ UNCHANGED <<plan, edits, basis, residual, residuals, cycle, snap, loose>>
         /\ forecast' \in {forecast, "flagged"}
<1>1. UNCHANGED <<plan, edits, basis, residual, residuals, cycle, snap, loose>> /\ forecast' \in {forecast, "flagged"}
  BY DEF DecisionStep, Risk!LoadDecide, Risk!FindCurrent, Risk!LockCurrent, Risk!FlipCurrent,
  Risk!RollbackDecision,
         Risk!CommitDecision, Risk!planVars, Risk!forecastVars, Risk!cycleVars
<1>2. ASSUME NEW option \in Risk!Options, Risk!LoadDecide(q, option)
      PROVE  OtherRisks(q) /\ riskReq[q].pc = "idle" /\ riskReq'[q].pc = "decide"
  BY <1>2, RiskBeginning DEF Risk!LoadDecide
<1>3. CASE Risk!FindCurrent(q)
  <2>1. riskReq[q].pc = "decide" /\ riskReq[q] \in RiskForms
    BY <1>3, RiskTyped DEF Risk!FindCurrent, Risk!At
  <2>2. ASSUME NEW d, Risk!Move(q, [riskReq[q] EXCEPT !.pc = "find", !.row = d])
        PROVE  OtherRisks(q) /\ riskReq'[q].pc = "find"
    <3>1. [riskReq[q] EXCEPT !.pc = "find", !.row = d].pc = "find"
      BY <2>1 DEF RiskForms
    <3> QED BY <2>2, <3>1, RiskTyped DEF Risk!Move, OtherRisks
  <2>3. OtherRisks(q) /\ riskReq'[q].pc \in {"flip", "find"}
    BY <1>3, <2>2, RiskGoing DEF Risk!FindCurrent
  <2> QED BY <1>1, <2>1, <2>3 DEF Deciders
<1>4. CASE Risk!LockCurrent(q)
  <2>1. riskReq[q].pc = "find" /\ riskReq[q] \in RiskForms
    BY <1>4, RiskTyped DEF Risk!LockCurrent, Risk!At
  <2>2. /\ [riskReq[q] EXCEPT !.pc = "flip", !.rows = {riskReq[q].row}].pc = "flip"
        /\ [riskReq[q] EXCEPT !.pc = "flip", !.row = NoRow].pc = "flip"
    BY <2>1 DEF RiskForms
  <2>3. \/ riskReq' = [riskReq EXCEPT ![q] = [riskReq[q] EXCEPT !.pc = "flip", !.rows = {riskReq[q].row}]]
        \/ riskReq' = [riskReq EXCEPT ![q] = [riskReq[q] EXCEPT !.pc = "flip", !.row = NoRow]]
    BY <1>4 DEF Risk!LockCurrent, Risk!Move
  <2>4. OtherRisks(q) /\ riskReq'[q].pc = "flip"
    BY <2>2, <2>3, RiskTyped DEF OtherRisks
  <2> QED BY <1>1, <2>1, <2>4 DEF Deciders
<1>5. CASE Risk!FlipCurrent(q)
  <2> DEFINE t == [riskReq[q] EXCEPT !.pc = "insert", !.rows = riskReq[q].rows \cup Risk!CurrentDecisions,
                                     !.mark = Risk!OptionChanged(q) /\ forecast # "absent"]
  <2>1. riskReq[q].pc = "flip" /\ riskReq[q] \in RiskForms /\ riskReq' = [riskReq EXCEPT ![q] = t]
    BY <1>5, RiskTyped DEF Risk!FlipCurrent, Risk!At, Risk!Move
  <2>2. t.pc = "insert"
    BY <2>1 DEF RiskForms
  <2>3. OtherRisks(q) /\ riskReq'[q].pc = "insert"
    BY <2>1, <2>2, RiskTyped DEF OtherRisks
  <2> HIDE DEF t
  <2> QED BY <1>1, <2>1, <2>3 DEF Deciders
<1>6. ASSUME Risk!RollbackDecision(q) \/ \E d \in Decisions : Risk!CommitDecision(q, d)
      PROVE  OtherRisks(q) /\ riskReq[q].pc \in Deciders /\ riskReq'[q].pc = "idle"
  <2>1. riskReq[q].pc \in Deciders /\ Risk!Move(q, Risk!Idle)
    BY <1>6 DEF Risk!RollbackDecision, Risk!CommitDecision, Risk!At, Deciders
  <2> QED BY <2>1, RiskMoving, RiskIdle
<1> QED BY <1>1, <1>2, <1>3, <1>4, <1>5, <1>6 DEF DecisionStep, Deciders

LEMMA ForecastSteps ==
  ASSUME RiskTypes, NEW q \in Requests, ForecastStep(q)
  PROVE  /\ OtherRisks(q) /\ riskReq[q].pc \in {"idle", "forecast", "spendForecast"}
         /\ riskReq'[q].pc \in {"idle", "forecast"}
         /\ UNCHANGED <<dec, plan, edits, residual, residuals, cycle, snap>>
         /\ loose' \in {loose, loose \cup {"forecast"}}
<1>1. UNCHANGED <<dec, plan, edits, residual, residuals, cycle, snap>> /\ loose' \in {loose, loose \cup {"forecast"}}
  BY DEF ForecastStep, Risk!LoadForecast, Risk!SaveForecast, Risk!SpendForecast, Risk!decVars, Risk!planVars,
         Risk!forecastVars, Risk!cycleVars
<1>2. CASE Risk!LoadForecast(q)
  <2>1. Risk!Begins(q, Risk!Slot("forecast", NoRow, forecast, edits, 0, FALSE, {}))
    BY <1>2 DEF Risk!LoadForecast
  <2>2. OtherRisks(q) /\ riskReq[q].pc = "idle" /\ riskReq'[q].pc = "forecast"
    BY <2>1, RiskBeginning
  <2> QED BY <1>1, <2>2
<1>3. CASE Risk!SaveForecast(q) \/ Risk!SpendForecast(q)
  <2>1. riskReq[q].pc \in {"forecast", "spendForecast"} /\ Risk!Move(q, Risk!Idle)
    BY <1>3 DEF Risk!SaveForecast, Risk!SpendForecast, Risk!At
  <2> QED BY <1>1, <2>1, RiskMoving, RiskIdle
<1> QED BY <1>2, <1>3 DEF ForecastStep

LEMMA CycleSteps ==
  ASSUME RiskTypes, NEW q \in Requests, CycleStep(q)
  PROVE  /\ OtherRisks(q) /\ riskReq[q].pc \in Closers \cup {"idle", "spend"}
         /\ riskReq'[q].pc \in Closers \cup {"idle", "spend", "spendForecast"}
         /\ UNCHANGED <<dec, edits, forecast, basis>>
         /\ plan' \in [Plans -> [status : Risk!PlanStatuses, current : BOOLEAN, content : 0..MaxEdits]]
         /\ \A p \in Plans : /\ plan'[p].status = plan[p].status /\ plan'[p].content = plan[p].content
                             /\ plan'[p].current => plan[p].current
         /\ loose \subseteq loose' /\ loose' \subseteq loose \cup {"promotions", "start"}
<1>1. UNCHANGED <<dec, edits, forecast, basis>> /\ loose \subseteq loose' /\ loose' \subseteq loose \cup {"promotions", "start"}
  BY DEF CycleStep, Risk!LoadPromote, Risk!InsertSnapshot, Risk!RetirePlan, Risk!SaveCycle,
  Risk!SpendResidual,
         Risk!LoadStart, Risk!CheckSnapshot, Risk!decVars, Risk!planVars, Risk!forecastVars, Risk!cycleVars
<1>2. plan' = plan \/ plan' = [plan EXCEPT ![riskReq[q].row].current = FALSE]
  BY DEF CycleStep, Risk!LoadPromote, Risk!InsertSnapshot, Risk!RetirePlan, Risk!SaveCycle,
  Risk!SpendResidual,
         Risk!LoadStart, Risk!CheckSnapshot, Risk!planVars
<1>3. /\ plan' \in [Plans -> [status : Risk!PlanStatuses, current : BOOLEAN, content : 0..MaxEdits]]
      /\ \A p \in Plans : /\ plan'[p].status = plan[p].status /\ plan'[p].content = plan[p].content
                          /\ plan'[p].current => plan[p].current
  <2>1. plan \in [Plans -> [status : Risk!PlanStatuses, current : BOOLEAN, content : 0..MaxEdits]]
    BY RiskTyped
  <2>2. CASE plan' = plan
    BY <2>1, <2>2
  <2>3. CASE plan' = [plan EXCEPT ![riskReq[q].row].current = FALSE]
    <3>1. plan' \in [Plans -> [status : Risk!PlanStatuses, current : BOOLEAN, content : 0..MaxEdits]]
      BY <2>1, <2>3
    <3>2. ASSUME NEW p \in Plans
          PROVE  plan'[p].status = plan[p].status /\ plan'[p].content = plan[p].content
                   /\ (plan'[p].current => plan[p].current)
      BY <2>1, <2>3
    <3> QED BY <3>1, <3>2
  <2> QED BY <1>2, <2>2, <2>3
<1>4. ASSUME NEW seen \in {"within", "above"}, Risk!LoadPromote(q, seen)
      PROVE  OtherRisks(q) /\ riskReq[q].pc = "idle" /\ riskReq'[q].pc = "snapshot"
  <2>1. PICK p : Risk!Begins(q, Risk!Slot("snapshot", p, seen, cycle, residual, forecast # "absent", {}))
    BY <1>4 DEF Risk!LoadPromote
  <2> QED BY <2>1, RiskBeginning
<1>5. CASE Risk!LoadStart(q)
  <2>1. Risk!Begins(q, Risk!Slot("check", NoRow, "none", 1, 0, FALSE, {}))
    BY <1>5 DEF Risk!LoadStart
  <2>2. OtherRisks(q) /\ riskReq[q].pc = "idle" /\ riskReq'[q].pc = "check"
    BY <2>1, RiskBeginning
  <2> QED BY <1>1, <1>3, <2>2 DEF Closers
<1>6. ASSUME Risk!InsertSnapshot(q) \/ Risk!RetirePlan(q) \/ Risk!SaveCycle(q) \/ Risk!SpendResidual(q)
                \/ Risk!CheckSnapshot(q)
      PROVE  /\ OtherRisks(q) /\ riskReq[q].pc \in Closers \cup {"spend"}
             /\ riskReq'[q].pc \in Closers \cup {"idle", "spend", "spendForecast"}
  <2>1. riskReq[q].pc \in {"snapshot", "baseline", "retire", "advance", "open", "spend", "check"}
    BY <1>6 DEF Risk!InsertSnapshot, Risk!RetirePlan, Risk!SaveCycle, Risk!SpendResidual, Risk!CheckSnapshot,
    Risk!At
  <2>2. \/ Risk!Move(q, Risk!Idle)
        \/ \E pc \in {"retire", "open", "advance", "spend", "spendForecast", "baseline"} : Risk!Goto(q, pc)
    BY <1>6
    DEF Risk!InsertSnapshot, Risk!RetirePlan, Risk!SaveCycle, Risk!SpendResidual, Risk!CheckSnapshot, Risk!At
  <2>3. OtherRisks(q) /\ riskReq'[q].pc \in {"idle", "retire", "open", "advance", "spend", "spendForecast", "baseline"}
    BY <2>2, RiskMoving, RiskIdle, RiskGoing
  <2> QED BY <2>1, <2>3 DEF Closers
<1> QED BY <1>1, <1>3, <1>4, <1>5, <1>6 DEF CycleStep, Closers

LEMMA PlanSteps ==
  ASSUME RiskTypes, NEW q \in Requests, PlanStep(q)
  PROVE  /\ OtherRisks(q) /\ riskReq[q].pc \in {"idle", "plan", "next", "flag", "approve"}
         /\ riskReq'[q].pc \in {"idle", "plan", "next", "flag", "approve"}
         /\ UNCHANGED <<dec, basis, residual, residuals, cycle, snap>>
         /\ loose' \in {loose, loose \cup {"plans"}}
<1>1. UNCHANGED <<dec, basis, residual, residuals, cycle, snap>> /\ loose' \in {loose, loose \cup {"plans"}}
  BY DEF PlanStep, Risk!LoadPlan, Risk!CreatePlan, Risk!AmendPlan, Risk!RetireApproved, Risk!FlagForecast,
         Risk!ApprovePlan, Risk!decVars, Risk!planVars, Risk!forecastVars, Risk!cycleVars
<1>2. ASSUME NEW pc \in {"plan", "approve"}, Risk!LoadPlan(q, pc)
      PROVE  OtherRisks(q) /\ riskReq[q].pc = "idle" /\ riskReq'[q].pc = pc
  <2>1. \E row, seen : Risk!Begins(q, Risk!Slot(pc, row, seen, 0, 0, FALSE, {}))
    BY <1>2 DEF Risk!LoadPlan
  <2> QED BY <2>1, RiskBeginning
<1>3. ASSUME \/ \E p \in Plans : Risk!CreatePlan(q, p)
             \/ \E st \in Risk!Amended : Risk!AmendPlan(q, st)
             \/ Risk!RetireApproved(q) \/ Risk!FlagForecast(q) \/ Risk!ApprovePlan(q)
      PROVE  /\ OtherRisks(q) /\ riskReq[q].pc \in {"plan", "next", "flag", "approve"}
             /\ riskReq'[q].pc \in {"idle", "next", "flag"}
  <2>1. riskReq[q].pc \in {"plan", "next", "flag", "approve"}
    BY <1>3 DEF Risk!CreatePlan, Risk!AmendPlan, Risk!RetireApproved, Risk!FlagForecast, Risk!ApprovePlan,
    Risk!At
  <2>2. Risk!Move(q, Risk!Idle) \/ \E pc \in {"next", "flag"} : Risk!Goto(q, pc)
    BY <1>3 DEF Risk!CreatePlan, Risk!AmendPlan, Risk!RetireApproved, Risk!FlagForecast, Risk!ApprovePlan
  <2> QED BY <2>1, <2>2, RiskMoving, RiskIdle, RiskGoing
<1> QED BY <1>1, <1>2, <1>3 DEF PlanStep

LEMMA CrashSteps ==
  ASSUME RiskTypes, NEW q \in Requests, Risk!Crash(q)
  PROVE  /\ OtherRisks(q) /\ riskReq'[q].pc = "idle" /\ loose \subseteq loose'
         /\ UNCHANGED <<dec, plan, edits, forecast, basis, residual, residuals, cycle, snap>>
         /\ riskReq[q].pc \in {"next", "flag", "retire", "advance", "spend", "spendForecast", "open"}
         /\ riskReq[q].pc \in {"retire", "advance", "open"} => "closing" \in loose'
         /\ riskReq[q].pc \in {"spend", "flag"} => riskReq[q].pc \in loose'
<1>1. /\ Risk!Move(q, Risk!Idle) /\ loose \subseteq loose'
      /\ UNCHANGED <<dec, plan, edits, forecast, basis, residual, residuals, cycle, snap>>
      /\ riskReq[q].pc \in {"next", "flag", "retire", "advance", "spend", "spendForecast", "open"}
      /\ riskReq[q].pc \in {"retire", "advance", "open"} => "closing" \in loose'
      /\ riskReq[q].pc \in {"spend", "flag"} => riskReq[q].pc \in loose'
  BY DEF Risk!Crash, Risk!decVars, Risk!planVars, Risk!forecastVars, Risk!cycleVars
<1> QED BY <1>1, RiskMoving, RiskIdle

(* The decisions and the plans. *)

LEMMA DecisionsStand ==
  ASSUME RiskTypes, Risk!DecisionStands, [Risk!Next]_(Risk!vars)
  PROVE  Risk!DecisionStands'
<1>1. ASSUME NEW q \in Requests, NEW d \in Decisions, Risk!CommitDecision(q, d) PROVE Risk!DecisionStands'
  <2>1. dec' = [Risk!Flipped(riskReq[q].rows) EXCEPT ![d] = [option |-> riskReq[q].seen, current |-> TRUE]]
    BY <1>1 DEF Risk!CommitDecision
  <2>2. dec'[d].current
    BY <2>1 DEF Risk!Flipped
  <2> QED BY <2>2 DEF Risk!DecisionStands, Risk!CurrentDecisions
<1>2. ASSUME dec' = dec PROVE Risk!DecisionStands'
  BY <1>2 DEF Risk!DecisionStands, Risk!CurrentDecisions
<1>3. ASSUME NEW q \in Requests, DecisionStep(q),
             \A d \in Decisions : ~Risk!CommitDecision(q, d)
      PROVE  dec' = dec
  BY <1>3
  DEF DecisionStep, Risk!LoadDecide, Risk!FindCurrent, Risk!LockCurrent, Risk!FlipCurrent,
  Risk!RollbackDecision,
      Risk!decVars
<1>4. ASSUME NEW q \in Requests, Risk!Step(q) PROVE Risk!DecisionStands'
  BY <1>1, <1>2, <1>3, <1>4, RiskStepKinds, PlanSteps, ForecastSteps, CycleSteps, CrashSteps
<1>5. ASSUME Risk!RecordResidual \/ UNCHANGED Risk!vars PROVE dec' = dec
  BY <1>5 DEF Risk!RecordResidual, Risk!decVars, Risk!vars
<1> QED BY <1>2, <1>4, <1>5 DEF Risk!Next

\* Saves of the plan one after the other: whoever is at one knows the current plan, if
\* there is one.
PlanSaver(q) == riskReq[q].pc \in {"plan", "next"}

KnowsPlan(q) ==
  /\ riskReq[q].pc = "next" => Risk!CurrentPlans = {}
  /\ riskReq[q].pc = "plan" =>
       /\ riskReq[q].seen = "absent" => Risk!CurrentPlans = {}
       /\ riskReq[q].seen # "absent" => Risk!CurrentPlans \subseteq {riskReq[q].row}

InTurn ==
  /\ \A a, b \in Risk!CurrentPlans : a = b
  /\ \A p, q \in Requests : PlanSaver(p) /\ PlanSaver(q) => p = q
  /\ \A q \in Requests : KnowsPlan(q)

PlansInv ==
  /\ \A p \in Plans : plan[p].current => plan[p].status # "absent"
  /\ "plans" \in loose \/ InTurn

\* A step that makes no plan current and begins no save of one.
LEMMA PlansLeft ==
  ASSUME RiskTypes, PlansInv, NEW q \in Requests, OtherRisks(q), riskReq'[q].pc \notin {"plan", "next"},
         loose \subseteq loose',
         \A p \in Plans : plan'[p].current => plan[p].current /\ plan'[p].status # "absent"
  PROVE  PlansInv'
<1>1. Risk!CurrentPlans' \subseteq Risk!CurrentPlans
  BY DEF Risk!CurrentPlans
<1>2. ASSUME InTurn PROVE InTurn'
  <2>1. \A p \in Requests : PlanSaver(p)' => PlanSaver(p) /\ p # q
    BY DEF OtherRisks, PlanSaver
  <2>2. \A p \in Requests : KnowsPlan(p)'
    BY <1>1, <1>2 DEF InTurn, OtherRisks, KnowsPlan
  <2> QED BY <1>1, <1>2, <2>1, <2>2 DEF InTurn
<1> QED BY <1>2 DEF PlansInv

LEMMA PlansLoad ==
  ASSUME RiskTypes, PlansInv, NEW q \in Requests, NEW pc \in {"plan", "approve"}, Risk!LoadPlan(q, pc)
  PROVE  PlansInv'
<1>1. /\ plan' = plan /\ loose \subseteq loose'
      /\ "plans" \notin loose' => pc = "approve" \/ \A o \in Requests : ~PlanSaver(o)
  BY DEF Risk!LoadPlan, Risk!planVars, PlanSaver
<1>2. /\ riskReq'[q].pc = pc /\ OtherRisks(q)
      /\ Risk!CurrentPlans = {} => riskReq'[q].seen = "absent"
      /\ Risk!CurrentPlans # {} =>
           riskReq'[q].row \in Risk!CurrentPlans /\ riskReq'[q].seen = plan[riskReq'[q].row].status
  <2>1. ASSUME Risk!CurrentPlans = {}
        PROVE  riskReq'[q].pc = pc /\ OtherRisks(q) /\ riskReq'[q].seen = "absent"
    <3>1. Risk!Begins(q, Risk!Slot(pc, NoRow, "absent", 0, 0, FALSE, {}))
      BY <2>1 DEF Risk!LoadPlan
    <3> QED BY <2>1, <3>1, RiskBeginning
  <2>2. ASSUME Risk!CurrentPlans # {}
        PROVE  /\ riskReq'[q].pc = pc /\ OtherRisks(q)
               /\ riskReq'[q].row \in Risk!CurrentPlans /\ riskReq'[q].seen = plan[riskReq'[q].row].status
    <3>1. PICK p \in Risk!CurrentPlans : Risk!Begins(q, Risk!Slot(pc, p, plan[p].status, 0, 0, FALSE, {}))
      BY <2>2 DEF Risk!LoadPlan
    <3>2. PICK st : st = plan[p].status
      OBVIOUS
    <3>3. Risk!Begins(q, Risk!Slot(pc, p, st, 0, 0, FALSE, {}))
      BY <3>1, <3>2
    <3>4. /\ riskReq'[q].pc = pc /\ OtherRisks(q) /\ riskReq'[q].row = p
          /\ riskReq'[q].seen = st
      BY <3>3, RiskBeginning
    <3> QED BY <2>2, <3>2, <3>4
  <2> QED BY <2>1, <2>2
<1>3. CASE pc = "approve"
  <2>1. \A p \in Plans : plan'[p].current => plan[p].current /\ plan'[p].status # "absent"
    BY <1>1 DEF PlansInv
  <2> QED BY <1>1, <1>2, <1>3, <2>1, PlansLeft
<1>4. CASE pc = "plan"
  <2>1. Risk!CurrentPlans' = Risk!CurrentPlans
    BY <1>1 DEF Risk!CurrentPlans
  <2>2. ASSUME "plans" \notin loose' PROVE InTurn'
    <3>1. InTurn /\ \A o \in Requests : ~PlanSaver(o)
      BY <1>1, <1>4, <2>2 DEF PlansInv
    <3>2. \A p \in Requests : PlanSaver(p)' => p = q
      BY <1>2, <3>1 DEF OtherRisks, PlanSaver
    <3>3. \A p \in Risk!CurrentPlans : plan[p].status # "absent"
      BY DEF PlansInv, Risk!CurrentPlans
    <3>4. KnowsPlan(q)'
      BY <1>2, <1>4, <2>1, <3>1, <3>3 DEF KnowsPlan, InTurn
    <3>5. \A p \in Requests : p # q => KnowsPlan(p)'
      BY <1>2, <2>1, <3>1 DEF OtherRisks, KnowsPlan, InTurn
    <3> QED BY <2>1, <3>1, <3>2, <3>4, <3>5 DEF InTurn
  <2> QED BY <1>1, <2>2 DEF PlansInv
<1> QED BY <1>3, <1>4

LEMMA PlansCreate ==
  ASSUME RiskTypes, PlansInv, NEW q \in Requests, NEW p \in Plans, Risk!CreatePlan(q, p)
  PROVE  PlansInv'
<1>1. /\ PlanSaver(q)
      /\ riskReq[q].pc = "plan" => riskReq[q].seen = "absent"
      /\ plan' = [plan EXCEPT ![p] = [status |-> "Draft", current |-> TRUE, content |-> edits']]
      /\ loose' = loose /\ Risk!Goto(q, "flag")
  BY DEF Risk!CreatePlan, Risk!At, PlanSaver
<1>2. OtherRisks(q) /\ riskReq'[q].pc = "flag"
  BY <1>1, RiskGoing
<1>3. /\ plan'[p].current /\ plan'[p].status = "Draft"
      /\ \A o \in Plans : o # p => plan'[o] = plan[o]
  BY <1>1, RiskTyped
<1>4. ASSUME InTurn PROVE InTurn'
  <2>1. Risk!CurrentPlans = {}
    BY <1>1, <1>4 DEF InTurn, KnowsPlan, PlanSaver
  <2>2. Risk!CurrentPlans' \subseteq {p}
    BY <1>3, <2>1 DEF Risk!CurrentPlans
  <2>3. \A o \in Requests : ~PlanSaver(o)'
    BY <1>1, <1>2, <1>4 DEF InTurn, OtherRisks, PlanSaver
  <2>4. \A o \in Requests : KnowsPlan(o)'
    BY <2>3 DEF PlanSaver, KnowsPlan
  <2> QED BY <2>2, <2>3, <2>4 DEF InTurn
<1> QED BY <1>1, <1>3, <1>4 DEF PlansInv

LEMMA PlansRetire ==
  ASSUME RiskTypes, PlansInv, NEW q \in Requests, Risk!RetireApproved(q)
  PROVE  PlansInv'
<1>1. /\ riskReq[q].pc = "plan" /\ riskReq[q].seen # "absent" /\ loose' = loose /\ Risk!Goto(q, "next")
      /\ plan' = [plan EXCEPT ![riskReq[q].row].current = FALSE]
  BY DEF Risk!RetireApproved, Risk!At
<1>2. OtherRisks(q) /\ riskReq'[q].pc = "next"
  BY <1>1, RiskGoing
<1>3. \A p \in Plans : /\ plan'[p].status = plan[p].status
                       /\ plan'[p].current => plan[p].current /\ p # riskReq[q].row
  BY <1>1, RiskTyped
<1>4. ASSUME InTurn PROVE InTurn'
  <2>1. Risk!CurrentPlans \subseteq {riskReq[q].row}
    BY <1>1, <1>4 DEF InTurn, KnowsPlan
  <2>2. Risk!CurrentPlans' = {}
    BY <1>3, <2>1 DEF Risk!CurrentPlans
  <2>3. \A o \in Requests : PlanSaver(o)' => PlanSaver(o)
    BY <1>1, <1>2 DEF OtherRisks, PlanSaver
  <2>4. \A o \in Requests : KnowsPlan(o)'
    BY <2>2 DEF KnowsPlan
  <2> QED BY <1>4, <2>2, <2>3, <2>4 DEF InTurn
<1> QED BY <1>1, <1>3, <1>4 DEF PlansInv

LEMMA PlansAmend ==
  ASSUME RiskTypes, PlansInv, NEW q \in Requests,
         Risk!FlagForecast(q) \/ Risk!ApprovePlan(q) \/ \E st \in Risk!Amended : Risk!AmendPlan(q, st)
  PROVE  PlansInv'
<1>1. plan \in [Plans -> [status : Risk!PlanStatuses, current : BOOLEAN, content : 0..MaxEdits]]
  BY RiskTyped
<1>2. Risk!Move(q, Risk!Idle) \/ Risk!Goto(q, "flag")
  BY DEF Risk!FlagForecast, Risk!ApprovePlan, Risk!AmendPlan
<1>3. OtherRisks(q) /\ riskReq'[q].pc \in {"idle", "flag"}
  BY <1>2, RiskMoving, RiskIdle, RiskGoing
<1>4. loose' = loose
  BY DEF Risk!FlagForecast, Risk!ApprovePlan, Risk!AmendPlan
<1>5. \A p \in Plans : plan'[p].current => plan[p].current /\ plan'[p].status # "absent"
  <2>1. CASE Risk!FlagForecast(q)
    BY <2>1 DEF Risk!FlagForecast, Risk!planVars, PlansInv
  <2>2. CASE Risk!ApprovePlan(q)
    BY <1>1, <2>2 DEF Risk!ApprovePlan, PlansInv, Risk!Changed
  <2>3. ASSUME NEW st \in Risk!Amended, Risk!AmendPlan(q, st)
        PROVE  \A p \in Plans : plan'[p].current => plan[p].current /\ plan'[p].status # "absent"
    BY <1>1, <2>3 DEF Risk!AmendPlan, PlansInv, Risk!Changed, Risk!Amended
  <2> QED BY <2>1, <2>2, <2>3
<1> QED BY <1>3, <1>4, <1>5, PlansLeft

LEMMA NextPlansInv == ASSUME RiskTypes, PlansInv, [Risk!Next]_(Risk!vars) PROVE PlansInv'
<1>1. ASSUME NEW q \in Requests, PlanStep(q) PROVE PlansInv'
  BY <1>1, PlansLoad, PlansCreate, PlansRetire, PlansAmend DEF PlanStep
<1>2. ASSUME NEW q \in Requests, DecisionStep(q) \/ ForecastStep(q) \/ CycleStep(q) \/ Risk!Crash(q)
      PROVE  PlansInv'
  <2>1. /\ OtherRisks(q) /\ riskReq'[q].pc \notin {"plan", "next"} /\ loose \subseteq loose'
        /\ \A p \in Plans : plan'[p].status = plan[p].status /\ (plan'[p].current => plan[p].current)
    BY <1>2, DecisionSteps, ForecastSteps, CycleSteps, CrashSteps DEF Deciders, Closers
  <2>2. \A p \in Plans : plan'[p].current => plan[p].current /\ plan'[p].status # "absent"
    BY <2>1 DEF PlansInv
  <2> QED BY <2>1, <2>2, PlansLeft
<1>3. ASSUME Risk!RecordResidual \/ UNCHANGED Risk!vars PROVE PlansInv'
  <2>1. UNCHANGED <<plan, loose, riskReq>>
    BY <1>3 DEF Risk!RecordResidual, Risk!planVars, Risk!vars
  <2> QED BY <2>1 DEF PlansInv, InTurn, KnowsPlan, PlanSaver, Risk!CurrentPlans
<1> QED BY <1>1, <1>2, <1>3, RiskStepKinds DEF Risk!Next

\* An approved plan is rewritten only by a save that had read it before.
LEMMA ApprovedKeeps ==
  ASSUME RiskTypes, [Risk!Next]_(Risk!vars), NEW p \in Plans, plan[p].status = "Approved",
         plan'[p].content # plan[p].content
  PROVE  \E q \in Requests :
           Risk!At(q, "plan") /\ riskReq[q].row = p /\ riskReq[q].seen # "Approved" /\ riskReq'[q] # riskReq[q]
<1>1. plan \in [Plans -> [status : Risk!PlanStatuses, current : BOOLEAN, content : 0..MaxEdits]]
  BY RiskTyped
<1>2. PICK q \in Requests : PlanStep(q)
  <2>1. ASSUME NEW q \in Requests, Risk!Step(q), ~PlanStep(q) PROVE FALSE
    BY <2>1, RiskStepKinds, DecisionSteps, ForecastSteps, CycleSteps, CrashSteps
  <2>2. ASSUME Risk!RecordResidual \/ UNCHANGED Risk!vars PROVE FALSE
    BY <2>2 DEF Risk!RecordResidual, Risk!planVars, Risk!vars
  <2> QED BY <2>1, <2>2 DEF Risk!Next
<1>3. PICK st \in Risk!Amended : Risk!AmendPlan(q, st)
  <2>1. ASSUME NEW o \in Plans, Risk!CreatePlan(q, o) PROVE FALSE
    BY <1>1, <2>1 DEF Risk!CreatePlan
  <2>2. ASSUME Risk!FlagForecast(q) \/ \E pc \in {"plan", "approve"} : Risk!LoadPlan(q, pc) PROVE FALSE
    BY <2>2 DEF Risk!FlagForecast, Risk!LoadPlan, Risk!planVars
  <2>3. ASSUME Risk!RetireApproved(q) \/ Risk!ApprovePlan(q) PROVE FALSE
    BY <1>1, <2>3 DEF Risk!RetireApproved, Risk!ApprovePlan
  <2> QED BY <1>2, <2>1, <2>2, <2>3 DEF PlanStep
<1>4. /\ Risk!At(q, "plan") /\ riskReq[q].seen \in Risk!Amended /\ Risk!Goto(q, "flag")
      /\ plan' = [plan EXCEPT ![riskReq[q].row].content = edits',
                              ![riskReq[q].row].status = Risk!Changed(@, riskReq[q].seen, st)]
  BY <1>3 DEF Risk!AmendPlan
<1>5. riskReq[q].row = p
  BY <1>1, <1>4
<1>6. riskReq'[q].pc = "flag"
  BY <1>4, RiskGoing
<1> QED BY <1>4, <1>5, <1>6 DEF Risk!At, Risk!Amended

LEMMA TreatmentBegins == ASSUME Risk!Init PROVE PlansInv /\ Risk!DecisionStands
<1>1. Risk!CurrentPlans = {} /\ \A p \in Plans : ~plan[p].current
  BY DEF Risk!Init, Risk!NoPlan, Risk!CurrentPlans
<1>2. \A q \in Requests : riskReq[q].pc = "idle"
  BY RiskIdle DEF Risk!Init
<1>3. InTurn
  BY <1>1, <1>2 DEF InTurn, PlanSaver, KnowsPlan
<1>4. Risk!DecisionStands
  BY DEF Risk!Init, Risk!NoDecision, Risk!DecisionStands
<1> QED BY <1>1, <1>3, <1>4 DEF PlansInv

LEMMA PlansAreOne == ASSUME PlansInv PROVE Risk!OnePlan
BY DEF PlansInv, InTurn, Risk!OnePlan

LEMMA RiskWithin == GovernedSpec => Risk!Spec
<1>1. GovernedInit => Risk!Init
  BY DEF GovernedInit
<1>2. [GovernedNext]_governed => [Risk!Next]_(Risk!vars)
  BY DEF GovernedNext, governed, risk, Risk!vars
<1> QED BY <1>1, <1>2, PTL DEF GovernedSpec, Risk!Spec

\* A scenario that was decided on never is without a current decision, saves of its plan
\* one after the other leave one current version, and what an approved version says is
\* rewritten only by a save that had read it before (saveTreatmentDecision, saveRtp,
\* approveRtp, promoteResidual).
THEOREM TreatmentIsKept == GovernedSpec => TreatmentKept
<1> DEFINE I == RiskTypes /\ PlansInv /\ Risk!DecisionStands
<1>1. Risk!Init => I
  BY InitRiskTypes, TreatmentBegins
<1>2. I /\ [Risk!Next]_(Risk!vars) => I'
  BY NextRiskTypes, NextPlansInv, DecisionsStand
<1>3. I => Risk!DecisionStands /\ Risk!OnePlan
  BY PlansAreOne
<1>4. I /\ [Risk!Next]_(Risk!vars) => Risk!KeepsApproved
  BY ApprovedKeeps DEF Risk!KeepsApproved
<1> HIDE DEF I
<1>5. GovernedSpec => []I /\ [][Risk!Next]_(Risk!vars)
  BY <1>1, <1>2, RiskWithin, PTL DEF Risk!Spec
<1>6. GovernedSpec => [](Risk!DecisionStands /\ Risk!OnePlan)
  BY <1>3, <1>5, PTL
<1>7. GovernedSpec => Risk!ApprovedKept
  BY <1>4, <1>5, PTL DEF Risk!ApprovedKept
<1> QED BY <1>6, <1>7 DEF TreatmentKept, Risk!TreatmentKept

(* The forecast. *)

\* Whoever has read the forecast and the plan is alone, unless another confirmed at the
\* same time; and when the plan was saved since, the forecast is about to be flagged.
Forecasting(q) == riskReq[q].pc = "forecast"
Overlooked == loose \cap {"flag", "forecast"} # {}
FlagPending == \E q \in Requests : riskReq[q].pc = "flag"

ReadInTime(q) ==
  Forecasting(q) /\ riskReq[q].seen = "fresh" /\ riskReq[q].n # edits =>
    FlagPending \/ Overlooked \/ forecast # "fresh"

ForecastInv ==
  /\ forecast = "fresh" /\ basis # edits => FlagPending \/ Overlooked
  /\ \A q \in Requests : ReadInTime(q)
  /\ \A p, q \in Requests : Forecasting(p) /\ Forecasting(q) /\ p # q => "forecast" \in loose

\* Every other handler.
LEMMA ForecastLeft ==
  ASSUME ForecastInv, NEW q \in Requests, OtherRisks(q), riskReq'[q].pc # "forecast", loose \subseteq loose',
         basis' = basis, forecast' \in {forecast, "absent", "flagged"},
         edits' = edits \/ riskReq'[q].pc = "flag",
         riskReq[q].pc = "flag" => riskReq'[q].pc = "flag" \/ "flag" \in loose' \/ forecast' # "fresh"
  PROVE  ForecastInv'
<1>1. Overlooked => Overlooked'
  BY DEF Overlooked
<1>2. ASSUME FlagPending, forecast' = "fresh" PROVE FlagPending' \/ Overlooked'
  BY <1>2 DEF FlagPending, OtherRisks, Overlooked
<1>3. edits' # edits => FlagPending'
  BY DEF FlagPending
<1>4. \A p \in Requests : Forecasting(p)' => Forecasting(p) /\ riskReq'[p] = riskReq[p]
  BY DEF Forecasting, OtherRisks
<1>5. \A p \in Requests : ReadInTime(p)'
  BY <1>1, <1>2, <1>3, <1>4 DEF ReadInTime, ForecastInv
<1>6. forecast' = "fresh" /\ basis' # edits' => FlagPending' \/ Overlooked'
  BY <1>1, <1>2, <1>3 DEF ForecastInv
<1>7. \A o, p \in Requests : Forecasting(o)' /\ Forecasting(p)' /\ o # p => ("forecast" \in loose)'
  BY <1>4 DEF ForecastInv
<1> QED BY <1>5, <1>6, <1>7 DEF ForecastInv

LEMMA ForecastLoads ==
  ASSUME RiskTypes, ForecastInv, NEW q \in Requests, Risk!LoadForecast(q)
  PROVE  ForecastInv'
<1>1. /\ riskReq[q].pc = "idle" /\ riskReq'[q].pc = "forecast" /\ riskReq'[q].n = edits /\ OtherRisks(q)
  BY RiskBeginning DEF Risk!LoadForecast
<1>2. /\ UNCHANGED <<edits, forecast, basis>> /\ loose \subseteq loose'
      /\ \A p \in Requests : Forecasting(p) => "forecast" \in loose'
  BY DEF Risk!LoadForecast, Risk!planVars, Risk!forecastVars, Forecasting, Risk!At
<1>3. FlagPending => FlagPending'
  BY <1>1 DEF FlagPending, OtherRisks
<1>4. Overlooked => Overlooked'
  BY <1>2 DEF Overlooked
<1>5. \A p \in Requests : ReadInTime(p)'
  BY <1>1, <1>2, <1>3, <1>4 DEF ReadInTime, Forecasting, OtherRisks, ForecastInv
<1>6. \A o, p \in Requests : Forecasting(o)' /\ Forecasting(p)' /\ o # p => "forecast" \in loose'
  BY <1>1, <1>2 DEF Forecasting, OtherRisks
<1> QED BY <1>2, <1>3, <1>4, <1>5, <1>6 DEF ForecastInv

LEMMA ForecastSaves ==
  ASSUME RiskTypes, ForecastInv, NEW q \in Requests, Risk!SaveForecast(q)
  PROVE  ForecastInv'
<1>1. /\ Forecasting(q) /\ edits' = edits /\ loose \subseteq loose' /\ Risk!Move(q, Risk!Idle)
      /\ \/ UNCHANGED <<forecast, basis>>
         \/ /\ forecast' = Risk!Changed(forecast, riskReq[q].seen, "fresh")
            /\ basis' = riskReq[q].n
            /\ riskReq[q].seen # "fresh" /\ riskReq[q].n # edits => "forecast" \in loose'
  BY DEF Risk!SaveForecast, Risk!planVars, Risk!forecastVars, Risk!At, Risk!Confirmed, Forecasting
<1>2. OtherRisks(q) /\ riskReq'[q].pc = "idle"
  BY <1>1, RiskMoving, RiskIdle
<1>3. CASE UNCHANGED <<forecast, basis>>
  <2>1. riskReq[q].pc # "flag" /\ riskReq'[q].pc # "forecast"
    BY <1>1, <1>2 DEF Forecasting
  <2> QED BY <1>1, <1>2, <1>3, <2>1, ForecastLeft
<1>4. CASE /\ forecast' = Risk!Changed(forecast, riskReq[q].seen, "fresh") /\ basis' = riskReq[q].n
           /\ riskReq[q].seen # "fresh" /\ riskReq[q].n # edits => "forecast" \in loose'
  <2>1. FlagPending => FlagPending'
    BY <1>1, <1>2 DEF FlagPending, OtherRisks, Forecasting
  <2>2. Overlooked => Overlooked'
    BY <1>1 DEF Overlooked
  <2>3. \A p \in Requests : Forecasting(p)' => Forecasting(p) /\ p # q
    BY <1>2 DEF OtherRisks, Forecasting
  <2>4. \A p \in Requests : Forecasting(p)' => "forecast" \in loose'
    BY <1>1, <2>3 DEF ForecastInv
  <2>5. \A p \in Requests : ReadInTime(p)'
    BY <2>4 DEF ReadInTime, Overlooked
  <2>6. ASSUME riskReq[q].seen = "fresh", forecast' = "fresh",
               basis' # edits'
        PROVE  FlagPending' \/ Overlooked'
    <3>1. forecast = "fresh" /\ riskReq[q].n # edits
      BY <1>1, <1>4, <2>6 DEF Risk!Changed
    <3> QED BY <1>1, <2>1, <2>2, <2>6, <3>1 DEF ForecastInv, ReadInTime
  <2>7. ASSUME riskReq[q].seen # "fresh", basis' # edits' PROVE Overlooked'
    BY <1>1, <1>4, <2>7 DEF Overlooked
  <2>8. \A o, p \in Requests : Forecasting(o)' /\ Forecasting(p)' /\ o # p => "forecast" \in loose'
    BY <2>4
  <2> QED BY <2>5, <2>6, <2>7, <2>8 DEF ForecastInv
<1> QED BY <1>1, <1>3, <1>4

LEMMA NextForecastInv == ASSUME RiskTypes, ForecastInv, [Risk!Next]_(Risk!vars) PROVE ForecastInv'
<1>1. ASSUME NEW q \in Requests, DecisionStep(q) \/ CycleStep(q) \/ Risk!Crash(q) PROVE ForecastInv'
  <2>1. /\ OtherRisks(q) /\ riskReq'[q].pc \notin {"forecast", "flag"} /\ loose \subseteq loose'
        /\ basis' = basis /\ edits' = edits /\ forecast' \in {forecast, "flagged"}
        /\ riskReq[q].pc = "flag" => "flag" \in loose'
    BY <1>1, DecisionSteps, CycleSteps, CrashSteps DEF Deciders, Closers
  <2> QED BY <2>1, ForecastLeft
<1>2. ASSUME NEW q \in Requests, PlanStep(q) PROVE ForecastInv'
  <2>1. /\ OtherRisks(q) /\ riskReq'[q].pc # "forecast" /\ loose \subseteq loose' /\ basis' = basis
    BY <1>2, PlanSteps
  <2>2. CASE Risk!FlagForecast(q)
    <3>1. forecast' \in {"absent", "flagged"} /\ edits' = edits
      BY <2>2 DEF Risk!FlagForecast, Risk!planVars
    <3> QED BY <2>1, <3>1, ForecastLeft
  <2>3. ASSUME \/ \E p \in Plans : Risk!CreatePlan(q, p)
               \/ \E st \in Risk!Amended : Risk!AmendPlan(q, st)
        PROVE  ForecastInv'
    <3>1. forecast' = forecast /\ riskReq'[q].pc = "flag"
      BY <2>3, RiskGoing DEF Risk!CreatePlan, Risk!AmendPlan, Risk!forecastVars
    <3> QED BY <2>1, <3>1, ForecastLeft
  <2>4. ASSUME Risk!RetireApproved(q) \/ Risk!ApprovePlan(q) \/ \E pc \in {"plan", "approve"} : Risk!LoadPlan(q, pc)
        PROVE  ForecastInv'
    <3>1. forecast' = forecast /\ edits' = edits /\ riskReq[q].pc # "flag"
      BY <2>4
      DEF Risk!RetireApproved, Risk!ApprovePlan, Risk!LoadPlan, Risk!forecastVars, Risk!planVars, Risk!At,
      Risk!Begins
    <3> QED BY <2>1, <3>1, ForecastLeft
  <2> QED BY <1>2, <2>2, <2>3, <2>4 DEF PlanStep
<1>3. ASSUME NEW q \in Requests, Risk!SpendForecast(q) PROVE ForecastInv'
  <2>1. /\ OtherRisks(q) /\ riskReq'[q].pc = "idle" /\ loose' = loose
        /\ edits' = edits /\ basis' = basis /\ forecast' = "absent"
    BY <1>3, RiskMoving, RiskIdle DEF Risk!SpendForecast, Risk!planVars
  <2> QED BY <2>1, ForecastLeft
<1>4. ASSUME NEW q \in Requests, ForecastStep(q) PROVE ForecastInv'
  BY <1>3, <1>4, ForecastLoads, ForecastSaves DEF ForecastStep
<1>5. ASSUME Risk!RecordResidual \/ UNCHANGED Risk!vars PROVE ForecastInv'
  <2>1. UNCHANGED <<edits, forecast, basis, loose, riskReq>>
    BY <1>5 DEF Risk!RecordResidual, Risk!planVars, Risk!forecastVars, Risk!vars
  <2> QED BY <2>1 DEF ForecastInv, ReadInTime, Forecasting, FlagPending, Overlooked
<1> QED BY <1>1, <1>2, <1>4, <1>5, RiskStepKinds DEF Risk!Next

\* A forecast that is not flagged was made for the plan as it stands, but for the saves
\* and confirmations that overlapped or died (saveRtp, saveProjectedResidual).
THEOREM ForecastIsFlagged == GovernedSpec => []ForecastFlagged
<1> DEFINE I == RiskTypes /\ ForecastInv
<1>1. Risk!Init => I
  <2>1. ASSUME Risk!Init PROVE ForecastInv
    <3>1. \A q \in Requests : ~Forecasting(q)
      BY <2>1, RiskIdle DEF Risk!Init, Forecasting
    <3> QED BY <2>1, <3>1 DEF Risk!Init, ForecastInv, ReadInTime
  <2> QED BY <2>1, InitRiskTypes
<1>2. I /\ [Risk!Next]_(Risk!vars) => I'
  BY NextRiskTypes, NextForecastInv
<1>3. I => ForecastFlagged
  BY DEF ForecastInv, FlagPending, Overlooked, ForecastFlagged, Risk!ForecastFlagged, Risk!At
<1> HIDE DEF I
<1> QED BY <1>1, <1>2, <1>3, RiskWithin, PTL DEF Risk!Spec

(* The cycles. *)

Promotes(q) == riskReq[q].pc \in {"snapshot", "retire", "advance", "spend", "spendForecast"}
Starts(q) == riskReq[q].pc \in {"check", "baseline", "open"}

\* What a step of a promotion or of the opening does.
LEMMA PromotionLoads ==
  ASSUME RiskTypes, NEW q \in Requests, NEW seen, Risk!LoadPromote(q, seen)
  PROVE  /\ riskReq[q].pc = "idle" /\ OtherRisks(q) /\ residual # 0 /\ cycle < MaxCycle
         /\ riskReq'[q].pc = "snapshot" /\ riskReq'[q].n = cycle /\ riskReq'[q].r = residual
         /\ UNCHANGED <<cycle, snap, residual, residuals>> /\ loose \subseteq loose'
         /\ \A p \in Requests : (Promotes(p) => "promotions" \in loose') /\ (Starts(p) => "start" \in loose')
<1>1. /\ residual # 0 /\ cycle < MaxCycle /\ UNCHANGED <<cycle, snap, residual, residuals>>
      /\ loose \subseteq loose'
      /\ \A p \in Requests : (Promotes(p) => "promotions" \in loose') /\ (Starts(p) => "start" \in loose')
  BY DEF Risk!LoadPromote, Risk!cycleVars, Risk!Promoting, Risk!Starting, Promotes, Starts
<1>2. PICK c, x : c = cycle /\ x = residual
  OBVIOUS
<1>3. PICK p, mark : Risk!Begins(q, Risk!Slot("snapshot", p, seen, c, x, mark, {}))
  BY <1>2 DEF Risk!LoadPromote
<1>4. /\ riskReq[q].pc = "idle" /\ OtherRisks(q) /\ riskReq'[q].pc = "snapshot"
      /\ riskReq'[q].n = c /\ riskReq'[q].r = x
  BY <1>3, RiskBeginning
<1> QED BY <1>1, <1>2, <1>4

LEMMA OpeningLoads ==
  ASSUME RiskTypes, NEW q \in Requests, Risk!LoadStart(q)
  PROVE  /\ riskReq[q].pc = "idle" /\ OtherRisks(q) /\ cycle = 1
         /\ riskReq'[q].pc = "check" /\ riskReq'[q].n = 1
         /\ UNCHANGED <<cycle, snap, residual, residuals>> /\ loose \subseteq loose'
         /\ \A p \in Requests : Promotes(p) => "start" \in loose'
<1>1. /\ cycle = 1 /\ UNCHANGED <<cycle, snap, residual, residuals>> /\ loose \subseteq loose'
      /\ \A p \in Requests : Promotes(p) => "start" \in loose'
  BY DEF Risk!LoadStart, Risk!cycleVars, Risk!Promoting, Promotes
<1>2. PICK one, mark : one = 1 /\ Risk!Begins(q, Risk!Slot("check", NoRow, "none", one, 0, mark, {}))
  BY DEF Risk!LoadStart
<1>3. /\ riskReq[q].pc = "idle" /\ OtherRisks(q) /\ riskReq'[q].pc = "check" /\ riskReq'[q].n = one
  BY <1>2, RiskBeginning
<1> QED BY <1>1, <1>2, <1>3

LEMMA SnapshotInserts ==
  ASSUME RiskTypes, NEW q \in Requests, Risk!InsertSnapshot(q)
  PROVE  /\ OtherRisks(q) /\ UNCHANGED <<cycle, residual, residuals, loose>>
         /\ \/ riskReq'[q].pc = "idle" /\ snap' = snap
            \/ /\ riskReq[q].pc = "snapshot" /\ riskReq'[q].pc = "retire" /\ snap[riskReq[q].n] = 0
               /\ snap' = [snap EXCEPT ![riskReq[q].n] = riskReq[q].r]
               /\ riskReq'[q].n = riskReq[q].n /\ riskReq'[q].r = riskReq[q].r
            \/ /\ riskReq[q].pc = "baseline" /\ riskReq'[q].pc = "open" /\ snap[riskReq[q].n] = 0
               /\ snap' = [snap EXCEPT ![riskReq[q].n] = Risk!Baseline]
               /\ riskReq'[q].n = riskReq[q].n
         /\ riskReq[q].pc \in {"snapshot", "baseline"}
<1>1. UNCHANGED <<cycle, residual, residuals, loose>> /\ riskReq[q].pc \in {"snapshot", "baseline"}
  BY DEF Risk!InsertSnapshot
<1>2. CASE snap[riskReq[q].n] # 0
  <2>1. Risk!Move(q, Risk!Idle) /\ snap' = snap
    BY <1>2 DEF Risk!InsertSnapshot
  <2> QED BY <1>1, <2>1, RiskMoving, RiskIdle
<1>3. CASE snap[riskReq[q].n] = 0 /\ riskReq[q].pc = "snapshot"
  <2>1. Risk!Goto(q, "retire") /\ snap' = [snap EXCEPT ![riskReq[q].n] = riskReq[q].r]
    BY <1>3 DEF Risk!InsertSnapshot, Risk!At
  <2> QED BY <1>1, <1>3, <2>1, RiskGoing
<1>4. CASE snap[riskReq[q].n] = 0 /\ riskReq[q].pc = "baseline"
  <2>1. Risk!Goto(q, "open") /\ snap' = [snap EXCEPT ![riskReq[q].n] = Risk!Baseline]
    BY <1>4 DEF Risk!InsertSnapshot, Risk!At
  <2> QED BY <1>1, <1>4, <2>1, RiskGoing
<1> QED BY <1>1, <1>2, <1>3, <1>4

LEMMA CycleSaves ==
  ASSUME RiskTypes, NEW q \in Requests, Risk!SaveCycle(q)
  PROVE  /\ OtherRisks(q) /\ UNCHANGED <<snap, residual, residuals, loose>> /\ cycle' = riskReq[q].n + 1
         /\ \/ riskReq[q].pc = "advance" /\ riskReq'[q].pc = "spend" /\ riskReq'[q].r = riskReq[q].r
            \/ riskReq[q].pc = "open" /\ riskReq'[q].pc = "idle"
<1>1. UNCHANGED <<snap, residual, residuals, loose>> /\ cycle' = riskReq[q].n + 1
  BY DEF Risk!SaveCycle
<1>2. CASE riskReq[q].pc = "advance"
  <2>1. Risk!Goto(q, "spend")
    BY <1>2 DEF Risk!SaveCycle, Risk!At
  <2> QED BY <1>1, <1>2, <2>1, RiskGoing
<1>3. CASE riskReq[q].pc # "advance"
  <2>1. Risk!Move(q, Risk!Idle) /\ riskReq[q].pc = "open"
    BY <1>3 DEF Risk!SaveCycle, Risk!At
  <2> QED BY <1>1, <2>1, RiskMoving, RiskIdle
<1> QED BY <1>2, <1>3

\* The steps between: they write neither a snapshot nor a cycle.
LEMMA BetweenCycles ==
  ASSUME RiskTypes, NEW q \in Requests, Risk!RetirePlan(q) \/ Risk!SpendResidual(q) \/ Risk!CheckSnapshot(q)
  PROVE  /\ OtherRisks(q) /\ UNCHANGED <<cycle, snap, residuals, loose>>
         /\ \/ /\ riskReq[q].pc = "retire" /\ riskReq'[q].pc = "advance" /\ residual' = residual
               /\ riskReq'[q].n = riskReq[q].n /\ riskReq'[q].r = riskReq[q].r
            \/ riskReq[q].pc = "spend" /\ riskReq'[q].pc \in {"idle", "spendForecast"} /\ residual' = 0
            \/ /\ riskReq[q].pc = "check" /\ residual' = residual /\ riskReq'[q].n = riskReq[q].n
               /\ riskReq'[q].pc = IF snap[1] # 0 THEN "open" ELSE "baseline"
<1>1. CASE Risk!RetirePlan(q)
  <2>1. /\ UNCHANGED <<cycle, snap, residual, residuals, loose>> /\ riskReq[q].pc = "retire"
        /\ Risk!Goto(q, "advance")
    BY <1>1 DEF Risk!RetirePlan, Risk!cycleVars, Risk!At
  <2> QED BY <2>1, RiskGoing
<1>2. CASE Risk!SpendResidual(q)
  <2>1. /\ UNCHANGED <<cycle, snap, residuals, loose>> /\ riskReq[q].pc = "spend" /\ residual' = 0
        /\ Risk!Goto(q, "spendForecast") \/ Risk!Move(q, Risk!Idle)
    BY <1>2 DEF Risk!SpendResidual, Risk!At
  <2>2. OtherRisks(q) /\ riskReq'[q].pc \in {"idle", "spendForecast"}
    BY <2>1, RiskGoing, RiskMoving, RiskIdle
  <2> QED BY <2>1, <2>2
<1>3. CASE Risk!CheckSnapshot(q)
  <2>1. /\ UNCHANGED <<cycle, snap, residual, residuals, loose>> /\ riskReq[q].pc = "check"
        /\ Risk!Goto(q, IF snap[1] # 0 THEN "open" ELSE "baseline")
    BY <1>3 DEF Risk!CheckSnapshot, Risk!SnapshotFound, Risk!cycleVars, Risk!At
  <2> QED BY <2>1, RiskGoing
<1> QED BY <1>1, <1>2, <1>3

\* Every snapshot is written before the cycle it closes is left.
SnapshotsFirst ==
  /\ \A c \in 1..MaxCycle : c < cycle => snap[c] # 0
  /\ \A q \in Requests :
       /\ riskReq[q].pc \in Closers => \A c \in 1..MaxCycle : c < riskReq[q].n => snap[c] # 0
       /\ riskReq[q].pc \in {"retire", "advance", "open"} => snap[riskReq[q].n] # 0
       /\ riskReq[q].pc = "snapshot" => riskReq[q].r # 0
       /\ Starts(q) => riskReq[q].n = 1

\* Promotions and the opening in turn: whoever has written a snapshot is about to close
\* the cycle the scenario is in, alone.
Closes(q) == riskReq[q].pc \in {"retire", "advance"}

CyclesInTurn ==
  /\ \A p, q \in Requests : ~(Promotes(p) /\ Starts(q))
  /\ \A p, q \in Requests : Closes(p) /\ Closes(q) => p = q
  /\ \A q \in Requests : /\ Closes(q) => riskReq[q].n = cycle
                         /\ riskReq[q].pc = "snapshot" => riskReq[q].n <= cycle
                         /\ Starts(q) => cycle <= 2
  /\ \A c \in 1..MaxCycle : snap[c] # 0 =>
       c < cycle \/ \E q \in Requests : (Closes(q) \/ riskReq[q].pc = "open") /\ riskReq[q].n = c

ClosedInTurn == loose \cap {"closing", "start"} = {}

CycleInv == SnapshotsFirst /\ (ClosedInTurn => CyclesInTurn)

\* A step that begins and leaves no closing of a cycle.
LEMMA CyclesLeft ==
  ASSUME CycleInv, UNCHANGED <<cycle, snap>>, loose \subseteq loose',
         \A p \in Requests : riskReq'[p].pc \in Closers => riskReq'[p] = riskReq[p],
         \A p \in Requests : riskReq'[p].pc \in {"spend", "spendForecast"} => Promotes(p),
         ClosedInTurn' => \A p \in Requests :
           riskReq[p].pc \in {"retire", "advance", "open"} => riskReq'[p] = riskReq[p]
  PROVE  CycleInv'
<1>1. ClosedInTurn' => ClosedInTurn
  BY DEF ClosedInTurn
<1>2. \A p \in Requests : /\ Promotes(p)' => Promotes(p)
                          /\ Starts(p)' => Starts(p) /\ riskReq'[p] = riskReq[p]
                          /\ Closes(p)' => Closes(p) /\ riskReq'[p] = riskReq[p]
  BY DEF Promotes, Starts, Closes, Closers
<1>3. SnapshotsFirst'
  <2>1. \A p \in Requests : riskReq'[p].pc \in {"retire", "advance", "open", "snapshot"} => riskReq'[p] = riskReq[p]
    BY DEF Closers
  <2> QED BY <1>2, <2>1 DEF CycleInv, SnapshotsFirst
<1>4. ASSUME ClosedInTurn' PROVE CyclesInTurn'
  <2>1. CyclesInTurn /\ \A p \in Requests : riskReq[p].pc \in {"retire", "advance", "open"} => riskReq'[p] = riskReq[p]
    BY <1>1, <1>4 DEF CycleInv
  <2>2. \A p \in Requests : riskReq'[p].pc = "snapshot" => riskReq[p].pc = "snapshot" /\ riskReq'[p].n = riskReq[p].n
    BY DEF Closers
  <2>3. \A p, q \in Requests : ~(Promotes(p)' /\ Starts(q)')
    BY <1>2, <2>1 DEF CyclesInTurn
  <2>4. \A p, q \in Requests : Closes(p)' /\ Closes(q)' => p = q
    BY <1>2, <2>1 DEF CyclesInTurn
  <2>5. \A q \in Requests : /\ Closes(q)' => riskReq'[q].n = cycle'
                            /\ riskReq'[q].pc = "snapshot" => riskReq'[q].n <= cycle'
                            /\ Starts(q)' => cycle' <= 2
    BY <1>2, <2>1, <2>2 DEF CyclesInTurn
  <2>6. \A c \in 1..MaxCycle : snap'[c] # 0 =>
          c < cycle' \/ \E q \in Requests : (Closes(q)' \/ riskReq'[q].pc = "open") /\ riskReq'[q].n = c
    BY <2>1 DEF CyclesInTurn, Closes
  <2> QED BY <2>3, <2>4, <2>5, <2>6 DEF CyclesInTurn
<1> QED BY <1>3, <1>4 DEF CycleInv

LEMMA CyclesLoad ==
  ASSUME RiskTypes, CycleInv, NEW q \in Requests, NEW seen, Risk!LoadPromote(q, seen)
  PROVE  CycleInv'
<1>1. /\ riskReq[q].pc = "idle" /\ OtherRisks(q) /\ residual # 0
      /\ riskReq'[q].pc = "snapshot" /\ riskReq'[q].n = cycle /\ riskReq'[q].r = residual
      /\ UNCHANGED <<cycle, snap, residual>> /\ loose \subseteq loose'
      /\ \A p \in Requests : Starts(p) => "start" \in loose'
  BY PromotionLoads
<1>2. SnapshotsFirst'
  BY <1>1 DEF CycleInv, SnapshotsFirst, OtherRisks, Starts
<1>3. ASSUME ClosedInTurn' PROVE CyclesInTurn'
  <2>1. CyclesInTurn /\ \A p \in Requests : ~Starts(p)
    BY <1>1, <1>3 DEF CycleInv, ClosedInTurn
  <2>2. \A p \in Requests : ~Starts(p)' /\ (Closes(p)' => Closes(p) /\ riskReq'[p] = riskReq[p])
    BY <1>1, <2>1 DEF Starts, Closes, OtherRisks
  <2>3. \A p \in Requests : Closes(p) \/ riskReq[p].pc = "open" => riskReq'[p] = riskReq[p]
    BY <1>1 DEF Closes, OtherRisks
  <2>4. \A p \in Requests : riskReq'[p].pc = "snapshot" => riskReq'[p].n <= cycle'
    BY <1>1, <2>1, RiskTyped DEF CyclesInTurn, OtherRisks
  <2>5. \A c \in 1..MaxCycle : snap'[c] # 0 =>
          c < cycle' \/ \E p \in Requests : (Closes(p)' \/ riskReq'[p].pc = "open") /\ riskReq'[p].n = c
    BY <1>1, <2>1, <2>3 DEF CyclesInTurn, Closes
  <2> QED BY <1>1, <2>1, <2>2, <2>4, <2>5 DEF CyclesInTurn
<1> QED BY <1>2, <1>3 DEF CycleInv

LEMMA CyclesOpen ==
  ASSUME RiskTypes, CycleInv, NEW q \in Requests, Risk!LoadStart(q)
  PROVE  CycleInv'
<1>1. /\ riskReq[q].pc = "idle" /\ OtherRisks(q) /\ cycle = 1
      /\ riskReq'[q].pc = "check" /\ riskReq'[q].n = 1
      /\ UNCHANGED <<cycle, snap>> /\ loose \subseteq loose'
      /\ \A p \in Requests : Promotes(p) => "start" \in loose'
  BY OpeningLoads
<1>2. SnapshotsFirst'
  BY <1>1 DEF CycleInv, SnapshotsFirst, OtherRisks, Starts
<1>3. ASSUME ClosedInTurn' PROVE CyclesInTurn'
  <2>1. CyclesInTurn /\ \A p \in Requests : ~Promotes(p)
    BY <1>1, <1>3 DEF CycleInv, ClosedInTurn
  <2>2. \A p \in Requests : ~Promotes(p)' /\ ~Closes(p)' /\ riskReq'[p].pc # "snapshot"
    BY <1>1, <2>1 DEF Promotes, Closes, OtherRisks
  <2>3. \A p \in Requests : Closes(p) \/ riskReq[p].pc = "open" => riskReq'[p] = riskReq[p]
    BY <1>1 DEF Closes, OtherRisks
  <2>4. \A c \in 1..MaxCycle : snap'[c] # 0 =>
          c < cycle' \/ \E p \in Requests : (Closes(p)' \/ riskReq'[p].pc = "open") /\ riskReq'[p].n = c
    BY <1>1, <2>1, <2>3 DEF CyclesInTurn, Closes
  <2> QED BY <1>1, <2>2, <2>4 DEF CyclesInTurn
<1> QED BY <1>2, <1>3 DEF CycleInv

\* The snapshot of a cycle that has one fails; the one that is written is of the cycle
\* the scenario is in.
LEMMA CyclesInsert ==
  ASSUME RiskTypes, CycleInv, NEW q \in Requests, Risk!InsertSnapshot(q)
  PROVE  CycleInv'
<1> DEFINE k == riskReq[q].n
<1>1. /\ OtherRisks(q) /\ UNCHANGED <<cycle, loose>> /\ riskReq[q].pc \in {"snapshot", "baseline"}
  BY SnapshotInserts
<1>2. CASE riskReq'[q].pc = "idle" /\ snap' = snap
  <2>1. \A p \in Requests : riskReq'[p].pc \in Closers \cup {"spend", "spendForecast"} => riskReq'[p] = riskReq[p]
    BY <1>1, <1>2 DEF Closers, OtherRisks
  <2>2. \A p \in Requests : riskReq[p].pc \in {"retire", "advance", "open"} => riskReq'[p] = riskReq[p]
    BY <1>1 DEF OtherRisks
  <2>3. \A p \in Requests : riskReq'[p].pc \in Closers => riskReq'[p] = riskReq[p]
    BY <2>1
  <2>4. \A p \in Requests : riskReq'[p].pc \in {"spend", "spendForecast"} => Promotes(p)
    BY <2>1 DEF Promotes
  <2> QED BY <1>1, <1>2, <2>2, <2>3, <2>4, CyclesLeft
<1>3. CASE /\ riskReq'[q].pc = (IF riskReq[q].pc = "snapshot" THEN "retire" ELSE "open")
           /\ riskReq'[q].n = k /\ snap[k] = 0
           /\ \E w \in 0..Risk!Baseline : w # 0 /\ snap' = [snap EXCEPT ![k] = w]
  <2>1. /\ k \in 1..MaxCycle /\ cycle \in 1..MaxCycle /\ snap \in [1..MaxCycle -> 0..Risk!Baseline]
    BY <1>1, RiskTyped DEF Brings, Closers
  <2>2. snap'[k] # 0 /\ \A c \in 1..MaxCycle : c # k => snap'[c] = snap[c]
    BY <1>3, <2>1
  <2>3. SnapshotsFirst'
    <3>1. \A p \in Requests : /\ riskReq'[p].n = riskReq[p].n
                              /\ riskReq'[p].pc \in Closers => riskReq[p].pc \in Closers
                              /\ Starts(p)' => Starts(p)
      BY <1>1, <1>3 DEF OtherRisks, Closers, Starts
    <3>2. \A c \in 1..MaxCycle : snap[c] # 0 => snap'[c] # 0
      BY <2>2
    <3>3. \A p \in Requests : riskReq'[p].pc \in {"retire", "advance", "open"} =>
            p = q \/ (riskReq[p].pc \in {"retire", "advance", "open"} /\ riskReq[p].n \in 1..MaxCycle)
      BY <1>1, RiskTyped DEF OtherRisks, Brings, Closers
    <3>4. \A p \in Requests : riskReq'[p].pc = "snapshot" => riskReq'[p] = riskReq[p]
      BY <1>1, <1>3 DEF OtherRisks
    <3>5. \A p \in Requests : riskReq'[p].pc \in {"retire", "advance", "open"} => snap'[riskReq'[p].n] # 0
      BY <1>3, <2>2, <3>1, <3>2, <3>3 DEF CycleInv, SnapshotsFirst
    <3> QED BY <1>1, <3>1, <3>2, <3>4, <3>5 DEF CycleInv, SnapshotsFirst
  <2>4. ASSUME ClosedInTurn' PROVE CyclesInTurn'
    <3>1. CyclesInTurn
      BY <1>1, <2>4 DEF CycleInv, ClosedInTurn
    <3>2. \A p \in Requests : (Promotes(p)' => Promotes(p)) /\ (Starts(p)' => Starts(p))
      BY <1>1, <1>3 DEF OtherRisks, Promotes, Starts
    <3>3. riskReq[q].pc = "snapshot" => k = cycle
      <4>1. riskReq[q].pc = "snapshot" => k <= cycle /\ (k < cycle => snap[k] # 0)
        BY <2>1, <3>1 DEF CycleInv, SnapshotsFirst, CyclesInTurn
      <4> QED BY <1>3, <2>1, <4>1
    <3>4. riskReq[q].pc = "snapshot" => \A p \in Requests : ~Closes(p)
      BY <1>3, <3>1, <3>3 DEF CyclesInTurn, CycleInv, SnapshotsFirst, Closes
    <3>5. \A p \in Requests : Closes(p)' =>
            (p = q /\ riskReq[q].pc = "snapshot") \/ (Closes(p) /\ riskReq'[p] = riskReq[p])
      BY <1>1, <1>3 DEF OtherRisks, Closes
    <3>6. \A p, o \in Requests : Closes(p)' /\ Closes(o)' => p = o
      BY <3>1, <3>4, <3>5 DEF CyclesInTurn
    <3>7. \A p \in Requests : /\ Closes(p)' => riskReq'[p].n = cycle'
                              /\ riskReq'[p].pc = "snapshot" => riskReq'[p].n <= cycle'
                              /\ Starts(p)' => cycle' <= 2
      BY <1>1, <1>3, <3>1, <3>2, <3>3, <3>5 DEF OtherRisks, CyclesInTurn
    <3>8. \A c \in 1..MaxCycle : snap'[c] # 0 =>
            c < cycle' \/ \E p \in Requests : (Closes(p)' \/ riskReq'[p].pc = "open") /\ riskReq'[p].n = c
      <4>1. \A p \in Requests : Closes(p) \/ riskReq[p].pc = "open" => riskReq'[p] = riskReq[p]
        BY <1>1 DEF OtherRisks, Closes
      <4>2. Closes(q)' \/ riskReq'[q].pc = "open"
        BY <1>1, <1>3 DEF Closes
      <4>3. ASSUME NEW c \in 1..MaxCycle, snap'[c] # 0, c # k, ~(c < cycle')
            PROVE  \E p \in Requests : (Closes(p)' \/ riskReq'[p].pc = "open") /\ riskReq'[p].n = c
        <5>1. PICK p \in Requests : (Closes(p) \/ riskReq[p].pc = "open") /\ riskReq[p].n = c
          BY <1>1, <2>2, <3>1, <4>3 DEF CyclesInTurn
        <5> QED BY <4>1, <5>1 DEF Closes
      <4> QED BY <1>3, <4>2, <4>3
    <3> QED BY <3>1, <3>2, <3>6, <3>7, <3>8 DEF CyclesInTurn
  <2> QED BY <2>3, <2>4 DEF CycleInv
<1>4. riskReq[q].pc = "snapshot" => riskReq[q].r \in 0..Risk!Baseline /\ riskReq[q].r # 0
  BY RiskTyped, RiskNumbers DEF RiskForms, CycleInv, SnapshotsFirst
<1>5. Risk!Baseline \in 0..Risk!Baseline /\ Risk!Baseline # 0
  BY RiskNumbers
<1> QED BY <1>2, <1>3, <1>4, <1>5, SnapshotInserts

LEMMA CyclesSave ==
  ASSUME RiskTypes, CycleInv, NEW q \in Requests, Risk!SaveCycle(q)
  PROVE  CycleInv'
<1> DEFINE k == riskReq[q].n
<1>1. /\ OtherRisks(q) /\ UNCHANGED <<snap, loose>> /\ cycle' = k + 1
      /\ \/ riskReq[q].pc = "advance" /\ riskReq'[q].pc = "spend"
         \/ riskReq[q].pc = "open" /\ riskReq'[q].pc = "idle"
  BY CycleSaves
<1>2. k \in 1..MaxCycle /\ k + 1 \in 1..MaxCycle /\ cycle \in 1..MaxCycle
  BY <1>1, RiskTyped DEF Brings, Closers
<1>3. SnapshotsFirst'
  <2>1. \A c \in 1..MaxCycle : c < cycle' => snap'[c] # 0
    BY <1>1, <1>2 DEF CycleInv, SnapshotsFirst, Closers
  <2> QED BY <1>1, <2>1 DEF CycleInv, SnapshotsFirst, OtherRisks, Closers, Starts
<1>4. ASSUME ClosedInTurn' PROVE CyclesInTurn'
  <2>1. CyclesInTurn
    BY <1>1, <1>4 DEF CycleInv, ClosedInTurn
  <2>2. \A p \in Requests : (Promotes(p)' => Promotes(p)) /\ (Starts(p)' => Starts(p) /\ p # q)
    BY <1>1 DEF OtherRisks, Promotes, Starts
  <2>3. \A p \in Requests : Closes(p)' => Closes(p) /\ p # q
    BY <1>1 DEF OtherRisks, Closes
  <2>4. \A p \in Requests : riskReq'[p].pc = "snapshot" => riskReq[p].pc = "snapshot" /\ riskReq'[p].n = riskReq[p].n
    BY <1>1 DEF OtherRisks
  <2>5. CASE riskReq[q].pc = "advance"
    <3>1. k = cycle /\ \A p \in Requests : ~Closes(p)' /\ ~Starts(p) /\ (Closes(p) \/ riskReq[p].pc = "open" => p = q)
      BY <2>1, <2>3, <2>5 DEF CyclesInTurn, Closes, Promotes, Starts
    <3>2. \A c \in 1..MaxCycle : snap'[c] # 0 => c < cycle'
      BY <1>1, <1>2, <2>1, <3>1 DEF CyclesInTurn
    <3>3. \A p \in Requests : riskReq'[p].pc = "snapshot" => riskReq'[p].n <= cycle'
      BY <1>1, <1>2, <2>1, <2>4, <3>1, RiskTyped DEF CyclesInTurn, Brings, Closers
    <3> QED BY <2>1, <2>2, <3>1, <3>2, <3>3 DEF CyclesInTurn
  <2>6. CASE riskReq[q].pc = "open"
    <3>1. k = 1 /\ cycle <= 2 /\ \A p \in Requests : ~Promotes(p) /\ (riskReq[p].pc = "open" => riskReq[p].n = 1)
      BY <2>1, <2>6 DEF CyclesInTurn, Promotes, Starts, CycleInv, SnapshotsFirst
    <3>2. \A p \in Requests : ~Promotes(p)' /\ ~Closes(p)' /\ riskReq'[p].pc # "snapshot"
      BY <2>2, <3>1 DEF Promotes, Closes
    <3>3. \A c \in 1..MaxCycle : snap'[c] # 0 => c < cycle'
      BY <1>1, <1>2, <2>1, <3>1 DEF CyclesInTurn, Closes, Promotes
    <3> QED BY <1>1, <3>1, <3>2, <3>3 DEF CyclesInTurn
  <2> QED BY <1>1, <2>5, <2>6
<1> QED BY <1>3, <1>4 DEF CycleInv

LEMMA CyclesBetween ==
  ASSUME RiskTypes, CycleInv, NEW q \in Requests,
         Risk!RetirePlan(q) \/ Risk!SpendResidual(q) \/ Risk!CheckSnapshot(q)
  PROVE  CycleInv'
<1>1. OtherRisks(q) /\ UNCHANGED <<cycle, snap, loose>>
  BY BetweenCycles
<1>2. CASE riskReq[q].pc = "spend" /\ riskReq'[q].pc \in {"idle", "spendForecast"}
  <2>1. \A p \in Requests : /\ riskReq'[p].pc \in Closers => riskReq'[p] = riskReq[p]
                            /\ riskReq'[p].pc \in {"spend", "spendForecast"} => Promotes(p)
                            /\ riskReq[p].pc \in {"retire", "advance", "open"} => riskReq'[p] = riskReq[p]
    BY <1>1, <1>2 DEF OtherRisks, Closers, Promotes
  <2> QED BY <1>1, <2>1, CyclesLeft
<1>3. CASE /\ riskReq'[q].n = riskReq[q].n
           /\ \/ riskReq[q].pc = "retire" /\ riskReq'[q].pc = "advance"
              \/ riskReq[q].pc = "check" /\ riskReq'[q].pc = IF snap[1] # 0 THEN "open" ELSE "baseline"
  <2>1. \A p \in Requests :
          /\ riskReq'[p].n = riskReq[p].n
          /\ (Promotes(p)' => Promotes(p)) /\ (Starts(p)' => Starts(p)) /\ (Closes(p)' => Closes(p))
          /\ riskReq'[p].pc \in Closers => riskReq[p].pc \in Closers
          /\ riskReq'[p].pc = "snapshot" => riskReq'[p] = riskReq[p]
          /\ Closes(p) \/ riskReq[p].pc = "open" => Closes(p)' \/ riskReq'[p].pc = "open"
    BY <1>1, <1>3 DEF OtherRisks, Promotes, Starts, Closes, Closers
  <2>2. \A p \in Requests : riskReq'[p].pc \in {"retire", "advance", "open"} =>
          riskReq[p].pc \in {"retire", "advance", "open"} \/ (p = q /\ riskReq[q].pc = "check" /\ snap[1] # 0)
    BY <1>1, <1>3 DEF OtherRisks
  <2>3. \A p \in Requests : riskReq'[p].pc \in {"retire", "advance", "open"} => snap'[riskReq'[p].n] # 0
    BY <1>1, <2>1, <2>2 DEF CycleInv, SnapshotsFirst, Starts
  <2>4. SnapshotsFirst'
    BY <1>1, <2>1, <2>3 DEF CycleInv, SnapshotsFirst
  <2>5. ASSUME ClosedInTurn' PROVE CyclesInTurn'
    <3>1. CyclesInTurn
      BY <1>1, <2>5 DEF CycleInv, ClosedInTurn
    <3>2. \A c \in 1..MaxCycle : snap'[c] # 0 =>
            c < cycle' \/ \E p \in Requests : (Closes(p)' \/ riskReq'[p].pc = "open") /\ riskReq'[p].n = c
      BY <1>1, <2>1, <3>1 DEF CyclesInTurn
    <3> QED BY <1>1, <2>1, <3>1, <3>2 DEF CyclesInTurn
  <2> QED BY <2>4, <2>5 DEF CycleInv
<1> QED BY <1>2, <1>3, BetweenCycles

\* A step of the decisions, the plan or the forecast.
LEMMA CyclesAside ==
  ASSUME RiskTypes, NEW q \in Requests, DecisionStep(q) \/ PlanStep(q) \/ ForecastStep(q)
  PROVE  /\ OtherRisks(q) /\ UNCHANGED <<cycle, snap, residual, residuals>> /\ loose \subseteq loose'
         /\ riskReq[q].pc \notin Closers \cup {"spend"}
         /\ riskReq'[q].pc \notin Closers \cup {"spend", "spendForecast"}
BY DecisionSteps, PlanSteps, ForecastSteps DEF Deciders, Closers

LEMMA NextCycleInv == ASSUME RiskTypes, CycleInv, [Risk!Next]_(Risk!vars) PROVE CycleInv'
<1>1. ASSUME NEW q \in Requests, DecisionStep(q) \/ PlanStep(q) \/ ForecastStep(q) PROVE CycleInv'
  <2>1. /\ OtherRisks(q) /\ UNCHANGED <<cycle, snap>> /\ loose \subseteq loose'
        /\ riskReq[q].pc \notin Closers /\ riskReq'[q].pc \notin Closers \cup {"spend", "spendForecast"}
    BY <1>1, CyclesAside
  <2>2. \A p \in Requests : /\ riskReq'[p].pc \in Closers => riskReq'[p] = riskReq[p]
                            /\ riskReq'[p].pc \in {"spend", "spendForecast"} => Promotes(p)
                            /\ riskReq[p].pc \in {"retire", "advance", "open"} => riskReq'[p] = riskReq[p]
    BY <2>1 DEF OtherRisks, Closers, Promotes
  <2> QED BY <2>1, <2>2, CyclesLeft
<1>2. ASSUME NEW q \in Requests, Risk!Crash(q) PROVE CycleInv'
  <2>1. /\ OtherRisks(q) /\ UNCHANGED <<cycle, snap>> /\ loose \subseteq loose' /\ riskReq'[q].pc = "idle"
        /\ riskReq[q].pc \in {"retire", "advance", "open"} => "closing" \in loose'
    BY <1>2, CrashSteps
  <2>2. \A p \in Requests : /\ riskReq'[p].pc \in Closers => riskReq'[p] = riskReq[p]
                            /\ riskReq'[p].pc \in {"spend", "spendForecast"} => Promotes(p)
    BY <2>1 DEF OtherRisks, Closers, Promotes
  <2>3. ClosedInTurn' => \A p \in Requests :
          riskReq[p].pc \in {"retire", "advance", "open"} => riskReq'[p] = riskReq[p]
    BY <2>1 DEF OtherRisks, ClosedInTurn
  <2> QED BY <2>1, <2>2, <2>3, CyclesLeft
<1>3. ASSUME NEW q \in Requests, CycleStep(q) PROVE CycleInv'
  BY <1>3, CyclesLoad, CyclesOpen, CyclesInsert, CyclesSave, CyclesBetween DEF CycleStep
<1>4. ASSUME Risk!RecordResidual \/ UNCHANGED Risk!vars PROVE CycleInv'
  <2>1. UNCHANGED <<cycle, snap, loose, riskReq>>
    BY <1>4 DEF Risk!RecordResidual, Risk!cycleVars, Risk!vars
  <2> QED BY <2>1 DEF CycleInv, SnapshotsFirst, CyclesInTurn, ClosedInTurn, Promotes, Starts, Closes
<1> QED BY <1>1, <1>2, <1>3, <1>4, RiskStepKinds DEF Risk!Next

LEMMA InitCycleInv == ASSUME Risk!Init PROVE CycleInv
<1>1. \A q \in Requests : riskReq[q].pc = "idle"
  BY RiskIdle DEF Risk!Init
<1>2. cycle = 1 /\ \A c \in 1..MaxCycle : snap[c] = 0 /\ ~(c < cycle)
  BY RiskNumbers DEF Risk!Init
<1> QED BY <1>1, <1>2 DEF CycleInv, SnapshotsFirst, CyclesInTurn, Promotes, Starts, Closes, Closers

LEMMA CyclesKept == ASSUME RiskTypes, CycleInv PROVE Risk!CyclesAccounted
<1>1. cycle \in 1..MaxCycle /\ MaxCycle \in Nat
  BY RiskTyped, RiskNumbers
<1>2. 1..(cycle - 1) \subseteq {c \in 1..MaxCycle : snap[c] # 0}
  BY <1>1 DEF CycleInv, SnapshotsFirst
<1>3. ASSUME NEW c \in 1..MaxCycle, snap[c] # 0, ClosedInTurn
      PROVE  c < cycle \/ \E q \in Requests : riskReq[q].pc \in {"retire", "advance", "open"} /\ riskReq[q].n = c
  BY <1>3 DEF CycleInv, CyclesInTurn, Closes
<1> QED BY <1>2, <1>3 DEF Risk!CyclesAccounted, ClosedInTurn

(* The residual. *)

\* Residuals have numbers; an older one never comes back.
ResidualsNumbered ==
  /\ residual <= residuals
  /\ \A c \in 1..MaxCycle : snap[c] <= residuals \/ snap[c] = Risk!Baseline

\* Promotions in turn: the one under way has the residual it read, and a snapshot of the
\* present residual means it is about to clear it.
Spends(q) == riskReq[q].pc \in {"retire", "advance", "spend"}

ResidualInTurn ==
  /\ \A p, q \in Requests : Promotes(p) /\ Promotes(q) => p = q
  /\ \A q \in Requests : riskReq[q].pc = "snapshot" \/ Spends(q) => riskReq[q].r = residual /\ residual # 0
  /\ \A c \in 1..MaxCycle : residual # 0 /\ snap[c] = residual => \E q \in Requests : Spends(q)
  /\ \A c, e \in 1..MaxCycle : snap[c] = snap[e] /\ snap[c] \in 1..MaxCycle => c = e

PromotedInTurn == loose \cap {"promotions", "closing", "spend"} = {}

ResidualInv ==
  /\ ResidualsNumbered
  /\ \A q \in Requests : riskReq[q].pc = "snapshot" => riskReq[q].r <= residuals
  /\ PromotedInTurn => ResidualInTurn

\* A step that neither begins nor ends a promotion before it cleared its residual.
LEMMA ResidualLeft ==
  ASSUME ResidualInv, UNCHANGED <<snap, residual, residuals>>, loose \subseteq loose',
         \A p \in Requests :
           /\ riskReq'[p].pc = "snapshot" => riskReq[p].pc = "snapshot" /\ riskReq'[p].r = riskReq[p].r
           /\ Spends(p)' => Spends(p) /\ riskReq'[p].r = riskReq[p].r
           /\ Promotes(p)' => Promotes(p),
         PromotedInTurn' => \A p \in Requests : Spends(p) => Spends(p)'
  PROVE  ResidualInv'
<1>1. PromotedInTurn' => PromotedInTurn
  BY DEF PromotedInTurn
<1>2. ASSUME PromotedInTurn' PROVE ResidualInTurn'
  <2>1. ResidualInTurn
    BY <1>1, <1>2 DEF ResidualInv
  <2>2. \A c \in 1..MaxCycle : residual' # 0 /\ snap'[c] = residual' => \E q \in Requests : Spends(q)'
    BY <1>2, <2>1 DEF ResidualInTurn
  <2>3. \A q \in Requests : riskReq'[q].pc = "snapshot" \/ Spends(q)' => riskReq'[q].r = residual' /\ residual' # 0
    BY <2>1 DEF ResidualInTurn
  <2> QED BY <2>1, <2>2, <2>3 DEF ResidualInTurn
<1>3. ResidualsNumbered'
  BY DEF ResidualInv, ResidualsNumbered
<1>4. \A q \in Requests : riskReq'[q].pc = "snapshot" => riskReq'[q].r <= residuals'
  BY DEF ResidualInv
<1> QED BY <1>2, <1>3, <1>4 DEF ResidualInv

\* A new residual has a number no snapshot has.
LEMMA ResidualRecorded ==
  ASSUME RiskTypes, ResidualInv, Risk!RecordResidual
  PROVE  ResidualInv'
<1>1. /\ residual = 0 /\ residuals < MaxCycle /\ residual' = residuals + 1 /\ residuals' = residuals + 1
      /\ UNCHANGED <<snap, loose, riskReq>>
  BY DEF Risk!RecordResidual
<1>2. residuals \in 0..MaxCycle /\ MaxCycle \in Nat /\ Risk!Baseline = MaxCycle + 1
  BY RiskTyped, RiskNumbers
<1>3. \A c \in 1..MaxCycle : snap[c] \in Nat
  BY <1>2, RiskTyped
<1>4. \A q \in Requests : riskReq[q].r \in Nat
  BY <1>2, RiskTyped DEF RiskForms
<1>5. ResidualsNumbered'
  BY <1>1, <1>2, <1>3 DEF ResidualInv, ResidualsNumbered
<1>6. \A q \in Requests : riskReq'[q].pc = "snapshot" => riskReq'[q].r <= residuals'
  BY <1>1, <1>2, <1>4 DEF ResidualInv
<1>7. ASSUME PromotedInTurn' PROVE ResidualInTurn'
  <2>1. ResidualInTurn
    BY <1>1, <1>7 DEF ResidualInv, PromotedInTurn
  <2>2. \A c \in 1..MaxCycle : snap'[c] # residual'
    BY <1>1, <1>2, <1>3 DEF ResidualInv, ResidualsNumbered
  <2>3. \A q \in Requests : ~(riskReq[q].pc = "snapshot") /\ ~Spends(q)
    BY <1>1, <2>1 DEF ResidualInTurn
  <2>4. \A q \in Requests : (Spends(q)' <=> Spends(q)) /\ (Promotes(q)' <=> Promotes(q))
    BY <1>1 DEF Spends, Promotes
  <2> QED BY <1>1, <2>1, <2>2, <2>3, <2>4 DEF ResidualInTurn
<1> QED BY <1>5, <1>6, <1>7 DEF ResidualInv

LEMMA ResidualLoads ==
  ASSUME RiskTypes, ResidualInv, NEW q \in Requests, NEW seen, Risk!LoadPromote(q, seen)
  PROVE  ResidualInv'
<1>1. /\ riskReq[q].pc = "idle" /\ OtherRisks(q) /\ residual # 0
      /\ riskReq'[q].pc = "snapshot" /\ riskReq'[q].r = residual
      /\ UNCHANGED <<snap, residual, residuals>> /\ loose \subseteq loose'
      /\ \A p \in Requests : Promotes(p) => "promotions" \in loose'
  BY PromotionLoads
<1>2. \A p \in Requests : p # q => /\ riskReq'[p] = riskReq[p]
                                   /\ Promotes(p)' <=> Promotes(p)
                                   /\ Spends(p)' <=> Spends(p)
  BY <1>1 DEF OtherRisks, Promotes, Spends
<1>3. ~Spends(q)' /\ ~Spends(q)
  BY <1>1 DEF Spends
<1>4. ASSUME PromotedInTurn' PROVE ResidualInTurn'
  <2>1. ResidualInTurn /\ \A p \in Requests : ~Promotes(p)
    BY <1>1, <1>4 DEF ResidualInv, PromotedInTurn
  <2>2. \A p \in Requests : p # q => ~Promotes(p)' /\ ~Spends(p)' /\ riskReq'[p].pc # "snapshot"
    BY <1>2, <2>1 DEF Promotes, Spends
  <2>3. \A c \in 1..MaxCycle : ~(residual' # 0 /\ snap'[c] = residual')
    BY <1>1, <2>1 DEF ResidualInTurn, Promotes, Spends
  <2> QED BY <1>1, <1>3, <2>1, <2>2, <2>3 DEF ResidualInTurn
<1>5. ResidualsNumbered'
  BY <1>1 DEF ResidualInv, ResidualsNumbered
<1>6. \A p \in Requests : riskReq'[p].pc = "snapshot" => riskReq'[p].r <= residuals'
  BY <1>1, <1>2 DEF ResidualInv, ResidualsNumbered
<1> QED BY <1>4, <1>5, <1>6 DEF ResidualInv

LEMMA ResidualInserts ==
  ASSUME RiskTypes, ResidualInv, NEW q \in Requests, Risk!InsertSnapshot(q)
  PROVE  ResidualInv'
<1> DEFINE k == riskReq[q].n
<1>1. /\ OtherRisks(q) /\ UNCHANGED <<residual, residuals, loose>>
      /\ riskReq[q].pc \in {"snapshot", "baseline"}
  BY SnapshotInserts
<1>2. /\ k \in 1..MaxCycle /\ snap \in [1..MaxCycle -> 0..Risk!Baseline] /\ MaxCycle \in Nat
      /\ Risk!Baseline = MaxCycle + 1 /\ residual \in 0..MaxCycle /\ residuals \in 0..MaxCycle
  BY <1>1, RiskTyped, RiskNumbers DEF Brings, Closers
<1>3. \A p \in Requests : p # q => /\ riskReq'[p] = riskReq[p]
                                   /\ Promotes(p)' <=> Promotes(p)
                                   /\ Spends(p)' <=> Spends(p)
  BY <1>1 DEF OtherRisks, Promotes, Spends
<1>4. CASE riskReq'[q].pc = "idle" /\ snap' = snap
  <2>1. ~Promotes(q)' /\ ~Spends(q)' /\ ~Spends(q)
    BY <1>1, <1>4 DEF Promotes, Spends
  <2> QED BY <1>1, <1>3, <1>4, <2>1, ResidualLeft
<1>5. CASE /\ riskReq[q].pc = "snapshot" /\ riskReq'[q].pc = "retire" /\ snap' = [snap EXCEPT ![k] = riskReq[q].r]
           /\ riskReq'[q].r = riskReq[q].r
  <2>1. snap'[k] = riskReq[q].r /\ \A c \in 1..MaxCycle : c # k => snap'[c] = snap[c]
    BY <1>2, <1>5
  <2>2. ResidualsNumbered'
    BY <1>1, <1>5, <2>1 DEF ResidualInv, ResidualsNumbered
  <2>3. \A p \in Requests : riskReq'[p].pc = "snapshot" => riskReq'[p].r <= residuals'
    BY <1>1, <1>3, <1>5 DEF ResidualInv
  <2>4. Promotes(q) /\ ~Spends(q) /\ Promotes(q)' /\ Spends(q)'
    BY <1>5 DEF Promotes, Spends
  <2>5. ASSUME PromotedInTurn' PROVE ResidualInTurn'
    <3>1. ResidualInTurn /\ riskReq[q].r = residual /\ residual # 0
      BY <1>1, <1>5, <2>5 DEF ResidualInv, PromotedInTurn, ResidualInTurn
    <3>2. \A p \in Requests : Spends(p) => Promotes(p)
      BY DEF Spends, Promotes
    <3>3. \A c \in 1..MaxCycle : snap[c] # residual
      BY <2>4, <3>1, <3>2 DEF ResidualInTurn
    <3>4. \A c, e \in 1..MaxCycle : snap'[c] = snap'[e] /\ snap'[c] \in 1..MaxCycle => c = e
      BY <2>1, <3>1, <3>3 DEF ResidualInTurn
    <3>5. \A p, o \in Requests : Promotes(p)' /\ Promotes(o)' => p = o
      BY <1>3, <2>4, <3>1 DEF ResidualInTurn
    <3>6. \A p \in Requests : riskReq'[p].pc = "snapshot" \/ Spends(p)' => riskReq'[p].r = residual' /\ residual' # 0
      BY <1>1, <1>3, <1>5, <3>1 DEF ResidualInTurn
    <3> QED BY <2>4, <3>4, <3>5, <3>6 DEF ResidualInTurn
  <2> QED BY <2>2, <2>3, <2>5 DEF ResidualInv
<1>6. CASE riskReq[q].pc = "baseline" /\ riskReq'[q].pc = "open" /\ snap' = [snap EXCEPT ![k] = Risk!Baseline]
  <2>1. snap'[k] = Risk!Baseline /\ \A c \in 1..MaxCycle : c # k => snap'[c] = snap[c]
    BY <1>2, <1>6
  <2>2. ResidualsNumbered'
    BY <1>1, <2>1 DEF ResidualInv, ResidualsNumbered
  <2>3. ~Promotes(q) /\ ~Spends(q) /\ ~Promotes(q)' /\ ~Spends(q)'
    BY <1>6 DEF Promotes, Spends
  <2>4. \A p \in Requests : riskReq'[p].pc = "snapshot" => riskReq'[p].r <= residuals'
    BY <1>1, <1>3, <1>6 DEF ResidualInv
  <2>5. ASSUME PromotedInTurn' PROVE ResidualInTurn'
    <3>1. ResidualInTurn
      BY <1>1, <2>5 DEF ResidualInv, PromotedInTurn
    <3>2. \A c, e \in 1..MaxCycle : snap'[c] = snap'[e] /\ snap'[c] \in 1..MaxCycle => c = e
      BY <1>2, <2>1, <3>1 DEF ResidualInTurn
    <3>3. \A c \in 1..MaxCycle : residual' # 0 /\ snap'[c] = residual' => \E p \in Requests : Spends(p)'
      <4>1. ASSUME NEW c \in 1..MaxCycle, residual' # 0,
                   snap'[c] = residual'
            PROVE  snap[c] = residual /\ residual # 0
        BY <1>1, <1>2, <2>1, <4>1
      <4> QED BY <1>3, <2>3, <3>1, <4>1 DEF ResidualInTurn
    <3>4. \A p \in Requests : riskReq'[p].pc = "snapshot" \/ Spends(p)' => riskReq'[p].r = residual' /\ residual' # 0
      BY <1>1, <1>3, <1>6, <2>3, <3>1 DEF ResidualInTurn
    <3>5. \A p, o \in Requests : Promotes(p)' /\ Promotes(o)' => p = o
      BY <1>3, <2>3, <3>1 DEF ResidualInTurn
    <3> QED BY <3>2, <3>3, <3>4, <3>5 DEF ResidualInTurn
  <2> QED BY <2>2, <2>4, <2>5 DEF ResidualInv
<1> QED BY <1>4, <1>5, <1>6, SnapshotInserts

LEMMA ResidualSpends ==
  ASSUME RiskTypes, ResidualInv, NEW q \in Requests,
         Risk!RetirePlan(q) \/ Risk!SpendResidual(q) \/ Risk!CheckSnapshot(q)
  PROVE  ResidualInv'
<1>1. OtherRisks(q) /\ UNCHANGED <<cycle, snap, residuals, loose>>
  BY BetweenCycles
<1>2. \A p \in Requests : p # q => /\ riskReq'[p] = riskReq[p]
                                   /\ Promotes(p)' <=> Promotes(p)
                                   /\ Spends(p)' <=> Spends(p)
  BY <1>1 DEF OtherRisks, Promotes, Spends
<1>3. CASE /\ residual' = residual
           /\ \/ riskReq[q].pc = "retire" /\ riskReq'[q].pc = "advance" /\ riskReq'[q].r = riskReq[q].r
              \/ riskReq[q].pc = "check" /\ riskReq'[q].pc = IF snap[1] # 0 THEN "open" ELSE "baseline"
  <2>1. /\ riskReq'[q].pc # "snapshot" /\ (Spends(q) <=> Spends(q)')
        /\ Spends(q)' => riskReq'[q].r = riskReq[q].r
        /\ Promotes(q)' => Promotes(q)
    BY <1>3 DEF Spends, Promotes
  <2> QED BY <1>1, <1>2, <1>3, <2>1, ResidualLeft
<1>4. CASE riskReq[q].pc = "spend" /\ riskReq'[q].pc \in {"idle", "spendForecast"} /\ residual' = 0
  <2>1. Promotes(q) /\ ~Spends(q)' /\ riskReq'[q].pc # "snapshot"
    BY <1>4 DEF Promotes, Spends
  <2>2. ResidualsNumbered'
    BY <1>1, <1>4, RiskTyped DEF ResidualInv, ResidualsNumbered
  <2>3. \A p \in Requests : riskReq'[p].pc = "snapshot" => riskReq'[p].r <= residuals'
    BY <1>1, <1>2, <2>1 DEF ResidualInv
  <2>4. ASSUME PromotedInTurn' PROVE ResidualInTurn'
    <3>1. ResidualInTurn
      BY <1>1, <2>4 DEF ResidualInv, PromotedInTurn
    <3>2. \A p \in Requests : p # q => ~Promotes(p)
      BY <2>1, <3>1 DEF ResidualInTurn
    <3>3. \A p \in Requests : p # q => ~Promotes(p)' /\ ~Spends(p)' /\ riskReq'[p].pc # "snapshot"
      BY <1>2, <3>2 DEF Promotes, Spends
    <3> QED BY <1>1, <1>4, <2>1, <3>1, <3>3 DEF ResidualInTurn
  <2> QED BY <2>2, <2>3, <2>4 DEF ResidualInv
<1> QED BY <1>3, <1>4, BetweenCycles

LEMMA NextResidualInv == ASSUME RiskTypes, ResidualInv, [Risk!Next]_(Risk!vars) PROVE ResidualInv'
<1>1. ASSUME NEW q \in Requests, OtherRisks(q), UNCHANGED <<snap, residual, residuals>>,
             loose \subseteq loose',
             riskReq'[q].pc # "snapshot", ~Promotes(q)', PromotedInTurn' => ~Spends(q)
      PROVE  ResidualInv'
  <2>1. \A p \in Requests : p # q => /\ riskReq'[p] = riskReq[p]
                                     /\ Promotes(p)' <=> Promotes(p)
                                     /\ Spends(p)' <=> Spends(p)
    BY <1>1 DEF OtherRisks, Promotes, Spends
  <2>2. ~Spends(q)'
    BY <1>1 DEF Promotes, Spends
  <2> QED BY <1>1, <2>1, <2>2, ResidualLeft
<1>2. ASSUME NEW q \in Requests, DecisionStep(q) \/ PlanStep(q) \/ ForecastStep(q) PROVE ResidualInv'
  BY <1>1, <1>2, CyclesAside DEF Promotes, Spends, Closers
<1>3. ASSUME NEW q \in Requests, Risk!Crash(q) PROVE ResidualInv'
  BY <1>1, <1>3, CrashSteps DEF Promotes, Spends, PromotedInTurn
<1>4. ASSUME NEW q \in Requests, Risk!LoadStart(q) PROVE ResidualInv'
  BY <1>1, <1>4, OpeningLoads DEF Promotes, Spends
<1>5. ASSUME NEW q \in Requests, Risk!SaveCycle(q) PROVE ResidualInv'
  <2>1. /\ OtherRisks(q) /\ UNCHANGED <<snap, residual, residuals, loose>>
        /\ \/ riskReq[q].pc = "advance" /\ riskReq'[q].pc = "spend" /\ riskReq'[q].r = riskReq[q].r
           \/ riskReq[q].pc = "open" /\ riskReq'[q].pc = "idle"
    BY <1>5, CycleSaves
  <2>2. \A p \in Requests :
          /\ riskReq'[p].pc = "snapshot" => riskReq[p].pc = "snapshot" /\ riskReq'[p].r = riskReq[p].r
          /\ (Spends(p)' <=> Spends(p)) /\ (Spends(p) => riskReq'[p].r = riskReq[p].r)
          /\ Promotes(p)' => Promotes(p)
    BY <2>1 DEF OtherRisks, Spends, Promotes
  <2> QED BY <2>1, <2>2, ResidualLeft
<1>6. ASSUME NEW q \in Requests, CycleStep(q) PROVE ResidualInv'
  BY <1>4, <1>5, <1>6, ResidualLoads, ResidualInserts, ResidualSpends DEF CycleStep
<1>7. CASE UNCHANGED Risk!vars
  <2>1. UNCHANGED <<snap, residual, residuals, loose, riskReq>>
    BY <1>7 DEF Risk!vars
  <2> QED BY <2>1 DEF ResidualInv, ResidualsNumbered, ResidualInTurn, PromotedInTurn, Promotes, Spends
<1> QED BY <1>2, <1>3, <1>6, <1>7, RiskStepKinds, ResidualRecorded DEF Risk!Next

LEMMA InitResidualInv == ASSUME Risk!Init PROVE ResidualInv
<1>1. \A q \in Requests : riskReq[q].pc = "idle"
  BY RiskIdle DEF Risk!Init
<1>2. residual = 0 /\ residuals = 0 /\ \A c \in 1..MaxCycle : snap[c] = 0
  BY DEF Risk!Init
<1> QED BY <1>1, <1>2 DEF ResidualInv, ResidualsNumbered, ResidualInTurn, Promotes, Spends

\* Every cycle that was closed has its snapshot, a cycle that is not closed has none, and
\* a residual closes one cycle, but for promotions and openings that overlapped or died
\* (promoteResidual, startNextCycle).
THEOREM CyclesAreClosed == GovernedSpec => []CyclesClosed
<1> DEFINE I == RiskTypes /\ CycleInv /\ ResidualInv
<1>1. Risk!Init => I
  BY InitRiskTypes, InitCycleInv, InitResidualInv
<1>2. I /\ [Risk!Next]_(Risk!vars) => I'
  BY NextRiskTypes, NextCycleInv, NextResidualInv
<1>3. I => CyclesClosed
  <2>1. ResidualInv => Risk!ResidualSpent
    BY DEF ResidualInv, PromotedInTurn, ResidualInTurn, Risk!ResidualSpent
  <2> QED BY <2>1, CyclesKept DEF CyclesClosed, Risk!CyclesClosed
<1> HIDE DEF I
<1> QED BY <1>1, <1>2, <1>3, RiskWithin, PTL DEF Risk!Spec

-----------------------------------------------------------------------------
(* The types of all of them.  Those of a lineage hold whatever overlaps. *)

LEMMA LineageEnds ==
  ASSUME TypeOK, NEW q \in Requests, NEW t \in {Idle, Dead}, req' = [req EXCEPT ![q] = t],
         status' \in [Versions -> Statuses \cup {None}], approved' \subseteq Versions,
         released' \subseteq Versions
  PROVE  TypeOK'
<1>1. Others(q) /\ req'[q] = t /\ req' \in [Requests -> Slots] /\ t.pc # "supersede"
  BY IdleSlot, ReqUpdate DEF TypeOK
<1> QED BY <1>1 DEF TypeOK, Others

LEMMA LineageSaves ==
  ASSUME TypeOK, NEW v \in Versions, NEW was \in Statuses \cup {None}, NEW new \in Statuses, Save(v, was, new)
  PROVE  status' \in [Versions -> Statuses \cup {None}]
BY DEF TypeOK, Save, Changed

LEMMA NextLineageTypes == ASSUME TypeOK, [Next]_vars PROVE TypeOK'
<1>1. ASSUME NEW q \in Requests, NEW op \in DOMAIN Accepts, NEW v \in Versions, Load(q, op, v) PROVE TypeOK'
  <2> DEFINE t == [pc |-> op, version |-> v, loaded |-> status[v], prior |-> NoVersion]
  <2>1. t \in Slots /\ t.pc = op /\ op # "supersede"
    BY DEF TypeOK, Slots, Accepts
  <2>2. req' = [req EXCEPT ![q] = t] /\ UNCHANGED <<status, approved, released>>
    BY <1>1 DEF Load
  <2> HIDE DEF t
  <2> QED BY <2>1, <2>2 DEF TypeOK
<1>2. ASSUME NEW q \in Requests, Submit(q) \/ Publish(q) \/ Reconfirm(q) PROVE TypeOK'
  <2>1. /\ req[q].version \in Versions /\ req[q].loaded \in Statuses \cup {None}
        /\ "Under Review" \in Statuses /\ "Published" \in Statuses
    BY DEF TypeOK, Slots, Statuses
  <2>2. status' \in [Versions -> Statuses \cup {None}]
    BY <1>2, <2>1, LineageSaves DEF Submit, Publish, Reconfirm
  <2>3. req' = [req EXCEPT ![q] = Idle] /\ approved' \subseteq Versions /\ released' \subseteq Versions
    BY <1>2, <2>1 DEF Submit, Publish, Reconfirm, End, TypeOK
  <2> QED BY <2>2, <2>3, LineageEnds
<1>3. ASSUME NEW q \in Requests, NEW d \in {"Approved", "Revision Requested", "Rejected"}, Review(q, d)
      PROVE  TypeOK'
  <2>1. req[q].version \in Versions /\ req[q].loaded \in Statuses \cup {None} /\ d \in Statuses
    BY DEF TypeOK, Slots, Statuses
  <2>2. status' \in [Versions -> Statuses \cup {None}]
    BY <1>3, <2>1, LineageSaves DEF Review
  <2>3. req' = [req EXCEPT ![q] = Idle] /\ approved' \subseteq Versions /\ released' \subseteq Versions
    BY <1>3, <2>1 DEF Review, End, TypeOK
  <2> QED BY <2>2, <2>3, LineageEnds
<1>4. ASSUME NEW q \in Requests, NEW s \in PlainStatuses, SetStatus(q, s) PROVE TypeOK'
  <2>1. req[q].version \in Versions /\ req[q].loaded \in Statuses \cup {None} /\ s \in Statuses
    BY LineageAssumption DEF TypeOK, Slots
  <2>2. status' \in [Versions -> Statuses \cup {None}]
    BY <1>4, <2>1, LineageSaves DEF SetStatus
  <2>3. req' = [req EXCEPT ![q] = Idle] /\ approved' \subseteq Versions /\ released' \subseteq Versions
    BY <1>4 DEF SetStatus, End, TypeOK
  <2> QED BY <2>2, <2>3, LineageEnds
<1>5. ASSUME NEW q \in Requests, FindPrior(q) PROVE TypeOK'
  <2>1. PICK t \in Slots :
          /\ req' = [req EXCEPT ![q] = t]
          /\ t.pc = "supersede" => t.prior \in Versions \ {t.version}
    <3>1. PICK s \in Slots : s = req[q]
      BY DEF TypeOK
    <3>2. CASE req' = [req EXCEPT ![q] = [req[q] EXCEPT !.pc = "publishSave"]]
      <4>1. [s EXCEPT !.pc = "publishSave"] \in Slots /\ [s EXCEPT !.pc = "publishSave"].pc = "publishSave"
        BY DEF Slots
      <4> QED BY <3>1, <3>2, <4>1
    <3>3. ASSUME NEW x \in Versions \ {s.version},
                 req' = [req EXCEPT ![q] = [req[q] EXCEPT !.pc = "supersede", !.prior = x]]
          PROVE  \E t \in Slots : req' = [req EXCEPT ![q] = t] /\ t.prior \in Versions \ {t.version}
      <4> DEFINE t == [s EXCEPT !.pc = "supersede", !.prior = x]
      <4>1. t \in Slots /\ t.prior = x /\ t.version = s.version
        BY DEF Slots
      <4>2. req' = [req EXCEPT ![q] = t]
        BY <3>1, <3>3
      <4> QED BY <4>1, <4>2
    <3>4. \/ req' = [req EXCEPT ![q] = [req[q] EXCEPT !.pc = "publishSave"]]
          \/ \E x \in Versions \ {s.version} :
               req' = [req EXCEPT ![q] = [req[q] EXCEPT !.pc = "supersede", !.prior = x]]
      BY <1>5, <3>1 DEF FindPrior
    <3> QED BY <3>2, <3>3, <3>4
  <2>2. UNCHANGED <<status, approved, released>>
    BY <1>5 DEF FindPrior
  <2> QED BY <2>1, <2>2 DEF TypeOK
<1>6. ASSUME NEW q \in Requests, Supersede(q) PROVE TypeOK'
  <2>1. /\ req[q] \in Slots /\ req[q].prior \in Versions /\ req[q].pc = "supersede"
        /\ "Published" \in Statuses \cup {None} /\ "Superseded" \in Statuses
    BY <1>6 DEF Supersede, TypeOK, Slots, Statuses
  <2>2. status' \in [Versions -> Statuses \cup {None}]
    BY <1>6, <2>1, LineageSaves DEF Supersede
  <2>3. PICK s \in Slots : s = req[q]
    BY <2>1
  <2>4. [s EXCEPT !.pc = "publishSave"] \in Slots /\ [s EXCEPT !.pc = "publishSave"].pc = "publishSave"
    BY <2>3 DEF Slots
  <2> DEFINE t == [s EXCEPT !.pc = "publishSave"]
  <2>5. req' = [req EXCEPT ![q] = t]
    BY <1>6, <2>3, <2>4 DEF Supersede
  <2> QED BY <1>6, <2>2, <2>4, <2>5 DEF TypeOK, Supersede
<1>7. ASSUME NEW q \in Requests,
             ForkBeyondBound(q) \/ Crash(q) \/ \E w \in Versions : Fork(q, w)
      PROVE  TypeOK'
  <2>1. /\ status' \in [Versions -> Statuses \cup {None}] /\ UNCHANGED <<approved, released>>
        /\ \E t \in {Idle, Dead} : req' = [req EXCEPT ![q] = t]
    BY <1>7 DEF ForkBeyondBound, Crash, Fork, End, TypeOK, Statuses
  <2> QED BY <2>1, LineageEnds DEF TypeOK
<1>8. CASE UNCHANGED vars
  BY <1>8 DEF vars, TypeOK
<1> QED BY <1>1, <1>2, <1>3, <1>4, <1>5, <1>6, <1>7, <1>8 DEF Next, Step

LEMMA LineageWithin == GovernedSpec => Init /\ [][Next]_vars
<1>1. GovernedInit => Init
  BY DEF GovernedInit
<1>2. [GovernedNext]_governed => [Next]_vars
  BY DEF GovernedNext, governed, vars
<1> QED BY <1>1, <1>2, PTL DEF GovernedSpec

\* Every governed record keeps its types, whatever overlaps and wherever it crashes.
THEOREM GovernedTypes == GovernedSpec => []TypesOK
<1>1. GovernedSpec => []TypeOK
  <2>1. Init => TypeOK
    BY InitLInv DEF LInv
  <2> QED BY <2>1, NextLineageTypes, LineageWithin, PTL
<1>2. GovernedSpec => []Rev!TypeOK
  <2>1. RevInv => Rev!TypeOK
    BY DEF RevInv
  <2> QED BY <2>1, InitRevInv, NextRevInv, ReviewWithin, PTL DEF Rev!Spec
<1>3. GovernedSpec => []Risk!TypeOK
  <2>1. RiskTypes => Risk!TypeOK
    BY DEF RiskTypes
  <2> QED BY <2>1, InitRiskTypes, NextRiskTypes, RiskWithin, PTL DEF Risk!Spec
<1>4. GovernedSpec => []Cap!TypeOK
  <2>1. CapInv => Cap!TypeOK
    BY DEF CapInv
  <2> QED BY <2>1, InitCapInv, NextCapInv, PlansWithin, PTL DEF Cap!Spec
<1>5. GovernedSpec => []Rout!TypeOK
  <2>1. RoutInv => Rout!TypeOK
    BY DEF RoutInv
  <2> QED BY <2>1, InitRoutInv, NextRoutInv, RoutingWithin, PTL DEF Rout!Spec
<1> QED BY <1>1, <1>2, <1>3, <1>4, <1>5, PTL DEF TypesOK
=============================================================================
