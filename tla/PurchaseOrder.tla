---------------------------- MODULE PurchaseOrder ----------------------------
(***************************************************************************)
(* One purchase order and the link its supplier answers by                 *)
(* (business/poConfirmation.ts; business/business.service.ts,              *)
(* updateBusiness; the graph of its statuses in business/prLifecycle.ts).  *)
(*                                                                         *)
(* A client reads the order, shows it in a form and sends the JSON column  *)
(* `data` back as a whole, however old it is by then; only the token of    *)
(* the supplier's link is the server's.  The supplier answers by the link  *)
(* he was mailed.  Every write loads the row, decides, and saves.          *)
(***************************************************************************)
EXTENDS Naturals, FiniteSets, Sequelize

CONSTANTS
  Requests,  \* forms and requests open at once
  MaxSends,  \* bound: times the order is sent
  MaxTokens  \* bound: tokens minted

VARIABLES
  status,   \* of the order; what follows Acknowledged is one status
  data,     \* its data: token of the link, stamp of the last send, whether it is answered
  sends,    \* stamps given so far
  minted,   \* tokens minted so far
  emailed,  \* tokens mailed to the supplier (history)
  lost,     \* tokens overwritten by a request that had read the order without them (history)
  answers,  \* answers[s]: answers of the supplier to send s, up to two (history)
  excused,  \* sends whose answer was saved over from a copy older than it (history)
  req       \* req[q]: the form or request in slot q

order == <<status, data>>
count == <<sends, minted>>
history == <<emailed, lost, answers, excused>>
vars == <<order, count, history, req>>

Stamps == 0..MaxSends
Tokens == 0..MaxTokens

\* A token 0 is "", a stamp 0 no sentAt.
Bag(token, sent, ack) == [token |-> token, sent |-> sent, ack |-> ack]

NoBag == Bag(0, 0, FALSE)

Statuses == {"Issued", "Sent", "Acknowledged", "Declined", "Confirmed", "Cancelled"}

\* PO_TRANSITIONS.
Legal == [s \in Statuses |->
            CASE s = "Issued" -> {"Sent", "Cancelled"}
              [] s = "Sent" -> {"Acknowledged", "Declined", "Cancelled"}
              [] s = "Declined" -> {"Sent", "Cancelled"}
              [] s = "Acknowledged" -> {"Confirmed", "Cancelled"}
              [] OTHER -> {}]

\* assertBusinessTransition.
MayMove(s, t) == s = t \/ t \in Legal[s]

\* was, old: the row as it was loaded; now, bag: as it will be saved (in a form: shown);
\* told: answers to the send of the bag when it was read.
Slot(pc, was, old, now, bag, told) ==
  [pc |-> pc, was |-> was, old |-> old, now |-> now, bag |-> bag, told |-> told]

Idle == Slot("idle", "Issued", NoBag, "Issued", NoBag, 0)

Move(q, r) == req' = [req EXCEPT ![q] = r]

Init ==
  /\ status = "Issued"
  /\ data = NoBag
  /\ sends = 0
  /\ minted = 0
  /\ emailed = {}
  /\ lost = {}
  /\ answers = [s \in Stamps |-> 0]
  /\ excused = {}
  /\ req = [q \in Requests |-> Idle]

-----------------------------------------------------------------------------
OpenForm(q) ==
  /\ req[q].pc = "idle"
  /\ Move(q, Slot("form", status, data, status, data, answers[data.sent]))
  /\ UNCHANGED <<order, count, history>>

\* Mutant: the token of the form is taken.
WithTokenTrusting(bag, s) ==
  Bag(IF bag.token = 0 /\ (s = "Sent" \/ bag.sent # 0) THEN minted + 1 ELSE bag.token, bag.sent, bag.ack)

\* applyPoConfirmToken: a stored token stays, whatever the form says; one is minted
\* when the order is first sent.
WithToken(bag, s) ==
  Bag(CASE data.token # 0 -> data.token
        [] data.token = 0 /\ (s = "Sent" \/ bag.sent # 0) -> minted + 1
        [] OTHER -> 0,
      bag.sent, bag.ack)

\* updateBusiness, up to its save: the order becomes s, its data the given one.
LoadUpdate(q, pc, s, bag, told) ==
  LET next == WithToken(bag, s) IN
  /\ MayMove(status, s)
  /\ next.token <= MaxTokens
  /\ minted' = IF next.token > minted THEN next.token ELSE minted
  /\ Move(q, Slot(pc, status, data, s, next, told))
  /\ UNCHANGED <<order, history>>

\* The form sends its data, and a status where it sets one.
PostEdit(q, s) ==
  /\ req[q].pc = "form"
  /\ LoadUpdate(q, "edit", s, req[q].bag, req[q].told)
  /\ UNCHANGED sends

\* The form sends the order, for the first time or again: a fresh stamp, and the
\* answer of a declined order is taken off.
PostSend(q) ==
  LET form == req[q] IN
  /\ form.pc = "form" /\ form.was \in {"Issued", "Sent", "Declined"}
  /\ sends < MaxSends /\ sends' = sends + 1
  /\ LoadUpdate(q, "edit", "Sent", Bag(form.bag.token, sends + 1, form.bag.ack /\ form.was # "Declined"), 0)

\* A status without data, an acknowledgement entered by hand among them.
PostStatus(q, s) ==
  /\ req[q].pc = "idle"
  /\ LoadUpdate(q, "patch", s, data, answers[data.sent])
  /\ UNCHANGED sends

\* The token r overwrites, if r read the order before it had it.
Overwritten(r) == IF r.old.token # data.token THEN lost \cup ({data.token} \ {r.bag.token}) ELSE lost

\* save(), and emailPoIfSent of what was saved. The column is written, as a whole, when
\* anything in it differs from the copy: other, something the form changed besides; and
\* a change of status always adds an entry to its activity.
Save(q, other) ==
  LET r == req[q]
      saved == IF other \/ r.now # r.was THEN r.bag ELSE Changed(data, r.old, r.bag) IN
  /\ r.pc \in {"edit", "patch"} /\ (other => r.pc = "edit")
  /\ status' = Changed(status, r.was, r.now)
  /\ data' = saved
  /\ emailed' = IF r.bag.sent \notin {0, r.old.sent} THEN emailed \cup {r.bag.token} ELSE emailed
  /\ lost' = IF saved = data THEN lost ELSE Overwritten(r)
  /\ excused' = IF saved # data /\ r.told < answers[saved.sent] THEN excused \cup {saved.sent} ELSE excused
  /\ Move(q, Idle)
  /\ UNCHANGED <<count, answers>>

\* respondPoConfirmation, up to its save: the supplier's link is the order's, the
\* order is unanswered and still awaits an answer.
LoadAnswer(q, state) ==
  /\ req[q].pc = "idle"
  /\ data.token \in emailed /\ ~data.ack
  /\ state \in Legal[status]
  /\ Move(q, Slot("answer", status, data, state, Bag(data.token, data.sent, TRUE), answers[data.sent]))
  /\ UNCHANGED <<order, count, history>>

SaveAnswer(q) ==
  LET r == req[q]
      s == r.old.sent IN
  /\ r.pc = "answer"
  /\ status' = Changed(status, r.was, r.now)
  /\ data' = Changed(data, r.old, r.bag)
  /\ answers' = [answers EXCEPT ![s] = IF @ < 2 THEN @ + 1 ELSE @]
  /\ lost' = Overwritten(r)
  /\ excused' = IF r.told < answers[s] THEN excused \cup {s} ELSE excused
  /\ Move(q, Idle)
  /\ UNCHANGED <<count, emailed>>

\* The client closes the form, or a process dies before it saves.
Abandon(q) ==
  /\ req[q].pc # "idle"
  /\ Move(q, Idle)
  /\ UNCHANGED <<order, count, history>>

-----------------------------------------------------------------------------
Next ==
  \E q \in Requests :
    \/ OpenForm(q) \/ PostSend(q)
    \/ \E s \in Statuses : PostEdit(q, s) \/ PostStatus(q, s)
    \/ \E other \in BOOLEAN : Save(q, other)
    \/ \E state \in {"Acknowledged", "Declined"} : LoadAnswer(q, state)
    \/ SaveAnswer(q) \/ Abandon(q)

Spec == Init /\ [][Next]_vars

-----------------------------------------------------------------------------
Bags == [token : Tokens, sent : Stamps, ack : BOOLEAN]

TypeOK ==
  /\ status \in Statuses
  /\ data \in Bags
  /\ sends \in Stamps
  /\ minted \in Tokens
  /\ emailed \subseteq Tokens \ {0}
  /\ lost \subseteq Tokens
  /\ answers \in [Stamps -> 0..2]
  /\ excused \subseteq Stamps
  /\ req \in [Requests -> [pc : {"idle", "form", "edit", "patch", "answer"}, was : Statuses, old : Bags,
                           now : Statuses, bag : Bags, told : 0..2]]

\* "It is never regenerated afterwards so a resend does not invalidate a link already
\* in a supplier's inbox": a link that was mailed opens the order, whatever old form is
\* saved over it, unless it was overwritten by a request that overlapped its sending (a
\* change of status that loaded the order before is enough).
LinkStands == \A t \in emailed : t = data.token \/ t \in lost

\* "One response only": a send of the order is answered once, unless its answer was saved
\* over from a copy older than it: by another answer, by an old form, or by a change of
\* status that had loaded the order before (updateBusiness writes the column as a whole).
OneAnswerPerSend == \A s \in Stamps : answers[s] = 2 => s \in excused

\* The supplier can answer, once.
SupplierLink == LinkStands /\ OneAnswerPerSend
=============================================================================
