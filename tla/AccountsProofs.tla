--------------------------- MODULE AccountsProofs ---------------------------
(***************************************************************************)
(* For any number of refresh tokens, links and requests in flight: a token *)
(* and a link serve once, condemned sessions end, and a deleted account    *)
(* stays deleted but for a request that had read it before.                *)
(*                                                                         *)
(* Three invariants carry this, one for each kind of credential: TokenInv  *)
(* (who may still give a token a successor), LinkInv (which links are      *)
(* behind the account), SweepInv (which sessions the last revocation of    *)
(* all of them has met).  SlotOK says what a request remembers.            *)
(***************************************************************************)
EXTENDS Administration, TLAPS

Setting == MaxLinks \in Nat /\ MaxLinks >= 1 /\ MaxEpoch \in Nat /\ NoToken \notin Tokens

\* What a request remembers.
SlotOK(r) ==
  /\ r.pc \in {"claim", "rotate"} => r.token \in Tokens /\ token[r.token].state # "unused"
  /\ r.pc = "grant" => r.token = NoToken
  /\ r.link <= issued
  /\ r.pc = "reset" => r.link # 0
  /\ r.pc = "activate" => r.seen = Acc!Pending
  /\ r.pc \in {"status", "role"} => r.seen \in Acc!Statuses \ {"Deleted"} /\ r.new \in Acc!Statuses

\* A token that is not revoked has no successor, nor has one that a request is about
\* to give one; no two requests are about to give the same token one.
Rotating(q, t) == accountReq[q].pc = "rotate" /\ accountReq[q].token = t

TokenInv ==
  /\ Acc!OneSuccessor
  /\ \A s, t \in Tokens : token[s].parent = t =>
       token[t].state = "revoked" /\ \A q \in Requests : ~Rotating(q, t)
  /\ \A t \in Tokens, q \in Requests : Rotating(q, t) =>
       token[t].state = "revoked" /\ \A p \in Requests : Rotating(p, t) => p = q

\* Links are numbered as they are issued; those used or voided are behind the newest
\* voided one, and the one on the account is ahead of it.
LinkInv ==
  /\ voided <= issued /\ reset <= issued
  /\ Acc!LinksVoided
  /\ \A l \in 1..MaxLinks : uses[l] <= 1 /\ (uses[l] # 0 => l <= voided)

\* Somebody has yet to revoke the sessions, or died before he did.
Pends == \E q \in Requests : accountReq[q].pc \in {"revoke", "crashed"}

SweepInv ==
  /\ swept <= epoch
  /\ swept = epoch \/ Pends
  /\ \A t \in Tokens : token[t].state = "live" => token[t].late \/ token[t].epoch >= swept

AInv == Acc!TypeOK /\ (\A q \in Requests : SlotOK(accountReq[q])) /\ TokenInv /\ LinkInv /\ SweepInv

OtherCalls(q) == \A p \in Requests : p # q => accountReq'[p] = accountReq[p]

-----------------------------------------------------------------------------
LEMMA CallUpdate ==
  ASSUME Acc!TypeOK, NEW q \in Requests, NEW s, Acc!Move(q, s)
  PROVE  /\ OtherCalls(q) /\ accountReq'[q] = s
         /\ s \in Acc!Slots => accountReq' \in [Requests -> Acc!Slots]
BY DEF Acc!TypeOK, Acc!Move, OtherCalls

LEMMA Constants ==
  ASSUME Acc!TypeOK
  PROVE  /\ Acc!Idle \in Acc!Slots /\ Acc!Idle.pc = "idle" /\ Acc!Idle.link = 0
         /\ Acc!Dead \in Acc!Slots /\ Acc!Dead.pc = "crashed" /\ Acc!Dead.link = 0
         /\ Acc!Revoking \in Acc!Slots /\ Acc!Revoking.pc = "revoke" /\ Acc!Revoking.link = 0
BY DEF Acc!Idle, Acc!Dead, Acc!Revoking, Acc!Slot, Acc!Slots, Acc!Points

\* The slots that are not on their way to anything.
LEMMA RestOK == ASSUME Acc!TypeOK PROVE SlotOK(Acc!Idle) /\ SlotOK(Acc!Dead) /\ SlotOK(Acc!Revoking)
BY Constants DEF SlotOK, Acc!TypeOK

LEMMA InitAInv == ASSUME Setting, Acc!Init PROVE AInv
<1>1. Acc!Unused = [state |-> "unused", parent |-> NoToken, epoch |-> 0, late |-> FALSE]
  BY DEF Acc!Unused, Acc!Row
<1>2. Acc!TypeOK
  <2>1. Acc!Idle \in Acc!Slots
    BY DEF Acc!Idle, Acc!Slot, Acc!Slots, Acc!Points
  <2>2. Acc!Unused \in Acc!TokenRows
    BY <1>1 DEF Acc!TokenRows
  <2>3. token \in [Tokens -> Acc!TokenRows] /\ accountReq \in [Requests -> Acc!Slots]
    BY <2>1, <2>2 DEF Acc!Init
  <2>4. /\ status \in Acc!Statuses /\ password \in BOOLEAN /\ invite \in Nat
        /\ reset \in 0..MaxLinks /\ issued \in 1..MaxLinks
    BY DEF Setting, Acc!Init, Acc!Statuses
  <2>5. uses \in [1..MaxLinks -> Nat] /\ voided \in Nat /\ epoch \in Nat /\ swept \in Nat
    BY DEF Acc!Init
  <2> QED BY <2>3, <2>4, <2>5 DEF Acc!TypeOK
<1>3. \A q \in Requests : SlotOK(accountReq[q])
  BY <1>2, RestOK DEF Acc!Init
<1>4. TokenInv
  <2>1. \A q \in Requests : \A t : ~Rotating(q, t)
    BY <1>2, Constants DEF Acc!Init, Rotating
  <2>2. \A t \in Tokens : token[t].parent = NoToken
    BY <1>1 DEF Acc!Init
  <2> QED BY <2>1, <2>2 DEF TokenInv, Acc!OneSuccessor, Setting
<1>5. LinkInv
  BY DEF Acc!Init, LinkInv, Acc!LinksVoided
<1>6. SweepInv
  BY <1>1 DEF Acc!Init, SweepInv
<1> QED BY <1>2, <1>3, <1>4, <1>5, <1>6 DEF AInv

-----------------------------------------------------------------------------
\* The steps that only load the account.
Loads(q) ==
  \/ Acc!Login(q) \/ Acc!LoadInvite(q) \/ Acc!LoadChange(q) \/ Acc!LoadForgotten(q) \/ Acc!LoadReset(q)
  \/ Acc!LoadResend(q)
  \/ Acc!LoadGrant(q) \/ Acc!LoadDelete(q)
  \/ \E t \in Tokens : Acc!LoadToken(q, t)
  \/ \E s \in Acc!Statuses \ {"Deleted"} : Acc!LoadUser(q, s)

Frozen == UNCHANGED <<status, password, invite, reset, issued, token, uses, voided, epoch, swept>>

LEMMA LoadSlot ==
  ASSUME AInv, NEW q \in Requests, Loads(q)
  PROVE  /\ Frozen /\ accountReq[q].pc = "idle"
         /\ \E s \in Acc!Slots : Acc!Move(q, s) /\ SlotOK(s) /\ s.pc \notin {"rotate", "revoke", "crashed"}
<1> DEFINE Good(s) == s \in Acc!Slots /\ Acc!Move(q, s) /\ SlotOK(s) /\ s.pc \notin {"rotate", "revoke", "crashed"}
<1>1. /\ status \in Acc!Statuses /\ invite \in Nat /\ reset \in Nat /\ issued \in Nat /\ epoch \in Nat
      /\ reset <= issued /\ \A t \in Tokens : token[t].epoch \in Nat
  BY DEF AInv, Acc!TypeOK, LinkInv, Acc!TokenRows
<1>2. Frozen /\ accountReq[q].pc = "idle"
  BY DEF Loads, Acc!Login, Acc!LoadInvite, Acc!LoadChange, Acc!LoadForgotten, Acc!LoadReset,
     Acc!LoadResend, Acc!LoadGrant, Acc!LoadDelete, Acc!LoadToken, Acc!LoadUser, Acc!Free, Frozen,
     Acc!row, Acc!history
<1>3. CASE Acc!Login(q)
  <2>1. Good(Acc!Slot("grant", "none", "none", 0, 0, NoToken, epoch))
    BY <1>1, <1>3 DEF Acc!Login, Acc!Slot, Acc!Slots, Acc!Points, SlotOK
  <2> QED BY <1>2, <2>1
<1>4. CASE Acc!LoadInvite(q)
  <2>1. Good(Acc!Slot("activate", status, "Active", invite, 0, NoToken, 0))
    BY <1>1, <1>4 DEF Acc!LoadInvite, Acc!Slot, Acc!Slots, Acc!Points, SlotOK, Acc!Statuses
  <2> QED BY <1>2, <2>1
<1>5. CASE Acc!LoadChange(q)
  <2>1. Good(Acc!Slot("change", "none", "none", 0, reset, NoToken, 0))
    BY <1>1, <1>5 DEF Acc!LoadChange, Acc!Slot, Acc!Slots, Acc!Points, SlotOK
  <2> QED BY <1>2, <2>1
<1>6. CASE Acc!LoadForgotten(q)
  <2>1. Good(Acc!Slot("forgot", "none", "none", 0, 0, NoToken, 0))
    BY <1>1, <1>6 DEF Acc!LoadForgotten, Acc!Slot, Acc!Slots, Acc!Points, SlotOK
  <2> QED BY <1>2, <2>1
<1>7. CASE Acc!LoadReset(q)
  <2>1. Good(Acc!Slot("reset", "none", "none", 0, reset, NoToken, 0))
    BY <1>1, <1>7 DEF Acc!LoadReset, Acc!Slot, Acc!Slots, Acc!Points, SlotOK
  <2> QED BY <1>2, <2>1
<1>8. CASE Acc!LoadResend(q)
  <2>1. Good(Acc!Slot("resend", "none", "none", 0, 0, NoToken, 0))
    BY <1>1, <1>8 DEF Acc!LoadResend, Acc!Slot, Acc!Slots, Acc!Points, SlotOK
  <2> QED BY <1>2, <2>1
<1>9. CASE Acc!LoadGrant(q)
  <2>1. Good(Acc!Slot("role", status, Acc!Pending, 0, 0, NoToken, 0))
    BY <1>1, <1>9 DEF Acc!LoadGrant, Acc!Slot, Acc!Slots, Acc!Points, SlotOK, Acc!Statuses
  <2> QED BY <1>2, <2>1
<1>10. CASE Acc!LoadDelete(q)
  <2>1. Good(Acc!Slot("delete", status, "Deleted", invite, reset, NoToken, 0))
    BY <1>1, <1>10 DEF Acc!LoadDelete, Acc!Slot, Acc!Slots, Acc!Points, SlotOK, Acc!Statuses
  <2> QED BY <1>2, <2>1
<1>11. ASSUME NEW t \in Tokens, Acc!LoadToken(q, t) PROVE \E s : Good(s)
  <2>1. Good(Acc!Slot("claim", "none", "none", 0, 0, t, token[t].epoch))
    BY <1>1, <1>11 DEF Acc!LoadToken, Acc!Slot, Acc!Slots, Acc!Points, SlotOK
  <2> QED BY <2>1
<1>12. ASSUME NEW x \in Acc!Statuses \ {"Deleted"}, Acc!LoadUser(q, x) PROVE \E s : Good(s)
  <2>1. Good(Acc!Slot("status", status, x, 0, 0, NoToken, 0))
    BY <1>1, <1>12 DEF Acc!LoadUser, Acc!Slot, Acc!Slots, Acc!Points, SlotOK, Acc!Statuses
  <2> QED BY <2>1
<1> QED BY <1>2, <1>3, <1>4, <1>5, <1>6, <1>7, <1>8, <1>9, <1>10, <1>11, <1>12 DEF Loads

\* Requests that move from a slot to one that is not "rotate" leave TokenInv alone, as
\* long as tokens do not change.
LEMMA TokensAlone ==
  ASSUME TokenInv, NEW q \in Requests, OtherCalls(q), accountReq'[q].pc # "rotate", token' = token
  PROVE  TokenInv'
<1>1. \A p \in Requests : \A t : Rotating(p, t)' => Rotating(p, t)
  BY DEF Rotating, OtherCalls
<1> QED BY <1>1 DEF TokenInv, Acc!OneSuccessor

\* A request that does not end a revocation leaves the others' work pending.
LEMMA PendsKept ==
  ASSUME NEW q \in Requests, OtherCalls(q),
         accountReq[q].pc \in {"revoke", "crashed"} => accountReq'[q].pc \in {"revoke", "crashed"},
         Pends
  PROVE  Pends'
<1>1. PICK p \in Requests : accountReq[p].pc \in {"revoke", "crashed"}
  BY DEF Pends
<1>2. accountReq'[p].pc \in {"revoke", "crashed"}
  BY <1>1 DEF OtherCalls
<1> QED BY <1>2 DEF Pends

\* What requests remember stays true while tokens are not given back and links are
\* only issued.
LEMMA SlotsKept ==
  ASSUME AInv, NEW q \in Requests, OtherCalls(q), SlotOK(accountReq[q])', issued' \in Nat,
         issued' >= issued,
         \A t \in Tokens : token[t].state # "unused" => token'[t].state # "unused"
  PROVE  \A p \in Requests : SlotOK(accountReq[p])'
<1>1. ASSUME NEW p \in Requests, p # q PROVE SlotOK(accountReq[p])'
  <2>1. accountReq'[p] = accountReq[p] /\ SlotOK(accountReq[p]) /\ accountReq[p].link \in Nat /\ issued \in Nat
    BY <1>1 DEF OtherCalls, AInv, Acc!TypeOK, Acc!Slots
  <2> QED BY <2>1 DEF SlotOK
<1> QED BY <1>1

\* A step that loads the account, and any other that leaves everything but its own slot.
LEMMA QuietAInv ==
  ASSUME AInv, NEW q \in Requests, NEW s \in Acc!Slots, Acc!Move(q, s), SlotOK(s), s.pc # "rotate",
         accountReq[q].pc \in {"revoke", "crashed"} => s.pc \in {"revoke", "crashed"}, Frozen
  PROVE  AInv'
<1>1. OtherCalls(q) /\ accountReq'[q] = s /\ accountReq' \in [Requests -> Acc!Slots]
  BY CallUpdate DEF AInv
<1>2. Acc!TypeOK'
  BY <1>1 DEF AInv, Acc!TypeOK, Frozen
<1>3. SlotOK(accountReq[q])'
  BY <1>1 DEF SlotOK, Frozen
<1>4. \A p \in Requests : SlotOK(accountReq[p])'
  BY <1>1, <1>3, SlotsKept DEF Frozen, AInv, Acc!TypeOK
<1>5. TokenInv'
  BY <1>1, TokensAlone DEF AInv, Frozen
<1>6. LinkInv'
  BY DEF AInv, LinkInv, Acc!LinksVoided, Frozen
<1>7. SweepInv'
  BY <1>1, PendsKept DEF AInv, SweepInv, Frozen
<1> QED BY <1>2, <1>4, <1>5, <1>6, <1>7 DEF AInv

-----------------------------------------------------------------------------
\* A step that writes the account, and condemns its sessions or not.
LEMMA AccountAInv ==
  ASSUME AInv, NEW q \in Requests, token' = token, swept' = swept, LinkInv',
         accountReq[q].pc \notin {"revoke", "crashed"},
         \/ Acc!Move(q, Acc!Idle) /\ epoch' = epoch
         \/ Acc!Move(q, Acc!Revoking) /\ epoch' = epoch + 1,
         status' \in Acc!Statuses, password' \in BOOLEAN, invite' \in Nat, reset' \in 0..MaxLinks,
         issued' \in 1..MaxLinks, issued' >= issued, uses' \in [1..MaxLinks -> Nat], voided' \in Nat
  PROVE  AInv'
<1>1. PICK s \in {Acc!Idle, Acc!Revoking} :
        Acc!Move(q, s) /\ \/ s = Acc!Idle /\ epoch' = epoch
                          \/ s = Acc!Revoking /\ epoch' = epoch + 1
  OBVIOUS
<1>2. OtherCalls(q) /\ accountReq'[q] = s /\ accountReq' \in [Requests -> Acc!Slots]
  BY <1>1, CallUpdate, Constants DEF AInv
<1>3. epoch \in Nat /\ swept \in Nat /\ epoch' \in Nat /\ issued' \in Nat
  BY <1>1 DEF AInv, Acc!TypeOK
<1>4. Acc!TypeOK'
  BY <1>2, <1>3 DEF AInv, Acc!TypeOK
<1>5. SlotOK(accountReq[q])'
  <2>1. Acc!TypeOK' => SlotOK(Acc!Idle)' /\ SlotOK(Acc!Revoking)'
    BY Constants DEF SlotOK, Acc!TypeOK, AInv
  <2> QED BY <1>1, <1>2, <1>4, <2>1 DEF SlotOK
<1>6. \A p \in Requests : SlotOK(accountReq[p])'
  BY <1>2, <1>3, <1>5, SlotsKept
<1>7. TokenInv'
  <2>1. s.pc # "rotate"
    BY <1>1, Constants DEF AInv
  <2> QED BY <1>2, <2>1, TokensAlone DEF AInv
<1>8. SweepInv'
  <2>1. CASE s = Acc!Idle /\ epoch' = epoch
    <3>1. Pends => Pends'
      BY <1>2, PendsKept
    <3> QED BY <2>1, <3>1 DEF AInv, SweepInv
  <2>2. CASE s = Acc!Revoking /\ epoch' = epoch + 1
    <3>1. Pends'
      BY <1>2, <2>2, Constants DEF Pends, AInv
    <3> QED BY <1>3, <2>2, <3>1 DEF AInv, SweepInv
  <2> QED BY <1>1, <2>1, <2>2
<1> QED BY <1>4, <1>6, <1>7, <1>8 DEF AInv

\* The links after a step that takes the link it loaded off the account, if any.
LEMMA LinksTaken ==
  ASSUME Setting, AInv, NEW l \in Nat, l <= issued, reset' = Acc!Changed(reset, l, 0),
         voided' = Acc!Newer(l),
         issued' = issued, uses' = uses
  PROVE  LinkInv' /\ voided' \in Nat /\ (reset \in 0..MaxLinks => reset' \in 0..MaxLinks)
<1>1. voided \in Nat /\ reset \in Nat /\ issued \in Nat /\ uses \in [1..MaxLinks -> Nat]
  BY DEF AInv, Acc!TypeOK
<1>2. voided' \in Nat /\ voided' >= voided /\ voided' <= issued /\ (l = 0 => voided' = voided)
  BY <1>1 DEF Acc!Newer, AInv, LinkInv
<1>3. reset' \in {0, reset} /\ (l # 0 => reset' = 0)
  BY DEF Acc!Changed
<1>4. Acc!LinksVoided'
  BY <1>1, <1>2, <1>3 DEF AInv, LinkInv, Acc!LinksVoided
<1>5. \A x \in 1..MaxLinks : uses'[x] <= 1 /\ (uses'[x] # 0 => x <= voided')
  BY <1>1, <1>2 DEF AInv, LinkInv
<1>6. reset \in 0..MaxLinks => reset' \in 0..MaxLinks
  BY <1>1, <1>3 DEF Setting
<1>7. voided' <= issued' /\ reset' <= issued'
  <2>1. reset <= issued
    BY DEF AInv, LinkInv
  <2> QED BY <1>1, <1>2, <1>3, <2>1
<1>8. LinkInv'
  BY <1>4, <1>5, <1>7 DEF LinkInv
<1> QED BY <1>2, <1>6, <1>8

LEMMA AccountStep ==
  ASSUME Setting, AInv, NEW q \in Requests,
         \/ Acc!Activate(q) \/ Acc!SavePassword(q) \/ Acc!RequestPasswordReset(q)
         \/ Acc!ResetPassword(q)
         \/ Acc!ResendActivation(q) \/ Acc!SaveStatus(q) \/ Acc!SaveGrant(q) \/ Acc!SoftDelete(q)
         \/ Acc!ClaimReused(q)
  PROVE  AInv'
<1>1. /\ status \in Acc!Statuses /\ password \in BOOLEAN /\ invite \in Nat /\ reset \in 0..MaxLinks
      /\ issued \in 1..MaxLinks /\ uses \in [1..MaxLinks -> Nat] /\ voided \in Nat /\ epoch \in Nat
      /\ MaxLinks \in Nat /\ issued \in Nat
  BY DEF AInv, Acc!TypeOK, Setting
<1>2. /\ accountReq[q].link \in Nat /\ accountReq[q].link <= issued /\ SlotOK(accountReq[q])
      /\ accountReq[q].new \in Acc!Statuses \cup {"none"}
  BY DEF AInv, Acc!TypeOK, Acc!Slots, SlotOK
<1>3. LinkInv
  BY DEF AInv
<1>4. CASE Acc!Activate(q)
  <2>1. /\ token' = token /\ swept' = swept /\ epoch' = epoch /\ Acc!Move(q, Acc!Idle)
        /\ accountReq[q].pc = "activate"
        /\ status' = "Active" /\ password' = TRUE /\ invite' = 0 /\ reset' = reset /\ issued' = issued
        /\ uses' = uses /\ voided' = voided
    BY <1>4 DEF Acc!Activate, Acc!history
  <2>2. LinkInv'
    BY <1>3, <2>1 DEF LinkInv, Acc!LinksVoided
  <2> QED BY <1>1, <2>1, <2>2, AccountAInv DEF Acc!Statuses
<1>5. CASE Acc!SavePassword(q)
  <2>1. /\ token' = token /\ swept' = swept /\ epoch' = epoch + 1 /\ Acc!Move(q, Acc!Revoking)
        /\ accountReq[q].pc = "change"
        /\ status' = status /\ password' = TRUE /\ invite' = invite /\ issued' = issued /\ uses' = uses
        /\ reset' = Acc!Changed(reset, accountReq[q].link, 0) /\ voided' = Acc!Newer(accountReq[q].link)
    BY <1>5 DEF Acc!SavePassword, Acc!Condemn
  <2>2. LinkInv' /\ voided' \in Nat /\ reset' \in 0..MaxLinks
    BY <1>1, <1>2, <2>1, LinksTaken
  <2> QED BY <1>1, <2>1, <2>2, AccountAInv
<1>6. CASE Acc!RequestPasswordReset(q)
  <2>1. /\ token' = token /\ swept' = swept /\ epoch' = epoch /\ Acc!Move(q, Acc!Idle)
        /\ accountReq[q].pc = "forgot"
        /\ status' = status /\ password' = password /\ invite' = invite /\ uses' = uses
        /\ voided' = voided
        /\ issued < MaxLinks /\ issued' = issued + 1 /\ reset' = issued + 1
    BY <1>6 DEF Acc!RequestPasswordReset, Acc!history
  <2>2. LinkInv'
    BY <1>1, <1>3, <2>1 DEF LinkInv, Acc!LinksVoided
  <2> QED BY <1>1, <2>1, <2>2, AccountAInv
<1>7. CASE Acc!ResetPassword(q)
  <2>1. /\ token' = token /\ swept' = swept /\ epoch' = epoch + 1 /\ Acc!Move(q, Acc!Revoking)
        /\ accountReq[q].pc = "reset"
        /\ status' = status /\ password' = TRUE /\ invite' = invite /\ issued' = issued
        /\ reset = accountReq[q].link /\ reset' = 0 /\ voided' = Acc!Newer(accountReq[q].link)
        /\ uses' = [uses EXCEPT ![accountReq[q].link] = @ + 1]
    BY <1>7 DEF Acc!ResetPassword, Acc!Condemn
  <2> DEFINE l == accountReq[q].link
  <2>2. l \in 1..MaxLinks /\ l > voided /\ voided' = l /\ uses[l] = 0
    <3>1. l # 0
      BY <1>2, <2>1 DEF SlotOK
    <3>2. l > voided
      BY <1>3, <2>1, <3>1 DEF LinkInv, Acc!LinksVoided
    <3>3. l \in 1..MaxLinks /\ voided' = l
      BY <1>1, <2>1, <3>1, <3>2 DEF Acc!Newer
    <3>4. uses[l] = 0
      BY <1>1, <1>3, <3>2, <3>3 DEF LinkInv
    <3> QED BY <3>2, <3>3, <3>4
  <2>3. uses' \in [1..MaxLinks -> Nat]
    <3>1. uses[l] + 1 \in Nat
      BY <1>1, <2>2
    <3> QED BY <1>1, <2>1, <3>1
  <2>4. \A x \in 1..MaxLinks : uses'[x] <= 1 /\ (uses'[x] # 0 => x <= voided')
    BY <1>1, <1>3, <2>1, <2>2 DEF LinkInv
  <2>5. LinkInv'
    BY <1>1, <1>2, <2>1, <2>2, <2>4 DEF LinkInv, Acc!LinksVoided
  <2> QED BY <1>1, <2>1, <2>2, <2>3, <2>5, AccountAInv
<1>8. CASE Acc!ResendActivation(q)
  <2>1. /\ token' = token /\ swept' = swept /\ epoch' = epoch /\ Acc!Move(q, Acc!Idle)
        /\ accountReq[q].pc = "resend"
        /\ status' = status /\ password' = password /\ reset' = reset /\ uses' = uses
        /\ voided' = voided
        /\ issued < MaxLinks /\ issued' = issued + 1 /\ invite' = issued + 1
    BY <1>8 DEF Acc!ResendActivation, Acc!history
  <2>2. LinkInv'
    BY <1>1, <1>3, <2>1 DEF LinkInv, Acc!LinksVoided
  <2> QED BY <1>1, <2>1, <2>2, AccountAInv
<1>9. CASE Acc!SaveStatus(q)
  <2>1. /\ token' = token /\ swept' = swept /\ accountReq[q].pc = "status"
        /\ status' = Acc!Changed(status, accountReq[q].seen, accountReq[q].new)
        /\ password' = TRUE \/ password' = password
        /\ invite' = invite /\ reset' = reset /\ issued' = issued /\ uses' = uses /\ voided' = voided
        /\ \/ Acc!Move(q, Acc!Idle) /\ epoch' = epoch
           \/ Acc!Move(q, Acc!Revoking) /\ epoch' = epoch + 1
    BY <1>9 DEF Acc!SaveStatus, Acc!Condemn, Acc!history
  <2>2. LinkInv'
    BY <1>3, <2>1 DEF LinkInv, Acc!LinksVoided
  <2>3. status' \in Acc!Statuses
    BY <1>1, <1>2, <2>1 DEF Acc!Changed, SlotOK
  <2>4. password' \in BOOLEAN
    BY <1>1, <2>1
  <2> QED BY <1>1, <2>1, <2>2, <2>3, <2>4, AccountAInv
<1>10. CASE Acc!SaveGrant(q)
  <2>1. /\ token' = token /\ swept' = swept /\ epoch' = epoch + 1 /\ Acc!Move(q, Acc!Revoking)
        /\ accountReq[q].pc = "role"
        /\ status' = Acc!Changed(status, accountReq[q].seen, Acc!Pending) /\ password' = password
        /\ reset' = reset
        /\ uses' = uses /\ voided' = voided
        /\ issued < MaxLinks /\ issued' = issued + 1 /\ invite' = issued + 1
    BY <1>10 DEF Acc!SaveGrant, Acc!Condemn, Acc!history
  <2>2. LinkInv'
    BY <1>1, <1>3, <2>1 DEF LinkInv, Acc!LinksVoided
  <2>3. status' \in Acc!Statuses
    BY <1>1, <2>1 DEF Acc!Changed, Acc!Statuses
  <2> QED BY <1>1, <2>1, <2>2, <2>3, AccountAInv
<1>11. CASE Acc!SoftDelete(q)
  <2>1. /\ token' = token /\ swept' = swept /\ epoch' = epoch + 1 /\ Acc!Move(q, Acc!Revoking)
        /\ accountReq[q].pc = "delete"
        /\ status' = Acc!Changed(status, accountReq[q].seen, "Deleted") /\ password' = password
        /\ invite' = Acc!Changed(invite, accountReq[q].invite, 0) /\ issued' = issued /\ uses' = uses
        /\ reset' = Acc!Changed(reset, accountReq[q].link, 0) /\ voided' = Acc!Newer(accountReq[q].link)
    BY <1>11 DEF Acc!SoftDelete, Acc!Condemn
  <2>2. LinkInv' /\ voided' \in Nat /\ reset' \in 0..MaxLinks
    BY <1>1, <1>2, <2>1, LinksTaken
  <2>3. status' \in Acc!Statuses /\ invite' \in Nat
    BY <1>1, <2>1 DEF Acc!Changed, Acc!Statuses
  <2> QED BY <1>1, <2>1, <2>2, <2>3, AccountAInv
<1>12. CASE Acc!ClaimReused(q)
  <2>1. /\ token' = token /\ swept' = swept /\ epoch' = epoch + 1 /\ Acc!Move(q, Acc!Revoking)
        /\ accountReq[q].pc = "claim"
        /\ status' = status /\ password' = password /\ invite' = invite /\ reset' = reset
        /\ issued' = issued
        /\ uses' = uses /\ voided' = voided
    BY <1>12 DEF Acc!ClaimReused, Acc!Condemn, Acc!row, Acc!history
  <2>2. LinkInv'
    BY <1>3, <2>1 DEF LinkInv, Acc!LinksVoided
  <2> QED BY <1>1, <2>1, <2>2, AccountAInv
<1> QED BY <1>4, <1>5, <1>6, <1>7, <1>8, <1>9, <1>10, <1>11, <1>12

-----------------------------------------------------------------------------
\* A step of q that revokes the live tokens of S.
RevokeStep(S) ==
  /\ token' \in [Tokens -> Acc!TokenRows]
  /\ \A t \in Tokens :
       /\ token'[t].parent = token[t].parent /\ token'[t].epoch = token[t].epoch
       /\ token'[t].late = token[t].late
       /\ IF t \in S THEN token[t].state = "live" /\ token'[t].state = "revoked"
                     ELSE token'[t].state = token[t].state

LEMMA RevokedRow ==
  ASSUME NEW r \in Acc!TokenRows
  PROVE  /\ Acc!Revoked(r) \in Acc!TokenRows /\ Acc!Revoked(r).state = "revoked"
         /\ Acc!Revoked(r).parent = r.parent
         /\ Acc!Revoked(r).epoch = r.epoch /\ Acc!Revoked(r).late = r.late
BY DEF Acc!Revoked, Acc!Row, Acc!TokenRows

LEMMA RevokesOne ==
  ASSUME Acc!TypeOK, NEW t \in Tokens, token[t].state = "live",
         token' = [token EXCEPT ![t] = Acc!Revoked(@)]
  PROVE  RevokeStep({t})
<1>1. token \in [Tokens -> Acc!TokenRows]
  BY DEF Acc!TypeOK
<1>2. token[t] \in Acc!TokenRows
  BY <1>1
<1>3. /\ Acc!Revoked(token[t]) \in Acc!TokenRows /\ Acc!Revoked(token[t]).state = "revoked"
      /\ Acc!Revoked(token[t]).parent = token[t].parent
      /\ Acc!Revoked(token[t]).epoch = token[t].epoch /\ Acc!Revoked(token[t]).late = token[t].late
  BY <1>2, RevokedRow
<1>4. token' = [token EXCEPT ![t] = Acc!Revoked(token[t])]
  OBVIOUS
<1> QED BY <1>1, <1>3, <1>4 DEF RevokeStep

\* Revoking tokens keeps who may still give one a successor, if nobody starts to but
\* the one who revoked it.
LEMMA RevokeTokens ==
  ASSUME TokenInv, NEW S \in SUBSET Tokens, RevokeStep(S),
         NEW q \in Requests, OtherCalls(q),
         accountReq'[q].pc = "rotate" => accountReq'[q].token \in S
  PROVE  TokenInv'
<1>1. Acc!OneSuccessor'
  BY DEF TokenInv, Acc!OneSuccessor, RevokeStep
<1>2. ASSUME NEW p \in Requests, NEW t \in Tokens, Rotating(p, t)'
      PROVE  Rotating(p, t) \/ (p = q /\ t \in S)
  BY <1>2 DEF Rotating, OtherCalls
<1>3. ASSUME NEW s \in Tokens, NEW t \in Tokens, token'[s].parent = t
      PROVE  token'[t].state = "revoked" /\ \A p \in Requests : ~Rotating(p, t)'
  <2>1. token[s].parent = t
    BY <1>3 DEF RevokeStep
  <2>2. token[t].state = "revoked" /\ \A p \in Requests : ~Rotating(p, t)
    BY <2>1 DEF TokenInv
  <2>3. t \notin S
    BY <2>2 DEF RevokeStep
  <2> QED BY <1>2, <2>2, <2>3 DEF RevokeStep
<1>4. ASSUME NEW t \in Tokens, NEW p \in Requests, Rotating(p, t)'
      PROVE  token'[t].state = "revoked" /\ \A o \in Requests : Rotating(o, t)' => o = p
  <2>1. CASE t \in S
    <3>1. \A o \in Requests : ~Rotating(o, t)
      BY <2>1 DEF TokenInv, RevokeStep
    <3> QED BY <1>2, <1>4, <2>1, <3>1 DEF RevokeStep
  <2>2. CASE t \notin S
    <3>1. Rotating(p, t) /\ \A o \in Requests : Rotating(o, t)' => Rotating(o, t)
      BY <1>2, <1>4, <2>2
    <3> QED BY <2>2, <3>1 DEF TokenInv, RevokeStep
  <2> QED BY <2>1, <2>2
<1> QED BY <1>1, <1>3, <1>4 DEF TokenInv

\* A new token, with the successor it is of the token its request has claimed.
LEMMA GrantTokens ==
  ASSUME Setting, Acc!TypeOK, TokenInv, NEW q \in Requests, OtherCalls(q), accountReq'[q].pc # "rotate",
         NEW t \in Tokens, token[t].state = "unused", NEW r \in Acc!TokenRows, r.state = "live",
         token' = [token EXCEPT ![t] = r],
         r.parent = NoToken \/ Rotating(q, r.parent)
  PROVE  TokenInv'
<1>1. /\ token'[t] = r /\ \A s \in Tokens : s # t => token'[s] = token[s]
      /\ r.parent \in Tokens \cup {NoToken}
  BY DEF Acc!TypeOK, Acc!TokenRows
<1>2. \A p \in Requests, x \in Tokens : Rotating(p, x)' => Rotating(p, x) /\ p # q
  BY DEF Rotating, OtherCalls
<1>3. r.parent \in Tokens =>
        /\ token[r.parent].state = "revoked" /\ r.parent # t
        /\ \A s \in Tokens : token[s].parent # r.parent
        /\ \A p \in Requests : ~Rotating(p, r.parent)'
  <2>1. ASSUME r.parent \in Tokens PROVE Rotating(q, r.parent) /\ token[r.parent].state = "revoked"
    BY <2>1 DEF Setting, TokenInv
  <2> QED BY <1>2, <2>1 DEF TokenInv
<1>4. Acc!OneSuccessor'
  <2>1. ASSUME NEW x \in Tokens, NEW y \in Tokens, token'[x].parent = token'[y].parent,
               token'[x].parent # NoToken
        PROVE  x = y
    <3>1. CASE x # t /\ y # t
      BY <1>1, <2>1, <3>1 DEF TokenInv, Acc!OneSuccessor
    <3>2. CASE x = t /\ y # t
      BY <1>1, <1>3, <2>1, <3>2
    <3>3. CASE x # t /\ y = t
      BY <1>1, <1>3, <2>1, <3>3
    <3> QED BY <3>1, <3>2, <3>3
  <2> QED BY <2>1 DEF Acc!OneSuccessor
<1>5. ASSUME NEW s \in Tokens, NEW x \in Tokens, token'[s].parent = x
      PROVE  token'[x].state = "revoked" /\ \A p \in Requests : ~Rotating(p, x)'
  <2>1. CASE s = t
    BY <1>1, <1>3, <1>5, <2>1
  <2>2. CASE s # t
    <3>1. token[x].state = "revoked" /\ \A p \in Requests : ~Rotating(p, x)
      BY <1>1, <1>5, <2>2 DEF TokenInv
    <3>2. x # t
      BY <3>1
    <3> QED BY <1>1, <1>2, <3>1, <3>2
  <2> QED BY <2>1, <2>2
<1>6. ASSUME NEW x \in Tokens, NEW p \in Requests, Rotating(p, x)'
      PROVE  token'[x].state = "revoked" /\ \A o \in Requests : Rotating(o, x)' => o = p
  <2>1. Rotating(p, x) /\ token[x].state = "revoked" /\ \A o \in Requests : Rotating(o, x) => o = p
    BY <1>2, <1>6 DEF TokenInv
  <2>2. x # t
    BY <2>1
  <2> QED BY <1>1, <1>2, <2>1, <2>2
<1> QED BY <1>4, <1>5, <1>6 DEF TokenInv

AccountFrozen == UNCHANGED <<status, password, invite, reset, issued, uses, voided, epoch>>

LEMMA GrantStep ==
  ASSUME Setting, AInv, NEW q \in Requests, NEW t \in Tokens,
         Acc!EstablishSession(q, t) \/ Acc!Rotate(q, t)
  PROVE  AInv'
<1> DEFINE r == Acc!NewToken(q)
<1>1. /\ AccountFrozen /\ swept' = swept /\ Acc!Move(q, Acc!Idle)
      /\ accountReq[q].pc \in {"grant", "rotate"}
      /\ token[t].state = "unused" /\ token' = [token EXCEPT ![t] = r]
  BY DEF Acc!EstablishSession, Acc!Rotate, AccountFrozen, Acc!row, Acc!history
<1>2. accountReq[q] \in Acc!Slots /\ SlotOK(accountReq[q]) /\ epoch \in Nat /\ swept \in Nat
  BY DEF AInv, Acc!TypeOK
<1>3. /\ r \in Acc!TokenRows /\ r.state = "live" /\ r.parent = accountReq[q].token
      /\ r.epoch = accountReq[q].epoch
      /\ r.late = (accountReq[q].epoch < swept)
  BY <1>2 DEF Acc!NewToken, Acc!Row, Acc!TokenRows, Acc!Slots
<1>4. r.parent = NoToken \/ Rotating(q, r.parent)
  BY <1>1, <1>2, <1>3 DEF SlotOK, Rotating
<1> HIDE DEF r
<1>5. OtherCalls(q) /\ accountReq'[q] = Acc!Idle /\ Acc!Idle.pc = "idle" /\ accountReq' \in [Requests -> Acc!Slots]
  BY <1>1, CallUpdate, Constants DEF AInv
<1>6. token' \in [Tokens -> Acc!TokenRows]
  BY <1>1, <1>3 DEF AInv, Acc!TypeOK
<1>7. Acc!TypeOK'
  BY <1>1, <1>5, <1>6 DEF AInv, Acc!TypeOK, AccountFrozen
<1>8. \A p \in Requests : SlotOK(accountReq[p])'
  <2>1. \A x \in Tokens : token[x].state # "unused" => token'[x].state # "unused"
    BY <1>1, <1>3 DEF AInv, Acc!TypeOK
  <2>2. SlotOK(accountReq[q])'
    <3>1. accountReq'[q].pc = "idle" /\ accountReq'[q].link = 0 /\ issued' \in Nat
      BY <1>1, <1>5, Constants DEF AInv, Acc!TypeOK, AccountFrozen
    <3> QED BY <3>1 DEF SlotOK
  <2> QED BY <1>1, <1>5, <2>1, <2>2, SlotsKept DEF AccountFrozen, AInv, Acc!TypeOK
<1>9. TokenInv'
  BY <1>1, <1>3, <1>4, <1>5, GrantTokens DEF AInv
<1>10. LinkInv'
  BY <1>1 DEF AInv, LinkInv, Acc!LinksVoided, AccountFrozen
<1>11. SweepInv'
  <2>1. Pends => Pends'
    BY <1>1, <1>5, PendsKept
  <2>2. r.late \/ r.epoch >= swept
    <3>1. CASE accountReq[q].epoch < swept
      BY <1>3, <3>1
    <3>2. CASE accountReq[q].epoch >= swept
      BY <1>3, <3>2
    <3> QED BY <1>2, <3>1, <3>2 DEF Acc!Slots
  <2>3. \A x \in Tokens : token'[x].state = "live" => token'[x].late \/ token'[x].epoch >= swept
    BY <1>1, <2>2 DEF AInv, Acc!TypeOK, SweepInv
  <2> QED BY <1>1, <2>1, <2>3 DEF AInv, SweepInv, AccountFrozen
<1> QED BY <1>7, <1>8, <1>9, <1>10, <1>11 DEF AInv

\* A step of q that revokes the tokens of S, all live ones if it is the revocation.
LEMMA RevokeAInv ==
  ASSUME AInv, NEW S \in SUBSET Tokens, RevokeStep(S), AccountFrozen,
         NEW q \in Requests, OtherCalls(q), accountReq' \in [Requests -> Acc!Slots], SlotOK(accountReq[q])',
         accountReq'[q].pc = "rotate" => accountReq'[q].token \in S,
         \/ swept' = swept /\ (accountReq[q].pc \in {"revoke", "crashed"} => accountReq'[q].pc \in {"revoke", "crashed"})
         \/ swept' = epoch /\ \A t \in Tokens : token[t].state = "live" => t \in S,
         swept' \in {swept, epoch}
  PROVE  AInv'
<1>1. epoch \in Nat /\ swept \in Nat
  BY DEF AInv, Acc!TypeOK
<1>2. Acc!TypeOK'
  BY <1>1 DEF AInv, Acc!TypeOK, RevokeStep, AccountFrozen
<1>3. \A p \in Requests : SlotOK(accountReq[p])'
  <2>1. \A x \in Tokens : token[x].state # "unused" => token'[x].state # "unused"
    BY DEF RevokeStep
  <2> QED BY <2>1, SlotsKept DEF AccountFrozen, AInv, Acc!TypeOK
<1>4. TokenInv'
  BY RevokeTokens DEF AInv
<1>5. LinkInv'
  BY DEF AInv, LinkInv, Acc!LinksVoided, AccountFrozen
<1>6. SweepInv'
  <2>1. ASSUME NEW t \in Tokens, token'[t].state = "live"
        PROVE  token[t].state = "live" /\ t \notin S /\ token'[t].late = token[t].late /\ token'[t].epoch = token[t].epoch
    BY <2>1 DEF RevokeStep
  <2>2. CASE swept' = epoch /\ \A t \in Tokens : token[t].state = "live" => t \in S
    BY <1>1, <2>1, <2>2 DEF SweepInv, AccountFrozen
  <2>3. CASE swept' = swept /\ (accountReq[q].pc \in {"revoke", "crashed"} => accountReq'[q].pc \in {"revoke", "crashed"})
    <3>1. Pends => Pends'
      BY <2>3, PendsKept
    <3> QED BY <1>1, <2>1, <2>3, <3>1 DEF AInv, SweepInv, AccountFrozen
  <2> QED BY <2>2, <2>3
<1> QED BY <1>2, <1>3, <1>4, <1>5, <1>6 DEF AInv

LEMMA TokenStep ==
  ASSUME AInv, NEW q \in Requests, Acc!Claim(q) \/ Acc!RevokeUserSessions(q)
  PROVE  AInv'
<1>1. Acc!TypeOK /\ accountReq[q] \in Acc!Slots /\ SlotOK(accountReq[q]) /\ issued \in Nat
  BY DEF AInv, Acc!TypeOK
<1>2. CASE Acc!Claim(q)
  <2> DEFINE t == accountReq[q].token
             s == Acc!Slot("rotate", "none", "none", 0, 0, t, accountReq[q].epoch)
  <2>1. /\ accountReq[q].pc = "claim" /\ token[t].state = "live"
        /\ token' = [token EXCEPT ![t] = Acc!Revoked(@)]
        /\ Acc!Move(q, s) /\ AccountFrozen /\ swept' = swept
    BY <1>2 DEF Acc!Claim, AccountFrozen, Acc!row, Acc!history
  <2>2. t \in Tokens
    BY <1>1, <2>1 DEF SlotOK
  <2>3. s \in Acc!Slots /\ s.pc = "rotate" /\ s.token = t /\ s.link = 0
    BY <1>1, <2>2 DEF Acc!Slot, Acc!Slots, Acc!Points
  <2>4. RevokeStep({t})
    BY <1>1, <2>1, <2>2, RevokesOne
  <2> HIDE DEF t, s
  <2>5. OtherCalls(q) /\ accountReq'[q] = s /\ accountReq' \in [Requests -> Acc!Slots]
    BY <1>1, <2>1, <2>3, CallUpdate
  <2>6. SlotOK(accountReq[q])'
    <3>1. token'[t].state = "revoked" /\ issued' \in Nat
      BY <1>1, <2>1, <2>2, <2>4 DEF RevokeStep, AccountFrozen
    <3>2. accountReq'[q].pc = "rotate" /\ accountReq'[q].token = t /\ accountReq'[q].link = 0
      BY <2>3, <2>5
    <3> QED BY <2>2, <3>1, <3>2 DEF SlotOK
  <2> QED BY <2>1, <2>2, <2>3, <2>4, <2>5, <2>6, RevokeAInv
<1>3. CASE Acc!RevokeUserSessions(q)
  <2> DEFINE S == {t \in Tokens : token[t].state = "live"}
  <2>1. /\ token' = [t \in Tokens |-> IF token[t].state = "live" THEN Acc!Revoked(token[t]) ELSE token[t]]
        /\ Acc!Move(q, Acc!Idle) /\ AccountFrozen /\ swept' = epoch
    BY <1>3 DEF Acc!RevokeUserSessions, AccountFrozen, Acc!row, Acc!history
  <2>2. \A t \in Tokens : token[t] \in Acc!TokenRows
    BY <1>1 DEF Acc!TypeOK
  <2>3. RevokeStep(S)
    BY <2>1, <2>2, RevokedRow DEF RevokeStep
  <2>4. OtherCalls(q) /\ accountReq'[q] = Acc!Idle /\ accountReq' \in [Requests -> Acc!Slots] /\ accountReq'[q].pc = "idle" /\ accountReq'[q].link = 0
    BY <1>1, <2>1, CallUpdate, Constants
  <2>5. SlotOK(accountReq[q])'
    BY <1>1, <2>1, <2>4 DEF SlotOK, AccountFrozen
  <2> QED BY <2>1, <2>3, <2>4, <2>5, RevokeAInv
<1> QED BY <1>2, <1>3

\* signOut touches no request.
LEMMA LogoutStep == ASSUME AInv, NEW t \in Tokens, Acc!Logout(t) PROVE AInv'
<1>1. RevokeStep({t}) /\ accountReq' = accountReq /\ AccountFrozen /\ swept' = swept /\ Acc!TypeOK
  BY RevokesOne DEF Acc!Logout, AInv, AccountFrozen, Acc!row, Acc!history
<1>2. Acc!TypeOK'
  BY <1>1 DEF AInv, Acc!TypeOK, RevokeStep, AccountFrozen
<1>3. \A q \in Requests : SlotOK(accountReq[q])'
  BY <1>1 DEF AInv, SlotOK, RevokeStep, AccountFrozen
<1>4. TokenInv'
  <2>1. \A p \in Requests, x \in Tokens : Rotating(p, x)' <=> Rotating(p, x)
    BY <1>1 DEF Rotating
  <2> QED BY <1>1, <2>1 DEF AInv, TokenInv, Acc!OneSuccessor, RevokeStep
<1>5. LinkInv' /\ SweepInv'
  BY <1>1 DEF AInv, LinkInv, Acc!LinksVoided, SweepInv, Pends, RevokeStep, AccountFrozen
<1> QED BY <1>2, <1>3, <1>4, <1>5 DEF AInv

LEMMA StepAInv == ASSUME Setting, AInv, [Acc!Next]_(Acc!vars) PROVE AInv'
<1>1. ASSUME NEW q \in Requests, Loads(q) PROVE AInv'
  <2>1. PICK s \in Acc!Slots : Acc!Move(q, s) /\ SlotOK(s) /\ s.pc \notin {"rotate", "revoke", "crashed"}
    BY <1>1, LoadSlot
  <2>2. Frozen /\ accountReq[q].pc = "idle"
    BY <1>1, LoadSlot
  <2> QED BY <2>1, <2>2, QuietAInv
<1>2. ASSUME NEW q \in Requests, Acc!ResetRefused(q) PROVE AInv'
  <2>1. Acc!Move(q, Acc!Idle) /\ Frozen /\ accountReq[q].pc = "reset"
    BY <1>2 DEF Acc!ResetRefused, Frozen, Acc!row, Acc!history
  <2>2. Acc!Idle \in Acc!Slots /\ Acc!Idle.pc = "idle" /\ SlotOK(Acc!Idle)
    BY Constants, RestOK DEF AInv
  <2> QED BY <2>1, <2>2, QuietAInv
<1>3. ASSUME NEW q \in Requests, Acc!Crash(q) PROVE AInv'
  <2>1. Acc!Move(q, Acc!Dead) /\ Frozen
    BY <1>3 DEF Acc!Crash, Frozen, Acc!row, Acc!history
  <2>2. Acc!Dead \in Acc!Slots /\ Acc!Dead.pc = "crashed" /\ SlotOK(Acc!Dead)
    BY Constants, RestOK DEF AInv
  <2> QED BY <2>1, <2>2, QuietAInv
<1>4. CASE UNCHANGED Acc!vars
  BY <1>4 DEF Acc!vars, Acc!row, Acc!history, AInv, Acc!TypeOK, SlotOK, TokenInv,
     Acc!OneSuccessor, Rotating, LinkInv, Acc!LinksVoided, SweepInv, Pends
<1>5. ASSUME NEW q \in Requests,
             Acc!Sessions(q) \/ Acc!Passwords(q) \/ Acc!Administration(q) \/ Acc!Crash(q)
      PROVE  AInv'
  BY <1>1, <1>2, <1>3, <1>5, AccountStep, GrantStep, TokenStep DEF Acc!Sessions, Acc!Passwords,
     Acc!Administration, Loads
<1> QED BY <1>4, <1>5, LogoutStep DEF Acc!Next

\* What brings a deleted account back.
LEMMA Revived ==
  ASSUME AInv, [Acc!Next]_(Acc!vars), status = "Deleted", status' # "Deleted"
  PROVE  \E q \in Requests : accountReq[q].seen \notin {"none", "Deleted"} /\ accountReq'[q] # accountReq[q]
<1>1. ASSUME NEW q \in Requests,
             \/ Acc!Sessions(q) \/ Acc!Passwords(q) \/ Acc!Administration(q) \/ Acc!Crash(q)
      PROVE  Acc!Activate(q) \/ Acc!SaveStatus(q) \/ Acc!SaveGrant(q)
  <2>1. CASE Acc!Sessions(q) \/ Acc!Crash(q)
    BY <2>1 DEF Acc!Sessions, Acc!Login, Acc!Claim, Acc!ClaimReused, Acc!RevokeUserSessions,
       Acc!EstablishSession, Acc!LoadToken, Acc!Rotate, Acc!Crash, Acc!row
  <2>2. CASE Acc!Passwords(q)
    BY <2>2 DEF Acc!Passwords, Acc!LoadInvite, Acc!LoadChange, Acc!SavePassword,
       Acc!LoadForgotten, Acc!RequestPasswordReset, Acc!LoadReset, Acc!ResetPassword,
       Acc!ResetRefused, Acc!row
  <2>3. CASE Acc!Administration(q)
    BY <2>3 DEF Acc!Administration, Acc!LoadResend, Acc!ResendActivation, Acc!LoadUser,
       Acc!LoadGrant, Acc!LoadDelete, Acc!SoftDelete, Acc!Changed, Acc!row
  <2> QED BY <1>1, <2>1, <2>2, <2>3
<1>2. ASSUME NEW q \in Requests, Acc!Activate(q) \/ Acc!SaveStatus(q) \/ Acc!SaveGrant(q)
      PROVE  accountReq[q].seen \notin {"none", "Deleted"} /\ accountReq'[q] # accountReq[q]
  <2>1. Acc!TypeOK /\ SlotOK(accountReq[q])
    BY DEF AInv
  <2>2. accountReq[q].pc \in {"activate", "status", "role"}
    BY <1>2 DEF Acc!Activate, Acc!SaveStatus, Acc!SaveGrant
  <2>3. accountReq[q].seen \notin {"none", "Deleted"}
    BY <2>1, <2>2 DEF SlotOK, Acc!Pending, Acc!Statuses
  <2>4. Acc!Move(q, Acc!Idle) \/ Acc!Move(q, Acc!Revoking)
    BY <1>2 DEF Acc!Activate, Acc!SaveStatus, Acc!SaveGrant, Acc!Condemn
  <2>5. accountReq'[q].pc \in {"idle", "revoke"}
    BY <2>1, <2>4, CallUpdate, Constants
  <2> QED BY <2>2, <2>3, <2>5
<1>3. ASSUME NEW t \in Tokens, Acc!Logout(t) PROVE FALSE
  BY <1>3 DEF Acc!Logout, Acc!row
<1>4. ~UNCHANGED Acc!vars
  BY DEF Acc!vars, Acc!row
<1>5. \E q \in Requests : Acc!Sessions(q) \/ Acc!Passwords(q) \/ Acc!Administration(q) \/ Acc!Crash(q)
  BY <1>3, <1>4 DEF Acc!Next
<1> QED BY <1>1, <1>2, <1>5

\* A behaviour of the administration is one of the account: the others leave it alone.
LEMMA AccountsWithin == AdministrationSpec => Acc!Spec
<1>1. AdministrationInit => Acc!Init
  BY DEF AdministrationInit
<1>2. [AdministrationNext]_administration => [Acc!Next]_(Acc!vars)
  BY DEF AdministrationNext, administration, account, Acc!vars, Acc!row, Acc!history
<1> QED BY <1>1, <1>2, PTL DEF AdministrationSpec, Acc!Spec

\* AInv holds throughout, and the types with it.
LEMMA AccountsInvariant == AdministrationSpec => []AInv
<1>1. Setting
  BY AdministrationAssumption DEF Setting
<1> QED BY <1>1, InitAInv, StepAInv, AccountsWithin, PTL DEF Acc!Spec

\* A refresh token is given one successor, a reset link sets one password, and a link
\* that was voided does not come back (the claims of refresh and resetPassword).
THEOREM AccountsSpendOnce == AdministrationSpec => []CredentialsSpent
<1>1. AInv => CredentialsSpent
  <2>1. LinkInv /\ Acc!TypeOK => Acc!ResetLinkOnce /\ Acc!LinksVoided
    BY DEF LinkInv, Acc!ResetLinkOnce
  <2> QED BY <2>1 DEF AInv, TokenInv, CredentialsSpent, Acc!CredentialsSpent
<1> QED BY <1>1, AccountsInvariant, PTL

\* Sessions signed in before an event that ends sessions are gone once it is through
\* with them, and only a request that had read the account earlier revives it.
THEOREM AccountsStayShut == AdministrationSpec => ShutStaysShut
<1>1. AInv => Acc!CondemnedSessionsEnd
  <2>1. SUFFICES ASSUME AInv, NEW t \in Tokens, token[t].state = "live", token[t].epoch < epoch
                 PROVE  token[t].late \/ Pends
    BY DEF Acc!CondemnedSessionsEnd, Pends
  <2>2. epoch \in Nat /\ swept \in Nat /\ token[t].epoch \in Nat
    BY <2>1 DEF AInv, Acc!TypeOK, Acc!TokenRows
  <2>3. (swept = epoch \/ Pends) /\ (token[t].late \/ token[t].epoch >= swept)
    BY <2>1 DEF AInv, SweepInv
  <2>4. CASE token[t].epoch >= swept
    BY <2>1, <2>2, <2>3, <2>4
  <2> QED BY <2>3, <2>4
<1>2. AInv /\ [Acc!Next]_(Acc!vars) =>
        [status = "Deleted" /\ status' # "Deleted" =>
           \E q \in Requests :
             accountReq[q].seen \notin {"none", "Deleted"} /\ accountReq'[q] # accountReq[q]]_(Acc!vars)
  BY Revived
<1> QED BY <1>1, <1>2, AccountsInvariant, AccountsWithin, PTL
       DEF Acc!Spec, ShutStaysShut, Acc!ShutStaysShut, Acc!DeletedStays
=============================================================================
