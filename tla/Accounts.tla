------------------------------ MODULE Accounts ------------------------------
(***************************************************************************)
(* One account and its sessions: sign-in, rotation of refresh tokens,      *)
(* activation, change and reset of the password (iam/auth.service.ts), and *)
(* what administrators do to the account (users/user.service.ts).          *)
(* Accounts share no row, so one stands for all.                           *)
(*                                                                         *)
(* Whatever must end the sessions of an account (a new password, a         *)
(* suspension, a deletion, the reuse of a refresh token) is written by one *)
(* statement and the sessions are revoked by a later one.  The variable    *)
(* epoch counts these events; a session carries the epoch its sign-in saw. *)
(***************************************************************************)
EXTENDS Naturals, FiniteSets, Sequelize

CONSTANTS
  Tokens,    \* refresh tokens that may be issued
  Requests,  \* requests that may be in flight at once
  MaxLinks,  \* bound: links mailed
  MaxEpoch,  \* bound: events that must end the sessions
  NoToken

VARIABLES
  status,    \* users.status
  password,  \* whether users.password_hash is set
  invite,    \* users.activation_token: the number of a link, 0 for NULL
  reset,     \* users.reset_token: likewise
  issued,    \* links issued so far (history)
  token,     \* token[t]: a row of refresh_tokens
  uses,      \* uses[l]: how often reset link l set a password (history)
  voided,    \* the newest reset link a change, a reset or a deletion found (history)
  epoch,     \* events so far that must end the sessions (history)
  swept,     \* the epoch of the last revocation of all sessions (history)
  req        \* req[q]: the request in slot q

row == <<status, password, invite, reset, issued>>
history == <<uses, voided>>
vars == <<row, token, history, epoch, swept, req>>

Pending == "Pending Activation"

Statuses == {Pending, "Active", "Suspended", "Deleted"}

\* What a request holds: the columns it loaded, what it will write, the token
\* it presented, the epoch of the session it opens or rotates.
Slot(pc, seen, new, inv, link, t, e) ==
  [pc |-> pc, seen |-> seen, new |-> new, invite |-> inv, link |-> link, token |-> t, epoch |-> e]

Idle == Slot("idle", "none", "none", 0, 0, NoToken, 0)
Dead == Slot("crashed", "none", "none", 0, 0, NoToken, 0)
Revoking == Slot("revoke", "none", "none", 0, 0, NoToken, 0)

Move(q, r) == req' = [req EXCEPT ![q] = r]

Free(q) == req[q].pc = "idle"

Row(state, parent, e, late) == [state |-> state, parent |-> parent, epoch |-> e, late |-> late]

Unused == Row("unused", NoToken, 0, FALSE)

Revoked(r) == Row("revoked", r.parent, r.epoch, r.late)

\* The sessions have to end: the next statement of q revokes them.
Condemn(q) ==
  /\ epoch < MaxEpoch
  /\ epoch' = epoch + 1
  /\ Move(q, Revoking)

Newer(l) == IF l > voided THEN l ELSE voided

-----------------------------------------------------------------------------
\* createUser: the account waits for its owner, with or without a password.
Init ==
  /\ status = Pending
  /\ password \in BOOLEAN
  /\ invite = 1
  /\ reset = 0
  /\ issued = 1
  /\ token = [t \in Tokens |-> Unused]
  /\ uses = [l \in 1..MaxLinks |-> 0]
  /\ voided = 0
  /\ epoch = 0
  /\ swept = 0
  /\ req = [q \in Requests |-> Idle]

-----------------------------------------------------------------------------
(* Sessions. *)

\* login, up to its checks: the account is active, the password right.
Login(q) ==
  /\ Free(q) /\ status = "Active" /\ password
  /\ Move(q, Slot("grant", "none", "none", 0, 0, NoToken, epoch))
  /\ UNCHANGED <<row, token, history, epoch, swept>>

\* The token a request in "grant" or "rotate" inserts; it is late when all
\* sessions were revoked since the request read what the token is granted for.
NewToken(q) == Row("live", req[q].token, req[q].epoch, req[q].epoch < swept)

\* establishSession: RefreshToken.create.
EstablishSession(q, t) ==
  /\ req[q].pc = "grant" /\ token[t].state = "unused"
  /\ token' = [token EXCEPT ![t] = NewToken(q)]
  /\ Move(q, Idle)
  /\ UNCHANGED <<row, history, epoch, swept>>

\* refresh, up to its checks. That the token is revoked is not looked at here.
LoadToken(q, t) ==
  /\ Free(q) /\ status = "Active"
  /\ token[t].state # "unused"
  /\ Move(q, Slot("claim", "none", "none", 0, 0, t, token[t].epoch))
  /\ UNCHANGED <<row, token, history, epoch, swept>>

\* Mutant: the claim is not conditional on revoked_at being NULL.
ClaimAny(q) ==
  /\ req[q].pc = "claim"
  /\ token' = [token EXCEPT ![req[q].token] = Revoked(@)]
  /\ Move(q, Slot("rotate", "none", "none", 0, 0, req[q].token, req[q].epoch))
  /\ UNCHANGED <<row, history, epoch, swept>>

\* The presented token is live: this request revokes it, and no other.
Claim(q) ==
  /\ req[q].pc = "claim" /\ token[req[q].token].state = "live"
  /\ token' = [token EXCEPT ![req[q].token] = Revoked(@)]
  /\ Move(q, Slot("rotate", "none", "none", 0, 0, req[q].token, req[q].epoch))
  /\ UNCHANGED <<row, history, epoch, swept>>

\* It was rotated or revoked before: all sessions of the account have to end.
ClaimReused(q) ==
  /\ req[q].pc = "claim" /\ token[req[q].token].state = "revoked"
  /\ Condemn(q)
  /\ UNCHANGED <<row, token, history, swept>>

\* The successor of the claimed token.
Rotate(q, t) ==
  /\ req[q].pc = "rotate" /\ token[t].state = "unused"
  /\ token' = [token EXCEPT ![t] = NewToken(q)]
  /\ Move(q, Idle)
  /\ UNCHANGED <<row, history, epoch, swept>>

Logout(t) ==
  /\ token[t].state = "live"
  /\ token' = [token EXCEPT ![t] = Revoked(@)]
  /\ UNCHANGED <<row, history, epoch, swept, req>>

\* revokeUserSessions.
RevokeUserSessions(q) ==
  /\ req[q].pc = "revoke"
  /\ token' = [t \in Tokens |-> IF token[t].state = "live" THEN Revoked(token[t]) ELSE token[t]]
  /\ swept' = epoch
  /\ Move(q, Idle)
  /\ UNCHANGED <<row, history, epoch>>

-----------------------------------------------------------------------------
(* Links and passwords. *)

LoadInvite(q) ==
  /\ Free(q) /\ invite # 0 /\ status = Pending
  /\ Move(q, Slot("activate", status, "Active", invite, 0, NoToken, 0))
  /\ UNCHANGED <<row, token, history, epoch, swept>>

\* activate saves whatever became of the account since it was loaded.
Activate(q) ==
  /\ req[q].pc = "activate"
  /\ status' = "Active" /\ password' = TRUE /\ invite' = 0
  /\ Move(q, Idle)
  /\ UNCHANGED <<reset, issued, token, history, epoch, swept>>

\* changePassword of a signed-in user, up to its checks.
LoadChange(q) ==
  /\ Free(q) /\ status = "Active" /\ password
  /\ Move(q, Slot("change", "none", "none", 0, reset, NoToken, 0))
  /\ UNCHANGED <<row, token, history, epoch, swept>>

SavePassword(q) ==
  /\ req[q].pc = "change"
  /\ password' = TRUE /\ reset' = Changed(reset, req[q].link, 0)
  /\ voided' = Newer(req[q].link)
  /\ Condemn(q)
  /\ UNCHANGED <<status, invite, issued, token, uses, swept>>

\* requestPasswordReset finds the account, and saves a link over an older one.
LoadForgotten(q) ==
  /\ Free(q) /\ status = "Active"
  /\ Move(q, Slot("forgot", "none", "none", 0, 0, NoToken, 0))
  /\ UNCHANGED <<row, token, history, epoch, swept>>

RequestPasswordReset(q) ==
  /\ req[q].pc = "forgot" /\ issued < MaxLinks
  /\ issued' = issued + 1 /\ reset' = issued + 1
  /\ Move(q, Idle)
  /\ UNCHANGED <<status, password, invite, token, history, epoch, swept>>

LoadReset(q) ==
  /\ Free(q) /\ reset # 0 /\ status = "Active"
  /\ Move(q, Slot("reset", "none", "none", 0, reset, NoToken, 0))
  /\ UNCHANGED <<row, token, history, epoch, swept>>

\* resetPassword, its conditional update.
ResetPassword(q) ==
  /\ req[q].pc = "reset" /\ reset = req[q].link
  /\ password' = TRUE /\ reset' = 0
  /\ uses' = [uses EXCEPT ![req[q].link] = @ + 1]
  /\ voided' = Newer(req[q].link)
  /\ Condemn(q)
  /\ UNCHANGED <<status, invite, issued, token, swept>>

ResetRefused(q) ==
  /\ req[q].pc = "reset" /\ reset # req[q].link
  /\ Move(q, Idle)
  /\ UNCHANGED <<row, token, history, epoch, swept>>

-----------------------------------------------------------------------------
(* Administration. *)

LoadResend(q) ==
  /\ Free(q) /\ status = Pending
  /\ Move(q, Slot("resend", "none", "none", 0, 0, NoToken, 0))
  /\ UNCHANGED <<row, token, history, epoch, swept>>

\* resendActivation: a fresh link, for an account found to be pending.
ResendActivation(q) ==
  /\ req[q].pc = "resend" /\ issued < MaxLinks
  /\ issued' = issued + 1 /\ invite' = issued + 1
  /\ Move(q, Idle)
  /\ UNCHANGED <<status, password, reset, token, history, epoch, swept>>

\* Mutant: a deleted account may be edited.
LoadUserAny(q, s) ==
  /\ Free(q)
  /\ Move(q, Slot("status", status, s, 0, 0, NoToken, 0))
  /\ UNCHANGED <<row, token, history, epoch, swept>>

\* updateUser and setUserStatus, up to their checks.
LoadUser(q, s) ==
  /\ Free(q) /\ status # "Deleted"
  /\ Move(q, Slot("status", status, s, 0, 0, NoToken, 0))
  /\ UNCHANGED <<row, token, history, epoch, swept>>

\* Their save; a password may come with it. Only a status other than Active
\* ends the sessions.
SaveStatus(q) ==
  /\ req[q].pc = "status"
  /\ status' = Changed(status, req[q].seen, req[q].new)
  /\ \/ password' = TRUE
     \/ UNCHANGED password
  /\ IF req[q].new = "Active" THEN Move(q, Idle) /\ UNCHANGED epoch ELSE Condemn(q)
  /\ UNCHANGED <<invite, reset, issued, token, history, swept>>

LoadGrant(q) ==
  /\ Free(q) /\ status # "Deleted"
  /\ Move(q, Slot("role", status, Pending, 0, 0, NoToken, 0))
  /\ UNCHANGED <<row, token, history, epoch, swept>>

\* updateUser gives a role to a member who had no access: he is invited anew.
SaveGrant(q) ==
  /\ req[q].pc = "role" /\ issued < MaxLinks
  /\ status' = Changed(status, req[q].seen, Pending)
  /\ issued' = issued + 1 /\ invite' = issued + 1
  /\ Condemn(q)
  /\ UNCHANGED <<password, reset, token, history, swept>>

LoadDelete(q) ==
  /\ Free(q)
  /\ Move(q, Slot("delete", status, "Deleted", invite, reset, NoToken, 0))
  /\ UNCHANGED <<row, token, history, epoch, swept>>

\* softDeleteUser: the row stays, its links do not.
SoftDelete(q) ==
  /\ req[q].pc = "delete"
  /\ status' = Changed(status, req[q].seen, "Deleted")
  /\ invite' = Changed(invite, req[q].invite, 0)
  /\ reset' = Changed(reset, req[q].link, 0)
  /\ voided' = Newer(req[q].link)
  /\ Condemn(q)
  /\ UNCHANGED <<password, issued, token, uses, swept>>

\* The process dies before the sessions are revoked, or between the claim of a
\* token and its successor. Dying elsewhere is never going on.
Crash(q) ==
  /\ req[q].pc \in {"revoke", "rotate"}
  /\ Move(q, Dead)
  /\ UNCHANGED <<row, token, history, epoch, swept>>

-----------------------------------------------------------------------------
Sessions(q) ==
  \/ Login(q) \/ Claim(q) \/ ClaimReused(q) \/ RevokeUserSessions(q)
  \/ \E t \in Tokens : EstablishSession(q, t) \/ LoadToken(q, t) \/ Rotate(q, t)

Passwords(q) ==
  \/ LoadInvite(q) \/ Activate(q) \/ LoadChange(q) \/ SavePassword(q)
  \/ LoadForgotten(q) \/ RequestPasswordReset(q)
  \/ LoadReset(q) \/ ResetPassword(q) \/ ResetRefused(q)

Administration(q) ==
  \/ LoadResend(q) \/ ResendActivation(q)
  \/ \E s \in Statuses \ {"Deleted"} : LoadUser(q, s)
  \/ SaveStatus(q) \/ LoadGrant(q) \/ SaveGrant(q) \/ LoadDelete(q) \/ SoftDelete(q)

Next ==
  \/ \E t \in Tokens : Logout(t)
  \/ \E q \in Requests : Sessions(q) \/ Passwords(q) \/ Administration(q) \/ Crash(q)

Spec == Init /\ [][Next]_vars

-----------------------------------------------------------------------------
Points == {"idle", "crashed", "grant", "claim", "rotate", "revoke", "activate", "change",
           "forgot", "reset", "resend", "status", "role", "delete"}

Slots == [pc : Points, seen : Statuses \cup {"none"}, new : Statuses \cup {"none"},
          invite : Nat, link : Nat, token : Tokens \cup {NoToken}, epoch : Nat]

TokenRows == [state : {"unused", "live", "revoked"}, parent : Tokens \cup {NoToken},
              epoch : Nat, late : BOOLEAN]

TypeOK ==
  /\ status \in Statuses /\ password \in BOOLEAN
  /\ invite \in Nat /\ reset \in 0..MaxLinks /\ issued \in 1..MaxLinks
  /\ token \in [Tokens -> TokenRows]
  /\ uses \in [1..MaxLinks -> Nat]
  /\ voided \in Nat /\ epoch \in Nat /\ swept \in Nat
  /\ req \in [Requests -> Slots]

\* "Only one request can flip revoked_at from NULL": however often and however
\* closely together a refresh token is presented, one successor comes of it.
OneSuccessor ==
  \A s, t \in Tokens : token[s].parent = token[t].parent /\ token[s].parent # NoToken => s = t

\* "Force every other device to re-authenticate": no session signed in before an
\* event that ends sessions is alive, unless the request that has to revoke it
\* still is to do so, died, or the session was granted by a request that
\* overlapped the revocation.
CondemnedSessionsEnd ==
  \A t \in Tokens :
    token[t].state = "live" /\ token[t].epoch < epoch =>
      \/ token[t].late
      \/ \E q \in Requests : req[q].pc \in {"revoke", "crashed"}

\* "Two concurrent submissions of the same link cannot both succeed."
ResetLinkOnce == \A l \in 1..MaxLinks : uses[l] <= 1

\* A reset link that a change, a reset or a deletion found on the account does not
\* come back, nor does an older one.
LinksVoided == reset # 0 => reset > voided

\* "A soft-deleted row is kept for history only; no edit may bring it back": what
\* brings a deleted account back had loaded it before it was deleted.
DeletedStays ==
  [][status = "Deleted" /\ status' # "Deleted" =>
       \E q \in Requests : req[q].seen \notin {"none", "Deleted"} /\ req'[q] # req[q]]_vars

\* A refresh token and a link serve once, and a link not at all once it was voided.
CredentialsSpent == OneSuccessor /\ ResetLinkOnce /\ LinksVoided

\* What was shut stays shut: condemned sessions, and deleted accounts.
ShutStaysShut == []CondemnedSessionsEnd /\ DeletedStays
=============================================================================
