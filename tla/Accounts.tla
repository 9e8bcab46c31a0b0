------------------------------ MODULE Accounts ------------------------------
(***************************************************************************)
(* Users, workspaces, memberships, invitations and refresh sessions: the   *)
(* handlers of auth/router.ts and organizations/router.ts, the status      *)
(* changes of the platform administrators and the retention worker, over   *)
(* the outbox that carries the tokens to their recipients.                 *)
(*                                                                         *)
(* A handler that reads in one transaction and writes in another, or whose *)
(* rows a concurrent statement does not see yet, is a request in flight    *)
(* between its two steps; every other handler is one step.  The workspace  *)
(* a user creates by registering has the user's name.  The token that a    *)
(* message carries has the message's number.                               *)
(***************************************************************************)
EXTENDS EmailOutbox, SequencesExt

CONSTANTS
    Users,           \* registered or able to register; each is a recipient
    PlatformAdmins,  \* users with platform_role ADMIN
    InvitationRoles, \* what an invitation or a role change may grant
    FreeMembers, ProMembers,  \* maxMembers of the plans
    InitialPlans,    \* plans of the workspaces that exist at first
    MaxCalls, MaxTokens, MaxInFlight  \* bounds

ASSUME AccountsAssumption ==
    /\ Users \subseteq Recipients /\ PlatformAdmins \subseteq Users
    /\ InvitationRoles \subseteq {"ADMIN", "VIEWER"} /\ InvitationRoles # {}
    /\ FreeMembers \in Nat \ {0} /\ ProMembers \in Nat /\ FreeMembers <= ProMembers
    /\ InitialPlans \subseteq {"FREE", "PRO"} /\ InitialPlans # {}
    /\ {MaxCalls, MaxTokens, MaxInFlight} \subseteq Nat
\* The bounds leave room for the tokens and messages that exist at first.
ASSUME RoomAssumption == Cardinality(Users) <= MaxTokens /\ Cardinality(Users) <= MaxMails

VARIABLES
    users,     \* users: status, and whether the row was anonymized
    orgs,      \* organizations: status
    member,    \* organization_memberships: role, by workspace and user
    inv,       \* organization_invitations, by workspace and address
    plan,      \* the plan of the workspace's subscription, as activePlan reads it
    tok,       \* refresh_tokens
    live,      \* account_tokens not consumed and not expired
    inflight,  \* requests between their two steps
    calls,     \* how many requests, expiries and failed deliveries there were
    raced,     \* history: a check of the owner's deletion was out of date when it was used
    late       \* history: seats taken for an invitation that had ceased to be live, by workspace

acctVars == <<users, orgs, member, inv, plan, tok, live, inflight, calls, raced, late>>
vars == <<acctVars, mailVars>>

UserStatus == {"NONE", "PENDING", "ACTIVE", "SUSPENDED", "DELETION_PENDING", "DELETED"}
Plans == {"FREE", "PRO"}
Roles == {"NONE", "OWNER"} \cup InvitationRoles
Invitation == [status : {"NONE", "LIVE", "ACCEPTED", "REVOKED", "EXPIRED"}, mail : 0..MaxMails]
\* History: ended, a statement has revoked the user's, the member's or the family's sessions;
\* survivor, inserted by a refresh that was in flight when that happened.
Token == [user : Users, org : Users, family : Nat, status : {"LIVE", "REVOKED", "EXPIRED", "ROW_DELETED"},
          ended : BOOLEAN, survivor : BOOLEAN]
Request == [op : {"session"}, user : Users, org : Users] \cup [op : {"refresh"}, token : 1..MaxTokens]
           \cup [op : {"delete", "cancelDelete"}, user : Users]
           \cup [op : {"invite"}, org : Users, email : Recipients, seen : SUBSET Recipients]
           \cup [op : {"upsert"}, org : Users, email : Recipients, checked : {"NONE"} \cup Plans]
           \cup [op : {"accept"}, org : Users, user : Users]

Members(o) == {u \in Users : member[o][u] # "NONE"}
Counted == calls < MaxCalls /\ calls' = calls + 1
Begin(r) == Cardinality(inflight) < MaxInFlight /\ r \notin inflight /\ inflight' = inflight \cup {r}
End(r) == r \in inflight /\ inflight' = inflight \ {r}

\* authenticate: an access token was issued some time, and the account is in order now.
Authenticated(u, o) ==
    /\ users[u].status = "ACTIVE" /\ orgs[o] = "ACTIVE" /\ member[o][u] # "NONE"
    /\ \E t \in DOMAIN tok : tok[t].user = u /\ tok[t].org = o

\* UPDATE refresh_tokens SET revoked_at=COALESCE(revoked_at,now()) WHERE ...: the tokens of S.
Revoked(S) ==
    [t \in DOMAIN tok |-> IF t \in S /\ tok[t].status # "ROW_DELETED"
                          THEN [tok[t] EXCEPT !.status = "REVOKED", !.ended = TRUE] ELSE tok[t]]
TokensOf(u) == {t \in DOMAIN tok : tok[t].user = u}
TokensIn(u, o) == {t \in TokensOf(u) : tok[t].org = o}

NewToken(u, o, family) ==
    [user |-> u, org |-> o, family |-> family, status |-> "LIVE", ended |-> FALSE, survivor |-> FALSE]
NextToken(old) == [NewToken(old.user, old.org, old.family) EXCEPT !.survivor = old.ended]

\* queueAccountEmail: the user's earlier tokens of this kind are consumed.
OfKind(u, template) == {m \in live : outbox[m].to = u /\ outbox[m].template = template}
QueueAccountEmailMutant(u, template) ==
    /\ Len(outbox) < MaxMails
    /\ outbox' = Queued(outbox, u, template)
    /\ sent' = Append(sent, 0)
    /\ live' = live \cup {Len(outbox) + 1}
QueueAccountEmail(u, template) ==
    /\ Len(outbox) < MaxMails
    /\ outbox' = Queued(outbox, u, template)
    /\ sent' = Append(sent, 0)
    /\ live' = (live \ OfKind(u, template)) \cup {Len(outbox) + 1}

-----------------------------------------------------------------------------
(* Registration and account tokens.                                        *)

Register(u) ==
    /\ Counted
    /\ users[u].status = "NONE"
    /\ users' = [users EXCEPT ![u].status = "PENDING"]
    /\ orgs' = [orgs EXCEPT ![u] = "ACTIVE"]
    /\ member' = [member EXCEPT ![u][u] = "OWNER"]
    /\ QueueAccountEmail(u, "VERIFY_EMAIL")
    /\ UNCHANGED <<inv, tok, inflight, raced, late, plan, mailer, suppressed, mailEvents, mailFaults>>

\* The status is set whatever it was: LiveVerifyMeansPending is why that is safe.
VerifyEmail(m) ==
    /\ Counted
    /\ m \in live /\ Received(m) /\ outbox[m].template = "VERIFY_EMAIL"
    /\ live' = live \ {m}
    /\ users' = [users EXCEPT ![outbox[m].to].status = "ACTIVE"]
    /\ UNCHANGED <<orgs, member, inv, tok, inflight, raced, late, plan, mailVars>>

ResendVerification(u) ==
    /\ Counted
    /\ users[u].status = "PENDING"
    /\ QueueAccountEmail(u, "VERIFY_EMAIL")
    /\ UNCHANGED <<users, orgs, member, inv, tok, inflight, raced, late, plan, mailer, suppressed, mailEvents, mailFaults>>

ForgotPassword(u) ==
    /\ Counted
    /\ users[u].status = "ACTIVE" /\ ~users[u].erased
    /\ QueueAccountEmail(u, "RESET_PASSWORD")
    /\ UNCHANGED <<users, orgs, member, inv, tok, inflight, raced, late, plan, mailer, suppressed, mailEvents, mailFaults>>

ResetPassword(m) ==
    /\ Counted
    /\ m \in live /\ Received(m) /\ outbox[m].template = "RESET_PASSWORD"
    /\ LET u == outbox[m].to
       IN /\ live' = {i \in live : outbox[i].to # u}
          /\ tok' = Revoked(TokensOf(u))
    /\ UNCHANGED <<users, orgs, member, inv, inflight, raced, late, plan, mailVars>>

-----------------------------------------------------------------------------
(* Sessions.                                                               *)

\* The first workspace that is active: the user's own was created first.
Login(u, o) ==
    /\ Counted
    /\ users[u].status = "ACTIVE" /\ ~users[u].erased
    /\ orgs[o] = "ACTIVE" /\ member[o][u] # "NONE"
    /\ o = u \/ ~(orgs[u] = "ACTIVE" /\ member[u][u] # "NONE")
    /\ Begin([op |-> "session", user |-> u, org |-> o])
    /\ UNCHANGED <<users, orgs, member, inv, tok, live, raced, late, plan, mailVars>>

Switch(u, o) ==
    /\ Counted
    /\ \E from \in Users \ {o} : Authenticated(u, from)
    /\ orgs[o] = "ACTIVE" /\ member[o][u] # "NONE"
    /\ Begin([op |-> "session", user |-> u, org |-> o])
    /\ UNCHANGED <<users, orgs, member, inv, tok, live, raced, late, plan, mailVars>>

SaveRefresh(r) ==
    /\ r.op = "session"
    /\ Len(tok) < MaxTokens
    /\ End(r)
    /\ tok' = Append(tok, NewToken(r.user, r.org, Len(tok) + 1))
    /\ UNCHANGED <<users, orgs, member, inv, live, calls, raced, late, plan, mailVars>>

\* SELECT ... FOR UPDATE: one request at a time has the token's row.
Unlocked(t) == [op |-> "refresh", token |-> t] \notin inflight

Refresh(t) ==
    /\ Counted
    /\ Unlocked(t)
    /\ tok[t].status = "LIVE"
    /\ users[tok[t].user].status = "ACTIVE" /\ orgs[tok[t].org] = "ACTIVE"
    /\ member[tok[t].org][tok[t].user] # "NONE"
    /\ Begin([op |-> "refresh", token |-> t])
    /\ UNCHANGED <<users, orgs, member, inv, tok, live, raced, late, plan, mailVars>>

\* The new token becomes visible when the transaction commits.  A statement that revoked
\* sessions in the meantime waited for the old row and did not see the new one.
RefreshCommitMutant(r) ==
    /\ r.op = "refresh"
    /\ Len(tok) < MaxTokens
    /\ End(r)
    /\ tok' = Append(tok, NextToken(tok[r.token]))
    /\ UNCHANGED <<users, orgs, member, inv, live, calls, raced, late, plan, mailVars>>
RefreshCommit(r) ==
    /\ r.op = "refresh"
    /\ Len(tok) < MaxTokens
    /\ End(r)
    /\ tok' = Append([tok EXCEPT ![r.token].status = "REVOKED"], NextToken(tok[r.token]))
    /\ UNCHANGED <<users, orgs, member, inv, live, calls, raced, late, plan, mailVars>>

RefreshReused(t) ==
    /\ Counted
    /\ Unlocked(t)
    /\ tok[t].status = "REVOKED"
    /\ tok' = Revoked({i \in DOMAIN tok : tok[i].family = tok[t].family})
    /\ UNCHANGED <<users, orgs, member, inv, live, inflight, raced, late, plan, mailVars>>

Logout(t) ==
    /\ Counted
    /\ tok[t].status \in {"LIVE", "EXPIRED"}
    /\ tok' = Revoked({t})
    /\ UNCHANGED <<users, orgs, member, inv, live, inflight, raced, late, plan, mailVars>>

-----------------------------------------------------------------------------
(* Deleting an account.                                                    *)

\* The checks of DELETE /me: another administrator, no other member in an owned workspace.
DeleteMe(u) ==
    /\ Counted
    /\ \E o \in Users : Authenticated(u, o)
    /\ u \in PlatformAdmins => \E p \in PlatformAdmins \ {u} : users[p].status = "ACTIVE"
    /\ \A o \in Users : member[o][u] = "OWNER" => Members(o) = {u}
    /\ Begin([op |-> "delete", user |-> u])
    /\ UNCHANGED <<users, orgs, member, inv, tok, live, raced, late, plan, mailVars>>

DeleteMeCommit(r) ==
    /\ r.op = "delete"
    /\ End(r)
    /\ users' = [users EXCEPT ![r.user].status = "DELETION_PENDING"]
    /\ tok' = Revoked(TokensOf(r.user))
    /\ raced' = (raced \/ \E o \in Users : member[o][r.user] = "OWNER" /\ Members(o) # {r.user})
    /\ UNCHANGED <<orgs, member, inv, live, calls, late, plan, mailVars>>

CancelDeletion(u) ==
    /\ Counted
    /\ users[u].status = "DELETION_PENDING"
    /\ Begin([op |-> "cancelDelete", user |-> u])
    /\ UNCHANGED <<users, orgs, member, inv, tok, live, raced, late, plan, mailVars>>

CancelDeletionCommit(r) ==
    /\ r.op = "cancelDelete"
    /\ End(r)
    /\ users' = [users EXCEPT ![r.user].status = "ACTIVE"]
    /\ UNCHANGED <<orgs, member, inv, tok, live, calls, raced, late, plan, mailVars>>

\* scheduled_deletion_at is 30 days after the request; no login, refresh or
\* acceptance lasts that long.
Overdue(u) ==
    /\ users[u].status = "DELETION_PENDING"
    /\ \A r \in inflight : /\ r.op = "session" => r.user # u
                           /\ r.op = "refresh" => tok[r.token].user # u
                           /\ r.op = "accept" => r.user # u

\* anonymizeOne.  The workspace's trading rows, its payment method and snapshots are
\* removed too; they are not part of this model.
AnonymizeMutant(u) ==
    /\ Overdue(u)
    /\ users' = [users EXCEPT ![u] = [status |-> "DELETED", erased |-> TRUE]]
    /\ tok' = [t \in DOMAIN tok |-> IF tok[t].user = u THEN [tok[t] EXCEPT !.status = "ROW_DELETED"] ELSE tok[t]]
    /\ UNCHANGED <<orgs, member, inv, live, inflight, calls, raced, late, plan, mailVars>>
Anonymize(u) ==
    /\ Overdue(u)
    /\ users' = [users EXCEPT ![u] = [status |-> "DELETED", erased |-> TRUE]]
    /\ orgs' = [o \in Users |-> IF member[o][u] = "OWNER" /\ Members(o) = {u} THEN "CLOSED" ELSE orgs[o]]
    /\ member' = [o \in Users |-> [member[o] EXCEPT ![u] = "NONE"]]
    /\ tok' = [t \in DOMAIN tok |-> IF tok[t].user = u THEN [tok[t] EXCEPT !.status = "ROW_DELETED"] ELSE tok[t]]
    /\ live' = {m \in live : outbox[m].to # u \/ outbox[m].template = "INVITE_MEMBER"}
    /\ outbox' = [m \in DOMAIN outbox |-> IF outbox[m].to = u THEN [outbox[m] EXCEPT !.status = "ROW_DELETED"]
                                          ELSE outbox[m]]
    /\ UNCHANGED <<inv, inflight, calls, raced, late, plan, mailer, suppressed, mailEvents, sent, mailFaults>>

-----------------------------------------------------------------------------
(* Members and invitations.                                                *)

Actor(o, roles) == \E u \in Users : Authenticated(u, o) /\ member[o][u] \in roles

PatchMember(o, u, role) ==
    /\ Counted
    /\ Actor(o, {"OWNER"})
    /\ member[o][u] \in InvitationRoles
    /\ member' = [member EXCEPT ![o][u] = role]
    /\ tok' = Revoked(TokensIn(u, o))
    /\ UNCHANGED <<users, orgs, inv, live, inflight, raced, late, plan, mailVars>>

RemoveMemberMutant(o, u) ==
    /\ Counted
    /\ Actor(o, {"OWNER"})
    /\ member[o][u] \in {"OWNER"} \cup InvitationRoles
    /\ member' = [member EXCEPT ![o][u] = "NONE"]
    /\ tok' = Revoked(TokensIn(u, o))
    /\ UNCHANGED <<users, orgs, inv, live, inflight, raced, late, plan, mailVars>>
RemoveMember(o, u) ==
    /\ Counted
    /\ Actor(o, {"OWNER"})
    /\ member[o][u] \in InvitationRoles
    /\ member' = [member EXCEPT ![o][u] = "NONE"]
    /\ tok' = Revoked(TokensIn(u, o))
    /\ UNCHANGED <<users, orgs, inv, live, inflight, raced, late, plan, mailVars>>

\* The addresses whose invitation a transaction that began at the time of seen takes for
\* live: now() is the time it began.
LiveInvitations(o) == {e \in Recipients : inv[o][e].status = "LIVE"}
LiveSince(o, seen) == LiveInvitations(o) \cup {e \in seen : inv[o][e].status = "EXPIRED"}

\* The address does not belong to a member.
Invite(o, e) ==
    /\ Counted
    /\ Actor(o, {"OWNER", "ADMIN"})
    /\ e \notin {u \in Members(o) : ~users[u].erased}
    /\ Begin([op |-> "invite", org |-> o, email |-> e, seen |-> LiveInvitations(o)])
    /\ UNCHANGED <<users, orgs, member, inv, tok, live, raced, late, plan, mailVars>>

Limit(p) == IF p = "PRO" THEN ProMembers ELSE FreeMembers
Seats(o) == Cardinality(Members(o)) + Cardinality(LiveInvitations(o))
enforceMemberQuota(o, seen) ==
    Cardinality(Members(o)) + Cardinality(LiveSince(o, seen)) < Limit(plan[o])

\* pg_advisory_xact_lock: one invitation of a workspace is between its check and its commit.
QuotaLockedMutant(o) == FALSE
QuotaLocked(o) == \E r \in inflight : r.op = "upsert" /\ r.org = o /\ r.checked # "NONE"

\* The renewal of a live invitation is not checked, and does not wait for the lock.
InviteChecked(r) ==
    /\ r.op = "invite"
    /\ \E checked \in {"NONE"} \cup Plans :
         /\ checked = IF r.email \in r.seen THEN "NONE" ELSE plan[r.org]
         /\ checked # "NONE" => ~QuotaLocked(r.org) /\ enforceMemberQuota(r.org, r.seen)
         /\ inflight' = (inflight \ {r})
                          \cup {[op |-> "upsert", org |-> r.org, email |-> r.email, checked |-> checked]}
    /\ UNCHANGED <<users, orgs, member, inv, tok, live, calls, raced, late, plan, mailVars>>

InviteDenied(r) ==
    /\ r.op = "invite"
    /\ End(r)
    /\ r.email \notin r.seen
    /\ ~QuotaLocked(r.org) /\ ~enforceMemberQuota(r.org, r.seen)
    /\ UNCHANGED <<users, orgs, member, inv, tok, live, calls, raced, late, plan, mailVars>>

\* SELECT ... FOR UPDATE of an acceptance: the invitation's row is not locked.
RowFree(o, e) == [op |-> "accept", org |-> o, user |-> e] \notin inflight

\* The upsert replaces the invitation's token and makes it live again.
InviteCommit(r) ==
    /\ r.op = "upsert"
    /\ End(r)
    /\ RowFree(r.org, r.email)
    /\ Len(outbox) < MaxMails
    /\ inv' = [inv EXCEPT ![r.org][r.email] = [status |-> "LIVE", mail |-> Len(outbox) + 1]]
    /\ outbox' = Queued(outbox, r.email, "INVITE_MEMBER")
    /\ sent' = Append(sent, 0)
    /\ late' = IF r.checked = "NONE" /\ inv[r.org][r.email].status # "LIVE"
               THEN [late EXCEPT ![r.org] = @ + 1] ELSE late
    /\ UNCHANGED <<users, orgs, member, tok, live, calls, raced, plan, mailer, suppressed, mailEvents, mailFaults>>

\* The invited user, signed in to any workspace, presents the latest token.
AcceptInvitation(o, u) ==
    /\ Counted
    /\ \E from \in Users : Authenticated(u, from)
    /\ inv[o][u].status = "LIVE" /\ Received(inv[o][u].mail)
    /\ ~users[u].erased
    /\ Begin([op |-> "accept", org |-> o, user |-> u])
    /\ UNCHANGED <<users, orgs, member, inv, tok, live, raced, late, plan, mailVars>>

\* The invitation may have expired since now(); a seat it no longer held is taken all the same.
AcceptCommit(r) ==
    /\ r.op = "accept"
    /\ End(r)
    /\ \E role \in InvitationRoles :
         member' = [member EXCEPT ![r.org][r.user] = IF @ = "NONE" THEN role ELSE @]
    /\ inv' = [inv EXCEPT ![r.org][r.user].status = "ACCEPTED"]
    /\ late' = IF inv[r.org][r.user].status # "LIVE" /\ member[r.org][r.user] = "NONE"
               THEN [late EXCEPT ![r.org] = @ + 1] ELSE late
    /\ raced' = (raced \/ \E p \in Users : member[r.org][p] = "OWNER" /\ users[p].status = "DELETION_PENDING")
    /\ UNCHANGED <<users, orgs, tok, live, calls, plan, mailVars>>

RevokeInvitation(o, e) ==
    /\ Counted
    /\ Actor(o, {"OWNER", "ADMIN"})
    /\ inv[o][e].status \in {"LIVE", "EXPIRED"} /\ RowFree(o, e)
    /\ inv' = [inv EXCEPT ![o][e].status = "REVOKED"]
    /\ UNCHANGED <<users, orgs, member, tok, live, inflight, raced, late, plan, mailVars>>

-----------------------------------------------------------------------------
(* Platform administrators.                                                *)

Administrator(u) == \E p \in PlatformAdmins \ {u}, o \in Users : Authenticated(p, o)

SetUserStatusMutant(u, status) ==
    /\ Counted
    /\ Administrator(u)
    /\ users[u].status \in {"ACTIVE", "SUSPENDED"}
    /\ users' = [users EXCEPT ![u].status = status]
    /\ tok' = [t \in DOMAIN tok |-> IF status = "SUSPENDED" /\ tok[t].user = u
                                    THEN [tok[t] EXCEPT !.ended = TRUE] ELSE tok[t]]
    /\ UNCHANGED <<orgs, member, inv, live, inflight, raced, late, plan, mailVars>>
SetUserStatus(u, status) ==
    /\ Counted
    /\ Administrator(u)
    /\ users[u].status \in {"ACTIVE", "SUSPENDED"}
    /\ users' = [users EXCEPT ![u].status = status]
    /\ tok' = IF status = "SUSPENDED" THEN Revoked(TokensOf(u)) ELSE tok
    /\ UNCHANGED <<orgs, member, inv, live, inflight, raced, late, plan, mailVars>>

RevokeSessions(u) ==
    /\ Counted
    /\ \E p \in PlatformAdmins, o \in Users : Authenticated(p, o)
    /\ tok' = Revoked({t \in TokensOf(u) : tok[t].status # "REVOKED"})
    /\ UNCHANGED <<users, orgs, member, inv, live, inflight, raced, late, plan, mailVars>>

\* Any workspace, a closed one too.
SetOrganizationStatus(o, status) ==
    /\ Counted
    /\ \E p \in PlatformAdmins, from \in Users : Authenticated(p, from)
    /\ orgs[o] # "NONE"
    /\ orgs' = [orgs EXCEPT ![o] = status]
    /\ tok' = IF status = "SUSPENDED" THEN Revoked({t \in DOMAIN tok : tok[t].org = o}) ELSE tok
    /\ raced' = (raced \/ orgs[o] = "CLOSED")
    /\ UNCHANGED <<users, member, inv, live, inflight, late, plan, mailVars>>

-----------------------------------------------------------------------------
(* Time.                                                                   *)

ExpireToken(t) ==
    /\ Counted
    /\ tok[t].status = "LIVE" /\ Unlocked(t)
    /\ tok' = [tok EXCEPT ![t].status = "EXPIRED"]
    /\ UNCHANGED <<users, orgs, member, inv, live, inflight, raced, late, plan, mailVars>>

ExpireAccountToken(m) ==
    /\ Counted
    /\ live' = live \ {m}
    /\ UNCHANGED <<users, orgs, member, inv, tok, inflight, raced, late, plan, mailVars>>

ExpireInvitation(o, e) ==
    /\ Counted
    /\ inv[o][e].status = "LIVE"
    /\ inv' = [inv EXCEPT ![o][e].status = "EXPIRED"]
    /\ UNCHANGED <<users, orgs, member, tok, live, inflight, raced, late, plan, mailVars>>

\* The subscription is activated, ends, or is renewed by the billing handlers.
ChangePlan(o, p) ==
    /\ Counted
    /\ orgs[o] # "NONE" /\ plan[o] # p
    /\ plan' = [plan EXCEPT ![o] = p]
    /\ UNCHANGED <<users, orgs, member, inv, tok, live, inflight, raced, late, mailVars>>

\* cleanup deletes refresh tokens that were revoked or expired 30 days ago.
CleanupToken(t) ==
    /\ Counted
    /\ tok[t].status \in {"REVOKED", "EXPIRED"} /\ Unlocked(t)
    /\ tok' = [tok EXCEPT ![t].status = "ROW_DELETED"]
    /\ UNCHANGED <<users, orgs, member, inv, live, inflight, raced, late, plan, mailVars>>

-----------------------------------------------------------------------------
\* A steady state: every user is new, waits for verification, or is signed in to the
\* workspace created at registration.
Init ==
    /\ users \in [Users -> [status : {"NONE", "PENDING", "ACTIVE"}, erased : {FALSE}]]
    /\ \E u \in PlatformAdmins : users[u].status = "ACTIVE"
    /\ orgs = [u \in Users |-> IF users[u].status = "NONE" THEN "NONE" ELSE "ACTIVE"]
    /\ member = [o \in Users |-> [u \in Users |-> IF o = u /\ orgs[o] = "ACTIVE" THEN "OWNER" ELSE "NONE"]]
    /\ inv = [o \in Users |-> [e \in Recipients |-> [status |-> "NONE", mail |-> 0]]]
    /\ plan \in [Users -> {"FREE"} \cup InitialPlans]
    /\ \A o \in Users : plan[o] \in IF orgs[o] = "NONE" THEN {"FREE"} ELSE InitialPlans
    /\ LET active == SetToSeq({u \in Users : users[u].status = "ACTIVE"})
       IN tok = [t \in DOMAIN active |-> NewToken(active[t], active[t], t)]
    /\ LET pending == SetToSeq({u \in Users : users[u].status = "PENDING"})
       IN outbox = [m \in DOMAIN pending |-> Queued(<<>>, pending[m], "VERIFY_EMAIL")[1]]
    /\ sent = [m \in DOMAIN outbox |-> 0]
    /\ live = DOMAIN outbox
    /\ inflight = {}
    /\ calls = 0
    /\ raced = FALSE
    /\ late = [o \in Users |-> 0]
    /\ MailInit

UserNext(u) ==
    \/ Register(u) \/ ResendVerification(u) \/ ForgotPassword(u)
    \/ DeleteMe(u) \/ CancelDeletion(u) \/ Anonymize(u) \/ RevokeSessions(u)
    \/ \E status \in {"ACTIVE", "SUSPENDED"} : SetUserStatus(u, status) \/ SetOrganizationStatus(u, status)
    \/ \E o \in Users : \/ Login(u, o) \/ Switch(u, o) \/ AcceptInvitation(o, u) \/ RemoveMember(o, u)
                        \/ \E role \in InvitationRoles : PatchMember(o, u, role)
    \/ \E p \in Plans : ChangePlan(u, p)

RequestNext(r) ==
    \/ SaveRefresh(r) \/ RefreshCommit(r) \/ DeleteMeCommit(r) \/ CancelDeletionCommit(r)
    \/ InviteChecked(r) \/ InviteDenied(r) \/ InviteCommit(r) \/ AcceptCommit(r)

TokenNext(t) == Refresh(t) \/ RefreshReused(t) \/ Logout(t) \/ ExpireToken(t) \/ CleanupToken(t)

MailNext ==
    \/ /\ MailerNext
       /\ IF mailFaults' = mailFaults THEN UNCHANGED calls ELSE Counted
       /\ UNCHANGED <<users, orgs, member, inv, plan, tok, live, inflight, raced, late>>
    \/ \E m \in DOMAIN outbox :
         /\ Counted
         /\ RetryDeadLetter(m) \/ CleanupMail(m) \/ \E type \in EventTypes : ProviderEvent(m, type)
         /\ UNCHANGED <<users, orgs, member, inv, plan, tok, live, inflight, raced, late>>

Next ==
    \/ \E u \in Users : UserNext(u)
    \/ \E r \in inflight : RequestNext(r)
    \/ \E t \in DOMAIN tok : TokenNext(t)
    \/ \E m \in live : VerifyEmail(m) \/ ResetPassword(m) \/ ExpireAccountToken(m)
    \/ \E o \in Users, e \in Recipients : Invite(o, e) \/ RevokeInvitation(o, e) \/ ExpireInvitation(o, e)
    \/ MailNext

Spec == Init /\ [][Next]_vars

-----------------------------------------------------------------------------
\* Every variable keeps its type; the tables keep the values their columns allow.
TypeOK ==
    /\ MailTypeOK
    /\ users \in [Users -> [status : UserStatus, erased : BOOLEAN]]
    /\ orgs \in [Users -> {"NONE", "ACTIVE", "SUSPENDED", "CLOSED"}]
    /\ member \in [Users -> [Users -> Roles]]
    /\ inv \in [Users -> [Recipients -> Invitation]]
    /\ plan \in [Users -> Plans]
    /\ tok \in Seq(Token) /\ Len(tok) <= MaxTokens
    /\ live \subseteq DOMAIN outbox
    /\ inflight \subseteq Request
    /\ calls \in 0..MaxCalls
    /\ raced \in BOOLEAN
    /\ late \in [Users -> Nat]

\* Rotation keeps a family linear: whatever refreshes, logouts and revocations overlap, at
\* most one token of a family can be used.
OneLivePerFamily ==
    \A t, i \in DOMAIN tok :
        tok[t].status = "LIVE" /\ tok[i].status = "LIVE" /\ tok[t].family = tok[i].family => t = i

\* A password reset, a suspension, a deletion request, a role change, a removal from the
\* workspace, an administrator's revocation or a detected reuse ends the sessions that exist
\* then, with everything that could be derived from them: a token of the same family is
\* usable afterwards only if a refresh in flight at that moment has inserted it, or an
\* ancestor of it, unseen.
SessionsEnd ==
    \A t, i \in DOMAIN tok :
        tok[t].status = "LIVE" /\ tok[i].ended /\ tok[i].family = tok[t].family =>
            \E s \in (i + 1)..t : tok[s].family = tok[t].family /\ tok[s].survivor

\* A usable verification token belongs to a user who waits for verification.  POST
\* /verify-email sets ACTIVE whatever the status is, so a second token left over from an
\* earlier message would lift a suspension or a deletion.
LiveVerifyMeansPending ==
    \A m \in live : outbox[m].template = "VERIFY_EMAIL" => users[outbox[m].to].status = "PENDING"

\* After anonymization nothing brings the person back: no membership, no session, no usable
\* account token, whatever requests were in flight, a cancellation of the deletion included.
ErasedStaysErased ==
    \A u \in Users : users[u].erased =>
        /\ \A o \in Users : member[o][u] = "NONE"
        /\ \A t \in DOMAIN tok : tok[t].user = u => tok[t].status = "ROW_DELETED"
        /\ \A m \in live : outbox[m].to # u

\* A workspace takes another seat only within a plan it has, or had when the invitation that
\* takes it was checked: invitations in flight are counted one after the other, and a
\* workspace that a downgrade has left above its plan cannot invite.  What is not counted is
\* what enforceMemberQuota cannot see: a seat taken by accepting an invitation that expired
\* after the transaction began, or by renewing one that was used, revoked or expired after it
\* was read.  Each of these takes one seat, and no more.
Allowing(o) == {plan[o]} \cup {r.checked : r \in {i \in inflight : i.op = "upsert" /\ i.org = o /\ i.checked # "NONE"}}
SeatsGrowWithinPlan ==
    [][\A o \in Users :
          Seats(o)' - late'[o] > Seats(o) - late[o] =>
              \E p \in Allowing(o) : Seats(o)' <= Limit(p) + late[o]]_vars

\* A workspace that is not closed keeps its owner: accounts are deleted, members removed and
\* roles changed without leaving one behind.  The exceptions are a member who joins after
\* the deletion checks, and a closed workspace an administrator opens again.
OwnerRemains ==
    ~raced =>
        \A o \in Users : orgs[o] \in {"ACTIVE", "SUSPENDED"} => \E u \in Users : member[o][u] = "OWNER"

SymmetricMailers == Permutations(Mailers)
=============================================================================
