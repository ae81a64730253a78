------------------------------ MODULE Accounts ------------------------------
(***************************************************************************)
(* auth-service, for one e-mail address: an account is made with its       *)
(* default organization and that organization's wallet, is verified by a   *)
(* link sent through email-service or by an OAuth provider, is taken back  *)
(* when the e-mail of its registration cannot be sent, and has sessions    *)
(* (refresh tokens).  Requests are handled concurrently; every await is a  *)
(* point where the others may step in.                                     *)
(***************************************************************************)
EXTENDS Integers, Sequences, FiniteSets

CONSTANTS Requests,     \* requests in flight
          MaxUsers,     \* bound: accounts made for the address
          MaxLinks,     \* bound: verification links
          MaxSessions,  \* bound: refresh tokens
          MaxFaults     \* bound: lost answers, failed rollbacks and crashes

ASSUME BoundAssumption == {MaxUsers, MaxLinks, MaxSessions, MaxFaults} \subseteq Nat

VARIABLES user,      \* the row of auth_users with the address
          users,     \* accounts made so far
          orgs,      \* org_organizations per account
          wallets,   \* wallet_wallets per account, of its organizations
          links,     \* verification links made so far
          mailed,    \* links that have reached the address
          tokens,    \* auth_refresh_tokens, in the order of created_at
          request,
          answered,  \* history: accounts the user has been told of
          doubtful,  \* history: accounts whose first e-mail was in doubt, or
                     \* that others took up before it was answered
          raced,     \* history: two registrations were in flight at once
          logins,    \* history: log-ins
          ended,     \* history: log-ins before the last password reset of an account
          shared,    \* history: a token was in use twice at once
          straddled, \* history: a session was being made during a reset
          faults

vars == <<user, users, orgs, wallets, links, mailed, tokens, request, answered,
          doubtful, raced, logins, ended, shared, straddled, faults>>

Users == 1 .. MaxUsers
Links == 1 .. MaxLinks

User == [uid : 0 .. MaxUsers, status : {"none", "pending", "active"}, link : 0 .. MaxLinks,
         oauth : BOOLEAN, reset : BOOLEAN]
NoUser == [uid |-> 0, status |-> "none", link |-> 0, oauth |-> FALSE, reset |-> FALSE]

Token == [uid : Users, login : Nat, revoked : BOOLEAN]

Request == [pc : {"idle", "create", "reuse", "renew", "mail", "rollback", "verify", "adopt",
                  "activate", "session", "revoke", "reissue", "password", "revokeAll"},
            uid : 0 .. MaxUsers, link : 0 .. MaxLinks, token : Nat, first : BOOLEAN,
            seen : BOOLEAN]    \* what of the row that was read matters at the write
Idle == [pc |-> "idle", uid |-> 0, link |-> 0, token |-> 0, first |-> FALSE,
         seen |-> FALSE]

TypeOK == /\ user \in User
          /\ users \in 0 .. MaxUsers
          /\ orgs \in [Users -> Nat] /\ wallets \in [Users -> Nat]
          /\ links \in 0 .. MaxLinks /\ mailed \subseteq Links
          /\ tokens \in Seq(Token)
          /\ request \in [Requests -> Request]
          /\ \A q \in Requests : request[q].token \in 0 .. Len(tokens)
          /\ answered \subseteq Users /\ doubtful \subseteq Users
          /\ logins \in Nat /\ ended \in [Users -> Nat]
          /\ {raced, shared, straddled} \subseteq BOOLEAN
          /\ faults \in Nat

account == <<user, users, orgs, wallets, links>>
post == <<mailed, answered>>
sessions == <<tokens, logins, ended, shared, straddled>>
flags == <<doubtful, raced>>

Fault == faults < MaxFaults /\ faults' = faults + 1
NoFault == UNCHANGED faults

At(q, step) == request[q].pc = step
Idles(q) == At(q, "idle")
Leave(q) == request' = [request EXCEPT ![q] = Idle]
Goto(q, step) == request' = [request EXCEPT ![q].pc = step]
Begin(q, step, uid) == request' = [request EXCEPT ![q] = [Idle EXCEPT !.pc = step, !.uid = uid]]
BeginSeeing(q, step, seen) ==
    request' = [request EXCEPT ![q] = [Idle EXCEPT !.pc = step, !.uid = user.uid, !.seen = seen]]

(* The registration that made an account is still in flight.               *)
Making(uid) == \E q \in Requests : request[q].first /\ request[q].uid = uid

(* A row that has gone is updated in vain.                                 *)
Update(uid, new) == user' = IF user.uid = uid THEN new ELSE user

-----------------------------------------------------------------------------
(* register.                                                               *)

Registering(q) == request[q].pc \in {"create", "reuse"} \/ request[q].first

(* A row that is pending is registered again, another one is refused.      *)
ReadToRegister(q) ==
    /\ Idles(q)
    /\ links < MaxLinks
    /\ user.status \in {"none", "pending"}
    /\ BeginSeeing(q, IF user.status = "none" THEN "create" ELSE "reuse", user.reset)
    /\ raced' = (raced \/ \E r \in Requests : Registering(r))
    /\ doubtful' = IF Making(user.uid) THEN doubtful \union {user.uid} ELSE doubtful
    /\ UNCHANGED <<account, post, sessions, faults>>

NewLink == links < MaxLinks /\ links' = links + 1
Mail(q, uid, first) ==
    request' = [request EXCEPT ![q] = [Idle EXCEPT !.pc = "mail", !.uid = uid,
                                                   !.link = links + 1, !.first = first]]

(* Mutant: the account is made, its organization and wallet come later.    *)
CreateBare(q) ==
    /\ At(q, "create")
    /\ users < MaxUsers /\ user.uid = 0
    /\ NewLink /\ users' = users + 1
    /\ user' = [NoUser EXCEPT !.uid = users + 1, !.status = "pending", !.link = links + 1]
    /\ Mail(q, users + 1, TRUE)
    /\ UNCHANGED <<orgs, wallets, post, sessions, flags, faults>>

(* The account, its organization and the wallet, in one transaction, which *)
(* fails when the address has been taken.                                  *)
Create(q) ==
    /\ At(q, "create")
    /\ \/ /\ user.uid # 0
          /\ Leave(q)
          /\ UNCHANGED account
       \/ /\ user.uid = 0 /\ users < MaxUsers
          /\ NewLink /\ users' = users + 1
          /\ user' = [NoUser EXCEPT !.uid = users + 1, !.status = "pending", !.link = links + 1]
          /\ orgs' = [orgs EXCEPT ![users + 1] = 1]
          /\ wallets' = [wallets EXCEPT ![users + 1] = 1]
          /\ Mail(q, users + 1, TRUE)
    /\ UNCHANGED <<post, sessions, flags, faults>>

(* The status is written only if it differs from the one that was read,    *)
(* and the reset link cleared only if one was read; it does not look       *)
(* whether the row is still there.                                         *)
Reuse(q) ==
    LET uid == request[q].uid
    IN  /\ At(q, "reuse")
        /\ NewLink
        /\ Update(uid, [user EXCEPT !.link = links + 1,
                                      !.reset = @ /\ ~ request[q].seen])
        /\ orgs' = [orgs EXCEPT ![uid] = IF @ = 0 THEN 1 ELSE @]
        /\ wallets' = [wallets EXCEPT ![uid] = IF @ = 0 THEN 1 ELSE @]
        /\ Mail(q, uid, FALSE)
        /\ UNCHANGED <<users, post, sessions, flags, faults>>

(* resendVerificationEmail.                                                *)
ReadToResend(q) ==
    /\ Idles(q)
    /\ links < MaxLinks
    /\ user.status = "pending"
    /\ Begin(q, "renew", user.uid)
    /\ doubtful' = IF Making(user.uid) THEN doubtful \union {user.uid} ELSE doubtful
    /\ UNCHANGED <<account, post, sessions, raced, faults>>

Renew(q) ==
    LET uid == request[q].uid
    IN  /\ At(q, "renew")
        /\ NewLink
        /\ Update(uid, [user EXCEPT !.link = links + 1])
        /\ Mail(q, uid, FALSE)
        /\ UNCHANGED <<users, orgs, wallets, post, sessions, flags, faults>>

(* The e-mail goes out and the request is answered; it does not go out; or *)
(* it goes out and the answer of email-service is lost or comes too late.  *)
Sent(q) == mailed' = mailed \union {request[q].link}
NotSent(q) == IF request[q].first THEN Goto(q, "rollback") ELSE Leave(q)

(* Mutant: whoever cannot send the e-mail takes the account back.          *)
SendOrRollBack(q) ==
    LET uid == request[q].uid
    IN  /\ At(q, "mail")
        /\ \/ Sent(q) /\ Leave(q) /\ answered' = answered \union {uid}
           \/ Goto(q, "rollback") /\ UNCHANGED post
        /\ UNCHANGED <<account, sessions, flags, faults>>

SendMail(q) ==
    LET uid == request[q].uid
    IN  /\ At(q, "mail")
        /\ \/ /\ Sent(q) /\ Leave(q) /\ NoFault
              /\ answered' = answered \union {uid}
              /\ UNCHANGED doubtful
           \/ NotSent(q) /\ NoFault /\ UNCHANGED <<post, doubtful>>
           \/ /\ Sent(q) /\ NotSent(q) /\ Fault
              /\ doubtful' = doubtful \union {uid}
              /\ UNCHANGED answered
        /\ UNCHANGED <<account, sessions, raced>>

(* rollbackPendingRegistration removes the account, whatever has become of *)
(* it, with its organization and wallet, in one transaction, and its       *)
(* tokens by cascade.                                                      *)
Rollback(q) ==
    LET uid == request[q].uid
    IN  /\ At(q, "rollback")
        /\ \/ /\ Update(uid, NoUser)
              /\ orgs' = [orgs EXCEPT ![uid] = 0]
              /\ wallets' = [wallets EXCEPT ![uid] = 0]
              /\ tokens' = [k \in DOMAIN tokens |->
                    IF tokens[k].uid = uid THEN [tokens[k] EXCEPT !.revoked = TRUE]
                    ELSE tokens[k]]
              /\ NoFault
           \/ UNCHANGED <<user, orgs, wallets, tokens>> /\ Fault
        /\ Leave(q)
        /\ UNCHANGED <<users, links, post, logins, ended, shared, straddled, flags>>

-----------------------------------------------------------------------------
(* verifyEmail: the link is looked up, then the row updated.               *)
ReadLink(q) ==
    /\ Idles(q)
    /\ user.link \in mailed
    /\ Begin(q, "verify", user.uid)
    /\ UNCHANGED <<account, post, sessions, flags, faults>>

Verify(q) ==
    LET uid == request[q].uid
    IN  /\ At(q, "verify")
        /\ Update(uid, [user EXCEPT !.status = "active", !.link = 0])
        /\ answered' = answered \union {uid}
        /\ Leave(q)
        /\ UNCHANGED <<users, orgs, wallets, links, mailed, sessions, flags, faults>>

(* findOrCreateOAuthUser.                                                  *)
ReadOAuth(q) ==
    /\ Idles(q)
    /\ BeginSeeing(q, IF user.oauth THEN "session" ELSE "adopt", user.status = "pending")
    /\ doubtful' = IF Making(user.uid) THEN doubtful \union {user.uid} ELSE doubtful
    /\ UNCHANGED <<account, post, sessions, raced, faults>>

AdoptOrCreate(q) ==
    LET uid == request[q].uid
    IN  /\ At(q, "adopt")
        /\ \/ /\ uid # 0
              /\ Update(uid, [user EXCEPT !.oauth = TRUE])
              /\ Goto(q, IF request[q].seen THEN "activate" ELSE "session")
              /\ UNCHANGED <<users, orgs, wallets>>
           \/ /\ uid = 0 /\ user.uid # 0
              /\ Leave(q)
              /\ UNCHANGED <<user, users, orgs, wallets>>
           \/ /\ uid = 0 /\ user.uid = 0 /\ users < MaxUsers
              /\ users' = users + 1
              /\ user' = [NoUser EXCEPT !.uid = users + 1, !.status = "active", !.oauth = TRUE]
              /\ orgs' = [orgs EXCEPT ![users + 1] = 1]
              /\ wallets' = [wallets EXCEPT ![users + 1] = 1]
              /\ Begin(q, "session", users + 1)
        /\ UNCHANGED <<links, post, sessions, flags, faults>>

(* An account that was not verified is, by the provider.                   *)
Activate(q) ==
    LET uid == request[q].uid
    IN  /\ At(q, "activate")
        /\ Update(uid, [user EXCEPT !.status = "active", !.link = 0])
        /\ Goto(q, "session")
        /\ UNCHANGED <<users, orgs, wallets, links, post, sessions, flags, faults>>

-----------------------------------------------------------------------------
(* Sessions.                                                               *)

Live == {k \in DOMAIN tokens : ~ tokens[k].revoked}

ReadToLogin(q) ==
    /\ Idles(q)
    /\ user.status = "active"
    /\ Begin(q, "session", user.uid)
    /\ UNCHANGED <<account, post, sessions, flags, faults>>

(* A token of an account that has gone is refused by its foreign key.      *)
NewSession(q) ==
    LET uid == request[q].uid
    IN  /\ At(q, "session")
        /\ IF user.uid = uid
           THEN /\ Len(tokens) < MaxSessions
                /\ tokens' = Append(tokens, [uid |-> uid, login |-> logins + 1,
                                             revoked |-> FALSE])
                /\ logins' = logins + 1
                /\ answered' = answered \union {uid}
           ELSE UNCHANGED <<tokens, logins, answered>>
        /\ Leave(q)
        /\ UNCHANGED <<account, mailed, ended, shared, straddled, flags, faults>>

Uses(k) == {q \in Requests : request[q].pc \in {"revoke", "reissue"} /\ request[q].token = k}

(* refreshAccessToken: find, revoke, create.                               *)
ReadToken(q) ==
    /\ Idles(q)
    /\ user.status = "active"
    /\ \E k \in Live :
          /\ tokens[k].uid = user.uid
          /\ request' = [request EXCEPT ![q] = [Idle EXCEPT !.pc = "revoke", !.token = k]]
          /\ shared' = (shared \/ Uses(k) # {})
    /\ UNCHANGED <<account, post, tokens, logins, ended, straddled, flags, faults>>

(* Mutant: the used token stays valid.                                     *)
RevokeNone(q) ==
    /\ At(q, "revoke")
    /\ Goto(q, "reissue")
    /\ UNCHANGED <<account, post, sessions, flags, faults>>

Revoke(q) ==
    /\ At(q, "revoke")
    /\ tokens' = [tokens EXCEPT ![request[q].token].revoked = TRUE]
    /\ Goto(q, "reissue")
    /\ UNCHANGED <<account, post, logins, ended, shared, straddled, flags, faults>>

Reissue(q) ==
    LET old == tokens[request[q].token]
    IN  /\ At(q, "reissue")
        /\ IF user.uid = old.uid
           THEN /\ Len(tokens) < MaxSessions
                /\ tokens' = Append(tokens, [old EXCEPT !.revoked = FALSE])
           ELSE UNCHANGED tokens
        /\ Leave(q)
        /\ UNCHANGED <<account, post, logins, ended, shared, straddled, flags, faults>>

(* Mutant: logging out deletes the row, which a refresh may hold.          *)
LogoutDeletes(k) ==
    /\ k \in Live
    /\ tokens' = SubSeq(tokens, 1, k - 1) \o SubSeq(tokens, k + 1, Len(tokens))
    /\ UNCHANGED <<account, post, logins, ended, shared, straddled, request, flags, faults>>

Logout(k) ==
    /\ k \in Live
    /\ tokens' = [tokens EXCEPT ![k].revoked = TRUE]
    /\ UNCHANGED <<account, post, logins, ended, shared, straddled, request, flags, faults>>

ForgotPassword ==
    /\ user.uid # 0 /\ ~ user.reset
    /\ user' = [user EXCEPT !.reset = TRUE]
    /\ UNCHANGED <<users, orgs, wallets, links, post, sessions, request, flags, faults>>

(* resetPassword: find, update, revoke every token.                        *)
ReadReset(q) ==
    /\ Idles(q)
    /\ user.reset
    /\ Begin(q, "password", user.uid)
    /\ UNCHANGED <<account, post, sessions, flags, faults>>

ChangePassword(q) ==
    LET uid == request[q].uid
    IN  /\ At(q, "password")
        /\ Update(uid, [user EXCEPT !.reset = FALSE])
        /\ Goto(q, "revokeAll")
        /\ UNCHANGED <<users, orgs, wallets, links, post, sessions, flags, faults>>

Ended(q) ==
    /\ ended' = [ended EXCEPT ![request[q].uid] = logins]
    /\ straddled' = (straddled \/ \E r \in Requests \ {q} :
                        request[r].pc \in {"session", "revoke", "reissue"})
    /\ Leave(q)
    /\ UNCHANGED <<account, post, logins, shared, flags, faults>>

(* Mutant: only the latest session is ended.                               *)
RevokeLatest(q) ==
    /\ At(q, "revokeAll")
    /\ tokens' = [k \in DOMAIN tokens |->
          IF k = Len(tokens) THEN [tokens[k] EXCEPT !.revoked = TRUE] ELSE tokens[k]]
    /\ Ended(q)

RevokeAll(q) ==
    /\ At(q, "revokeAll")
    /\ tokens' = [k \in DOMAIN tokens |->
          IF tokens[k].uid = request[q].uid THEN [tokens[k] EXCEPT !.revoked = TRUE]
          ELSE tokens[k]]
    /\ Ended(q)

-----------------------------------------------------------------------------
Crash ==
    /\ \E q \in Requests : ~ Idles(q)
    /\ Fault
    /\ request' = [q \in Requests |-> Idle]
    /\ UNCHANGED <<account, post, sessions, flags>>

Init == /\ user = NoUser
        /\ users = 0 /\ links = 0
        /\ orgs = [u \in Users |-> 0] /\ wallets = [u \in Users |-> 0]
        /\ mailed = {} /\ answered = {} /\ doubtful = {}
        /\ tokens = <<>>
        /\ request = [q \in Requests |-> Idle]
        /\ logins = 0 /\ ended = [u \in Users |-> 0]
        /\ raced = FALSE /\ shared = FALSE /\ straddled = FALSE
        /\ faults = 0

Handle(q) == \/ ReadToRegister(q) \/ Create(q) \/ Reuse(q) \/ ReadToResend(q) \/ Renew(q)
             \/ SendMail(q) \/ Rollback(q) \/ ReadLink(q) \/ Verify(q)
             \/ ReadOAuth(q) \/ AdoptOrCreate(q) \/ Activate(q)
             \/ ReadToLogin(q) \/ NewSession(q) \/ ReadToken(q) \/ Revoke(q) \/ Reissue(q)
             \/ ReadReset(q) \/ ChangePassword(q) \/ RevokeAll(q)

Next == \/ \E q \in Requests : Handle(q)
        \/ \E k \in DOMAIN tokens : Logout(k)
        \/ ForgotPassword
        \/ Crash

Spec == Init /\ [][Next]_vars

-----------------------------------------------------------------------------
(* Properties.                                                             *)

(* An account has its organization and the wallet of it, both once,        *)
(* wherever a registration dies; and no organization is left of an account *)
(* that has gone, as long as registrations of the address do not overlap:  *)
(* one that takes an account up while its maker rolls back leaves them.    *)
AccountIsWhole ==
    \A u \in Users :
        /\ orgs[u] = wallets[u]
        /\ u = user.uid => orgs[u] = 1
        /\ ~ raced /\ u # user.uid => orgs[u] = 0

(* An account the user has been told of, by the answer to a registration,  *)
(* a link that worked or a session, is never taken back, unless others     *)
(* took it up before the e-mail of its registration was answered, or that  *)
(* answer was lost.                                                        *)
AnsweredAccountStays == answered \ doubtful \subseteq {user.uid}

(* A log-in is one session: refreshing it replaces its token, also when    *)
(* the process dies in between, as long as the token is not used twice at  *)
(* once.                                                                   *)
OneTokenPerLogin ==
    ~ shared => \A j, k \in Live : tokens[j].login = tokens[k].login => j = k

(* When a password reset has ended, no log-in from before it has a valid   *)
(* token, unless a session was being made or refreshed meanwhile.          *)
ResetEndsSessions ==
    ~ straddled => \A k \in Live : tokens[k].login > ended[tokens[k].uid]
=============================================================================
